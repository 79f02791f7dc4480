------------------------ MODULE CloseProtocolProofs ------------------------
(***************************************************************************)
(* The phased operations hand out each number once and refine the action   *)
(* table, for any number of processes, pull requests, verbs and pipelines. *)
(*                                                                         *)
(* That a plan refines the table never needs the type of what it wants,    *)
(* only that a write waits for as many numbers.  What a chain does not     *)
(* duplicate, and what it follows, does: those come second.                *)
(***************************************************************************)
EXTENDS CloseProtocol, OrderFacts, FiniteSetTheorems

----------------------------------------------------------------------------
(* What comes where in a set of numbers *)

\* Ranks run from 1 to as many as there are, in the numbers' order, and each is taken.
LEMMA RanksBiject ==
    ASSUME NEW S \in SUBSET Nat, IsFiniteSet(S)
    PROVE  /\ Cardinality(S) \in Nat
           /\ \A x \in S : RankIn(S, x) \in 1 .. Cardinality(S)
           /\ \A x, y \in S : x < y => RankIn(S, x) < RankIn(S, y)
           /\ \A k \in 1 .. Cardinality(S) : Nth(S, k) \in S /\ RankIn(S, Nth(S, k)) = k
<1> DEFINE upTo(x) == {y \in S : y <= x}
           N == Cardinality(S)
<1>1. N \in Nat
  BY FS_CardinalityType
<1>2. ASSUME NEW x \in S
      PROVE  RankIn(S, x) \in 1 .. N
  <2>1. upTo(x) \subseteq S /\ x \in upTo(x)
    OBVIOUS
  <2>2. IsFiniteSet(upTo(x)) /\ Cardinality(upTo(x)) <= N
    BY <2>1, FS_Subset
  <2>3. Cardinality(upTo(x)) \in Nat /\ Cardinality(upTo(x)) # 0
    BY <2>1, <2>2, FS_CardinalityType, FS_EmptySet
  <2> HIDE DEF N
  <2> QED BY <1>1, <2>2, <2>3 DEF RankIn
<1>3. ASSUME NEW x \in S, NEW y \in S, x < y
      PROVE  RankIn(S, x) < RankIn(S, y)
  <2>1. upTo(x) \subseteq upTo(y) /\ y \in upTo(y) /\ y \notin upTo(x) /\ upTo(y) \subseteq S
    <3>1. x \in Nat /\ y \in Nat
      OBVIOUS
    <3>2. ~(y <= x) /\ y <= y
      BY <1>3, <3>1
    <3>3. \A z \in S : z \in Nat
      OBVIOUS
    <3>4. \A z \in S : z <= x => z <= y
      BY <1>3, <3>1, <3>3
    <3> QED BY <3>2, <3>4, Zenon
  <2>2. IsFiniteSet(upTo(y))
    BY <2>1, FS_Subset
  <2>3. upTo(x) # upTo(y)
    BY <2>1
  <2>4. Cardinality(upTo(x)) <= Cardinality(upTo(y)) /\ IsFiniteSet(upTo(x))
        /\ (Cardinality(upTo(x)) = Cardinality(upTo(y)) => upTo(x) = upTo(y))
    BY <2>1, <2>2, FS_Subset, Zenon
  <2>5. Cardinality(upTo(x)) \in Nat /\ Cardinality(upTo(y)) \in Nat
    BY <2>2, <2>4, FS_CardinalityType
  <2> QED BY <2>3, <2>4, <2>5 DEF RankIn
<1>4. \A k \in 1 .. N : \E x \in S : RankIn(S, x) = k
  <2> DEFINE rank == [x \in S |-> RankIn(S, x)]
  <2>1. rank \in [S -> 1 .. N]
    BY <1>2
  <2>2. ASSUME NEW x \in S, NEW y \in S, rank[x] = rank[y]
        PROVE  x = y
    <3>1. RankIn(S, x) = RankIn(S, y) /\ RankIn(S, x) \in Nat /\ x \in Nat /\ y \in Nat
      BY <1>2, <2>2
    <3> QED BY <1>3, <3>1
  <2>3. rank \in Injection(S, 1 .. N)
    BY <2>1, <2>2 DEF Injection, IsInjective
  <2>4. IsFiniteSet(1 .. N) /\ Cardinality(1 .. N) = N
    BY <1>1, FS_Interval
  <2>5. rank \in Surjection(S, 1 .. N)
    BY <2>3, <2>4, FS_Injection
  <2> HIDE DEF N
  <2> QED BY <2>5 DEF Surjection
<1> HIDE DEF N
<1>5. \A k \in 1 .. N : Nth(S, k) \in S /\ RankIn(S, Nth(S, k)) = k
  BY <1>4 DEF Nth
<1> QED BY <1>1, <1>2, <1>3, <1>5 DEF N

\* Listing a set in order lists all of it, once, upwards.
LEMMA InOrderLists ==
    ASSUME NEW S \in SUBSET Nat, IsFiniteSet(S)
    PROVE  /\ InOrder(S) \in Seq(S) /\ Len(InOrder(S)) = Cardinality(S)
           /\ DOMAIN InOrder(S) = 1 .. Cardinality(S)
           /\ \A k, l \in DOMAIN InOrder(S) : k < l => InOrder(S)[k] < InOrder(S)[l]
           /\ \A x \in S : RankIn(S, x) \in DOMAIN InOrder(S) /\ InOrder(S)[RankIn(S, x)] = x
<1> DEFINE N == Cardinality(S)
<1>1. /\ N \in Nat
      /\ \A x \in S : RankIn(S, x) \in 1 .. N
      /\ \A x, y \in S : x < y => RankIn(S, x) < RankIn(S, y)
      /\ \A k \in 1 .. N : Nth(S, k) \in S /\ RankIn(S, Nth(S, k)) = k
  BY RanksBiject
<1>2. InOrder(S) = [k \in 1 .. N |-> Nth(S, k)]
  BY DEF InOrder
<1> HIDE DEF N
<1>3. InOrder(S) \in Seq(S) /\ Len(InOrder(S)) = N /\ DOMAIN InOrder(S) = 1 .. N
  BY <1>1, <1>2
<1>4. ASSUME NEW x \in S, NEW y \in S, RankIn(S, x) = RankIn(S, y)
      PROVE  x = y
  <2>1. x \in Nat /\ y \in Nat /\ RankIn(S, x) \in Nat
    BY <1>1
  <2> QED BY <1>1, <1>4, <2>1
<1>5. ASSUME NEW x \in S, NEW y \in S, RankIn(S, x) < RankIn(S, y)
      PROVE  x < y
  <2>1. x \in Nat /\ y \in Nat /\ RankIn(S, x) \in Nat /\ RankIn(S, y) \in Nat
    BY <1>1
  <2> QED BY <1>1, <1>5, <2>1
<1>6. ASSUME NEW k \in 1 .. N, NEW l \in 1 .. N, k < l
      PROVE  InOrder(S)[k] < InOrder(S)[l]
  <2>1. /\ Nth(S, k) \in S /\ RankIn(S, Nth(S, k)) = k
        /\ Nth(S, l) \in S /\ RankIn(S, Nth(S, l)) = l
    BY <1>1
  <2>2. Nth(S, k) < Nth(S, l)
    BY <1>5, <1>6, <2>1
  <2> QED BY <1>2, <2>2
<1>7. ASSUME NEW x \in S
      PROVE  RankIn(S, x) \in 1 .. N /\ InOrder(S)[RankIn(S, x)] = x
  BY <1>1, <1>2, <1>4
<1> QED BY <1>3, <1>6, <1>7 DEF N

----------------------------------------------------------------------------
(* The steps of a pipeline, and what stands for them *)

\* A pipeline's steps are verbs, at places that are numbers, as are the rows.
LEMMA StepsAreVerbs ==
    ASSUME pipeline \in [PRs -> Pipelines \union {NoPipeline}],
           pipeline_step \in [Pipelines -> StepLists], NEW pr \in PRs
    PROVE  /\ Steps(pr) \in Seq(Verbs)
           /\ IsFiniteSet(DOMAIN Steps(pr)) /\ DOMAIN Steps(pr) \in SUBSET Nat
           /\ \A S \in SUBSET DOMAIN Steps(pr) : IsFiniteSet(S) /\ S \in SUBSET Nat
           /\ \A S \in SUBSET Actions : IsFiniteSet(S) /\ S \in SUBSET Nat
<1>1. Steps(pr) \in Seq(Verbs)
  <2>1. pipeline[pr] # NoPipeline => pipeline_step[pipeline[pr]] \in Seq(Verbs)
    BY StepListsAssumption
  <2>2. <<>> \in Seq(Verbs)
    OBVIOUS
  <2> QED BY <2>1, <2>2 DEF Steps
<1>2. DOMAIN Steps(pr) = 1 .. Len(Steps(pr)) /\ Len(Steps(pr)) \in Nat
  BY <1>1
<1>3. IsFiniteSet(DOMAIN Steps(pr)) /\ DOMAIN Steps(pr) \in SUBSET Nat
  BY <1>2, FS_Interval
<1>4. IsFiniteSet(Actions) /\ Actions \in SUBSET Nat
  BY NumbersAssumption, FS_Interval
<1>5. \A S : S \subseteq DOMAIN Steps(pr) \/ S \subseteq Actions => IsFiniteSet(S)
  BY <1>3, <1>4, FS_Subset
<1> QED BY <1>1, <1>3, <1>4, <1>5

\* What stands for a step is a row or nothing.
LEMMA StandsIsARow ==
    ASSUME pipeline \in [PRs -> Pipelines \union {NoPipeline}],
           pipeline_step \in [Pipelines -> StepLists],
           NEW pr \in PRs, NEW i \in DOMAIN Steps(pr)
    PROVE  Stands(pr, i) \in Rows \union {NoAction}
<1> DEFINE v == Steps(pr)[i]
           k == RankIn(StepsOf(pr, v), i)
           rows == OnPR(pr, v)
<1>1. rows \subseteq Rows /\ rows \in SUBSET Actions
  BY DEF OnPR, Rows
<1>2. IsFiniteSet(rows) /\ rows \in SUBSET Nat
  BY <1>1, StepsAreVerbs
<1>3. \A j \in 1 .. Cardinality(rows) : Nth(rows, j) \in rows
  BY <1>2, RanksBiject
<1>4. StepsOf(pr, v) \in SUBSET DOMAIN Steps(pr) /\ i \in StepsOf(pr, v)
  BY DEF StepsOf
<1>5. IsFiniteSet(StepsOf(pr, v)) /\ StepsOf(pr, v) \in SUBSET Nat
  BY <1>4, StepsAreVerbs
<1>6. k \in 1 .. Cardinality(StepsOf(pr, v)) /\ Cardinality(StepsOf(pr, v)) \in Nat
  BY <1>4, <1>5, RanksBiject
<1>7. Cardinality(rows) \in Nat
  BY <1>2, FS_CardinalityType
<1> HIDE DEF k, rows, v
<1>8. k <= Cardinality(rows) => Nth(rows, k) \in rows
  BY <1>3, <1>6, <1>7
<1> QED BY <1>1, <1>8 DEF Stands, k, rows, v

\* The verbs at places of the pipeline, listed in order.
LEMMA VerbsInOrder ==
    ASSUME pipeline \in [PRs -> Pipelines \union {NoPipeline}],
           pipeline_step \in [Pipelines -> StepLists],
           NEW pr \in PRs, NEW S \in SUBSET DOMAIN Steps(pr)
    PROVE  /\ VerbsAt(pr, InOrder(S)) \in Seq(Verbs)
           /\ DOMAIN VerbsAt(pr, InOrder(S)) = DOMAIN InOrder(S)
           /\ Len(VerbsAt(pr, InOrder(S))) = Cardinality(S) /\ Cardinality(S) \in Nat
           /\ \A k \in DOMAIN InOrder(S) :
                 InOrder(S)[k] \in S /\ VerbsAt(pr, InOrder(S))[k] = Steps(pr)[InOrder(S)[k]]
<1> DEFINE at == InOrder(S)
           N == Cardinality(S)
<1>1. IsFiniteSet(S) /\ S \in SUBSET Nat /\ Steps(pr) \in Seq(Verbs)
  BY StepsAreVerbs
<1>2. at \in Seq(S) /\ Len(at) = N /\ DOMAIN at = 1 .. N
  BY <1>1, InOrderLists
<1>3. N \in Nat
  BY <1>1, FS_CardinalityType
<1> HIDE DEF at, N
<1>4. \A k \in DOMAIN at : at[k] \in S /\ Steps(pr)[at[k]] \in Verbs
  <2>1. \A i \in DOMAIN Steps(pr) : Steps(pr)[i] \in Verbs
    BY <1>1
  <2> QED BY <1>2, <2>1
<1>5. VerbsAt(pr, at) = [k \in 1 .. N |-> Steps(pr)[at[k]]]
  BY <1>2 DEF VerbsAt
<1>6. VerbsAt(pr, at) \in Seq(Verbs) /\ Len(VerbsAt(pr, at)) = N /\ DOMAIN VerbsAt(pr, at) = 1 .. N
  BY <1>2, <1>3, <1>4, <1>5
<1> QED BY <1>2, <1>3, <1>4, <1>5, <1>6 DEF at, N

\* The steps a plan wants are verbs.
LEMMA WhatIsWanted ==
    ASSUME pipeline \in [PRs -> Pipelines \union {NoPipeline}],
           pipeline_step \in [Pipelines -> StepLists], NEW pr \in PRs
    PROVE  /\ Missing(pr) \in Seq(Verbs)
           /\ InOrder(MissingAt(pr)) \in Seq(Nat)
           /\ \A a, r : StepsToStart(a, pr, r) \in Seq(Verbs)
<1> DEFINE unmet == {i \in DOMAIN Steps(pr) : Steps(pr)[i] \notin facts[pr]}
<1>1. MissingAt(pr) \in SUBSET DOMAIN Steps(pr)
  BY DEF MissingAt
<1>2. Missing(pr) \in Seq(Verbs) /\ VerbsAt(pr, InOrder(unmet)) \in Seq(Verbs)
  BY <1>1, VerbsInOrder DEF Missing
<1>3. <<>> \in Seq(Verbs)
  OBVIOUS
<1>4. IsFiniteSet(MissingAt(pr)) /\ MissingAt(pr) \in SUBSET Nat
  BY <1>1, StepsAreVerbs
<1>5. InOrder(MissingAt(pr)) \in Seq(MissingAt(pr))
  BY <1>4, InOrderLists
<1>6. InOrder(MissingAt(pr)) \in Seq(Nat)
  BY <1>4, <1>5
<1> QED BY <1>2, <1>3, <1>6 DEF StepsToStart

----------------------------------------------------------------------------
(* The inductive invariant *)

Numbers == 1 .. MaxActions

\* A plan has the fields of a plan, whatever it wants.
Fields == {"op", "action", "reason", "want", "ids"}

PlanShape ==
    /\ plan = [p \in Procs |-> plan[p]]
    /\ \A p \in Procs : Fields \subseteq DOMAIN plan[p]

\* What a plan holds: fewer numbers than were given out, and enough to make its
\* write a step of the action table.
PlanOf(p) ==
    /\ plan[p].ids \in Seq(Numbers)
    /\ Len(plan[p].ids) < next_n
    /\ plan[p].op = "add" => Len(plan[p].want) = 1
    /\ plan[p].op = "close" => /\ plan[p].action \in Actions
                               /\ plan[p].reason \in {"completed", "dropped"}

PlanHolds == \A p \in Procs : PlanOf(p)

ProtocolInv ==
    /\ next_n \in Nat \ {0}
    /\ next_n <= MaxActions + 1
    /\ PlanShape
    /\ PlanHolds
    /\ NumbersHeldOnce

----------------------------------------------------------------------------
(* Rows appear only where a plan held their number *)

\* The rows a write inserts have the numbers its plan held.
LEMMA StepsInsertTheirIds ==
    ASSUME NEW p \in Procs,
           ApplyAdd(p) \/ ApplyClose(p) \/ ApplyChain(p),
           ProtocolInv
    PROVE  Rows' \subseteq Rows \union NewSteps(plan[p].ids)
<1>1. CASE ApplyAdd(p)
  <2>1. 1 \in DOMAIN plan[p].ids
    BY <1>1 DEF ApplyAdd, Allocated, ProtocolInv, PlanHolds, PlanOf
  <2> QED BY <1>1, <2>1 DEF ApplyAdd, Add, Rows, NewSteps
<1>2. CASE ApplyClose(p)
  <2> DEFINE a == plan[p].action
  <2> DEFINE ids == plan[p].ids
  <2>1. Close(a, plan[p].reason, ids)
    BY <1>2 DEF ApplyClose
  <2>2. Waiting(ids, InSequence(ids)) \subseteq NewSteps(ids)
    BY DEF Waiting, NewSteps
  <2>3. {a} \union Chases(a) \union Dependents(a) \subseteq Rows
    BY <2>1 DEF Close, Chases, Dependents, Open, Rows, OpenStates
  <2> QED BY <2>1, <2>2, <2>3 DEF Close, Rows
<1>3. CASE ApplyChain(p)
  <2> DEFINE ids == plan[p].ids
  <2>1. PICK after : InstantiateChain(ids, after)
    BY <1>3 DEF ApplyChain
  <2>2. Waiting(ids, after) \subseteq NewSteps(ids)
    BY DEF Waiting, NewSteps
  <2> QED BY <2>1, <2>2 DEF InstantiateChain, Rows
<1> QED BY <1>1, <1>2, <1>3

\* A write leaves the process idle and the sequence alone.
LEMMA StepsFinish ==
    ASSUME NEW p \in Procs,
           ApplyAdd(p) \/ ApplyClose(p) \/ ApplyChain(p) \/ Abandon(p)
    PROVE  plan' = [plan EXCEPT ![p] = Idle] /\ next_n' = next_n
BY DEF ApplyAdd, ApplyClose, ApplyChain, Abandon, Finish

\* Going idle keeps the invariant, when the rows that appeared had the numbers
\* the plan held.
LEMMA FinishKeeps ==
    ASSUME ProtocolInv, NEW p \in Procs,
           plan' = [plan EXCEPT ![p] = Idle], next_n' = next_n,
           Rows' \subseteq Rows \union NewSteps(plan[p].ids)
    PROVE  ProtocolInv'
<1>1. plan'[p] = Idle /\ \A q \in Procs : q # p => plan'[q] = plan[q]
  BY DEF ProtocolInv, PlanShape
<1>2. Idle.ids = <<>> /\ Idle.op = "idle"
  BY DEF Idle
<1>3. PlanShape'
  <2>1. plan' = [q \in Procs |-> plan'[q]]
    BY DEF ProtocolInv, PlanShape
  <2> QED BY <1>1, <2>1 DEF ProtocolInv, PlanShape, Idle, Fields
<1>4. PlanHolds'
  <2> SUFFICES ASSUME NEW q \in Procs
               PROVE  PlanOf(q)'
    BY DEF PlanHolds
  <2>1. CASE q = p
    <3>1. plan'[q].ids = <<>> /\ plan'[q].op = "idle"
      BY <1>1, <1>2, <2>1
    <3>2. <<>> \in Seq(Numbers) /\ Len(<<>>) = 0
      OBVIOUS
    <3>3. 0 < next_n'
      BY DEF ProtocolInv
    <3>4. plan'[q].ids \in Seq(Numbers) /\ Len(plan'[q].ids) < next_n'
      BY <3>1, <3>2, <3>3, Zenon
    <3> QED BY <3>1, <3>4 DEF PlanOf
  <2>2. CASE q # p
    BY <1>1, <2>2 DEF PlanHolds, PlanOf, ProtocolInv
  <2> QED BY <2>1, <2>2
<1>5. NumbersHeldOnce'
  <2>1. \A a \in Rows' : a < next_n'
    BY DEF ProtocolInv, NumbersHeldOnce, NewSteps
  <2>2. ASSUME NEW q \in Procs, NEW i \in DOMAIN plan'[q].ids
        PROVE  /\ q # p
               /\ plan'[q].ids[i] < next_n'
               /\ plan'[q].ids[i] \notin Rows'
    <3>1. q # p /\ plan'[q] = plan[q]
      BY <1>1, <1>2, <2>2
    <3>2. plan[q].ids[i] \notin NewSteps(plan[p].ids)
      BY <2>2, <3>1 DEF ProtocolInv, NumbersHeldOnce, NewSteps
    <3> QED BY <2>2, <3>1, <3>2 DEF ProtocolInv, NumbersHeldOnce
  <2> QED BY <1>1, <2>1, <2>2 DEF ProtocolInv, NumbersHeldOnce
<1> QED BY <1>3, <1>4, <1>5 DEF ProtocolInv

----------------------------------------------------------------------------
(* The other steps *)

\* A plan that begins holds no number yet.
LEMMA BeginKeeps ==
    ASSUME ProtocolInv, NEW p \in Procs, NEW new, Begin(p, new),
           new.ids = <<>>,
           new.op = "add" => Len(new.want) = 1,
           new.op = "close" => new.action \in Actions /\ new.reason \in {"completed", "dropped"},
           Fields \subseteq DOMAIN new
    PROVE  ProtocolInv'
<1>1. plan'[p] = new /\ \A q \in Procs : q # p => plan'[q] = plan[q]
  BY DEF ProtocolInv, PlanShape, Begin
<1>2. next_n' = next_n /\ Rows' = Rows
  BY DEF Begin, vars, Rows
<1>3. PlanShape'
  <2>1. plan' = [q \in Procs |-> plan'[q]]
    BY DEF ProtocolInv, PlanShape, Begin
  <2> QED BY <1>1, <2>1 DEF ProtocolInv, PlanShape
<1>4. PlanHolds'
  <2> SUFFICES ASSUME NEW q \in Procs
               PROVE  PlanOf(q)'
    BY DEF PlanHolds
  <2>1. CASE q = p
    <3>1. plan'[q] = new
      BY <1>1, <2>1
    <3>2. <<>> \in Seq(Numbers) /\ Len(<<>>) = 0
      OBVIOUS
    <3>3. 0 < next_n'
      BY <1>2 DEF ProtocolInv
    <3>4. plan'[q].ids \in Seq(Numbers) /\ Len(plan'[q].ids) < next_n'
      BY <3>1, <3>2, <3>3, Zenon
    <3> QED BY <3>1, <3>4 DEF PlanOf
  <2>2. CASE q # p
    BY <1>1, <1>2, <2>2 DEF PlanHolds, PlanOf, ProtocolInv
  <2> QED BY <2>1, <2>2
<1>5. NumbersHeldOnce'
  <2>1. ASSUME NEW q \in Procs, NEW i \in DOMAIN plan'[q].ids
        PROVE  q # p /\ plan'[q] = plan[q]
    BY <1>1, <2>1
  <2> QED BY <1>2, <2>1 DEF ProtocolInv, NumbersHeldOnce
<1> QED BY <1>2, <1>3, <1>4, <1>5 DEF ProtocolInv

\* Each of the three operations begins with a plan that keeps the invariant.
LEMMA PlansBegin ==
    ASSUME ProtocolInv, NEW p \in Procs
    PROVE  /\ \A v \in Verbs, pr \in PRs \union {NoPR} : PlanAdd(p, v, pr) => ProtocolInv'
           /\ \A a \in Actions, r \in {"completed", "dropped"}, pr \in PRs \union {NoPR} :
                 PlanClose(p, a, r, pr) => ProtocolInv'
           /\ \A pr \in PRs : PlanChain(p, pr) => ProtocolInv'
<1>1. ASSUME NEW v \in Verbs, NEW pr \in PRs \union {NoPR}, PlanAdd(p, v, pr)
      PROVE  ProtocolInv'
  <2> DEFINE one == <<v>>
  <2> DEFINE new == [Idle EXCEPT !.op = "add", !.pr = pr, !.want = one]
  <2>1. Begin(p, new)
    BY <1>1 DEF PlanAdd
  <2> HIDE DEF one
  <2>2. new.ids = <<>> /\ new.op = "add" /\ Len(new.want) = 1
    <3>1. Len(one) = 1
      BY DEF one
    <3> QED BY <3>1 DEF Idle
  <2>3. Fields \subseteq DOMAIN new
    BY DEF Idle, Fields
  <2> HIDE DEF new
  <2> QED BY <2>1, <2>2, <2>3, BeginKeeps
<1>2. ASSUME NEW a \in Actions, NEW r \in {"completed", "dropped"},
             NEW pr \in PRs \union {NoPR}, PlanClose(p, a, r, pr)
      PROVE  ProtocolInv'
  <2> DEFINE about == IF pr = NoPR THEN subject[a] ELSE pr
  <2> DEFINE new == [Idle EXCEPT !.op = "close", !.action = a, !.verb = verb[a],
                                 !.pr = about, !.reason = r,
                                 !.want = StepsToStart(a, about, r)]
  <2>1. Begin(p, new)
    BY <1>2 DEF PlanClose
  <2>2. new.ids = <<>> /\ new.op = "close" /\ new.action = a /\ new.reason = r
    BY DEF Idle
  <2>3. Fields \subseteq DOMAIN new
    BY DEF Idle, Fields
  <2> HIDE DEF new
  <2> QED BY <2>1, <2>2, <2>3, BeginKeeps
<1>3. ASSUME NEW pr \in PRs, PlanChain(p, pr)
      PROVE  ProtocolInv'
  <2> DEFINE new == [Idle EXCEPT !.op = "chain", !.pr = pr, !.from = pipeline[pr],
                                 !.at = InOrder(MissingAt(pr)), !.want = Missing(pr)]
  <2>1. Begin(p, new)
    BY <1>3 DEF PlanChain
  <2>2. new.ids = <<>> /\ new.op = "chain"
    BY DEF Idle
  <2>3. Fields \subseteq DOMAIN new
    BY DEF Idle, Fields
  <2> HIDE DEF new
  <2> QED BY <2>1, <2>2, <2>3, BeginKeeps
<1> QED BY <1>1, <1>2, <1>3

\* The number taken is above every row and every number held.
LEMMA AllocateKeeps ==
    ASSUME ProtocolInv, NEW p \in Procs, Allocate(p)
    PROVE  ProtocolInv'
<1> DEFINE new == [plan[p] EXCEPT !.ids = Append(@, next_n)]
<1>1. plan'[p] = new /\ \A q \in Procs : q # p => plan'[q] = plan[q]
  BY DEF ProtocolInv, PlanShape, Allocate
<1>2. next_n' = next_n + 1 /\ next_n \in Numbers /\ Rows' = Rows
  BY NumbersAssumption DEF Allocate, vars, Rows, Numbers
<1>3. /\ new.ids = Append(plan[p].ids, next_n)
      /\ new.op = plan[p].op /\ new.want = plan[p].want
      /\ new.action = plan[p].action /\ new.reason = plan[p].reason
      /\ Fields \subseteq DOMAIN new
  BY DEF ProtocolInv, PlanShape, Fields
<1>4. PlanShape'
  <2>1. plan' = [q \in Procs |-> plan'[q]]
    BY DEF ProtocolInv, PlanShape, Allocate
  <2> QED BY <1>1, <1>3, <2>1 DEF ProtocolInv, PlanShape
<1>5. PlanHolds'
  <2> SUFFICES ASSUME NEW q \in Procs
               PROVE  PlanOf(q)'
    BY DEF PlanHolds
  <2>0. PlanOf(q) /\ next_n \in Nat
    BY DEF ProtocolInv, PlanHolds
  <2>1. CASE q = p
    <3>1. Append(plan[p].ids, next_n) \in Seq(Numbers)
      BY <1>2, <2>0, <2>1 DEF PlanOf
    <3>2. Len(Append(plan[p].ids, next_n)) = Len(plan[p].ids) + 1
      BY <2>0, <2>1 DEF PlanOf
    <3>3. Len(plan[p].ids) \in Nat
      BY <2>0, <2>1 DEF PlanOf
    <3> HIDE DEF new
    <3>4. /\ plan'[q].ids \in Seq(Numbers)
          /\ Len(plan'[q].ids) < next_n'
      <4>1. plan'[q].ids = Append(plan[p].ids, next_n)
        BY <1>1, <1>3, <2>1
      <4>2. Len(plan[p].ids) < next_n
        BY <2>0, <2>1 DEF PlanOf
      <4>3. Len(plan'[q].ids) = Len(plan[p].ids) + 1
        BY <4>1, <3>2, Zenon
      <4>4. plan'[q].ids \in Seq(Numbers)
        BY <4>1, <3>1, Zenon
      <4> QED BY <1>2, <2>0, <3>3, <4>2, <4>3, <4>4
    <3>5. /\ plan'[q].op = plan[q].op /\ plan'[q].want = plan[q].want
          /\ plan'[q].action = plan[q].action /\ plan'[q].reason = plan[q].reason
      BY <1>1, <1>3, <2>1
    <3> QED BY <2>0, <3>4, <3>5 DEF PlanOf
  <2>2. CASE q # p
    <3>1. Len(plan[q].ids) \in Nat
      BY <2>0 DEF PlanOf
    <3> QED BY <1>1, <1>2, <2>0, <2>2, <3>1 DEF PlanOf
  <2> QED BY <2>1, <2>2
<1>6. NumbersHeldOnce'
  <2>1. \A a \in Rows' : a < next_n'
    BY <1>2, NumbersAssumption DEF ProtocolInv, NumbersHeldOnce, Rows
  <2>2. ASSUME NEW q \in Procs, NEW i \in DOMAIN plan'[q].ids
        PROVE  \/ i \in DOMAIN plan[q].ids /\ plan'[q].ids[i] = plan[q].ids[i]
               \/ q = p /\ i = Len(plan[p].ids) + 1 /\ plan'[q].ids[i] = next_n
    <3> HIDE DEF new
    <3>1. CASE q = p
      <4> DEFINE ids == plan[p].ids
      <4>1. ids \in Seq(Numbers)
        BY DEF ProtocolInv, PlanHolds, PlanOf
      <4>2. plan'[q].ids = Append(ids, next_n)
        BY <1>1, <1>3, <3>1
      <4>3. /\ DOMAIN ids = 1 .. Len(ids) /\ Len(ids) \in Nat
            /\ DOMAIN Append(ids, next_n) = 1 .. Len(ids) + 1
            /\ Append(ids, next_n)[Len(ids) + 1] = next_n
            /\ \A j \in DOMAIN ids : Append(ids, next_n)[j] = ids[j]
        BY <4>1
      <4> HIDE DEF ids
      <4>4. i \in DOMAIN ids \/ i = Len(ids) + 1
        BY <2>2, <4>2, <4>3
      <4> QED BY <3>1, <4>2, <4>3, <4>4 DEF ids
    <3>2. CASE q # p
      BY <1>1, <2>2, <3>2
    <3> QED BY <3>1, <3>2
  <2>3. ASSUME NEW q \in Procs, NEW i \in DOMAIN plan[q].ids
        PROVE  plan[q].ids[i] \in Numbers /\ plan[q].ids[i] < next_n
    BY <2>3 DEF ProtocolInv, PlanHolds, PlanOf, NumbersHeldOnce
  <2>4. next_n \notin Rows
    BY <1>2 DEF ProtocolInv, NumbersHeldOnce, Numbers
  <2>5. ASSUME NEW q \in Procs, NEW i \in DOMAIN plan'[q].ids
        PROVE  plan'[q].ids[i] < next_n' /\ plan'[q].ids[i] \notin Rows'
    BY <1>2, <2>2, <2>3, <2>4, <2>5 DEF ProtocolInv, NumbersHeldOnce, Numbers
  <2>6. ASSUME NEW q \in Procs, NEW i \in DOMAIN plan'[q].ids,
               NEW s \in Procs, NEW j \in DOMAIN plan'[s].ids,
               plan'[q].ids[i] = plan'[s].ids[j]
        PROVE  q = s /\ i = j
    <3>1. CASE i \in DOMAIN plan[q].ids /\ j \in DOMAIN plan[s].ids
      <4>1. plan'[q].ids[i] = plan[q].ids[i] /\ plan'[s].ids[j] = plan[s].ids[j]
        BY <2>2, <2>3, <2>6, <3>1 DEF ProtocolInv, PlanHolds, PlanOf
      <4>2. plan[q].ids[i] = plan[s].ids[j]
        BY <2>6, <4>1
      <4>3. \A k \in DOMAIN plan[s].ids :
               plan[q].ids[i] = plan[s].ids[k] => q = s /\ i = k
        BY <3>1 DEF ProtocolInv, NumbersHeldOnce
      <4> QED BY <3>1, <4>2, <4>3
    <3>2. CASE i \notin DOMAIN plan[q].ids \/ j \notin DOMAIN plan[s].ids
      BY <1>2, <2>2, <2>3, <2>6, <3>2 DEF Numbers
    <3> QED BY <3>1, <3>2
  <2> QED BY <2>1, <2>5, <2>6 DEF NumbersHeldOnce
<1> QED BY <1>2, <1>4, <1>5, <1>6, NumbersAssumption DEF ProtocolInv, Numbers

\* What moves neither a row, a plan nor the sequence keeps the invariant.
LEMMA OthersKeep ==
    ASSUME ProtocolInv, UNCHANGED <<state, next_n, plan>>
    PROVE  ProtocolInv'
BY DEF ProtocolInv, PlanShape, PlanHolds, PlanOf, NumbersHeldOnce, Rows

\* Every step keeps the invariant.
LEMMA ProtocolStep ==
    ProtocolInv /\ [ProtocolNext]_allVars => ProtocolInv'
<1> SUFFICES ASSUME ProtocolInv, [ProtocolNext]_allVars
             PROVE  ProtocolInv'
  OBVIOUS
<1>1. ASSUME NEW p \in Procs, ApplyAdd(p) \/ ApplyClose(p) \/ ApplyChain(p)
      PROVE  ProtocolInv'
  BY <1>1, StepsFinish, StepsInsertTheirIds, FinishKeeps
<1>2. ASSUME NEW p \in Procs, Abandon(p)
      PROVE  ProtocolInv'
  <2>1. Rows' = Rows
    BY <1>2 DEF Abandon, vars, Rows
  <2> QED BY <1>2, <2>1, StepsFinish, FinishKeeps
<1>3. ASSUME NEW p \in Procs, Allocate(p)
      PROVE  ProtocolInv'
  BY <1>3, AllocateKeeps
<1>4. ASSUME NEW a \in Actions,
             \/ \E v \in Verbs : SetVerb(a, v)
             \/ \E pr \in PRs : LinkPR(a, pr)
      PROVE  ProtocolInv'
  BY <1>4, OthersKeep DEF SetVerb, LinkPR, vars
<1>5. ASSUME NEW pr \in PRs,
             \/ \E f \in Facts : Observe(pr, f)
             \/ \E name \in Pipelines \union {NoPipeline} : SetPipeline(pr, name)
      PROVE  ProtocolInv'
  BY <1>5, OthersKeep DEF Observe, SetPipeline, vars
<1>6. ASSUME NEW name \in Pipelines, NEW chain \in StepLists, SetSteps(name, chain)
      PROVE  ProtocolInv'
  BY <1>6, OthersKeep DEF SetSteps, vars
<1>7. CASE UNCHANGED allVars
  BY <1>7, OthersKeep DEF allVars, vars
<1> QED BY <1>1, <1>2, <1>3, <1>4, <1>5, <1>6, <1>7, PlansBegin DEF ProtocolNext

\* The invariant holds of an empty database.
LEMMA ProtocolStart == ProtocolInit => ProtocolInv
<1> SUFFICES ASSUME ProtocolInit
             PROVE  ProtocolInv
  OBVIOUS
<1>1. Rows = {} /\ next_n = 1 /\ plan = [p \in Procs |-> Idle]
  BY DEF ProtocolInit, Init, Rows
<1>2. PlanShape
  BY <1>1 DEF PlanShape, Idle, Fields
<1>3. PlanHolds
  <2> SUFFICES ASSUME NEW q \in Procs
               PROVE  PlanOf(q)
    BY DEF PlanHolds
  <2>1. plan[q].ids = <<>> /\ plan[q].op = "idle"
    BY <1>1 DEF Idle
  <2>2. <<>> \in Seq(Numbers) /\ Len(<<>>) = 0 /\ 0 < 1
    OBVIOUS
  <2>3. plan[q].ids \in Seq(Numbers) /\ Len(plan[q].ids) < next_n
    BY <1>1, <2>1, <2>2, Zenon
  <2> QED BY <2>1, <2>3 DEF PlanOf
<1>4. NumbersHeldOnce
  BY <1>1 DEF NumbersHeldOnce, Idle
<1> QED BY <1>1, <1>2, <1>3, <1>4, NumbersAssumption DEF ProtocolInv

\* However many commands allocate, stop and write at once, no number is ever
\* held twice or written over a row (store/alloc.go:28).
THEOREM NumbersAreHeldOnce == ProtocolSpec => []NumbersHeldOnce
<1>1. ProtocolInv => NumbersHeldOnce
  BY DEF ProtocolInv
<1> QED BY <1>1, ProtocolStart, ProtocolStep, PTL DEF ProtocolSpec

----------------------------------------------------------------------------
(* Every write is one step of the action table *)

\* The numbers a plan holds are the identifiers of a chain of new rows.
LEMMA IdsAreAChain ==
    ASSUME ProtocolInv, NEW p \in Procs
    PROVE  plan[p].ids \in AG!Chains
<1> DEFINE ids == plan[p].ids
<1>1. ids \in Seq(Numbers) /\ Len(ids) \in 0 .. MaxActions
  BY NumbersAssumption DEF ProtocolInv, PlanHolds, PlanOf
<1>2. \A i \in DOMAIN ids : ids[i] \in Actions \ Rows
  BY <1>1, NumbersAssumption DEF ProtocolInv, NumbersHeldOnce, Numbers
<1>3. ids \in [1 .. Len(ids) -> Actions \ Rows]
  BY <1>1, <1>2
<1>4. \A i, j \in DOMAIN ids : ids[i] = ids[j] => i = j
  BY DEF ProtocolInv, NumbersHeldOnce
<1> QED BY <1>1, <1>3, <1>4 DEF AG!Chains, AG!Rows, Rows

\* Every write is a step of the action table.
LEMMA WritesRefine ==
    ASSUME ProtocolInv, NEW p \in Procs,
           ApplyAdd(p) \/ ApplyClose(p) \/ ApplyChain(p)
    PROVE  AG!Maintain
<1> DEFINE ids == plan[p].ids
<1>1. ids \in AG!Chains
  BY IdsAreAChain
<1>2. CASE ApplyAdd(p)
  <2>1. 1 \in DOMAIN ids
    BY <1>2 DEF ApplyAdd, Allocated, ProtocolInv, PlanHolds, PlanOf
  <2>2. ids[1] \in Actions
    BY <2>1, NumbersAssumption DEF ProtocolInv, PlanHolds, PlanOf, Numbers
  <2>3. AG!Add(ids[1])
    BY <1>2 DEF ApplyAdd, Add, AG!Add, Rows, AG!Rows
  <2> QED BY <2>2, <2>3 DEF AG!Maintain
<1>3. CASE ApplyClose(p)
  <2>1. plan[p].action \in Actions /\ plan[p].reason \in Reasons
    BY <1>3 DEF ApplyClose, ProtocolInv, PlanHolds, PlanOf, Reasons
  <2>2. AG!Close(plan[p].action, plan[p].reason, ids)
    BY <1>3 DEF ApplyClose, Close, AG!Close, Open, AG!Open, OpenStates, AG!OpenStates,
                StateForReason, AG!StateForReason, Chases, AG!Chases, Waiting, AG!Waiting,
                InSequence, AG!InSequence, NewSteps, AG!NewSteps, Dependents, AG!Dependents,
                BlockedState, AG!BlockedState, OpenBlockers, AG!OpenBlockers,
                Hiding, AG!Hiding, ChainEdges, AG!ChainEdges
  <2> QED BY <1>1, <2>1, <2>2 DEF AG!Maintain, AG!Reasons, Reasons
<1>4. CASE ApplyChain(p)
  <2> DEFINE after == [k \in DOMAIN ids |-> Blocker(p, k)]
  <2>2. InstantiateChain(ids, after) /\ after = [k \in DOMAIN ids |-> after[k]]
    BY <1>4 DEF ApplyChain
  <2> HIDE DEF after
  <2>1. after \in [DOMAIN ids -> Actions \union {NoAction}]
    <3>1. ids \in Seq(Actions)
      BY NumbersAssumption DEF ProtocolInv, PlanHolds, PlanOf, Numbers
    <3>2. \A k \in DOMAIN ids : k > 1 => ids[k - 1] \in Actions
      BY <3>1
    <3> QED BY <2>2, <3>2 DEF InstantiateChain, MayFollow, Open
  <2>3. AG!InstantiateChain(ids, after)
    BY <2>2 DEF InstantiateChain, AG!InstantiateChain, MayFollow, AG!MayFollow,
                Open, AG!Open, OpenStates, AG!OpenStates, Waiting, AG!Waiting,
                NewSteps, AG!NewSteps, ChainEdges, AG!ChainEdges
  <2> QED BY <1>1, <2>1, <2>3 DEF AG!Maintain
<1> QED BY <1>2, <1>3, <1>4

\* Every other step leaves the action table alone.
LEMMA StepsRefine ==
    ProtocolInv /\ [ProtocolNext]_allVars => [TableStep]_vars
<1> SUFFICES ASSUME ProtocolInv, [ProtocolNext]_allVars
             PROVE  UNCHANGED vars \/ AG!Maintain
  BY DEF TableStep
<1>1. ASSUME NEW p \in Procs, ApplyAdd(p) \/ ApplyClose(p) \/ ApplyChain(p)
      PROVE  AG!Maintain
  BY <1>1, WritesRefine
<1>2. ASSUME NEW p \in Procs,
             \/ \E v \in Verbs, pr \in PRs \union {NoPR} : PlanAdd(p, v, pr)
             \/ \E a \in Actions, r \in {"completed", "dropped"}, pr \in PRs \union {NoPR} :
                   PlanClose(p, a, r, pr)
             \/ \E pr \in PRs : PlanChain(p, pr)
             \/ Allocate(p)
             \/ Abandon(p)
      PROVE  UNCHANGED vars
  BY <1>2 DEF PlanAdd, PlanClose, PlanChain, Begin, Allocate, Abandon
<1>3. ASSUME NEW a \in Actions,
             \/ \E v \in Verbs : SetVerb(a, v)
             \/ \E pr \in PRs : LinkPR(a, pr)
      PROVE  UNCHANGED vars
  BY <1>3 DEF SetVerb, LinkPR
<1>4. ASSUME NEW pr \in PRs,
             \/ \E f \in Facts : Observe(pr, f)
             \/ \E name \in Pipelines \union {NoPipeline} : SetPipeline(pr, name)
      PROVE  UNCHANGED vars
  BY <1>4 DEF Observe, SetPipeline
<1>5. ASSUME NEW name \in Pipelines, NEW chain \in StepLists, SetSteps(name, chain)
      PROVE  UNCHANGED vars
  BY <1>5 DEF SetSteps
<1>6. CASE UNCHANGED allVars
  BY <1>6 DEF allVars
<1> QED BY <1>1, <1>2, <1>3, <1>4, <1>5, <1>6 DEF ProtocolNext

\* Reading, allocating and writing in separate transactions, with others in
\* between and processes stopping at any point, is to the action table the same
\* as each operation happening at once.
THEOREM PhasesRefineTheTable == ProtocolSpec => ImplementsActionGraph
<1>1. ProtocolInit => AG!Init
  BY DEF ProtocolInit, Init, AG!Init, NoDate, AG!NoDate
<1> QED BY <1>1, ProtocolStart, ProtocolStep, StepsRefine, PTL
        DEF ProtocolSpec, ImplementsActionGraph

----------------------------------------------------------------------------
(* Types, and what the plan of a chain is *)

\* The numbers of a plan were taken in order; a close that starts steps is the completing
\* of an action whose verb starts a pipeline, about a pull request; and no step of this
\* protocol raises a chase.
PlanIs(p) ==
    /\ \A i, j \in DOMAIN plan[p].ids : i < j => plan[p].ids[i] < plan[p].ids[j]
    /\ plan[p].op = "close" /\ plan[p].want # <<>> =>
          /\ plan[p].verb \in StartsPipeline /\ plan[p].reason = "completed"
          /\ plan[p].pr \in PRs
    /\ plan[p].op = "chain" => plan[p].pr \in PRs

ChainInv ==
    /\ ProtocolInv
    /\ ProtocolTypeOK
    /\ \A p \in Procs : PlanIs(p)
    /\ raised = [a \in Actions |-> NoAction]

\* A step that leaves the rows and columns alone, and changes at most one plan.
LEMMA PlanMoves ==
    ASSUME ChainInv, ProtocolInv', NEW p \in Procs, NEW new,
           UNCHANGED <<vars, columns, observed>>,
           plan' = [plan EXCEPT ![p] = new], new \in Plans,
           \A i, j \in DOMAIN new.ids : i < j => new.ids[i] < new.ids[j],
           new.op = "close" /\ new.want # <<>> =>
               new.verb \in StartsPipeline /\ new.reason = "completed" /\ new.pr \in PRs,
           new.op = "chain" => new.pr \in PRs
    PROVE  ChainInv'
<1>1. /\ plan' \in [Procs -> Plans] /\ plan'[p] = new
      /\ \A q \in Procs : q # p => plan'[q] = plan[q]
  BY DEF ChainInv, ProtocolTypeOK
<1>2. next_n' \in Nat
  BY DEF ProtocolInv
<1>3. ProtocolTypeOK'
  BY <1>1, <1>2 DEF ChainInv, ProtocolTypeOK, TypeOK, vars, columns, observed, Rows
<1>4. \A q \in Procs : PlanIs(q)'
  BY <1>1 DEF ChainInv, PlanIs
<1> QED BY <1>3, <1>4 DEF ChainInv, vars

\* What a plan is replaced by is a plan.
LEMMA IdleIsAPlan == Idle \in Plans /\ Idle.ids = <<>> /\ Idle.op = "idle"
<1>1. <<>> \in Seq(Verbs) /\ <<>> \in Seq(Actions) /\ <<>> \in Seq(Nat)
  OBVIOUS
<1> QED BY <1>1 DEF Idle, Plans

LEMMA PlansBeginTyped ==
    ASSUME ChainInv, ProtocolInv', NEW p \in Procs
    PROVE  /\ \A v \in Verbs, pr \in PRs \union {NoPR} : PlanAdd(p, v, pr) => ChainInv'
           /\ \A a \in Actions, r \in {"completed", "dropped"}, pr \in PRs \union {NoPR} :
                 PlanClose(p, a, r, pr) => ChainInv'
           /\ \A pr \in PRs : PlanChain(p, pr) => ChainInv'
<1>0. /\ pipeline \in [PRs -> Pipelines \union {NoPipeline}]
      /\ pipeline_step \in [Pipelines -> StepLists] /\ verb \in [Actions -> Verbs \union {"none"}]
      /\ subject \in [Actions -> PRs \union {NoPR}]
      /\ <<>> \in Seq(Verbs) /\ <<>> \in Seq(Actions) /\ <<>> \in Seq(Nat) /\ DOMAIN <<>> = {}
  BY DEF ChainInv, ProtocolTypeOK
<1>1. ASSUME NEW v \in Verbs, NEW pr \in PRs \union {NoPR}, PlanAdd(p, v, pr)
      PROVE  ChainInv'
  <2> DEFINE one == <<v>>
             new == [Idle EXCEPT !.op = "add", !.pr = pr, !.want = one]
  <2>1. one \in Seq(Verbs)
    OBVIOUS
  <2> HIDE DEF one
  <2>2. new \in Plans /\ new.ids = <<>> /\ new.op = "add"
    BY <1>0, <2>1 DEF Idle, Plans
  <2>3. Begin(p, new)
    BY <1>1 DEF PlanAdd, one
  <2> HIDE DEF new
  <2> QED BY <1>0, <2>2, <2>3, PlanMoves DEF Begin
<1>2. ASSUME NEW a \in Actions, NEW r \in {"completed", "dropped"},
             NEW pr \in PRs \union {NoPR}, PlanClose(p, a, r, pr)
      PROVE  ChainInv'
  <2> DEFINE about == IF pr = NoPR THEN subject[a] ELSE pr
             steps == StepsToStart(a, about, r)
             new == [Idle EXCEPT !.op = "close", !.action = a, !.verb = verb[a],
                                 !.pr = about, !.reason = r, !.want = steps]
  <2>1. about \in PRs \union {NoPR}
    BY <1>0
  <2>2. Begin(p, new)
    BY <1>2 DEF PlanClose
  <2> HIDE DEF about
  <2>3. steps \in Seq(Verbs)
    BY <1>0, <2>1, WhatIsWanted DEF StepsToStart
  <2>4. steps # <<>> => about \in PRs /\ verb[a] \in StartsPipeline /\ r = "completed"
    BY <2>1 DEF StepsToStart
  <2> HIDE DEF steps
  <2>5. new \in Plans /\ new.ids = <<>> /\ new.op = "close"
        /\ new.want = steps /\ new.verb = verb[a] /\ new.pr = about /\ new.reason = r
    <3>1. verb[a] \in Verbs \union {"none"} /\ r \in Reasons
      BY <1>0 DEF Reasons
    <3> QED BY <1>0, <2>1, <2>3, <3>1 DEF Idle, Plans
  <2> HIDE DEF new
  <2> QED BY <1>0, <2>2, <2>4, <2>5, PlanMoves DEF Begin
<1>3. ASSUME NEW pr \in PRs, PlanChain(p, pr)
      PROVE  ChainInv'
  <2> DEFINE missing == Missing(pr)
             places == InOrder(MissingAt(pr))
             new == [Idle EXCEPT !.op = "chain", !.pr = pr, !.from = pipeline[pr],
                                 !.at = places, !.want = missing]
  <2>1. missing \in Seq(Verbs) /\ places \in Seq(Nat) /\ pipeline[pr] \in Pipelines \union {NoPipeline}
    BY <1>0, WhatIsWanted
  <2>2. Begin(p, new)
    BY <1>3 DEF PlanChain
  <2> HIDE DEF missing, places
  <2>3. new \in Plans /\ new.ids = <<>> /\ new.op = "chain" /\ new.pr = pr
    BY <1>0, <2>1 DEF Idle, Plans
  <2> HIDE DEF new
  <2> QED BY <1>0, <2>2, <2>3, PlanMoves DEF Begin
<1> QED BY <1>1, <1>2, <1>3

\* The number taken is above all the plan holds.
LEMMA AllocateTyped ==
    ASSUME ChainInv, ProtocolInv', NEW p \in Procs, Allocate(p)
    PROVE  ChainInv'
<1> DEFINE ids == plan[p].ids
           more == Append(ids, next_n)
           new == [plan[p] EXCEPT !.ids = Append(@, next_n)]
<1>1. /\ UNCHANGED <<vars, columns, observed>> /\ next_n \in Actions /\ next_n \in Nat
      /\ plan \in [Procs -> Plans] /\ plan[p] \in Plans /\ PlanIs(p)
      /\ ids \in Seq(Actions)
      /\ \A i \in DOMAIN ids : ids[i] < next_n
  BY DEF Allocate, ChainInv, ProtocolTypeOK, ProtocolInv, NumbersHeldOnce, Plans
<1>2. plan' = [plan EXCEPT ![p] = new]
  BY <1>1 DEF Allocate
<1>3. /\ more \in Seq(Actions) /\ DOMAIN more = 1 .. Len(ids) + 1 /\ Len(ids) \in Nat
      /\ DOMAIN ids = 1 .. Len(ids)
      /\ \A i \in DOMAIN ids : more[i] = ids[i]
      /\ more[Len(ids) + 1] = next_n
  BY <1>1
<1> HIDE DEF more
<1>4. /\ new \in Plans /\ new.ids = more /\ new.op = plan[p].op /\ new.want = plan[p].want
      /\ new.verb = plan[p].verb /\ new.reason = plan[p].reason /\ new.pr = plan[p].pr
  BY <1>1, <1>3 DEF Plans, more
<1> HIDE DEF new
<1>5. \A i, j \in DOMAIN more : i < j => more[i] < more[j]
  <2> SUFFICES ASSUME NEW i \in DOMAIN more, NEW j \in DOMAIN more, i < j
               PROVE  more[i] < more[j]
    OBVIOUS
  <2>1. i \in DOMAIN ids
    BY <1>3
  <2>2. CASE j \in DOMAIN ids
    BY <1>1, <1>3, <2>1, <2>2 DEF PlanIs
  <2>3. CASE j \notin DOMAIN ids
    BY <1>1, <1>3, <2>1, <2>3
  <2> QED BY <2>2, <2>3
<1> QED BY <1>1, <1>2, <1>4, <1>5, PlanMoves DEF PlanIs

\* What a write makes of the columns.
LEMMA WriteIsTyped ==
    ASSUME ChainInv, NEW p \in Procs, NEW about, WriteSteps(p, about), Allocated(p),
           Rows' \subseteq Rows \union NewSteps(plan[p].ids)
    PROVE  /\ verb' \in [Actions -> Verbs \union {"none"}]
           /\ \A a \in Rows' : verb'[a] \in Verbs
           /\ subject' \in [Actions -> PRs \union {NoPR}]
           /\ \A a \in Actions : a \in NewSteps(plan[p].ids) =>
                 /\ subject'[a] = plan[p].pr
                 /\ \E i \in DOMAIN plan[p].want : verb'[a] = plan[p].want[i]
<1> DEFINE ids == plan[p].ids
           want == plan[p].want
           at(a) == CHOOSE i \in DOMAIN ids : ids[i] = a
<1>1. /\ plan[p] \in Plans /\ ids \in Seq(Actions) /\ want \in Seq(Verbs) /\ Len(ids) = Len(want)
      /\ verb \in [Actions -> Verbs \union {"none"}] /\ subject \in [Actions -> PRs \union {NoPR}]
      /\ \A a \in Rows : verb[a] \in Verbs
      /\ plan[p].pr \in PRs \union {NoPR}
  BY DEF ChainInv, ProtocolTypeOK, Allocated, Plans
<1>2. DOMAIN ids = DOMAIN want /\ \A i \in DOMAIN want : want[i] \in Verbs
  BY <1>1
<1>3. \A a : a \in NewSteps(ids) => at(a) \in DOMAIN ids
  BY DEF NewSteps
<1>4. /\ verb' = [a \in Actions |-> IF a \in NewSteps(ids) THEN want[at(a)] ELSE verb[a]]
      /\ subject' = [a \in Actions |-> IF a \in NewSteps(ids) \union about THEN plan[p].pr
                                       ELSE subject[a]]
  BY DEF WriteSteps
<1> HIDE DEF at
<1>5. \A a \in Actions : a \in NewSteps(ids) => want[at(a)] \in Verbs
  BY <1>2, <1>3
<1>6. verb' \in [Actions -> Verbs \union {"none"}]
  BY <1>1, <1>4, <1>5
<1>7. subject' \in [Actions -> PRs \union {NoPR}]
  BY <1>1, <1>4
<1>8. \A a \in Rows' : verb'[a] \in Verbs
  <2>1. Rows' \subseteq Actions
    BY DEF Rows
  <2> QED BY <1>1, <1>4, <1>5, <2>1
<1>9. \A a \in Actions : a \in NewSteps(ids) =>
         /\ subject'[a] = plan[p].pr
         /\ \E i \in DOMAIN want : verb'[a] = want[i]
  BY <1>2, <1>3, <1>4
<1> QED BY <1>6, <1>7, <1>8, <1>9

\* What a write makes of the action table.
LEMMA TableIsTyped ==
    ASSUME ChainInv, NEW p \in Procs, ApplyAdd(p) \/ ApplyClose(p) \/ ApplyChain(p)
    PROVE  TypeOK' /\ raised' = raised
<1> DEFINE ids == plan[p].ids
<1>1. TypeOK /\ plan[p] \in Plans /\ ids \in Seq(Actions)
  BY DEF ChainInv, ProtocolTypeOK, Plans
<1>2. DOMAIN ids = 1 .. Len(ids) /\ Len(ids) \in Nat /\ \A i \in DOMAIN ids : ids[i] \in Actions
  BY <1>1
<1>3. CASE ApplyAdd(p)
  BY <1>1, <1>3 DEF ApplyAdd, Add, TypeOK, OpenStates
<1>4. CASE ApplyClose(p)
  <2> DEFINE a == plan[p].action
             r == plan[p].reason
  <2>1. Close(a, r, ids) /\ r \in Reasons
    BY <1>4 DEF ApplyClose, ChainInv, ProtocolInv, PlanHolds, PlanOf, Reasons
  <2> HIDE DEF a, r
  <2>2. \A x \in Actions : BlockedState(x, Open \ {a}) \in OpenStates \union ClosedStates \union {"none"}
    BY <1>1 DEF BlockedState, TypeOK, OpenStates
  <2>3. StateForReason(r) \in ClosedStates
    BY DEF StateForReason, ClosedStates
  <2>4. state' \in [Actions -> OpenStates \union ClosedStates \union {"none"}]
    <3>1. {"ready", "blocked"} \subseteq OpenStates /\ "dropped" \in ClosedStates
      BY DEF OpenStates, ClosedStates
    <3> QED BY <1>1, <2>1, <2>2, <2>3, <3>1 DEF Close, TypeOK
  <2>5. closed_reason' \in [Actions -> Reasons \union {"none"}]
    <3>1. "obsolete" \in Reasons
      BY DEF Reasons
    <3> QED BY <1>1, <2>1, <3>1 DEF Close, TypeOK
  <2>6. hidden_behind' \in [Actions -> Actions \union {NoAction}]
    BY <1>1, <2>1 DEF Close, TypeOK
  <2>7. ChainEdges(ids, InSequence(ids)) \subseteq Actions \X Actions
    <3>1. \A i \in DOMAIN ids : i = 1 \/ i - 1 \in DOMAIN ids
      BY <1>2
    <3>2. \A i \in DOMAIN ids : InSequence(ids)[i] \in Actions \union {NoAction}
      BY <1>2, <3>1 DEF InSequence
    <3> QED BY <1>2, <3>2 DEF ChainEdges
  <2>8. blocks' \in SUBSET (Actions \X Actions) /\ UNCHANGED <<snooze_until, raised, today>>
    BY <1>1, <2>1, <2>7 DEF Close, TypeOK
  <2> QED BY <1>1, <2>4, <2>5, <2>6, <2>8 DEF TypeOK
<1>5. CASE ApplyChain(p)
  <2>1. PICK after : InstantiateChain(ids, after) /\ DOMAIN after = DOMAIN ids
    BY <1>5 DEF ApplyChain
  <2>2. \A i \in DOMAIN ids : after[i] \in Actions \union {NoAction}
    <3>1. \A i \in DOMAIN ids : i > 1 => ids[i - 1] \in Actions
      BY <1>2
    <3> QED BY <2>1, <3>1 DEF InstantiateChain, MayFollow, Open
  <2>3. ChainEdges(ids, after) \subseteq Actions \X Actions
    BY <1>2, <2>2 DEF ChainEdges
  <2>4. state' \in [Actions -> OpenStates \union ClosedStates \union {"none"}]
    BY <1>1, <2>1 DEF InstantiateChain, TypeOK, OpenStates
  <2> QED BY <1>1, <2>1, <2>3, <2>4 DEF InstantiateChain, TypeOK
<1> QED BY <1>3, <1>4, <1>5

\* A write leaves rows, columns and plans what they are declared to be.
LEMMA WritesTyped ==
    ASSUME ChainInv, ProtocolInv', NEW p \in Procs,
           ApplyAdd(p) \/ ApplyClose(p) \/ ApplyChain(p)
    PROVE  ChainInv'
<1>1. TypeOK' /\ raised' = raised
  BY TableIsTyped
<1>2. Rows' \subseteq Rows \union NewSteps(plan[p].ids)
  BY StepsInsertTheirIds DEF ChainInv
<1>3. /\ \E about : WriteSteps(p, about)
      /\ Allocated(p)
  BY DEF ApplyAdd, ApplyClose, ApplyChain
<1>4. /\ verb' \in [Actions -> Verbs \union {"none"}]
      /\ \A a \in Rows' : verb'[a] \in Verbs
      /\ subject' \in [Actions -> PRs \union {NoPR}]
  BY <1>2, <1>3, WriteIsTyped
<1>5. plan' = [plan EXCEPT ![p] = Idle] /\ UNCHANGED observed
  BY DEF ApplyAdd, ApplyClose, ApplyChain, Finish
<1>6. plan' \in [Procs -> Plans] /\ plan'[p] = Idle /\ \A q \in Procs : q # p => plan'[q] = plan[q]
  BY <1>5, IdleIsAPlan DEF ChainInv, ProtocolTypeOK
<1>7. next_n' \in Nat
  BY DEF ProtocolInv
<1>8. ProtocolTypeOK'
  BY <1>1, <1>4, <1>5, <1>6, <1>7 DEF ChainInv, ProtocolTypeOK, observed
<1>9. \A q \in Procs : PlanIs(q)'
  <2>1. DOMAIN Idle.ids = {}
    BY IdleIsAPlan
  <2> QED BY <1>6, <2>1, IdleIsAPlan DEF ChainInv, PlanIs
<1> QED BY <1>1, <1>8, <1>9 DEF ChainInv

LEMMA ChainStep ==
    ChainInv /\ [ProtocolNext]_allVars => ChainInv'
<1> SUFFICES ASSUME ChainInv, [ProtocolNext]_allVars
             PROVE  ChainInv'
  OBVIOUS
<1>0. ProtocolInv'
  BY ProtocolStep DEF ChainInv
<1>1. ASSUME NEW p \in Procs, ApplyAdd(p) \/ ApplyClose(p) \/ ApplyChain(p)
      PROVE  ChainInv'
  BY <1>0, <1>1, WritesTyped
<1>2. ASSUME NEW p \in Procs, Abandon(p)
      PROVE  ChainInv'
  <2>1. DOMAIN Idle.ids = {}
    BY IdleIsAPlan
  <2> QED BY <1>0, <1>2, <2>1, IdleIsAPlan, PlanMoves DEF Abandon, Finish
<1>3. ASSUME NEW p \in Procs, Allocate(p)
      PROVE  ChainInv'
  BY <1>0, <1>3, AllocateTyped
<1>4. ASSUME NEW a \in Actions,
             \/ \E v \in Verbs : SetVerb(a, v)
             \/ \E pr \in PRs : LinkPR(a, pr)
      PROVE  ChainInv'
  <2>1. /\ verb' \in [Actions -> Verbs \union {"none"}] /\ \A b \in Rows : verb'[b] \in Verbs
        /\ subject' \in [Actions -> PRs \union {NoPR}]
        /\ UNCHANGED <<vars, observed, next_n, plan>>
    <3>1. ASSUME NEW v \in Verbs, SetVerb(a, v)
          PROVE  <2>1!:
      BY <3>1 DEF SetVerb, ChainInv, ProtocolTypeOK
    <3>2. ASSUME NEW pr \in PRs, LinkPR(a, pr)
          PROVE  <2>1!:
      BY <3>2 DEF LinkPR, ChainInv, ProtocolTypeOK
    <3> QED BY <1>4, <3>1, <3>2
  <2> QED BY <1>0, <2>1 DEF ChainInv, ProtocolTypeOK, TypeOK, PlanIs, vars, observed, Rows
<1>5. ASSUME NEW pr \in PRs,
             \/ \E f \in Facts : Observe(pr, f)
             \/ \E name \in Pipelines \union {NoPipeline} : SetPipeline(pr, name)
      PROVE  ChainInv'
  <2>1. /\ facts' \in [PRs -> SUBSET Verbs] /\ pipeline' \in [PRs -> Pipelines \union {NoPipeline}]
        /\ UNCHANGED pipeline_step
        /\ UNCHANGED <<vars, columns, next_n, plan>>
    BY <1>5, FactsAssumption DEF Observe, SetPipeline, ChainInv, ProtocolTypeOK
  <2> QED BY <1>0, <2>1 DEF ChainInv, ProtocolTypeOK, TypeOK, PlanIs, vars, columns, Rows
<1>6. ASSUME NEW name \in Pipelines, NEW chain \in StepLists, SetSteps(name, chain)
      PROVE  ChainInv'
  BY <1>0, <1>6 DEF SetSteps, ChainInv, ProtocolTypeOK, TypeOK, PlanIs, vars, columns, Rows
<1>7. CASE UNCHANGED allVars
  BY <1>0, <1>7 DEF ChainInv, ProtocolTypeOK, TypeOK, PlanIs, allVars, vars, columns, observed, Rows
<1> QED BY <1>0, <1>1, <1>2, <1>3, <1>4, <1>5, <1>6, <1>7, PlansBeginTyped DEF ProtocolNext

LEMMA ChainStart == ProtocolInit => ChainInv
<1> SUFFICES ASSUME ProtocolInit
             PROVE  ChainInv
  OBVIOUS
<1>1. ProtocolInv
  BY ProtocolStart
<1>2. TypeOK /\ Rows = {} /\ raised = [a \in Actions |-> NoAction]
  BY LastDayAssumption DEF ProtocolInit, Init, TypeOK, Rows
<1>3. plan \in [Procs -> Plans] /\ \A p \in Procs : plan[p] = Idle
  BY IdleIsAPlan DEF ProtocolInit
<1>4. ProtocolTypeOK
  BY <1>2, <1>3 DEF ProtocolTypeOK, ProtocolInit
<1>5. \A p \in Procs : PlanIs(p)
  BY <1>3, IdleIsAPlan DEF PlanIs
<1> QED BY <1>1, <1>2, <1>4, <1>5 DEF ChainInv

LEMMA ChainInvHolds == ProtocolSpec => []ChainInv
BY ChainStart, ChainStep, PTL DEF ProtocolSpec

\* Types: whatever is planned, allocated, written and given up, the rows have verbs of the
\* vocabulary and the plans are of steps of it.
THEOREM ProtocolTypeCorrect == ProtocolSpec => []ProtocolTypeOK
<1>1. ChainInv => ProtocolTypeOK
  BY DEF ChainInv
<1> QED BY <1>1, ChainInvHolds, PTL

----------------------------------------------------------------------------
(* What a write may do *)

\* Only the three writes change a state.
LEMMA OnlyWritesMove ==
    ProtocolNext => UNCHANGED state \/ \E p \in Procs : ApplyAdd(p) \/ ApplyClose(p) \/ ApplyChain(p)
BY DEF ProtocolNext, PlanAdd, PlanClose, PlanChain, Begin, Allocate, Abandon, SetVerb, LinkPR,
       Observe, SetPipeline, SetSteps, vars

\* The numbers that go to missing steps with the verb v.
NumbersFor(ids, pr, v) == {ids[k] : k \in {l \in DOMAIN ids : Missing(pr)[l] = v}}

\* Of the steps with one verb, those are missing that are more than the rows with it; and a
\* number for each missing step is that many numbers for the steps with the verb.
LEMMA MissingOfAVerb ==
    ASSUME pipeline \in [PRs -> Pipelines \union {NoPipeline}],
           pipeline_step \in [Pipelines -> StepLists],
           NEW pr \in PRs, NEW i0 \in MissingAt(pr), NEW ids,
           DOMAIN ids = DOMAIN Missing(pr),
           \A k \in DOMAIN ids : ids[k] \in Actions,
           \A k, l \in DOMAIN ids : ids[k] = ids[l] => k = l,
           NEW v, v = Steps(pr)[i0]
    PROVE  /\ IsFiniteSet(NumbersFor(ids, pr, v)) /\ IsFiniteSet(OnPR(pr, v))
           /\ Cardinality(StepsOf(pr, v)) = Cardinality(OnPR(pr, v)) + Cardinality(NumbersFor(ids, pr, v))
<1> DEFINE steps == StepsOf(pr, v)
           rows  == OnPR(pr, v)
           gone  == MissingAt(pr)
           at    == InOrder(gone)
           K     == {l \in DOMAIN ids : Missing(pr)[l] = v}
           new   == {ids[k] : k \in K}
           c     == Cardinality(rows)
           n     == Cardinality(steps)
<1>1. /\ steps \in SUBSET DOMAIN Steps(pr) /\ gone \in SUBSET DOMAIN Steps(pr)
      /\ rows \in SUBSET Actions /\ new \in SUBSET Actions /\ rows \subseteq Rows
  BY DEF StepsOf, MissingAt, OnPR, Rows
<1>2. /\ IsFiniteSet(steps) /\ steps \in SUBSET Nat /\ IsFiniteSet(gone) /\ gone \in SUBSET Nat
      /\ IsFiniteSet(rows) /\ rows \in SUBSET Nat /\ IsFiniteSet(new)
  BY <1>1, StepsAreVerbs
<1>3. c \in Nat /\ n \in Nat
  BY <1>2, FS_CardinalityType
<1>4. /\ \A x \in steps : RankIn(steps, x) \in 1 .. n
      /\ \A r \in 1 .. n : Nth(steps, r) \in steps /\ RankIn(steps, Nth(steps, r)) = r
      /\ \A x, y \in steps : RankIn(steps, x) = RankIn(steps, y) => x = y
  <2>1. /\ \A x \in steps : RankIn(steps, x) \in 1 .. n
        /\ \A x, y \in steps : x < y => RankIn(steps, x) < RankIn(steps, y)
        /\ \A r \in 1 .. n : Nth(steps, r) \in steps /\ RankIn(steps, Nth(steps, r)) = r
    BY <1>2, RanksBiject
  <2>2. ASSUME NEW x \in steps, NEW y \in steps, RankIn(steps, x) = RankIn(steps, y)
        PROVE  x = y
    <3>1. x \in Nat /\ y \in Nat /\ RankIn(steps, x) \in Nat
      BY <1>2, <2>1
    <3> QED BY <2>1, <2>2, <3>1
  <2> QED BY <2>1, <2>2
<1>5. \A r \in 1 .. c : Nth(rows, r) \in rows
  BY <1>2, RanksBiject
<1>6. v \notin facts[pr] /\ i0 \in steps
  BY DEF MissingAt, StepsOf
<1>7. /\ DOMAIN ids = DOMAIN at
      /\ \A k \in DOMAIN at : at[k] \in gone /\ Missing(pr)[k] = Steps(pr)[at[k]]
  BY <1>1, VerbsInOrder DEF Missing
<1>8. /\ \A x \in gone : RankIn(gone, x) \in DOMAIN at /\ at[RankIn(gone, x)] = x
      /\ \A k, l \in DOMAIN at : k < l => at[k] < at[l]
      /\ DOMAIN at = 1 .. Cardinality(gone)
  BY <1>2, InOrderLists
<1>9. Cardinality(gone) \in Nat
  BY <1>2, FS_CardinalityType
<1> HIDE DEF steps, rows, c, n, at
\* A step with the verb is missing when its rank is above the rows there are.
<1>10. ASSUME NEW i \in steps
       PROVE  i \in gone <=> RankIn(steps, i) > c
  <2>1. Steps(pr)[i] = v /\ i \in DOMAIN Steps(pr)
    BY DEF steps, StepsOf
  <2>2. Stands(pr, i) = IF RankIn(steps, i) <= c THEN Nth(rows, RankIn(steps, i)) ELSE NoAction
    BY <2>1 DEF Stands, steps, rows, c
  <2>3. RankIn(steps, i) \in 1 .. n
    BY <1>4
  <2>4. RankIn(steps, i) <= c => Nth(rows, RankIn(steps, i)) \in rows
    BY <1>3, <1>5, <2>3
  <2>5. RankIn(steps, i) <= c => Stands(pr, i) # NoAction
    BY <1>1, <2>2, <2>4, NoActionAssumption
  <2>6. i \in gone <=> Stands(pr, i) = NoAction
    BY <1>6, <2>1 DEF MissingAt
  <2> QED BY <1>3, <2>2, <2>3, <2>5, <2>6
<1>11. c < n
  BY <1>3, <1>4, <1>6, <1>10
<1> HIDE DEF gone
<1> DEFINE f == [r \in c + 1 .. n |-> ids[RankIn(gone, Nth(steps, r))]]
<1>12. ASSUME NEW r \in c + 1 .. n
       PROVE  /\ Nth(steps, r) \in steps /\ Nth(steps, r) \in gone
              /\ RankIn(gone, Nth(steps, r)) \in K
  <2>1. r \in 1 .. n /\ r > c
    BY <1>3
  <2>2. Nth(steps, r) \in steps /\ RankIn(steps, Nth(steps, r)) = r
    BY <1>4, <2>1
  <2>3. Nth(steps, r) \in gone
    BY <1>10, <2>1, <2>2
  <2>4. RankIn(gone, Nth(steps, r)) \in DOMAIN at /\ at[RankIn(gone, Nth(steps, r))] = Nth(steps, r)
    BY <1>8, <2>3
  <2>5. Steps(pr)[Nth(steps, r)] = v
    BY <2>2 DEF steps, StepsOf
  <2> QED BY <1>7, <2>2, <2>3, <2>4, <2>5
<1>13. f \in [c + 1 .. n -> new]
  BY <1>12
<1>14. ASSUME NEW r \in c + 1 .. n, NEW q \in c + 1 .. n, f[r] = f[q]
       PROVE  r = q
  <2>1. RankIn(gone, Nth(steps, r)) = RankIn(gone, Nth(steps, q))
    BY <1>12, <1>14
  <2>2. Nth(steps, r) = Nth(steps, q)
    BY <1>8, <1>12, <2>1
  <2>3. r \in 1 .. n /\ q \in 1 .. n
    BY <1>3
  <2> QED BY <1>4, <2>2, <2>3
<1>15. \A a \in new : \E r \in c + 1 .. n : f[r] = a
  <2> SUFFICES ASSUME NEW k \in K
               PROVE  \E r \in c + 1 .. n : f[r] = ids[k]
    OBVIOUS
  <2> DEFINE i == at[k]
             r == RankIn(steps, i)
  <2>1. i \in gone /\ Steps(pr)[i] = v /\ k \in DOMAIN at
    BY <1>7
  <2>2. i \in steps
    BY <1>1, <2>1 DEF steps, StepsOf
  <2>3. r \in 1 .. n /\ r > c
    BY <1>4, <1>10, <2>1, <2>2
  <2>4. r \in c + 1 .. n
    BY <1>3, <2>3
  <2>5. Nth(steps, r) = i
    BY <1>4, <2>2, <2>3
  <2>6. RankIn(gone, i) = k
    <3>1. RankIn(gone, i) \in DOMAIN at /\ at[RankIn(gone, i)] = at[k]
      BY <1>8, <2>1
    <3>2. RankIn(gone, i) \in Nat /\ k \in Nat
      BY <1>8, <1>9, <2>1, <3>1
    <3>3. at[k] \in Nat
      BY <1>2, <1>7, <2>1
    <3> HIDE DEF i
    <3> QED BY <1>8, <2>1, <3>1, <3>2, <3>3
  <2> HIDE DEF i, r
  <2>7. f[r] = ids[k]
    BY <2>4, <2>5, <2>6
  <2> QED BY <2>4, <2>7
<1> HIDE DEF f, new
<1>16. f \in Injection(c + 1 .. n, new) /\ f \in Surjection(c + 1 .. n, new)
  BY <1>13, <1>14, <1>15 DEF Injection, Surjection, IsInjective
<1>17. Cardinality(c + 1 .. n) = Cardinality(new)
  BY <1>2, <1>16, FS_Injection
<1>18. Cardinality(c + 1 .. n) = n - c
  <2>1. c + 1 \in Int /\ n \in Int /\ ~(c + 1 > n)
    BY <1>3, <1>11
  <2>2. Cardinality(c + 1 .. n) = n - (c + 1) + 1
    BY <2>1, FS_Interval
  <2> QED BY <1>3, <2>2
<1>19. n = c + Cardinality(new)
  BY <1>3, <1>17, <1>18
<1> QED BY <1>2, <1>19 DEF n, c, steps, rows, new, NumbersFor

\* A chain's write inserts a row for each missing step, and leaves what was there.
LEMMA ChainWrites ==
    ASSUME ChainInv, NEW p \in Procs, ApplyChain(p)
    PROVE  LET pr == plan[p].pr
               ids == plan[p].ids
           IN  /\ pr \in PRs /\ plan[p].want = Missing(pr)
               /\ DOMAIN ids = DOMAIN Missing(pr)
               /\ ids \in Seq(Actions)
               /\ \A k, l \in DOMAIN ids : ids[k] = ids[l] => k = l
               /\ NewSteps(ids) \cap Rows = {} /\ Rows' = Rows \union NewSteps(ids)
               /\ NewRows = NewSteps(ids)
               /\ \A k \in DOMAIN ids : verb'[ids[k]] = Missing(pr)[k] /\ subject'[ids[k]] = pr
               /\ \A a \in Rows : verb'[a] = verb[a] /\ subject'[a] = subject[a]
<1> DEFINE pr == plan[p].pr
           ids == plan[p].ids
           want == plan[p].want
<1>1. pr \in PRs /\ want = Missing(pr) /\ Allocated(p) /\ WriteSteps(p, {})
  BY DEF ApplyChain, SameMissing, ChainInv, PlanIs
<1>2. ids \in Seq(Actions) /\ want \in Seq(Verbs) /\ Len(ids) = Len(want)
  BY <1>1 DEF ChainInv, ProtocolTypeOK, Plans, Allocated
<1>3. DOMAIN ids = DOMAIN want
  BY <1>2
<1>4. \A k, l \in DOMAIN ids : ids[k] \notin Rows /\ (ids[k] = ids[l] => k = l)
  BY DEF ChainInv, ProtocolInv, NumbersHeldOnce
<1>5. NewSteps(ids) \cap Rows = {} /\ NewSteps(ids) \subseteq Actions
  BY <1>2, <1>4 DEF NewSteps
<1>6. Rows' = Rows \union NewSteps(ids)
  <2>1. PICK after : InstantiateChain(ids, after)
    BY DEF ApplyChain
  <2>2. Waiting(ids, after) \subseteq NewSteps(ids)
    BY DEF Waiting, NewSteps
  <2> QED BY <1>5, <2>1, <2>2 DEF InstantiateChain, Rows
<1>7. \A k \in DOMAIN ids : verb'[ids[k]] = want[k] /\ subject'[ids[k]] = pr
  <2> SUFFICES ASSUME NEW k \in DOMAIN ids
               PROVE  verb'[ids[k]] = want[k] /\ subject'[ids[k]] = pr
    OBVIOUS
  <2>1. ids[k] \in NewSteps(ids) /\ ids[k] \in Actions
    BY <1>5 DEF NewSteps
  <2>2. (CHOOSE i \in DOMAIN ids : ids[i] = ids[k]) = k
    BY <1>4
  <2> QED BY <1>1, <2>1, <2>2 DEF WriteSteps
<1>8. \A a \in Rows : verb'[a] = verb[a] /\ subject'[a] = subject[a]
  BY <1>1, <1>5 DEF WriteSteps, Rows
<1>9. NewRows = NewSteps(ids)
  BY <1>5, <1>6 DEF NewRows
<1> QED BY <1>1, <1>2, <1>3, <1>4, <1>5, <1>6, <1>7, <1>8, <1>9

\* The process whose chain plan is done with, rows having appeared, wrote it.
LEMMA ChainDone ==
    ASSUME ChainInv, ProtocolNext, NEW p \in Procs, plan[p].op \in {"close", "chain"},
           plan'[p] = Idle, NewRows # {}
    PROVE  IF plan[p].op = "close" THEN ApplyClose(p) ELSE ApplyChain(p)
<1>1. PICK q \in Procs : ApplyAdd(q) \/ ApplyClose(q) \/ ApplyChain(q)
  BY OnlyWritesMove DEF NewRows, Rows
<1>2. q = p
  <2>1. plan' = [plan EXCEPT ![q] = Idle] /\ plan \in [Procs -> Plans]
    BY <1>1, StepsFinish DEF ChainInv, ProtocolTypeOK
  <2>2. q # p => plan'[p] = plan[p]
    BY <2>1
  <2> QED BY <2>2, IdleIsAPlan
<1> QED BY <1>1, <1>2 DEF ApplyAdd, ApplyClose, ApplyChain

\* However many run at once, once `pr chain` has written a step there are as many rows with
\* its verb about that pull request as the pipeline has steps with it: what was missing is
\* missing still, and repeats are counted (store/chain.go:134, 383).
THEOREM ChainsDuplicateNothing == ProtocolSpec => ChainNeverDuplicates
<1>1. ChainInv /\ [ProtocolNext]_allVars =>
         [\A p \in Procs, pr \in PRs :
             plan[p].op = "chain" /\ plan[p].pr = pr /\ plan'[p] = Idle =>
                \A v \in {verb'[a] : a \in NewRows} :
                   Cardinality(OnPR(pr, v)') = Cardinality(StepsOf(pr, v))]_allVars
  <2> SUFFICES ASSUME ChainInv, ProtocolNext, NEW p \in Procs, NEW pr \in PRs,
                      plan[p].op = "chain", plan[p].pr = pr, plan'[p] = Idle,
                      NEW a \in NewRows, NEW v, v = verb'[a]
               PROVE  Cardinality(OnPR(pr, v)') = Cardinality(StepsOf(pr, v))
    OBVIOUS
  <2>1. ApplyChain(p)
    BY ChainDone
  <2> DEFINE ids == plan[p].ids
             new == NumbersFor(ids, pr, v)
  <2>2. /\ DOMAIN ids = DOMAIN Missing(pr) /\ ids \in Seq(Actions)
        /\ \A k, l \in DOMAIN ids : ids[k] = ids[l] => k = l
        /\ NewSteps(ids) \cap Rows = {} /\ Rows' = Rows \union NewSteps(ids)
        /\ NewRows = NewSteps(ids)
        /\ \A k \in DOMAIN ids : verb'[ids[k]] = Missing(pr)[k] /\ subject'[ids[k]] = pr
        /\ \A b \in Rows : verb'[b] = verb[b] /\ subject'[b] = subject[b]
    BY <2>1, ChainWrites
  <2>3. PICK k0 \in DOMAIN ids : a = ids[k0] /\ v = Missing(pr)[k0]
    BY <2>2 DEF NewSteps
  <2>4. /\ pipeline \in [PRs -> Pipelines \union {NoPipeline}]
        /\ pipeline_step \in [Pipelines -> StepLists]
    BY DEF ChainInv, ProtocolTypeOK
  <2>5. /\ InOrder(MissingAt(pr))[k0] \in MissingAt(pr)
        /\ v = Steps(pr)[InOrder(MissingAt(pr))[k0]]
    <3>1. MissingAt(pr) \in SUBSET DOMAIN Steps(pr)
      BY DEF MissingAt
    <3> QED BY <2>2, <2>3, <2>4, <3>1, VerbsInOrder DEF Missing
  <2>6. \A k \in DOMAIN ids : ids[k] \in Actions
    BY <2>2
  <2>7. OnPR(pr, v)' = OnPR(pr, v) \union new
    <3>1. \A b \in Rows : b \in OnPR(pr, v)' <=> b \in OnPR(pr, v)
      BY <2>2 DEF OnPR
    <3>2. \A k \in DOMAIN ids : ids[k] \in OnPR(pr, v)' <=> Missing(pr)[k] = v
      BY <2>2 DEF OnPR, NewSteps
    <3>3. OnPR(pr, v)' \subseteq Rows \union NewSteps(ids) /\ OnPR(pr, v) \subseteq Rows
      BY <2>2 DEF OnPR
    <3> QED BY <2>2, <3>1, <3>2, <3>3 DEF NewSteps, NumbersFor
  <2>8. OnPR(pr, v) \cap new = {}
    BY <2>2 DEF OnPR, NewSteps, NumbersFor
  <2>9. /\ IsFiniteSet(new) /\ IsFiniteSet(OnPR(pr, v))
        /\ Cardinality(StepsOf(pr, v)) = Cardinality(OnPR(pr, v)) + Cardinality(new)
    <3> DEFINE i0 == InOrder(MissingAt(pr))[k0]
    <3>1. i0 \in MissingAt(pr) /\ v = Steps(pr)[i0]
      BY <2>5
    <3>2. \A k, l \in DOMAIN ids : ids[k] = ids[l] => k = l
      BY <2>2
    <3>3. DOMAIN ids = DOMAIN Missing(pr)
      BY <2>2
    <3> HIDE DEF i0, ids
    <3> QED BY <2>4, <2>6, <3>1, <3>2, <3>3, MissingOfAVerb
  <2> HIDE DEF new, ids
  <2>10. Cardinality(OnPR(pr, v) \union new) = Cardinality(OnPR(pr, v)) + Cardinality(new)
    <3>1. Cardinality(OnPR(pr, v) \cap new) = 0
      BY <2>8, FS_EmptySet
    <3>2. Cardinality(OnPR(pr, v)) \in Nat /\ Cardinality(new) \in Nat
      BY <2>9, FS_CardinalityType
    <3>3. Cardinality(OnPR(pr, v) \union new) =
             Cardinality(OnPR(pr, v)) + Cardinality(new) - Cardinality(OnPR(pr, v) \cap new)
      BY <2>9, FS_Union
    <3> QED BY <3>1, <3>2, <3>3
  <2> QED BY <2>7, <2>9, <2>10
<1> QED BY <1>1, ChainInvHolds, PTL DEF ProtocolSpec, ChainNeverDuplicates

\* A write that closes an action and inserts a row is a close of that action, completed,
\* with the numbers of its plan.
LEMMA ClosingInserts ==
    ASSUME ChainInv, ProtocolNext, NEW a \in Open \ Open', NEW n \in NewRows
    PROVE  \E p \in Procs :
              /\ ApplyClose(p) /\ a = plan[p].action
              /\ NewRows \subseteq NewSteps(plan[p].ids)
              /\ plan[p].want # <<>>
              /\ n \in Actions
<1>1. PICK p \in Procs : ApplyAdd(p) \/ ApplyClose(p) \/ ApplyChain(p)
  BY OnlyWritesMove DEF NewRows, Rows
<1> DEFINE ids == plan[p].ids
<1>2. NewRows \subseteq NewSteps(ids)
  BY <1>1, StepsInsertTheirIds DEF NewRows, ChainInv
<1>3. \A i \in DOMAIN ids : ids[i] \notin Rows
  BY DEF ChainInv, ProtocolInv, NumbersHeldOnce
<1>4. Open \subseteq Rows /\ NewSteps(ids) \cap Rows = {} /\ a \in Actions /\ n \in Actions
  BY <1>3 DEF Open, Rows, OpenStates, NewSteps, NewRows
<1>5. ~ApplyAdd(p)
  <2> SUFFICES ASSUME ApplyAdd(p)
               PROVE  FALSE
    OBVIOUS
  <2>1. ids[1] \notin Rows /\ state' = [state EXCEPT ![ids[1]] = "ready"]
    BY DEF ApplyAdd, Add
  <2>2. state'[a] = state[a]
    BY <1>4, <2>1 DEF ChainInv, ProtocolTypeOK, TypeOK
  <2> QED BY <2>2 DEF Open
<1>6. ~ApplyChain(p)
  <2> SUFFICES ASSUME ApplyChain(p)
               PROVE  FALSE
    OBVIOUS
  <2>1. PICK after : InstantiateChain(ids, after)
    BY DEF ApplyChain
  <2>2. Waiting(ids, after) \subseteq NewSteps(ids)
    BY DEF Waiting, NewSteps
  <2>3. state'[a] = state[a]
    BY <1>4, <2>1, <2>2 DEF InstantiateChain
  <2> QED BY <2>3 DEF Open
<1>7. ApplyClose(p)
  BY <1>1, <1>5, <1>6
<1>8. a = plan[p].action
  <2>1. Close(plan[p].action, plan[p].reason, ids)
    BY <1>7 DEF ApplyClose
  <2>2. plan[p].action \in Actions
    BY <1>7 DEF ApplyClose, ChainInv, ProtocolInv, PlanHolds, PlanOf
  <2> DEFINE b == plan[p].action
  <2>3. Chases(b) = {}
    BY <2>2, NoActionAssumption DEF ChainInv, Chases, Open
  <2>4. Waiting(ids, InSequence(ids)) \subseteq NewSteps(ids)
    BY DEF Waiting, NewSteps
  <2> HIDE DEF b
  <2>5. a # b => state'[a] \in {state[a], BlockedState(a, Open \ {b})}
    BY <1>4, <2>1, <2>3, <2>4 DEF Close, b
  <2>6. BlockedState(a, Open \ {b}) \in {state[a], "ready", "blocked"}
    BY DEF BlockedState
  <2> QED BY <1>4, <2>5, <2>6 DEF Open, OpenStates, b
<1>9. plan[p].want # <<>>
  <2>1. n \in NewSteps(ids)
    BY <1>2
  <2>2. PICK i \in DOMAIN ids : n = ids[i]
    BY <2>1 DEF NewSteps
  <2>3. Len(ids) = Len(plan[p].want) /\ ids \in Seq(Actions)
    BY <1>7 DEF ApplyClose, Allocated, ChainInv, ProtocolTypeOK, Plans
  <2>4. Len(ids) # 0
    BY <2>2, <2>3
  <2>5. Len(<<>>) = 0
    OBVIOUS
  <2> QED BY <2>3, <2>4, <2>5
<1> QED BY <1>2, <1>4, <1>7, <1>8, <1>9

\* A chain that follows a close follows the verb the action was closed with, completed,
\* and is about the pull request that action is about (store/close.go:280).
THEOREM ChainsFollowTheClosed == ProtocolSpec => ChainFollowsTheClosed
<1>1. ChainInv /\ [ProtocolNext]_allVars =>
         [\A a \in Open \ Open' : \A n \in NewRows :
             /\ verb[a] \in StartsPipeline
             /\ closed_reason'[a] = "completed"
             /\ subject'[n] = subject'[a]]_allVars
  <2> SUFFICES ASSUME ChainInv, ProtocolNext, NEW a \in Open \ Open', NEW n \in NewRows
               PROVE  /\ verb[a] \in StartsPipeline
                      /\ closed_reason'[a] = "completed"
                      /\ subject'[n] = subject'[a]
    OBVIOUS
  <2>1. PICK p \in Procs :
           /\ ApplyClose(p) /\ a = plan[p].action
           /\ NewRows \subseteq NewSteps(plan[p].ids)
           /\ plan[p].want # <<>> /\ n \in Actions
    BY ClosingInserts
  <2>2. /\ plan[p].verb \in StartsPipeline /\ plan[p].reason = "completed" /\ plan[p].pr \in PRs
        /\ plan[p].pr # NoPR
    BY <2>1, NoPRAssumption DEF ApplyClose, ChainInv, PlanIs
  <2>3. /\ verb[a] = plan[p].verb /\ Close(a, "completed", plan[p].ids)
        /\ WriteSteps(p, {a}) /\ a \in Actions
    BY <2>1, <2>2 DEF ApplyClose, PlanStillHolds, Open
  <2>4. closed_reason'[a] = "completed"
    BY <2>3 DEF Close
  <2>5. subject'[a] = plan[p].pr /\ subject'[n] = plan[p].pr
    BY <2>1, <2>3 DEF WriteSteps
  <2> QED BY <2>2, <2>3, <2>4, <2>5
<1> QED BY <1>1, ChainInvHolds, PTL DEF ProtocolSpec, ChainFollowsTheClosed

----------------------------------------------------------------------------
(* What the rows of a chain wait for *)

\* No edge of action_blocks is older than the rows it is between.
EdgesInside == blocks \subseteq Rows \X Rows

\* A close inserts the rows of its plan, each but the first waiting.
LEMMA CloseWrites ==
    ASSUME ChainInv, NEW p \in Procs, ApplyClose(p)
    PROVE  LET ids == plan[p].ids
           IN  /\ ids \in Seq(Actions)
               /\ \A k, l \in DOMAIN ids : ids[k] = ids[l] => k = l
               /\ NewSteps(ids) \cap Rows = {} /\ Rows' = Rows \union NewSteps(ids)
               /\ blocks' = blocks \union ChainEdges(ids, InSequence(ids))
               /\ \A k \in DOMAIN ids :
                     state'[ids[k]] = IF k = 1 THEN "ready" ELSE "blocked"
<1> DEFINE ids == plan[p].ids
           after == InSequence(ids)
           a == plan[p].action
<1>1. ids \in Seq(Actions) /\ Close(a, plan[p].reason, ids)
  BY DEF ChainInv, ProtocolTypeOK, Plans, ApplyClose
<1>2. \A k, l \in DOMAIN ids : ids[k] \notin Rows /\ (ids[k] = ids[l] => k = l)
  BY DEF ChainInv, ProtocolInv, NumbersHeldOnce
<1>3. /\ NewSteps(ids) \cap Rows = {} /\ NewSteps(ids) \subseteq Actions
      /\ Waiting(ids, after) \subseteq NewSteps(ids)
  BY <1>1, <1>2 DEF NewSteps, Waiting
<1>4. a \in Rows /\ Chases(a) \subseteq Rows /\ Dependents(a) \subseteq Rows /\ plan[p].reason \in Reasons
  BY <1>1 DEF Close, Open, Rows, OpenStates, Chases, Dependents, ApplyClose, ChainInv, ProtocolInv,
              PlanHolds, PlanOf, Reasons
<1>5. \A k \in DOMAIN ids : after[k] # NoAction <=> k # 1
  <2>1. \A k \in DOMAIN ids : k # 1 => ids[k - 1] \in Actions
    BY <1>1
  <2> QED BY <2>1, NoActionAssumption DEF InSequence
<1>6. \A k \in DOMAIN ids : ids[k] \in Waiting(ids, after) <=> k # 1
  BY <1>2, <1>5 DEF Waiting
<1> HIDE DEF after
<1>7. ASSUME NEW k \in DOMAIN ids
      PROVE  state'[ids[k]] = IF k = 1 THEN "ready" ELSE "blocked"
  <2>1. ids[k] \in NewSteps(ids) /\ ids[k] \in Actions /\ ids[k] \notin Rows
    BY <1>3 DEF NewSteps
  <2> QED BY <1>1, <1>4, <1>6, <2>1 DEF Close, after
<1>8. \A x \in Actions : x \notin NewSteps(ids) => (state'[x] = "none" <=> state[x] = "none")
  <2>1. StateForReason(plan[p].reason) # "none" /\ \A x, S : BlockedState(x, S) = "none" => state[x] = "none"
    BY <1>4 DEF StateForReason, BlockedState, Reasons
  <2> QED BY <1>1, <1>3, <1>4, <2>1 DEF Close, Rows, after, BlockedState
<1>9. Rows' = Rows \union NewSteps(ids)
  <2>1. \A x \in NewSteps(ids) : state'[x] # "none" /\ x \in Actions
    BY <1>3, <1>7 DEF NewSteps
  <2> QED BY <1>8, <2>1 DEF Rows
<1> QED BY <1>1, <1>2, <1>3, <1>7, <1>9 DEF Close, after

\* A new row waits for what its write put before it, and for that alone.
LEMMA NewEdges ==
    ASSUME EdgesInside, NEW ids, NEW after, NEW k \in DOMAIN ids,
           \A l \in DOMAIN ids : ids[k] = ids[l] => k = l,
           NewSteps(ids) \cap Rows = {},
           blocks' = blocks \union ChainEdges(ids, after),
           after[k] \in Actions \union {NoAction}
    PROVE  {b \in Actions : <<b, ids[k]>> \in blocks'} = {after[k]} \ {NoAction}
<1>1. ids[k] \notin Rows
  BY DEF NewSteps
<1>2. \A b : <<b, ids[k]>> \in blocks' <=> b = after[k] /\ after[k] # NoAction
  BY <1>1 DEF EdgesInside, ChainEdges
<1> QED BY <1>2

LEMMA EdgesStay ==
    ASSUME ChainInv, EdgesInside, [ProtocolNext]_allVars
    PROVE  EdgesInside'
<1>1. CASE UNCHANGED vars
  BY <1>1 DEF EdgesInside, vars, Rows
<1>2. ASSUME NEW p \in Procs, ApplyAdd(p)
      PROVE  EdgesInside'
  <2>1. blocks' = blocks /\ Rows \subseteq Rows'
    BY <1>2 DEF ApplyAdd, Add, Rows, ChainInv, ProtocolTypeOK, TypeOK
  <2> QED BY <2>1 DEF EdgesInside
<1>3. ASSUME NEW p \in Procs, ApplyClose(p)
      PROVE  EdgesInside'
  <2> DEFINE ids == plan[p].ids
  <2>1. /\ ids \in Seq(Actions) /\ Rows' = Rows \union NewSteps(ids)
        /\ blocks' = blocks \union ChainEdges(ids, InSequence(ids))
    BY <1>3, CloseWrites
  <2>2. \A i \in DOMAIN ids : i # 1 => i - 1 \in DOMAIN ids
    BY <2>1
  <2> HIDE DEF ids
  <2>3. ChainEdges(ids, InSequence(ids)) \subseteq NewSteps(ids) \X NewSteps(ids)
    <3>1. \A i \in DOMAIN ids : InSequence(ids)[i] \in NewSteps(ids) \union {NoAction}
      BY <2>2 DEF InSequence, NewSteps
    <3>2. \A i \in DOMAIN ids : ids[i] \in NewSteps(ids)
      BY DEF NewSteps
    <3> QED BY <3>1, <3>2 DEF ChainEdges
  <2> QED BY <2>1, <2>3 DEF EdgesInside
<1>4. ASSUME NEW p \in Procs, ApplyChain(p)
      PROVE  EdgesInside'
  <2> DEFINE ids == plan[p].ids
  <2>1. PICK after : InstantiateChain(ids, after)
    BY <1>4 DEF ApplyChain
  <2>2. ids \in Seq(Actions) /\ Rows' = Rows \union NewSteps(ids)
    BY <1>4, ChainWrites
  <2>3. \A i \in DOMAIN ids : i > 1 => i - 1 \in DOMAIN ids
    BY <2>2
  <2> HIDE DEF ids
  <2>4. ChainEdges(ids, after) \subseteq Rows' \X Rows'
    BY <2>1, <2>2, <2>3 DEF InstantiateChain, MayFollow, ChainEdges, NewSteps, Open, OpenStates, Rows
  <2> QED BY <2>1, <2>2, <2>4 DEF EdgesInside, InstantiateChain
<1>5. ProtocolNext => UNCHANGED vars \/ \E p \in Procs : ApplyAdd(p) \/ ApplyClose(p) \/ ApplyChain(p)
  BY DEF ProtocolNext, PlanAdd, PlanClose, PlanChain, Begin, Allocate, Abandon, SetVerb, LinkPR,
         Observe, SetPipeline, SetSteps
<1> QED BY <1>1, <1>2, <1>3, <1>4, <1>5 DEF allVars

\* What chainBlockers names is what stands at the place before, where that is open once the
\* rows are there, unless the steps were moved since.
LEMMA BlockerStandsBefore ==
    ASSUME ChainInv, NEW p \in Procs, ApplyChain(p),
           plan[p].at = InOrder(MissingAt(plan[p].pr)), NEW k \in DOMAIN plan[p].ids
    PROVE  {Blocker(p, k)} \ {NoAction} = StandsBefore(p, k) \intersect Open'
<1> DEFINE pr == plan[p].pr
           ids == plan[p].ids
           gone == MissingAt(pr)
           at == InOrder(gone)
           i == at[k] - 1
           new == {j \in DOMAIN at : at[j] = i}
<1>1. /\ pr \in PRs /\ DOMAIN ids = DOMAIN Missing(pr) /\ ids \in Seq(Actions)
      /\ NewSteps(ids) \cap Rows = {} /\ Rows' = Rows \union NewSteps(ids)
  BY ChainWrites
<1>2. /\ pipeline \in [PRs -> Pipelines \union {NoPipeline}]
      /\ pipeline_step \in [Pipelines -> StepLists]
  BY DEF ChainInv, ProtocolTypeOK
<1>3. gone \in SUBSET DOMAIN Steps(pr)
  BY DEF MissingAt
<1>4. /\ IsFiniteSet(gone) /\ gone \in SUBSET Nat /\ Steps(pr) \in Seq(Verbs)
  BY <1>1, <1>2, <1>3, StepsAreVerbs
<1>5. /\ DOMAIN at = DOMAIN ids /\ \A l \in DOMAIN at : at[l] \in gone
  BY <1>1, <1>2, <1>3, VerbsInOrder DEF Missing
<1>6. /\ DOMAIN at = 1 .. Cardinality(gone) /\ Cardinality(gone) \in Nat
      /\ \A l, m \in DOMAIN at : l < m => at[l] < at[m]
      /\ \A x \in gone : \E l \in DOMAIN at : at[l] = x
  BY <1>4, InOrderLists, FS_CardinalityType
<1>7. DOMAIN Steps(pr) = 1 .. Len(Steps(pr)) /\ Len(Steps(pr)) \in Nat
  BY <1>4
<1>8. PICK after : InstantiateChain(ids, after)
  BY DEF ApplyChain
<1>9. /\ \A x \in NewSteps(ids) : x \in Actions /\ x \in Open'
      /\ \A x \in Rows : x \in Open' <=> x \in Open
  <2>1. Waiting(ids, after) \subseteq NewSteps(ids) /\ NewSteps(ids) \subseteq Actions
    BY <1>1 DEF Waiting, NewSteps
  <2> QED BY <1>1, <1>8, <2>1 DEF InstantiateChain, Open, OpenStates, Rows
<1>10. Blocker(p, k) = IF new # {} THEN ids[CHOOSE j \in new : TRUE]
                       ELSE IF i \in DOMAIN Steps(pr) /\ Stands(pr, i) \in Open THEN Stands(pr, i)
                       ELSE NoAction
  BY DEF Blocker
<1>11. StandsBefore(p, k) = IF i = 0 THEN {} ELSE IF i \in gone THEN {ids[k - 1]}
                            ELSE {Stands(pr, i)} \ {NoAction}
  BY DEF StandsBefore
<1>12. /\ k \in DOMAIN at /\ at[k] \in gone /\ at[k] \in 1 .. Len(Steps(pr)) /\ i \in Nat
       /\ \A l \in DOMAIN at : at[l] \in Nat /\ at[l] # 0
  BY <1>3, <1>5, <1>7
<1>13. i # 0 => i \in DOMAIN Steps(pr)
  BY <1>7, <1>12
<1>14. i \notin gone => new = {}
  BY <1>5
<1>15. ASSUME i \in gone
       PROVE  new = {k - 1} /\ k - 1 \in DOMAIN ids
  <2>1. PICK l \in DOMAIN at : at[l] = at[k] - 1
    BY <1>6, <1>15
  <2>2. l \in Nat /\ k \in Nat /\ k - 1 \in Int
    BY <1>6, <1>12, <2>1
  <2>3. \A m \in DOMAIN at : m \in Nat /\ at[m] \in Nat
    BY <1>6, <1>12
  <2> HIDE DEF at, gone, ids
  <2>4. l < k
    <3>1. l # k
      BY <1>12, <2>1
    <3>2. ~(k < l)
      <4> SUFFICES ASSUME k < l
                   PROVE  FALSE
        OBVIOUS
      <4>1. at[k] < at[l]
        BY <1>6, <1>12
      <4> QED BY <1>12, <2>1, <4>1
    <3> QED BY <2>2, <3>1, <3>2
  <2>5. l = k - 1
    <3> SUFFICES ASSUME l < k - 1
                 PROVE  FALSE
      BY <2>2, <2>4
    <3>1. k - 1 \in DOMAIN at /\ k - 1 < k
      BY <1>6, <1>12, <2>2
    <3>2. at[l] < at[k - 1] /\ at[k - 1] < at[k]
      BY <1>6, <1>12, <3>1
    <3> QED BY <1>12, <2>1, <2>3, <3>1, <3>2
  <2>6. \A m \in DOMAIN at : at[m] = at[l] => m = l
    <3> SUFFICES ASSUME NEW m \in DOMAIN at, at[m] = at[l], m # l
                 PROVE  FALSE
      OBVIOUS
    <3>1. m < l \/ l < m
      BY <2>2, <2>3
    <3>2. at[m] < at[l] \/ at[l] < at[m]
      BY <1>6, <3>1
    <3> QED BY <2>3, <3>2
  <2> QED BY <1>5, <2>1, <2>5, <2>6
<1>16. i \in DOMAIN Steps(pr) => Stands(pr, i) \in Rows \union {NoAction}
  BY <1>1, <1>2, StandsIsARow
<1>17. NoAction \notin Rows /\ NoAction \notin Open
  BY NoActionAssumption DEF Rows, Open
<1> HIDE DEF pr, ids, gone, at, i, new
<1>18. CASE i \in gone
  <2>1. Blocker(p, k) = ids[k - 1]
    BY <1>10, <1>15, <1>18
  <2>2. ids[k - 1] \in NewSteps(ids)
    BY <1>15, <1>18 DEF NewSteps
  <2>3. ids[k - 1] \in Open' /\ ids[k - 1] # NoAction
    BY <1>9, <2>2, NoActionAssumption
  <2>4. i # 0
    BY <1>4, <1>3, <1>7, <1>18
  <2> QED BY <1>11, <1>18, <2>1, <2>3, <2>4
<1>19. CASE i \notin gone
  BY <1>9, <1>10, <1>11, <1>13, <1>14, <1>16, <1>17, <1>7, <1>12, <1>19
<1> QED BY <1>18, <1>19

\* The steps of a chain become actionable in the order of the pipeline: what a close inserts
\* in sequence, what `pr chain` inserts behind whatever stands at the place before, written
\* with it or there already, and open (store/close.go:264, store/chain.go:277, 421).
THEOREM ChainsAreInOrder == ProtocolSpec => ChainInOrder
<1>1. ChainInv /\ EdgesInside /\ [ProtocolNext]_allVars =>
         [\A p \in Procs :
             /\ plan[p].op \in {"close", "chain"} /\ plan'[p] = Idle /\ NewRows # {}
             /\ plan[p].op = "chain" => plan[p].at = InOrder(MissingAt(plan[p].pr))
             => /\ blocks' \ blocks \subseteq Actions \X NewRows
                /\ \A k \in DOMAIN plan[p].ids : \A n \in {plan[p].ids[k]} :
                      /\ WaitsFor(n)' = IF plan[p].op = "close"
                                        THEN {plan[p].ids[j] : j \in {k - 1} \ {0}}
                                        ELSE StandsBefore(p, k) \intersect Open'
                      /\ state'[n] = "blocked" <=> WaitsFor(n)' # {}]_allVars
  <2> SUFFICES ASSUME ChainInv, EdgesInside, ProtocolNext, NEW p \in Procs,
                      plan[p].op \in {"close", "chain"}, plan'[p] = Idle, NewRows # {},
                      plan[p].op = "chain" => plan[p].at = InOrder(MissingAt(plan[p].pr))
               PROVE  /\ blocks' \ blocks \subseteq Actions \X NewRows
                      /\ \A k \in DOMAIN plan[p].ids : \A n \in {plan[p].ids[k]} :
                            /\ WaitsFor(n)' = IF plan[p].op = "close"
                                              THEN {plan[p].ids[j] : j \in {k - 1} \ {0}}
                                              ELSE StandsBefore(p, k) \intersect Open'
                            /\ state'[n] = "blocked" <=> WaitsFor(n)' # {}
    OBVIOUS
  <2> DEFINE ids == plan[p].ids
  <2>1. CASE plan[p].op = "close"
    <3> DEFINE after == InSequence(ids)
    <3>1. /\ ids \in Seq(Actions)
          /\ \A k, l \in DOMAIN ids : ids[k] = ids[l] => k = l
          /\ NewSteps(ids) \cap Rows = {} /\ Rows' = Rows \union NewSteps(ids)
          /\ blocks' = blocks \union ChainEdges(ids, after)
          /\ \A k \in DOMAIN ids : state'[ids[k]] = IF k = 1 THEN "ready" ELSE "blocked"
      BY <2>1, ChainDone, CloseWrites
    <3>2. NewRows = NewSteps(ids)
      BY <3>1 DEF NewRows
    <3>3. \A k \in DOMAIN ids : /\ k # 1 => k - 1 \in DOMAIN ids /\ ids[k - 1] \in Actions
                                /\ k \in Nat
      BY <3>1
    <3>4. \A k \in DOMAIN ids : after[k] = IF k = 1 THEN NoAction ELSE ids[k - 1]
      BY DEF InSequence
    <3> HIDE DEF after, ids
    <3>5. blocks' \ blocks \subseteq Actions \X NewRows
      BY <3>1, <3>2, <3>3, <3>4 DEF ChainEdges, NewSteps
    <3>6. ASSUME NEW k \in DOMAIN ids, NEW n \in {ids[k]}
          PROVE  /\ WaitsFor(n)' = {ids[j] : j \in {k - 1} \ {0}}
                 /\ state'[n] = "blocked" <=> WaitsFor(n)' # {}
      <4>1. after[k] \in Actions \union {NoAction}
        BY <3>3, <3>4
      <4>2. WaitsFor(n)' = {after[k]} \ {NoAction}
        <5>1. /\ \A l \in DOMAIN ids : ids[k] = ids[l] => k = l
              /\ NewSteps(ids) \cap Rows = {} /\ blocks' = blocks \union ChainEdges(ids, after)
          BY <3>1
        <5>2. {b \in Actions : <<b, ids[k]>> \in blocks'} = {after[k]} \ {NoAction}
          BY <4>1, <5>1, NewEdges
        <5> QED BY <5>2 DEF WaitsFor
      <4>3. CASE k = 1
        BY <3>1, <3>4, <4>2, <4>3
      <4>4. CASE k # 1
        BY <3>1, <3>3, <3>4, <4>2, <4>4, NoActionAssumption
      <4> QED BY <4>3, <4>4
    <3> QED BY <2>1, <3>5, <3>6 DEF ids
  <2>2. CASE plan[p].op = "chain"
    <3>0. ApplyChain(p)
      BY <2>2, ChainDone
    <3> DEFINE after == [k \in DOMAIN ids |-> Blocker(p, k)]
    <3>1. /\ ids \in Seq(Actions)
          /\ \A k, l \in DOMAIN ids : ids[k] = ids[l] => k = l
          /\ NewSteps(ids) \cap Rows = {} /\ NewRows = NewSteps(ids)
      BY <3>0, ChainWrites
    <3>2. InstantiateChain(ids, after)
      BY <3>0 DEF ApplyChain
    <3>3. \A k \in DOMAIN ids : /\ k > 1 => ids[k - 1] \in Actions
                                /\ ids[k] \in Actions /\ ids[k] \in NewSteps(ids)
      BY <3>1 DEF NewSteps
    <3>4. \A k \in DOMAIN ids : {after[k]} \ {NoAction} = StandsBefore(p, k) \intersect Open'
      BY <2>2, <3>0, BlockerStandsBefore
    <3> HIDE DEF after, ids
    <3>5. \A k \in DOMAIN ids : after[k] \in Actions \union {NoAction}
      BY <3>2, <3>3 DEF InstantiateChain, MayFollow, Open
    <3>6. blocks' = blocks \union ChainEdges(ids, after)
      BY <3>2 DEF InstantiateChain
    <3>7. blocks' \ blocks \subseteq Actions \X NewRows
      BY <3>1, <3>5, <3>6 DEF ChainEdges, NewSteps
    <3>8. ASSUME NEW k \in DOMAIN ids, NEW n \in {ids[k]}
          PROVE  /\ WaitsFor(n)' = StandsBefore(p, k) \intersect Open'
                 /\ state'[n] = "blocked" <=> WaitsFor(n)' # {}
      <4>1. WaitsFor(n)' = {after[k]} \ {NoAction}
        <5>1. /\ \A l \in DOMAIN ids : ids[k] = ids[l] => k = l
              /\ NewSteps(ids) \cap Rows = {} /\ after[k] \in Actions \union {NoAction}
          BY <3>1, <3>5
        <5>2. {b \in Actions : <<b, ids[k]>> \in blocks'} = {after[k]} \ {NoAction}
          BY <5>1, <3>6, NewEdges
        <5> QED BY <5>2 DEF WaitsFor
      <4>2. n \in Waiting(ids, after) <=> after[k] # NoAction
        BY <3>1 DEF Waiting
      <4>3. state'[n] = "blocked" <=> n \in Waiting(ids, after)
        BY <3>2, <3>3 DEF InstantiateChain
      <4> QED BY <3>4, <4>1, <4>2, <4>3
    <3> QED BY <2>2, <3>7, <3>8 DEF ids
  <2> QED BY <2>1, <2>2
<1>2. ProtocolInit => EdgesInside
  BY DEF ProtocolInit, Init, EdgesInside
<1>3. ChainInv /\ EdgesInside /\ [ProtocolNext]_allVars => EdgesInside'
  BY EdgesStay
<1> QED BY <1>1, <1>2, <1>3, ChainInvHolds, PTL DEF ProtocolSpec, ChainInOrder

=============================================================================
