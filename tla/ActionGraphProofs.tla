------------------------- MODULE ActionGraphProofs -------------------------
(***************************************************************************)
(* What the action table keeps, for any number of actions, pipelines of    *)
(* any length and a calendar of any length.                                *)
(***************************************************************************)
EXTENDS ActionGraph, WellFoundedInduction, TLAPS

----------------------------------------------------------------------------
(* Lemmas about sets of numbers and pipelines *)

\* A non-empty set of the indices of a pipeline has a last one.
LEMMA LastIndex ==
    ASSUME NEW n \in Nat, NEW T, T \subseteq 1 .. n, T # {}
    PROVE  \E i \in T : \A j \in T : j <= i
<1> DEFINE U == {n - i : i \in T}
<1>1. U \subseteq Nat /\ U # {}
  <2>1. \A i \in T : n - i \in Nat
    OBVIOUS
  <2>2. PICK i \in T : TRUE
    OBVIOUS
  <2>3. n - i \in U
    BY <2>2
  <2> QED BY <2>1, <2>3
<1>2. PICK u \in U : \A v \in U : ~(<<v, u>> \in OpToRel(<, Nat))
  BY <1>1, NatLessThanWellFounded, WFMin
<1>3. \A v \in U : u <= v
  <2>1. ASSUME NEW v \in U PROVE u <= v
    <3>1. u \in Nat /\ v \in Nat
      BY <1>1
    <3>2. ~(v < u)
      BY <1>2, <3>1 DEF OpToRel
    <3> QED BY <3>1, <3>2
  <2> QED BY <2>1
<1>4. PICK i \in T : u = n - i
  BY <1>2
<1>5. \A j \in T : j <= i
  <2>1. ASSUME NEW j \in T PROVE j <= i
    <3>1. n - j \in U
      OBVIOUS
    <3>2. n - i <= n - j
      BY <3>1, <1>3, <1>4
    <3> QED BY <3>2
  <2> QED BY <2>1
<1> QED BY <1>5

\* A pipeline about to be inserted: distinct identifiers that have no row.
LEMMA ChainFacts ==
    ASSUME NEW steps \in Chains
    PROVE  /\ \E k \in Nat : steps \in [1 .. k -> Actions \ Rows]
           /\ \A i, j \in DOMAIN steps : steps[i] = steps[j] => i = j
           /\ NewSteps(steps) \subseteq Actions \ Rows
<1>1. PICK k \in 0 .. MaxSteps : steps \in [1 .. k -> Actions \ Rows]
  BY DEF Chains
<1>2. \A i, j \in DOMAIN steps : steps[i] = steps[j] => i = j
  BY DEF Chains
<1> QED
  BY <1>1, <1>2, MaxStepsAssumption DEF NewSteps

\* The pipeline of a close is linked in sequence, which is one of the ways
\* chainBlockers may link one.
LEMMA SequenceFollows ==
    ASSUME NEW steps \in Chains
    PROVE  /\ InSequence(steps) \in [DOMAIN steps -> Actions \union {NoAction}]
           /\ MayFollow(steps, InSequence(steps))
BY ChainFacts DEF InSequence, MayFollow

\* The edges a chain adds, one by one.
LEMMA ChainEdgeFacts ==
    ASSUME NEW steps \in Chains,
           NEW after \in [DOMAIN steps -> Actions \union {NoAction}],
           MayFollow(steps, after),
           NEW e \in ChainEdges(steps, after)
    PROVE  \E i \in DOMAIN steps :
              /\ e = <<after[i], steps[i]>>
              /\ after[i] \in Actions
              /\ \/ after[i] \in Open
                 \/ i > 1 /\ i - 1 \in DOMAIN steps /\ after[i] = steps[i - 1]
<1>1. PICK k \in Nat : steps \in [1 .. k -> Actions \ Rows]
  BY ChainFacts
<1>2. PICK i \in DOMAIN steps : e = <<after[i], steps[i]>> /\ after[i] # NoAction
  BY DEF ChainEdges
<1>3. after[i] \in Open \/ (i > 1 /\ after[i] = steps[i - 1])
  BY <1>2 DEF MayFollow
<1>4. i > 1 => i - 1 \in DOMAIN steps
  BY <1>1
<1>5. after[i] \in Actions
  BY <1>2
<1> QED BY <1>2, <1>3, <1>4, <1>5

----------------------------------------------------------------------------
(* Types *)

\* Every step leaves every column with a value of its type.
LEMMA TypeStep ==
    TypeOK /\ [Next]_vars => TypeOK'
<1> SUFFICES ASSUME TypeOK, [Next]_vars PROVE TypeOK'
  OBVIOUS
<1> USE DEF TypeOK, OpenStates, ClosedStates, Reasons, Dates, NoDate
<1>1. ASSUME NEW a \in Actions, Add(a) \/ ComeOut(a) PROVE TypeOK'
  BY <1>1 DEF Add, ComeOut
<1>2. ASSUME NEW a \in Actions, NEW b \in Actions,
             RaiseChase(a, b) \/ AddBlocker(a, b) \/ HideBehind(a, b)
      PROVE  TypeOK'
  <2>1. CASE RaiseChase(a, b)
    BY <2>1 DEF RaiseChase
  <2>2. CASE AddBlocker(a, b)
    BY <2>2 DEF AddBlocker
  <2>3. CASE HideBehind(a, b)
    BY <2>3 DEF HideBehind
  <2> QED BY <1>2, <2>1, <2>2, <2>3
<1>3. ASSUME NEW a \in Actions, NEW d \in Dates, Snooze(a, d) PROVE TypeOK'
  BY <1>3 DEF Snooze
<1>4. ASSUME NEW steps \in Chains,
             NEW after \in [DOMAIN steps -> Actions \union {NoAction}],
             InstantiateChain(steps, after)
      PROVE  TypeOK'
  <2>1. state' \in [Actions -> OpenStates \union ClosedStates \union {"none"}]
    BY <1>4 DEF InstantiateChain
  <2>2. ChainEdges(steps, after) \subseteq Actions \X Actions
    BY ChainFacts DEF ChainEdges
  <2> QED BY <1>4, <2>1, <2>2 DEF InstantiateChain
<1>5. ASSUME NEW steps \in Chains, NEW a \in Actions, NEW r \in Reasons,
             Close(a, r, steps)
      PROVE  TypeOK'
  <2>1. state' \in [Actions -> OpenStates \union ClosedStates \union {"none"}]
    <3>1. StateForReason(r) \in ClosedStates
      BY DEF StateForReason
    <3>2. \A x \in Actions : BlockedState(x, Open \ {a}) \in OpenStates \union ClosedStates \union {"none"}
      BY DEF BlockedState
    <3> QED BY <1>5, <3>1, <3>2 DEF Close
  <2>2. ChainEdges(steps, InSequence(steps)) \subseteq Actions \X Actions
    BY ChainFacts, SequenceFollows DEF ChainEdges
  <2>3. closed_reason' \in [Actions -> Reasons \union {"none"}]
    BY <1>5 DEF Close
  <2>4. hidden_behind' \in [Actions -> Actions \union {NoAction}]
    BY <1>5 DEF Close
  <2> QED BY <1>5, <2>1, <2>2, <2>3, <2>4 DEF Close
<1>6. ASSUME NEW late \in SUBSET Actions, StandDownCleared(late) PROVE TypeOK'
  BY <1>6 DEF StandDownCleared
<1>7. CASE WakeExpired
  BY <1>7 DEF WakeExpired
<1>8. CASE Tick
  BY <1>8, LastDayAssumption DEF Tick
<1>9. ASSUME NEW a \in Actions, NEW s \in OpenStates \union ClosedStates,
             NEW d \in Dates \union {NoDate}, AddAs(a, s, d) \/ SetState(a, s, d)
      PROVE  TypeOK'
  BY <1>9 DEF AddAs, SetState
<1>10. ASSUME NEW a \in Actions, NEW s \in {"ready", "blocked"}, Wake(a, s)
       PROVE  TypeOK'
  BY <1>10 DEF Wake
<1>11. CASE UNCHANGED vars
  BY <1>11 DEF vars
<1> QED
  BY <1>1, <1>2, <1>3, <1>4, <1>5, <1>6, <1>7, <1>8, <1>9, <1>10, <1>11
  DEF Next, Maintain, ByHand

\* Type correctness of the action table, whatever is done to it, by hand or not.
THEOREM TypeCorrect == Spec => []TypeOK
<1>1. Init => TypeOK
  BY LastDayAssumption
  DEF Init, TypeOK, OpenStates, ClosedStates, Reasons, Dates, NoDate
<1> QED
  BY <1>1, TypeStep, PTL DEF Spec

----------------------------------------------------------------------------
(* Edges between rows *)

\* A row stays a row: nothing deletes one.
LEMMA RowsStay ==
    ASSUME TypeOK, [Next]_vars
    PROVE  Rows \subseteq Rows'
<1> USE DEF TypeOK, Rows, Open, OpenStates, ClosedStates
<1>1. ASSUME NEW a \in Actions, NEW b \in Actions,
             \/ Add(a) \/ ComeOut(a)
             \/ RaiseChase(a, b) \/ AddBlocker(a, b) \/ HideBehind(a, b)
      PROVE  Rows \subseteq Rows'
  BY <1>1 DEF Add, ComeOut, RaiseChase, AddBlocker, HideBehind
<1>2. ASSUME NEW a \in Actions, NEW d \in Dates, Snooze(a, d) PROVE Rows \subseteq Rows'
  BY <1>2 DEF Snooze
<1>3. ASSUME NEW steps \in Chains, NEW after, InstantiateChain(steps, after)
      PROVE  Rows \subseteq Rows'
  BY <1>3 DEF InstantiateChain
<1>4. ASSUME NEW steps \in Chains, NEW a \in Actions, NEW r \in Reasons, Close(a, r, steps)
      PROVE  Rows \subseteq Rows'
  <2>1. \A x \in Rows : BlockedState(x, Open \ {a}) # "none"
    BY DEF BlockedState
  <2> QED BY <1>4, <2>1 DEF Close, StateForReason
<1>5. ASSUME NEW late \in SUBSET Actions, StandDownCleared(late) PROVE Rows \subseteq Rows'
  BY <1>5 DEF StandDownCleared
<1>6. CASE WakeExpired
  BY <1>6 DEF WakeExpired
<1>7. CASE Tick
  BY <1>7 DEF Tick
<1>8. ASSUME NEW a \in Actions, NEW s \in OpenStates \union ClosedStates,
             NEW d \in Dates \union {NoDate}, AddAs(a, s, d) \/ SetState(a, s, d)
      PROVE  Rows \subseteq Rows'
  BY <1>8 DEF AddAs, SetState
<1>9. ASSUME NEW a \in Actions, NEW s \in {"ready", "blocked"}, Wake(a, s)
      PROVE  Rows \subseteq Rows'
  BY <1>9 DEF Wake
<1>10. CASE UNCHANGED vars
  BY <1>10 DEF vars
<1> QED
  BY <1>1, <1>2, <1>3, <1>4, <1>5, <1>6, <1>7, <1>8, <1>9, <1>10
  DEF Next, Maintain, ByHand

\* The edges of a chain are between rows once its steps are.
LEMMA ChainEdgesBetweenRows ==
    ASSUME NEW steps \in Chains,
           NEW after \in [DOMAIN steps -> Actions \union {NoAction}],
           MayFollow(steps, after),
           Rows \subseteq Rows', NewSteps(steps) \subseteq Rows'
    PROVE  ChainEdges(steps, after) \subseteq Rows' \X Rows'
<1>1. Open \subseteq Rows
  BY DEF Open, Rows, OpenStates
<1>2. ASSUME NEW e \in ChainEdges(steps, after) PROVE e \in Rows' \X Rows'
  <2>1. PICK i \in DOMAIN steps :
            /\ e = <<after[i], steps[i]>>
            /\ \/ after[i] \in Open
               \/ i - 1 \in DOMAIN steps /\ after[i] = steps[i - 1]
    BY ChainEdgeFacts
  <2>2. \A j \in DOMAIN steps : steps[j] \in Rows'
    BY DEF NewSteps
  <2> QED BY <1>1, <2>1, <2>2
<1> QED BY <1>2

\* No step adds an edge to or from an identifier without a row.
LEMMA EdgesStep ==
    TypeOK /\ EdgesBetweenRows /\ [Next]_vars => EdgesBetweenRows'
<1> SUFFICES ASSUME TypeOK, EdgesBetweenRows, [Next]_vars PROVE EdgesBetweenRows'
  OBVIOUS
<1>0. Rows \subseteq Rows' /\ Open \subseteq Rows
  BY RowsStay DEF Open, Rows, OpenStates
<1>1. ASSUME NEW a \in Actions, Add(a) \/ ComeOut(a) PROVE EdgesBetweenRows'
  BY <1>0, <1>1 DEF Add, ComeOut, EdgesBetweenRows, TypeOK
<1>2. ASSUME NEW a \in Actions, NEW b \in Actions,
             RaiseChase(a, b) \/ AddBlocker(a, b) \/ HideBehind(a, b)
      PROVE  EdgesBetweenRows'
  <2>1. CASE RaiseChase(a, b)
    <3>1. a \in Rows'
      BY <2>1 DEF RaiseChase, Rows, TypeOK
    <3> QED BY <1>0, <2>1, <3>1 DEF RaiseChase, EdgesBetweenRows, TypeOK
  <2>2. CASE AddBlocker(a, b)
    BY <1>0, <2>2 DEF AddBlocker, EdgesBetweenRows, TypeOK
  <2>3. CASE HideBehind(a, b)
    BY <1>0, <2>3 DEF HideBehind, EdgesBetweenRows, TypeOK
  <2> QED BY <1>2, <2>1, <2>2, <2>3
<1>3. ASSUME NEW a \in Actions, NEW d \in Dates, Snooze(a, d) PROVE EdgesBetweenRows'
  BY <1>0, <1>3 DEF Snooze, EdgesBetweenRows
<1>4. ASSUME NEW steps \in Chains,
             NEW after \in [DOMAIN steps -> Actions \union {NoAction}],
             InstantiateChain(steps, after)
      PROVE  EdgesBetweenRows'
  <2>1. NewSteps(steps) \subseteq Rows'
    BY <1>4, ChainFacts DEF InstantiateChain, Rows
  <2>2. ChainEdges(steps, after) \subseteq Rows' \X Rows'
    BY <1>0, <1>4, <2>1, ChainEdgesBetweenRows DEF InstantiateChain
  <2> QED BY <1>0, <1>4, <2>2 DEF InstantiateChain, EdgesBetweenRows
<1>5. ASSUME NEW steps \in Chains, NEW a \in Actions, NEW r \in Reasons,
             Close(a, r, steps)
      PROVE  EdgesBetweenRows'
  <2>1. NewSteps(steps) \subseteq Rows'
    BY <1>5, ChainFacts DEF Close, Rows, StateForReason
  <2>2. ChainEdges(steps, InSequence(steps)) \subseteq Rows' \X Rows'
    BY <1>0, <2>1, SequenceFollows, ChainEdgesBetweenRows
  <2>3. \A x \in Actions : hidden_behind'[x] \in {hidden_behind[x], NoAction}
    BY <1>5 DEF Close
  <2> QED BY <1>0, <1>5, <2>2, <2>3 DEF Close, EdgesBetweenRows
<1>6. ASSUME NEW late \in SUBSET Actions, StandDownCleared(late) PROVE EdgesBetweenRows'
  <2>1. \A x \in Actions : raised'[x] \in {raised[x], NoAction}
    BY <1>6 DEF StandDownCleared
  <2> QED BY <1>0, <1>6, <2>1 DEF StandDownCleared, EdgesBetweenRows
<1>7. CASE WakeExpired
  BY <1>0, <1>7 DEF WakeExpired, EdgesBetweenRows
<1>8. CASE Tick
  BY <1>0, <1>8 DEF Tick, EdgesBetweenRows
<1>9. ASSUME NEW a \in Actions, NEW s \in OpenStates \union ClosedStates,
             NEW d \in Dates \union {NoDate}, AddAs(a, s, d) \/ SetState(a, s, d)
      PROVE  EdgesBetweenRows'
  BY <1>0, <1>9 DEF AddAs, SetState, EdgesBetweenRows
<1>10. ASSUME NEW a \in Actions, NEW s \in {"ready", "blocked"}, Wake(a, s)
       PROVE  EdgesBetweenRows'
  BY <1>0, <1>10 DEF Wake, EdgesBetweenRows
<1>11. CASE UNCHANGED vars
  BY <1>11 DEF vars, EdgesBetweenRows, Rows
<1> QED
  BY <1>1, <1>2, <1>3, <1>4, <1>5, <1>6, <1>7, <1>8, <1>9, <1>10, <1>11
  DEF Next, Maintain, ByHand

\* No edge -- a blocker, a hiding, a chase -- ever names an identifier without a
\* row, and nothing hides behind or is raised about itself.
THEOREM EdgesAlwaysBetweenRows == Spec => []EdgesBetweenRows
<1>1. Init => EdgesBetweenRows
  BY DEF Init, EdgesBetweenRows
<1> QED
  BY <1>1, TypeCorrect, EdgesStep, PTL DEF Spec

----------------------------------------------------------------------------
(* No cycle of blockers *)

\* Steps that add no edge keep the graph acyclic.
LEMMA SameEdgesAcyclic ==
    ASSUME BlocksAcyclic, blocks' = blocks
    PROVE  BlocksAcyclic'
BY DEF BlocksAcyclic

\* The edge AddBlocker adds closes no cycle: a set of actions that wait for each
\* other lies either beyond the blocked action, where the blocker is not, or
\* holds an action that old edges alone decide.
LEMMA AddBlockerAcyclic ==
    ASSUME TypeOK, BlocksAcyclic, NEW a \in Actions, NEW b \in Actions, AddBlocker(b, a)
    PROVE  BlocksAcyclic'
<1>1. PICK R \in SUBSET Actions : a \in R /\ ClosedUnderBlocks(R) /\ b \notin R
  BY DEF AddBlocker, Reaches
<1>2. blocks' = blocks \union {<<b, a>>}
  BY DEF AddBlocker
<1>3. ASSUME NEW S \in SUBSET Actions, S # {}
      PROVE  \E x \in S : \A y \in S : <<x, y>> \notin blocks'
  <2>1. CASE S \intersect R # {}
    <3>1. PICK x \in S \intersect R : \A y \in S \intersect R : <<x, y>> \notin blocks
      BY <2>1 DEF BlocksAcyclic
    <3>2. ASSUME NEW y \in S, <<x, y>> \in blocks' PROVE FALSE
      <4>1. x # b
        BY <1>1, <3>1
      <4>2. <<x, y>> \in blocks
        BY <1>2, <3>2, <4>1
      <4>3. y \in R
        BY <1>1, <3>1, <4>2 DEF ClosedUnderBlocks
      <4> QED BY <3>1, <4>2, <4>3
    <3> QED BY <3>1, <3>2
  <2>2. CASE S \intersect R = {}
    <3>1. a \notin S
      BY <1>1, <2>2
    <3>2. PICK x \in S : \A y \in S : <<x, y>> \notin blocks
      BY <1>3 DEF BlocksAcyclic
    <3> QED BY <1>2, <3>1, <3>2
  <2> QED BY <2>1, <2>2
<1> QED BY <1>3 DEF BlocksAcyclic

\* A chain of new rows closes none either: of the steps in a set, the last one
\* blocks nothing in it.
LEMMA ChainAcyclic ==
    ASSUME TypeOK, EdgesBetweenRows, BlocksAcyclic,
           NEW steps \in Chains,
           NEW after \in [DOMAIN steps -> Actions \union {NoAction}],
           MayFollow(steps, after),
           blocks' = blocks \union ChainEdges(steps, after)
    PROVE  BlocksAcyclic'
<1>1. PICK k \in Nat : steps \in [1 .. k -> Actions \ Rows]
  BY ChainFacts
<1>2. \A i, j \in DOMAIN steps : steps[i] = steps[j] => i = j
  BY ChainFacts
<1>3. ASSUME NEW S \in SUBSET Actions, S # {}
      PROVE  \E x \in S : \A y \in S : <<x, y>> \notin blocks'
  <2> DEFINE T == {i \in 1 .. k : steps[i] \in S}
  <2>1. CASE T = {}
    <3>1. PICK x \in S : \A y \in S : <<x, y>> \notin blocks
      BY <1>3 DEF BlocksAcyclic
    <3>2. \A y \in S : <<x, y>> \notin ChainEdges(steps, after)
      BY <1>1, <2>1, ChainEdgeFacts
    <3> QED BY <3>1, <3>2
  <2>2. CASE T # {}
    <3>1. PICK i \in T : \A j \in T : j <= i
      BY <2>2, LastIndex
    <3>2. steps[i] \notin Rows /\ steps[i] \in S /\ i \in DOMAIN steps
      BY <1>1
    <3>3. ASSUME NEW y \in S, <<steps[i], y>> \in blocks' PROVE FALSE
      <4>1. <<steps[i], y>> \notin blocks
        BY <3>2 DEF EdgesBetweenRows
      <4>2. PICK j \in DOMAIN steps :
                /\ <<steps[i], y>> = <<after[j], steps[j]>>
                /\ \/ after[j] \in Open
                   \/ j > 1 /\ j - 1 \in DOMAIN steps /\ after[j] = steps[j - 1]
        BY <3>3, <4>1, ChainEdgeFacts
      <4>3. steps[i] \notin Open
        BY <3>2 DEF Open, Rows, OpenStates
      <4>4. j > 1 /\ j - 1 \in DOMAIN steps /\ steps[i] = steps[j - 1]
        BY <4>2, <4>3
      <4>5. i = j - 1
        BY <1>2, <3>2, <4>4
      <4>6. j \in T
        BY <1>1, <4>2
      <4> QED BY <1>1, <3>1, <4>5, <4>6
    <3> QED BY <3>2, <3>3
  <2> QED BY <2>1, <2>2
<1> QED BY <1>3 DEF BlocksAcyclic

\* Every step keeps the graph acyclic.
LEMMA AcyclicStep ==
    TypeOK /\ EdgesBetweenRows /\ BlocksAcyclic /\ [Next]_vars => BlocksAcyclic'
<1> SUFFICES ASSUME TypeOK, EdgesBetweenRows, BlocksAcyclic, [Next]_vars
             PROVE  BlocksAcyclic'
  OBVIOUS
<1>1. ASSUME NEW a \in Actions, NEW b \in Actions, AddBlocker(b, a)
      PROVE  BlocksAcyclic'
  BY <1>1, AddBlockerAcyclic
<1>2. ASSUME NEW steps \in Chains,
             NEW after \in [DOMAIN steps -> Actions \union {NoAction}],
             InstantiateChain(steps, after)
      PROVE  BlocksAcyclic'
  BY <1>2, ChainAcyclic DEF InstantiateChain
<1>3. ASSUME NEW steps \in Chains, NEW a \in Actions, NEW r \in Reasons,
             Close(a, r, steps)
      PROVE  BlocksAcyclic'
  BY <1>3, ChainAcyclic, SequenceFollows DEF Close
<1>4. CASE blocks' = blocks
  BY <1>4, SameEdgesAcyclic
<1> QED
  BY <1>1, <1>2, <1>3, <1>4
  DEF Next, Maintain, ByHand, Add, ComeOut, RaiseChase, HideBehind, Snooze,
      StandDownCleared, WakeExpired, Tick, AddAs, SetState, Wake, vars

\* However blockers are added and pipelines inserted, no set of actions waits
\* for each other: there is always one of them that closing could start with.
THEOREM NeverACycle == Spec => []BlocksAcyclic
<1>1. Init => BlocksAcyclic
  BY DEF Init, BlocksAcyclic
<1> QED
  BY <1>1, TypeCorrect, EdgesAlwaysBetweenRows, AcyclicStep, PTL DEF Spec

----------------------------------------------------------------------------
(* What is hidden can come out *)

\* Every step keeps what an open action hides behind open, or stood down.
LEMMA HiddenStep ==
    TypeOK /\ EdgesBetweenRows /\ HiddenBehindSomething /\ [Next]_vars
        => HiddenBehindSomething'
<1> SUFFICES ASSUME TypeOK, EdgesBetweenRows, HiddenBehindSomething, [Next]_vars
             PROVE  HiddenBehindSomething'
  OBVIOUS
<1> USE DEF HiddenBehindSomething, TypeOK, Open, OpenStates
<1>1. ASSUME NEW a \in Actions, Add(a) \/ ComeOut(a) PROVE HiddenBehindSomething'
  BY <1>1, NoActionAssumption DEF Add, ComeOut, EdgesBetweenRows
<1>2. ASSUME NEW a \in Actions, NEW b \in Actions,
             RaiseChase(a, b) \/ AddBlocker(a, b) \/ HideBehind(a, b)
      PROVE  HiddenBehindSomething'
  <2>1. CASE RaiseChase(a, b)
    BY <2>1 DEF RaiseChase, EdgesBetweenRows
  <2>2. CASE AddBlocker(a, b)
    BY <2>2 DEF AddBlocker
  <2>3. CASE HideBehind(a, b)
    BY <2>3 DEF HideBehind
  <2> QED BY <1>2, <2>1, <2>2, <2>3
<1>3. ASSUME NEW a \in Actions, NEW d \in Dates, Snooze(a, d) PROVE HiddenBehindSomething'
  BY <1>3 DEF Snooze
<1>4. ASSUME NEW steps \in Chains,
             NEW after \in [DOMAIN steps -> Actions \union {NoAction}],
             InstantiateChain(steps, after)
      PROVE  HiddenBehindSomething'
  <2>1. \A x \in NewSteps(steps) : hidden_behind[x] = NoAction
    BY ChainFacts DEF EdgesBetweenRows
  <2>2. \A x \in Actions : x \in Open => x \in Open'
    BY <1>4 DEF InstantiateChain
  <2>3. \A x \in Actions : x \in Open' => x \in Open \/ x \in NewSteps(steps)
    BY <1>4 DEF InstantiateChain, Waiting, NewSteps
  <2> QED BY <1>4, <2>1, <2>2, <2>3 DEF InstantiateChain
<1>5. ASSUME NEW steps \in Chains, NEW a \in Actions, NEW r \in Reasons,
             Close(a, r, steps)
      PROVE  HiddenBehindSomething'
  <2>1. \A x \in NewSteps(steps) : hidden_behind[x] = NoAction
    BY ChainFacts DEF EdgesBetweenRows
  <2>2. \A x \in Open : x = a \/ x \in Chases(a) \/ x \in Open'
    BY <1>5 DEF Close, BlockedState
  <2>3. \A x \in Open' : x \in Open \/ x \in NewSteps(steps)
    <3>1. \A x \in Dependents(a) : x \in Open
      BY DEF Dependents
    <3>2. \A x \in Waiting(steps, InSequence(steps)) : x \in NewSteps(steps)
      BY DEF Waiting, NewSteps
    <3> QED BY <1>5, <3>1, <3>2 DEF Close, StateForReason
  <2>4. \A x \in Actions : closed_reason[x] = "obsolete" /\ x # a => closed_reason'[x] = "obsolete"
    BY <1>5 DEF Close
  <2>5. \A x \in Open : hidden_behind'[x] # NoAction =>
            hidden_behind'[x] = hidden_behind[x] /\ hidden_behind[x] # a
    BY <1>5 DEF Close, Hiding
  <2>6. \A x \in NewSteps(steps) : hidden_behind'[x] = NoAction
    BY <1>5, <2>1, ChainFacts DEF Close
  <2>7. \A x \in Chases(a) : x # a => closed_reason'[x] = "obsolete"
    BY <1>5 DEF Close, Chases
  <2>8. ASSUME NEW x \in Open', hidden_behind'[x] # NoAction
        PROVE  hidden_behind'[x] \in Open' \/ closed_reason'[hidden_behind'[x]] = "obsolete"
    <3>1. x \in Open /\ hidden_behind'[x] = hidden_behind[x] /\ hidden_behind[x] # a
      BY <2>3, <2>5, <2>6, <2>8
    <3>2. hidden_behind[x] \in Open \/ closed_reason[hidden_behind[x]] = "obsolete"
      BY <2>8, <3>1
    <3>3. hidden_behind[x] \in Actions
      BY <2>8, <3>1
    <3> QED BY <2>2, <2>4, <2>7, <3>1, <3>2, <3>3
  <2> QED BY <2>8
<1>6. ASSUME NEW late \in SUBSET Actions, StandDownCleared(late)
      PROVE  HiddenBehindSomething'
  BY <1>6 DEF StandDownCleared
<1>7. CASE WakeExpired
  BY <1>7 DEF WakeExpired, Expired
<1>8. CASE Tick
  BY <1>8 DEF Tick
<1>9. ASSUME NEW a \in Actions, NEW s \in OpenStates \union ClosedStates,
             NEW d \in Dates \union {NoDate}, AddAs(a, s, d) \/ SetState(a, s, d)
      PROVE  HiddenBehindSomething'
  <2>1. CASE AddAs(a, s, d)
    BY <2>1 DEF AddAs, EdgesBetweenRows
  <2>2. CASE SetState(a, s, d)
    BY <2>2 DEF SetState, Consistent, ClosedStates
  <2> QED BY <1>9, <2>1, <2>2
<1>10. ASSUME NEW a \in Actions, NEW s \in {"ready", "blocked"}, Wake(a, s)
       PROVE  HiddenBehindSomething'
  BY <1>10 DEF Wake
<1>11. CASE UNCHANGED vars
  BY <1>11 DEF vars
<1> QED
  BY <1>1, <1>2, <1>3, <1>4, <1>5, <1>6, <1>7, <1>8, <1>9, <1>10, <1>11
  DEF Next, Maintain, ByHand

\* An open action hides behind an open one, or behind a chase that was stood
\* down: every other close brings out what hid behind it.
THEOREM NothingHiddenForGood == Spec => []HiddenBehindSomething
<1>1. Init => HiddenBehindSomething
  BY DEF Init, HiddenBehindSomething, Open, OpenStates
<1> QED
  BY <1>1, TypeCorrect, EdgesAlwaysBetweenRows, HiddenStep, PTL DEF Spec

----------------------------------------------------------------------------
(* Closing happens once *)

\* Every step leaves the closed actions closed, for the reason they were.
LEMMA ClosedStep ==
    ASSUME TypeOK, [Next]_vars
    PROVE  \A x \in Rows \ Open :
              x \in Rows' \ Open' /\ closed_reason'[x] = closed_reason[x]
<1> USE DEF TypeOK, Rows, Open, OpenStates, ClosedStates
<1> DEFINE Stays == \A x \in Rows \ Open :
                       x \in Rows' \ Open' /\ closed_reason'[x] = closed_reason[x]
<1>1. ASSUME NEW a \in Actions, NEW b \in Actions,
             \/ Add(a) \/ ComeOut(a)
             \/ RaiseChase(a, b) \/ AddBlocker(a, b) \/ HideBehind(a, b)
      PROVE  Stays
  BY <1>1 DEF Add, ComeOut, RaiseChase, AddBlocker, HideBehind
<1>2. ASSUME NEW a \in Actions, NEW d \in Dates, Snooze(a, d) PROVE Stays
  BY <1>2 DEF Snooze
<1>3. ASSUME NEW steps \in Chains, NEW after, InstantiateChain(steps, after)
      PROVE  Stays
  <2>1. Waiting(steps, after) \subseteq NewSteps(steps) /\ NewSteps(steps) \subseteq Actions \ Rows
    BY ChainFacts DEF Waiting, NewSteps
  <2> QED BY <1>3, <2>1 DEF InstantiateChain
<1>4. ASSUME NEW steps \in Chains, NEW a \in Actions, NEW r \in Reasons, Close(a, r, steps)
      PROVE  Stays
  <2>1. /\ Waiting(steps, InSequence(steps)) \subseteq NewSteps(steps)
        /\ NewSteps(steps) \subseteq Actions \ Rows
    BY ChainFacts DEF Waiting, NewSteps
  <2>2. a \in Open /\ Chases(a) \subseteq Open /\ Dependents(a) \subseteq Open
    BY <1>4 DEF Close, Chases, Dependents
  <2> QED BY <1>4, <2>1, <2>2 DEF Close
<1>5. ASSUME NEW late \in SUBSET Actions, StandDownCleared(late) PROVE Stays
  BY <1>5 DEF StandDownCleared
<1>6. CASE WakeExpired
  BY <1>6 DEF WakeExpired, Expired
<1>7. CASE Tick
  BY <1>7 DEF Tick
<1>8. ASSUME NEW a \in Actions, NEW s \in OpenStates \union ClosedStates,
             NEW d \in Dates \union {NoDate}, AddAs(a, s, d) \/ SetState(a, s, d)
      PROVE  Stays
  BY <1>8 DEF AddAs, SetState, Consistent
<1>9. ASSUME NEW a \in Actions, NEW s \in {"ready", "blocked"}, Wake(a, s)
      PROVE  Stays
  BY <1>9 DEF Wake
<1>10. CASE UNCHANGED vars
  BY <1>10 DEF vars
<1> QED
  BY <1>1, <1>2, <1>3, <1>4, <1>5, <1>6, <1>7, <1>8, <1>9, <1>10
  DEF Next, Maintain, ByHand

\* No step -- a person's, a sweep's, a cascade's -- reopens an action that was
\* closed or rewrites the reason it was closed for.
THEOREM ClosedStaysClosed == Spec => ClosedForGood
<1>1. TypeOK /\ [Next]_vars =>
        [\A a \in Rows \ Open :
            a \in Rows' \ Open' /\ closed_reason'[a] = closed_reason[a]]_vars
  BY ClosedStep
<1> QED
  BY <1>1, TypeCorrect, PTL DEF Spec, ClosedForGood

----------------------------------------------------------------------------
(* Chases close with what they are about *)

\* Every step that closes an action leaves no open chase about it, unless that
\* action was itself a chase.
LEMMA StandsDownStep ==
    ASSUME TypeOK, EdgesBetweenRows, [Next]_vars
    PROVE  \A x \in Open \ Open' :
              raised[x] = NoAction => \A c \in Open' : raised'[c] # x
<1> USE DEF TypeOK, Open, OpenStates
<1> DEFINE Taken == \A x \in Open \ Open' :
                       raised[x] = NoAction => \A c \in Open' : raised'[c] # x
<1>1. ASSUME NEW steps \in Chains, NEW a \in Actions, NEW r \in Reasons, Close(a, r, steps)
      PROVE  Taken
  <2>1. \A x \in NewSteps(steps) : raised[x] = NoAction
    BY ChainFacts DEF EdgesBetweenRows
  <2>2. \A x \in Open : x = a \/ x \in Chases(a) \/ x \in Open'
    BY <1>1 DEF Close, BlockedState
  <2>3. \A x \in Open' : (x \in Open \/ x \in NewSteps(steps)) /\ x \notin Chases(a)
    <3>1. Dependents(a) \subseteq Open
      BY DEF Dependents
    <3>2. Waiting(steps, InSequence(steps)) \subseteq NewSteps(steps)
      BY DEF Waiting, NewSteps
    <3> QED BY <1>1, <3>1, <3>2 DEF Close, StateForReason
  <2>4. raised' = raised
    BY <1>1 DEF Close
  <2>5. \A x \in Chases(a) : raised[x] # NoAction
    BY NoActionAssumption DEF Chases
  <2> QED BY <2>1, <2>2, <2>3, <2>4, <2>5, NoActionAssumption DEF Chases
<1>2. ASSUME NEW late \in SUBSET Actions, StandDownCleared(late) PROVE Taken
  <2>1. \A x \in Open \ Open' : raised[x] \in Open
    BY <1>2 DEF StandDownCleared
  <2> QED BY <2>1, NoActionAssumption
<1>3. ASSUME NEW steps \in Chains, NEW after, InstantiateChain(steps, after)
      PROVE  Taken
  BY <1>3 DEF InstantiateChain
<1>4. ASSUME NEW a \in Actions, NEW b \in Actions,
             \/ Add(a) \/ ComeOut(a)
             \/ RaiseChase(a, b) \/ AddBlocker(a, b) \/ HideBehind(a, b)
      PROVE  Taken
  BY <1>4 DEF Add, ComeOut, RaiseChase, AddBlocker, HideBehind
<1>5. ASSUME NEW a \in Actions, NEW d \in Dates, Snooze(a, d) PROVE Taken
  BY <1>5 DEF Snooze
<1>6. CASE WakeExpired
  BY <1>6 DEF WakeExpired
<1>7. CASE Tick
  BY <1>7 DEF Tick
<1>8. ASSUME NEW a \in Actions, NEW s \in OpenStates \union ClosedStates,
             NEW d \in Dates \union {NoDate}, AddAs(a, s, d) \/ SetState(a, s, d)
      PROVE  Taken
  BY <1>8 DEF AddAs, SetState, Consistent, ClosedStates
<1>9. ASSUME NEW a \in Actions, NEW s \in {"ready", "blocked"}, Wake(a, s)
      PROVE  Taken
  BY <1>9 DEF Wake
<1>10. CASE UNCHANGED vars
  BY <1>10 DEF vars
<1> QED
  BY <1>1, <1>2, <1>3, <1>4, <1>5, <1>6, <1>7, <1>8, <1>9, <1>10
  DEF Next, Maintain, ByHand

\* An action that closes leaves no open chase about it behind, unless it is a
\* chase itself, stood down by a cascade that stops there.
THEOREM ClosingTakesChases == Spec => ClosingStandsDown
<1>1. TypeOK /\ EdgesBetweenRows /\ [Next]_vars =>
        [\A a \in Open \ Open' :
            raised[a] = NoAction => \A c \in Open' : raised'[c] # a]_vars
  BY StandsDownStep
<1> QED
  BY <1>1, TypeCorrect, EdgesAlwaysBetweenRows, PTL DEF Spec, ClosingStandsDown

----------------------------------------------------------------------------
(* The states ready and blocked agree with the graph *)

\* The new rows of a chain are in the state their edge says.
LEMMA ChainStates ==
    ASSUME TypeOK, EdgesBetweenRows,
           NEW steps \in Chains,
           NEW after \in [DOMAIN steps -> Actions \union {NoAction}],
           MayFollow(steps, after),
           blocks' = blocks \union ChainEdges(steps, after),
           NEW x \in NewSteps(steps)
    PROVE  /\ x \notin Waiting(steps, after) =>
                 \A b \in Actions : <<b, x>> \notin blocks'
           /\ x \in Waiting(steps, after) =>
                 \E b \in Open \union NewSteps(steps) : <<b, x>> \in blocks'
<1>1. \A b \in Actions : <<b, x>> \notin blocks
  BY ChainFacts DEF EdgesBetweenRows
<1>2. ASSUME x \notin Waiting(steps, after), NEW b \in Actions PROVE <<b, x>> \notin blocks'
  <2>1. <<b, x>> \notin ChainEdges(steps, after)
    BY <1>2, NoActionAssumption DEF ChainEdges, Waiting
  <2> QED BY <1>1, <2>1
<1>3. ASSUME x \in Waiting(steps, after)
      PROVE  \E b \in Open \union NewSteps(steps) : <<b, x>> \in blocks'
  <2>1. PICK i \in DOMAIN steps : after[i] # NoAction /\ x = steps[i]
    BY <1>3 DEF Waiting
  <2>2. <<after[i], steps[i]>> \in ChainEdges(steps, after)
    BY <2>1 DEF ChainEdges
  <2>3. after[i] \in Open \/ (i > 1 /\ after[i] = steps[i - 1])
    BY <2>1 DEF MayFollow
  <2>4. i > 1 => i - 1 \in DOMAIN steps
    BY ChainFacts
  <2>5. after[i] \in Open \union NewSteps(steps)
    BY <2>3, <2>4 DEF NewSteps
  <2> QED BY <2>1, <2>2, <2>5
<1> QED BY <1>2, <1>3

\* The edges a chain adds lead to its steps alone.
LEMMA ChainEdgesLeadToSteps ==
    ASSUME NEW steps, NEW after, NEW b, NEW x, x \notin NewSteps(steps)
    PROVE  <<b, x>> \notin ChainEdges(steps, after)
BY DEF ChainEdges, NewSteps

\* Closing keeps the states of the other rows equal to the graph.
LEMMA CloseMatches ==
    ASSUME TypeOK, EdgesBetweenRows, BlockedMatchesGraph,
           NEW steps \in Chains, NEW a \in Actions, NEW r \in Reasons, Close(a, r, steps)
    PROVE  BlockedMatchesGraph'
<1> USE DEF TypeOK, Open, OpenStates
<1> DEFINE after == InSequence(steps)
<1>1. NewSteps(steps) \subseteq Actions \ Rows
  BY ChainFacts
<1>2. Waiting(steps, after) \subseteq NewSteps(steps)
  BY DEF Waiting, NewSteps
<1>3. blocks' = blocks \union ChainEdges(steps, after)
  BY DEF Close
<1>4. Open' \subseteq (Open \ {a}) \union NewSteps(steps)
  BY <1>2 DEF Close, StateForReason, Dependents
<1>5. NewSteps(steps) \subseteq Open'
  BY <1>1, <1>2 DEF Close, Chases, Rows
<1>6. \A b \in Open : b = a \/ b \in Open' \/ closed_reason'[b] = "obsolete"
  BY DEF Close, BlockedState, Chases
<1>7. \A b \in Actions : b # a /\ closed_reason[b] = "obsolete" => closed_reason'[b] = "obsolete"
  BY DEF Close
<1>8. \A b \in Actions : \A x \in Rows : <<b, x>> \in blocks' <=> <<b, x>> \in blocks
  BY <1>1, <1>3, ChainEdgesLeadToSteps
<1>9. ASSUME NEW x \in Actions, state'[x] = "ready"
      PROVE  \A b \in Open' : <<b, x>> \notin blocks'
  <2>1. CASE x \in NewSteps(steps)
    <3>1. x \notin Waiting(steps, after)
      BY <1>1, <1>9, <2>1 DEF Close, Chases, Rows
    <3>2. \A b \in Actions : <<b, x>> \notin blocks'
      BY <1>3, <2>1, <3>1, ChainStates, SequenceFollows
    <3> QED BY <3>2
  <2>2. CASE x \notin NewSteps(steps)
    <3>1. x \in Open \ {a}
      BY <1>4, <1>9, <2>2
    <3>2. x \in Rows
      BY <3>1 DEF Rows
    <3>3. \A b \in Open \ {a} : <<b, x>> \notin blocks
      <4>1. CASE x \in Dependents(a)
        <5>1. BlockedState(x, Open \ {a}) = "ready"
          BY <1>2, <1>9, <2>2, <3>1, <4>1 DEF Close
        <5>2. CASE state[x] \in {"ready", "blocked"}
          BY <5>1, <5>2 DEF BlockedState, OpenBlockers
        <5>3. CASE state[x] \notin {"ready", "blocked"}
          BY <5>1, <5>3 DEF BlockedState
        <5> QED BY <5>2, <5>3
      <4>2. CASE x \notin Dependents(a)
        <5>1. state[x] = "ready"
          BY <1>2, <1>9, <2>2, <3>1, <4>2 DEF Close
        <5> QED BY <5>1 DEF BlockedMatchesGraph, OpenBlockers
      <4> QED BY <4>1, <4>2
    <3>4. ASSUME NEW b \in Open' PROVE <<b, x>> \notin blocks'
      <4>1. CASE b \in NewSteps(steps)
        <5>1. <<b, x>> \notin blocks
          BY <1>1, <4>1 DEF EdgesBetweenRows
        <5> QED BY <1>1, <1>8, <3>2, <4>1, <5>1
      <4>2. CASE b \notin NewSteps(steps)
        BY <1>4, <1>8, <3>2, <3>3, <4>2
      <4> QED BY <4>1, <4>2
    <3> QED BY <3>4
  <2> QED BY <2>1, <2>2
<1>10. ASSUME NEW x \in Actions, state'[x] = "blocked"
       PROVE  \E b \in Actions : /\ <<b, x>> \in blocks'
                                 /\ b \in Open' \/ closed_reason'[b] = "obsolete"
  <2>1. CASE x \in NewSteps(steps)
    <3>1. x \in Waiting(steps, after)
      BY <1>1, <1>10, <2>1 DEF Close, Chases, Rows, StateForReason
    <3>2. PICK i \in DOMAIN steps : after[i] # NoAction /\ x = steps[i]
      BY <3>1 DEF Waiting
    <3>3. i > 1 /\ after[i] = steps[i - 1]
      BY <3>2, ChainFacts DEF InSequence
    <3>4. i - 1 \in DOMAIN steps
      BY <3>3, ChainFacts
    <3>5. <<steps[i - 1], x>> \in ChainEdges(steps, after)
      BY <3>2, <3>3 DEF ChainEdges
    <3>6. steps[i - 1] \in NewSteps(steps)
      BY <3>4 DEF NewSteps
    <3> QED BY <1>1, <1>3, <1>5, <3>5, <3>6
  <2>2. CASE x \notin NewSteps(steps)
    <3>1. x \in Open \ {a} /\ x \notin Chases(a)
      BY <1>4, <1>10, <2>2 DEF Close
    <3>2. x \in Rows
      BY <3>1 DEF Rows
    <3>3. CASE x \in Dependents(a)
      <4>1. BlockedState(x, Open \ {a}) = "blocked"
        BY <1>2, <1>10, <2>2, <3>1, <3>3 DEF Close
      <4>2. PICK b \in Open \ {a} : <<b, x>> \in blocks
        BY <4>1 DEF BlockedState, OpenBlockers
      <4> QED BY <1>6, <1>8, <3>2, <4>2
    <3>4. CASE x \notin Dependents(a)
      <4>1. state[x] = "blocked"
        BY <1>2, <1>10, <2>2, <3>1, <3>4 DEF Close
      <4>2. PICK b \in Actions : /\ <<b, x>> \in blocks
                                 /\ b \in Open \/ closed_reason[b] = "obsolete"
        BY <4>1 DEF BlockedMatchesGraph
      <4>3. b # a
        BY <3>1, <3>4, <4>2 DEF Dependents
      <4> QED BY <1>6, <1>7, <1>8, <3>2, <4>2, <4>3
    <3> QED BY <3>3, <3>4
  <2> QED BY <2>1, <2>2
<1> QED BY <1>9, <1>10 DEF BlockedMatchesGraph, OpenBlockers

\* Instantiating a chain keeps the states equal to the graph.
LEMMA InstantiateMatches ==
    ASSUME TypeOK, EdgesBetweenRows, BlockedMatchesGraph,
           NEW steps \in Chains,
           NEW after \in [DOMAIN steps -> Actions \union {NoAction}],
           InstantiateChain(steps, after)
    PROVE  BlockedMatchesGraph'
<1> USE DEF TypeOK, Open, OpenStates
<1>1. NewSteps(steps) \subseteq Actions \ Rows
  BY ChainFacts
<1>2. Waiting(steps, after) \subseteq NewSteps(steps)
  BY DEF Waiting, NewSteps
<1>3. blocks' = blocks \union ChainEdges(steps, after) /\ MayFollow(steps, after)
  BY DEF InstantiateChain
<1>4. Open' = Open \union NewSteps(steps)
  BY <1>1, <1>2 DEF InstantiateChain, Rows
<1>5. \A b \in Actions : \A x \in Rows : <<b, x>> \in blocks' <=> <<b, x>> \in blocks
  BY <1>1, <1>3, ChainEdgesLeadToSteps
<1>6. \A b \in NewSteps(steps), x \in Actions : <<b, x>> \notin blocks
  BY <1>1 DEF EdgesBetweenRows
<1>7. ASSUME NEW x \in Actions, state'[x] = "ready"
      PROVE  \A b \in Open' : <<b, x>> \notin blocks'
  <2>1. CASE x \in NewSteps(steps)
    <3>1. x \notin Waiting(steps, after)
      BY <1>7 DEF InstantiateChain
    <3> QED BY <1>3, <2>1, <3>1, ChainStates
  <2>2. CASE x \notin NewSteps(steps)
    <3>1. state[x] = "ready"
      BY <1>2, <1>7, <2>2 DEF InstantiateChain
    <3>2. x \in Rows
      BY <3>1 DEF Rows
    <3>3. \A b \in Open : <<b, x>> \notin blocks
      BY <3>1 DEF BlockedMatchesGraph, OpenBlockers
    <3>4. \A b \in Open' : <<b, x>> \notin blocks'
      BY <1>4, <1>5, <1>6, <3>2, <3>3
    <3> QED BY <3>4
  <2> QED BY <2>1, <2>2
<1>8. ASSUME NEW x \in Actions, state'[x] = "blocked"
      PROVE  \E b \in Actions : /\ <<b, x>> \in blocks'
                                /\ b \in Open' \/ closed_reason'[b] = "obsolete"
  <2>1. CASE x \in NewSteps(steps)
    <3>1. x \in Waiting(steps, after)
      BY <1>1, <1>8, <2>1 DEF InstantiateChain, Rows
    <3>2. PICK b \in Open \union NewSteps(steps) : <<b, x>> \in blocks'
      BY <1>3, <2>1, <3>1, ChainStates
    <3> QED BY <1>1, <1>4, <3>2
  <2>2. CASE x \notin NewSteps(steps)
    <3>1. state[x] = "blocked"
      BY <1>2, <1>8, <2>2 DEF InstantiateChain
    <3>2. PICK b \in Actions : /\ <<b, x>> \in blocks
                               /\ b \in Open \/ closed_reason[b] = "obsolete"
      BY <3>1 DEF BlockedMatchesGraph
    <3> QED BY <1>3, <1>4, <3>2 DEF InstantiateChain
  <2> QED BY <2>1, <2>2
<1> QED BY <1>7, <1>8 DEF BlockedMatchesGraph, OpenBlockers

\* A new row has no edge, so it is ready and holds nothing up.
LEMMA NewRowMatches ==
    ASSUME TypeOK, EdgesBetweenRows, BlockedMatchesGraph,
           NEW a \in Actions, a \notin Rows, state' = [state EXCEPT ![a] = "ready"],
           blocks' = blocks, closed_reason' = closed_reason
    PROVE  BlockedMatchesGraph'
<1> USE DEF TypeOK, Open, OpenStates
<1>1. \A x \in Actions : <<a, x>> \notin blocks /\ <<x, a>> \notin blocks
  BY DEF EdgesBetweenRows
<1>2. Open' = Open \union {a} /\ \A x \in Actions : x # a => state'[x] = state[x]
  OBVIOUS
<1>3. ASSUME NEW x \in Actions, state'[x] = "ready"
      PROVE  \A b \in Open' : <<b, x>> \notin blocks'
  BY <1>1, <1>2, <1>3 DEF BlockedMatchesGraph, OpenBlockers
<1>4. ASSUME NEW x \in Actions, state'[x] = "blocked"
      PROVE  \E b \in Actions : /\ <<b, x>> \in blocks'
                                /\ b \in Open' \/ closed_reason'[b] = "obsolete"
  BY <1>2, <1>4 DEF BlockedMatchesGraph
<1> QED BY <1>3, <1>4 DEF BlockedMatchesGraph, OpenBlockers

\* Every step but the ones by hand keeps the states equal to the graph.
LEMMA MatchesStep ==
    TypeOK /\ EdgesBetweenRows /\ BlockedMatchesGraph /\ [Maintain]_vars
        => BlockedMatchesGraph'
<1> SUFFICES ASSUME TypeOK, EdgesBetweenRows, BlockedMatchesGraph, [Maintain]_vars
             PROVE  BlockedMatchesGraph'
  OBVIOUS
<1> USE DEF TypeOK, Open, OpenStates
<1>1. ASSUME NEW a \in Actions, Add(a) PROVE BlockedMatchesGraph'
  BY <1>1, NewRowMatches DEF Add
<1>2. ASSUME NEW a \in Actions, ComeOut(a) PROVE BlockedMatchesGraph'
  BY <1>2 DEF ComeOut, BlockedMatchesGraph, OpenBlockers
<1>3. ASSUME NEW c \in Actions, NEW s \in Actions, RaiseChase(c, s)
      PROVE  BlockedMatchesGraph'
  BY <1>3, NewRowMatches DEF RaiseChase
<1>4. ASSUME NEW b \in Actions, NEW a \in Actions, AddBlocker(b, a)
      PROVE  BlockedMatchesGraph'
  BY <1>4 DEF AddBlocker, BlockedMatchesGraph, OpenBlockers
<1>5. ASSUME NEW a \in Actions, NEW b \in Actions, HideBehind(a, b)
      PROVE  BlockedMatchesGraph'
  BY <1>5 DEF HideBehind, BlockedMatchesGraph, OpenBlockers
<1>6. ASSUME NEW a \in Actions, NEW d \in Dates, Snooze(a, d) PROVE BlockedMatchesGraph'
  BY <1>6 DEF Snooze, BlockedMatchesGraph, OpenBlockers
<1>7. ASSUME NEW late \in SUBSET Actions, StandDownCleared(late)
      PROVE  BlockedMatchesGraph'
  BY <1>7 DEF StandDownCleared, BlockedMatchesGraph, OpenBlockers
<1>8. CASE WakeExpired
  BY <1>8 DEF WakeExpired, Expired, BlockedMatchesGraph, OpenBlockers
<1>9. CASE Tick
  BY <1>9 DEF Tick, BlockedMatchesGraph, OpenBlockers
<1>10. CASE UNCHANGED vars
  BY <1>10 DEF vars, BlockedMatchesGraph, OpenBlockers
<1> QED
  BY <1>1, <1>2, <1>3, <1>4, <1>5, <1>6, <1>7, <1>8, <1>9, <1>10,
     InstantiateMatches, CloseMatches
  DEF Maintain

\* As long as no state is written by hand, a ready action has no open blocker,
\* and a blocked one has a blocker that is open or was stood down: what
\* applyBlockedState maintains across adding edges, inserting pipelines,
\* closing, snoozing, waking and standing down.
THEOREM GraphDecidesReadyOrBlocked == MaintainedSpec => []BlockedMatchesGraph
<1>1. Init => TypeOK /\ EdgesBetweenRows /\ BlockedMatchesGraph
  BY LastDayAssumption
  DEF Init, TypeOK, EdgesBetweenRows, BlockedMatchesGraph, OpenBlockers,
      OpenStates, ClosedStates, Reasons, Dates, NoDate
<1>2. [Maintain]_vars => [Next]_vars
  BY DEF Next
<1>3. /\ TypeOK /\ EdgesBetweenRows /\ BlockedMatchesGraph
      /\ [Maintain]_vars
      => (TypeOK /\ EdgesBetweenRows /\ BlockedMatchesGraph)'
  BY <1>2, TypeStep, EdgesStep, MatchesStep
<1> QED
  BY <1>1, <1>3, PTL DEF MaintainedSpec

\* Where the states match the graph, only a state written by hand can end that,
\* from any reachable state, whatever was written by hand before.
THEOREM MaintainingKeepsStates == Spec => MaintainKeepsStates
<1>1. TypeOK /\ EdgesBetweenRows /\ [Next]_vars
      => [BlockedMatchesGraph /\ ~BlockedMatchesGraph' => ~Maintain]_vars
  <2>1. TypeOK /\ EdgesBetweenRows /\ BlockedMatchesGraph /\ Maintain
        => BlockedMatchesGraph'
    BY MatchesStep
  <2> QED BY <2>1
<1> QED
  BY <1>1, TypeCorrect, EdgesAlwaysBetweenRows, PTL DEF Spec, MaintainKeepsStates
=============================================================================
