------------------------- MODULE ProjectGraphProofs -------------------------
(***************************************************************************)
(* What the project table keeps, for any number of projects and a calendar *)
(* of any length.                                                          *)
(***************************************************************************)
EXTENDS ProjectGraph, TLAPS

\* The values a status written by hand may take.
Statuses == OpenStatuses \union TerminalStatuses

----------------------------------------------------------------------------
(* Types and rows *)

\* applyProjectBlockedState leaves a status, and no row disappears through it.
LEMMA BlockedStatusType ==
    ASSUME TypeOK, NEW p \in Projects, NEW edges, NEW open
    PROVE  /\ BlockedStatus(p, edges, open) \in Statuses \union {"none"}
           /\ p \in Rows => BlockedStatus(p, edges, open) # "none"
BY DEF TypeOK, BlockedStatus, Statuses, OpenStatuses, TerminalStatuses, Rows

\* Every step leaves every column with a value of its type.
LEMMA TypeStep ==
    TypeOK /\ [Next]_vars => TypeOK'
<1> SUFFICES ASSUME TypeOK, [Next]_vars PROVE TypeOK'
  OBVIOUS
<1> USE DEF TypeOK, OpenStatuses, TerminalStatuses, Dates, NoDate
<1>1. ASSUME NEW p \in Projects, NEW up \in Projects \union {NoProject},
             Add(p, up) \/ SetParent(p, up)
      PROVE  TypeOK'
  BY <1>1 DEF Add, SetParent
<1>2. ASSUME NEW p \in Projects, NEW q \in Projects,
             BlockProject(q, p) \/ UnblockProject(q, p)
      PROVE  TypeOK'
  <2>1. blocks' \in SUBSET (Projects \X Projects)
    BY <1>2 DEF BlockProject, UnblockProject
  <2>2. BlockedStatus(p, blocks', Open) \in Statuses \union {"none"}
    BY BlockedStatusType
  <2> QED BY <1>2, <2>1, <2>2 DEF BlockProject, UnblockProject, Statuses
<1>3. ASSUME NEW p \in Projects, NEW s \in {"done", "retired"}, CloseProject(p, s)
      PROVE  TypeOK'
  <2>1. \A q \in Projects : BlockedStatus(q, blocks, Open \ {p}) \in Statuses \union {"none"}
    BY BlockedStatusType
  <2>2. status' \in [Projects -> OpenStatuses \union TerminalStatuses \union {"none"}]
    BY <1>3, <2>1 DEF CloseProject, Statuses
  <2> QED BY <1>3, <2>2 DEF CloseProject
<1>4. ASSUME NEW p \in Projects, NEW d \in Dates, Snooze(p, d) \/ SnoozeClosed(p, d)
      PROVE  TypeOK'
  BY <1>4 DEF Snooze, SnoozeClosed
<1>5. CASE WakeExpired
  BY <1>5 DEF WakeExpired
<1>6. CASE Tick
  BY <1>6, LastDayAssumption DEF Tick
<1>7. ASSUME NEW p \in Projects, NEW s \in OpenStatuses \union TerminalStatuses,
             NEW d \in Dates \union {NoDate}, NEW up \in Projects \union {NoProject},
             SetStatus(p, s, d) \/ AddAs(p, s, d, up) \/ Wake(p, s)
      PROVE  TypeOK'
  BY <1>7 DEF SetStatus, AddAs, Wake
<1>8. ASSUME NEW p \in Projects, NEW q \in Projects,
             Supersede(p, q) \/ SetParentJSON(p, q)
      PROVE  TypeOK'
  BY <1>8 DEF Supersede, SetParentJSON
<1>9. CASE UNCHANGED vars
  BY <1>9 DEF vars
<1> QED
  BY <1>1, <1>2, <1>3, <1>4, <1>5, <1>6, <1>7, <1>8, <1>9
  DEF Next, Maintain, PastTheGraph

\* Type correctness of the project table, whichever command writes it.
THEOREM TypeCorrect == Spec => []TypeOK
<1>1. Init => TypeOK
  BY LastDayAssumption DEF Init, TypeOK, OpenStatuses, TerminalStatuses, Dates, NoDate
<1> QED
  BY <1>1, TypeStep, PTL DEF Spec

\* A row stays a row: nothing deletes one.
LEMMA RowsStay ==
    ASSUME TypeOK, [Next]_vars
    PROVE  Rows \subseteq Rows'
<1> USE DEF TypeOK, Rows, Open, OpenStatuses, TerminalStatuses
<1>1. ASSUME NEW p \in Projects, NEW up, Add(p, up) \/ SetParent(p, up)
      PROVE  Rows \subseteq Rows'
  BY <1>1 DEF Add, SetParent
<1>2. ASSUME NEW p \in Projects, NEW q \in Projects,
             BlockProject(q, p) \/ UnblockProject(q, p)
      PROVE  Rows \subseteq Rows'
  BY <1>2, BlockedStatusType DEF BlockProject, UnblockProject
<1>3. ASSUME NEW p \in Projects, NEW s \in {"done", "retired"}, CloseProject(p, s)
      PROVE  Rows \subseteq Rows'
  <2>1. \A q \in Rows : BlockedStatus(q, blocks, Open \ {p}) # "none"
    BY BlockedStatusType
  <2> QED BY <1>3, <2>1 DEF CloseProject
<1>4. ASSUME NEW p \in Projects, NEW d \in Dates, Snooze(p, d) \/ SnoozeClosed(p, d)
      PROVE  Rows \subseteq Rows'
  BY <1>4 DEF Snooze, SnoozeClosed
<1>5. CASE WakeExpired
  BY <1>5 DEF WakeExpired
<1>6. CASE Tick
  BY <1>6 DEF Tick
<1>7. ASSUME NEW p \in Projects, NEW s \in OpenStatuses \union TerminalStatuses,
             NEW d, NEW up, SetStatus(p, s, d) \/ AddAs(p, s, d, up) \/ Wake(p, s)
      PROVE  Rows \subseteq Rows'
  BY <1>7 DEF SetStatus, AddAs, Wake
<1>8. ASSUME NEW p \in Projects, NEW q \in Projects,
             Supersede(p, q) \/ SetParentJSON(p, q)
      PROVE  Rows \subseteq Rows'
  BY <1>8 DEF Supersede, SetParentJSON
<1>9. CASE UNCHANGED vars
  BY <1>9 DEF vars
<1> QED
  BY <1>1, <1>2, <1>3, <1>4, <1>5, <1>6, <1>7, <1>8, <1>9
  DEF Next, Maintain, PastTheGraph

----------------------------------------------------------------------------
(* No cycle of blockers *)

\* The edge `project block` adds closes no cycle: a set of projects that wait
\* for each other either reaches into what the blocked one already blocks, where
\* the blocker is not, or lies outside it and is decided by the old edges.
LEMMA BlockAcyclic ==
    ASSUME TypeOK, BlocksAcyclic, NEW p \in Projects, NEW b \in Projects, BlockProject(b, p)
    PROVE  BlocksAcyclic'
<1>1. PICK R \in SUBSET Projects : p \in R /\ ClosedUnderBlocks(R) /\ b \notin R
  BY DEF BlockProject, ProjectBlocks
<1>2. blocks' = blocks \union {<<b, p>>}
  BY DEF BlockProject
<1>3. ASSUME NEW S \in SUBSET Projects, S # {}
      PROVE  \E x \in S : \A y \in S : <<x, y>> \notin blocks'
  <2>1. CASE S \intersect R # {}
    <3>1. PICK x \in S \intersect R : \A y \in S \intersect R : <<x, y>> \notin blocks
      BY <2>1 DEF BlocksAcyclic
    <3>2. ASSUME NEW y \in S, <<x, y>> \in blocks' PROVE FALSE
      <4>1. <<x, y>> \in blocks
        BY <1>1, <1>2, <3>1, <3>2
      <4>2. y \in R
        BY <1>1, <3>1, <4>1 DEF ClosedUnderBlocks
      <4> QED BY <3>1, <4>1, <4>2
    <3> QED BY <3>1, <3>2
  <2>2. CASE S \intersect R = {}
    <3>1. PICK x \in S : \A y \in S : <<x, y>> \notin blocks
      BY <1>3 DEF BlocksAcyclic
    <3>2. \A y \in S : <<x, y>> \notin blocks'
      BY <1>1, <1>2, <2>2, <3>1
    <3> QED BY <3>1, <3>2
  <2> QED BY <2>1, <2>2
<1> QED BY <1>3 DEF BlocksAcyclic

\* No other command adds an edge.
LEMMA OthersAddNoEdge ==
    ASSUME [Next]_vars
    PROVE  \/ blocks' \subseteq blocks
           \/ \E p, q \in Projects : BlockProject(q, p)
BY DEF Next, Maintain, PastTheGraph, vars, Add, SetParent, UnblockProject, CloseProject,
       Snooze, WakeExpired, Tick, AddAs, SetStatus, Wake, SnoozeClosed, Supersede,
       SetParentJSON

\* Projects never wait for each other in a circle.
THEOREM NeverACycle == Spec => []BlocksAcyclic
<1>1. Init => BlocksAcyclic
  BY DEF Init, BlocksAcyclic
<1>2. TypeOK /\ BlocksAcyclic /\ [Next]_vars => BlocksAcyclic'
  <2> SUFFICES ASSUME TypeOK, BlocksAcyclic, [Next]_vars PROVE BlocksAcyclic'
    OBVIOUS
  <2>1. CASE blocks' \subseteq blocks
    BY <2>1 DEF BlocksAcyclic
  <2> QED BY <2>1, OthersAddNoEdge, BlockAcyclic
<1> QED
  BY <1>1, <1>2, TypeCorrect, PTL DEF Spec

----------------------------------------------------------------------------
(* The tree *)

\* A parent is named by a row and is a row, JSON or not.
LEMMA ParentRowsStep ==
    TypeOK /\ ParentsAreRows /\ [Next]_vars => ParentsAreRows'
<1> SUFFICES ASSUME TypeOK, ParentsAreRows, [Next]_vars PROVE ParentsAreRows'
  OBVIOUS
<1>0. Rows \subseteq Rows'
  BY RowsStay
<1>1. CASE UNCHANGED parent
  BY <1>0, <1>1 DEF ParentsAreRows
<1>2. ASSUME NEW p \in Rows', NEW up \in Rows \union {NoProject},
             parent' = [parent EXCEPT ![p] = up]
      PROVE  ParentsAreRows'
  <2>1. Rows' \subseteq Projects
    BY DEF Rows
  <2>2. \A q \in Projects : parent'[q] = IF q = p THEN up ELSE parent[q]
    BY <1>2, <2>1 DEF TypeOK
  <2> QED BY <1>0, <1>2, <2>1, <2>2 DEF ParentsAreRows
<1>3. ASSUME NEW p \in Projects, NEW up \in Projects \union {NoProject}, Add(p, up)
      PROVE  ParentsAreRows'
  <2>1. p \in Rows'
    BY <1>3 DEF Add, Rows, TypeOK
  <2> QED BY <1>2, <1>3, <2>1 DEF Add
<1>4. ASSUME NEW p \in Projects, NEW up \in Projects \union {NoProject},
             SetParent(p, up) \/ SetParentJSON(p, up)
      PROVE  ParentsAreRows'
  BY <1>0, <1>2, <1>4 DEF SetParent, SetParentJSON
<1>5. ASSUME NEW p \in Projects, NEW s \in OpenStatuses \union TerminalStatuses,
             NEW d \in Dates \union {NoDate}, NEW up \in Projects \union {NoProject},
             AddAs(p, s, d, up)
      PROVE  ParentsAreRows'
  <2>1. p \in Rows'
    BY <1>5 DEF AddAs, Rows, TypeOK, OpenStatuses, TerminalStatuses
  <2> QED BY <1>2, <1>5, <2>1 DEF AddAs
<1> QED
  BY <1>1, <1>3, <1>4, <1>5
  DEF Next, Maintain, PastTheGraph, vars, BlockProject, UnblockProject, CloseProject, Snooze,
      WakeExpired, Tick, SetStatus, Wake, SnoozeClosed, Supersede

\* A parent outside the child's own subtree closes no loop.
LEMMA SetParentAcyclic ==
    ASSUME TypeOK, ParentsAcyclic,
           NEW p \in Projects, NEW up \in Projects \union {NoProject}, SetParent(p, up)
    PROVE  ParentsAcyclic'
<1>1. parent' = [parent EXCEPT ![p] = up]
  BY DEF SetParent
<1>2. \A q \in Projects : parent'[q] = IF q = p THEN up ELSE parent[q]
  BY <1>1 DEF TypeOK
<1>3. ASSUME NEW S \in SUBSET Projects, S # {} PROVE \E x \in S : parent'[x] \notin S
  <2>1. CASE up = NoProject
    <3>1. PICK x \in S : parent[x] \notin S
      BY <1>3 DEF ParentsAcyclic
    <3> QED BY <1>2, <2>1, <3>1, NoProjectAssumption
  <2>2. CASE up # NoProject
    <3>1. PICK R \in SUBSET Projects : up \in R /\ ClosedUnderParent(R) /\ p \notin R
      BY <2>2 DEF SetParent, IsAncestry
    <3>2. CASE S \intersect R # {}
      <4>1. PICK x \in S \intersect R : parent[x] \notin S \intersect R
        BY <3>2 DEF ParentsAcyclic
      <4>2. parent[x] = NoProject \/ parent[x] \in R
        BY <3>1, <4>1 DEF ClosedUnderParent
      <4>3. parent[x] \notin S
        BY <4>1, <4>2, NoProjectAssumption
      <4> QED BY <1>2, <3>1, <4>1, <4>3
    <3>3. CASE S \intersect R = {}
      <4>1. PICK x \in S : parent[x] \notin S
        BY <1>3 DEF ParentsAcyclic
      <4> QED BY <1>2, <3>1, <3>3, <4>1
    <3> QED BY <3>2, <3>3
  <2> QED BY <2>1, <2>2
<1> QED BY <1>3 DEF ParentsAcyclic

\* A project being added has nothing below it, so no parent makes a loop.
LEMMA AddAcyclic ==
    ASSUME TypeOK, ParentsAreRows, ParentsAcyclic,
           NEW p \in Projects, p \notin Rows, NEW up \in Rows \union {NoProject},
           parent' = [parent EXCEPT ![p] = up]
    PROVE  ParentsAcyclic'
<1>1. \A q \in Projects : parent'[q] = IF q = p THEN up ELSE parent[q]
  BY DEF TypeOK
<1>2. ASSUME NEW S \in SUBSET Projects, S # {} PROVE \E x \in S : parent'[x] \notin S
  <2>1. CASE S = {p}
    BY <1>1, <2>1, NoProjectAssumption
  <2>2. CASE S # {p}
    <3>1. S \ {p} # {}
      BY <1>2, <2>2
    <3>2. PICK x \in S \ {p} : parent[x] \notin S \ {p}
      BY <3>1 DEF ParentsAcyclic
    <3>3. parent[x] # p
      BY <3>2, NoProjectAssumption DEF ParentsAreRows
    <3> QED BY <1>1, <3>2, <3>3
  <2> QED BY <2>1, <2>2
<1> QED BY <1>2 DEF ParentsAcyclic

\* Every project has a root above it until a parent_id written as JSON makes a
\* loop: no other command can.
THEOREM OnlyJSONMakesALoop == Spec => OnlyJSONClosesALoop
<1>1. Init => ParentsAreRows
  BY DEF Init, ParentsAreRows
<1>2. ASSUME TypeOK, ParentsAreRows, ParentsAcyclic, Maintain \/ PastTheGraph
      PROVE  ParentsAcyclic'
  <2>1. CASE UNCHANGED parent
    BY <1>2, <2>1 DEF ParentsAcyclic
  <2>2. ASSUME NEW p \in Projects, NEW up \in Projects \union {NoProject}, Add(p, up)
        PROVE  ParentsAcyclic'
    BY <1>2, <2>2, AddAcyclic DEF Add
  <2>3. ASSUME NEW p \in Projects, NEW up \in Projects \union {NoProject}, SetParent(p, up)
        PROVE  ParentsAcyclic'
    BY <1>2, <2>3, SetParentAcyclic
  <2>4. ASSUME NEW p \in Projects, NEW s, NEW d, NEW up, AddAs(p, s, d, up)
        PROVE  ParentsAcyclic'
    BY <1>2, <2>4, AddAcyclic DEF AddAs
  <2> QED
    BY <1>2, <2>1, <2>2, <2>3, <2>4
    DEF Maintain, PastTheGraph, BlockProject, UnblockProject, CloseProject, Snooze,
        WakeExpired, Tick, SetStatus, Wake, SnoozeClosed, Supersede
<1>3. TypeOK /\ ParentsAreRows
         => [ParentsAcyclic /\ ~ParentsAcyclic' => ~(Maintain \/ PastTheGraph)]_vars
  BY <1>2
<1> QED
  BY <1>1, <1>3, ParentRowsStep, TypeCorrect, PTL DEF Spec, OnlyJSONClosesALoop

----------------------------------------------------------------------------
(* Statuses and the graph *)

\* Edges are between rows.
LEMMA EdgesStep ==
    TypeOK /\ EdgesBetweenRows /\ [Next]_vars => EdgesBetweenRows'
<1> SUFFICES ASSUME TypeOK, EdgesBetweenRows, [Next]_vars PROVE EdgesBetweenRows'
  OBVIOUS
<1>0. Rows \subseteq Rows'
  BY RowsStay
<1>1. CASE blocks' \subseteq blocks
  BY <1>0, <1>1 DEF EdgesBetweenRows
<1>2. ASSUME NEW p \in Projects, NEW b \in Projects, BlockProject(b, p)
      PROVE  EdgesBetweenRows'
  <2>1. p \in Rows /\ b \in Rows
    BY <1>2 DEF BlockProject, Open, Rows, OpenStatuses
  <2>2. blocks' = blocks \union {<<b, p>>}
    BY <1>2 DEF BlockProject
  <2> QED BY <1>0, <2>1, <2>2 DEF EdgesBetweenRows
<1> QED
  BY <1>1, <1>2, OthersAddNoEdge

\* A project agrees with the graph after a step that ends it, re-evaluates it, or
\* leaves it and its open blockers as they were.
LEMMA AgreesAfter ==
    ASSUME StatusMatchesGraph, NEW x \in Projects,
           \/ status'[x] \in TerminalStatuses
           \/ status'[x] = BlockedStatus(x, blocks', Open')
           \/ /\ status'[x] = status[x]
              /\ \A b \in Open' : <<b, x>> \in blocks' <=> <<b, x>> \in blocks
              /\ \A b \in Open \ Open' : <<b, x>> \notin blocks
              /\ \A b \in Open' \ Open : <<b, x>> \notin blocks'
    PROVE  /\ status'[x] = "active"  => ~\E b \in Open' : <<b, x>> \in blocks'
           /\ status'[x] = "blocked" => \E b \in Open' : <<b, x>> \in blocks'
<1>1. CASE status'[x] \in TerminalStatuses
  BY <1>1 DEF TerminalStatuses
<1>2. CASE status'[x] = BlockedStatus(x, blocks', Open')
  BY <1>2 DEF BlockedStatus
<1>3. CASE /\ status'[x] = status[x]
           /\ \A b \in Open' : <<b, x>> \in blocks' <=> <<b, x>> \in blocks
           /\ \A b \in Open \ Open' : <<b, x>> \notin blocks
           /\ \A b \in Open' \ Open : <<b, x>> \notin blocks'
  <2>1. (\E b \in Open' : <<b, x>> \in blocks') <=> (\E b \in Open : <<b, x>> \in blocks)
    BY <1>3
  <2> QED BY <1>3, <2>1 DEF StatusMatchesGraph, OpenProjectBlockers
<1> QED BY <1>1, <1>2, <1>3

\* Every step but those past applyProjectBlockedState keeps the agreement.
LEMMA MatchesStep ==
    ASSUME TypeOK, EdgesBetweenRows, StatusMatchesGraph, Maintain
    PROVE  StatusMatchesGraph'
<1> USE DEF TypeOK
<1>1. ASSUME NEW p \in Projects, NEW up \in Projects \union {NoProject}, Add(p, up)
      PROVE  StatusMatchesGraph'
  <2>1. \A x \in Projects : <<p, x>> \notin blocks /\ <<x, p>> \notin blocks
    BY <1>1 DEF Add, EdgesBetweenRows
  <2>2. Open' = Open \union {p} /\ \A x \in Projects \ {p} : status'[x] = status[x]
    BY <1>1 DEF Add, Open, OpenStatuses
  <2>3. blocks' = blocks /\ status'[p] = "active"
    BY <1>1 DEF Add
  <2> QED BY <2>1, <2>2, <2>3 DEF StatusMatchesGraph, OpenProjectBlockers
<1>2. ASSUME NEW p \in Projects, NEW up \in Projects \union {NoProject}, SetParent(p, up)
      PROVE  StatusMatchesGraph'
  BY <1>2 DEF SetParent, StatusMatchesGraph, OpenProjectBlockers, Open
<1>3. ASSUME NEW p \in Projects, NEW b \in Projects, BlockProject(b, p) \/ UnblockProject(b, p)
      PROVE  StatusMatchesGraph'
  <2>1. \A x \in Projects : status'[x] =
            IF x \in {p} THEN BlockedStatus(x, blocks', Open) ELSE status[x]
    BY <1>3 DEF BlockProject, UnblockProject
  <2>2. Open' = Open
    BY <2>1 DEF Open, OpenStatuses, BlockedStatus
  <2>3. \A x \in Projects \ {p}, c \in Open' : <<c, x>> \in blocks' <=> <<c, x>> \in blocks
    BY <1>3 DEF BlockProject, UnblockProject
  <2>4. \A x \in Projects :
            \/ status'[x] = BlockedStatus(x, blocks', Open')
            \/ /\ status'[x] = status[x]
               /\ \A c \in Open' : <<c, x>> \in blocks' <=> <<c, x>> \in blocks
    BY <2>1, <2>2, <2>3
  <2> QED BY <2>2, <2>4, AgreesAfter DEF StatusMatchesGraph, OpenProjectBlockers
<1>4. ASSUME NEW p \in Projects, NEW s \in {"done", "retired"}, CloseProject(p, s)
      PROVE  StatusMatchesGraph'
  <2> DEFINE T == {q \in Projects : <<p, q>> \in blocks}
  <2>1. blocks' = blocks /\ status'[p] \in TerminalStatuses
    BY <1>4 DEF CloseProject, TerminalStatuses
  <2>2. \A x \in Projects \ {p} : status'[x] =
            IF x \in T THEN BlockedStatus(x, blocks, Open \ {p}) ELSE status[x]
    BY <1>4 DEF CloseProject
  <2>3. Open' = Open \ {p}
    <3>1. \A x \in Projects \ {p} : x \in Open' <=> x \in Open
      BY <2>2 DEF Open, OpenStatuses, BlockedStatus
    <3>2. p \notin Open'
      BY <2>1 DEF Open, OpenStatuses, TerminalStatuses
    <3> QED BY <3>1, <3>2 DEF Open
  <2>4. \A x \in Projects :
            \/ status'[x] \in TerminalStatuses
            \/ status'[x] = BlockedStatus(x, blocks', Open')
            \/ /\ status'[x] = status[x]
               /\ \A c \in Open' : <<c, x>> \in blocks' <=> <<c, x>> \in blocks
               /\ \A c \in Open \ Open' : <<c, x>> \notin blocks
    BY <2>1, <2>2, <2>3
  <2> QED BY <2>3, <2>4, AgreesAfter DEF StatusMatchesGraph, OpenProjectBlockers
<1>5. ASSUME NEW p \in Projects, NEW d \in Dates, Snooze(p, d) PROVE StatusMatchesGraph'
  BY <1>5 DEF Snooze, StatusMatchesGraph, OpenProjectBlockers, Open, OpenStatuses
<1>6. CASE WakeExpired
  BY <1>6 DEF WakeExpired, Expired, StatusMatchesGraph, OpenProjectBlockers, Open, OpenStatuses
<1>7. CASE Tick
  BY <1>7 DEF Tick, StatusMatchesGraph, OpenProjectBlockers, Open
<1> QED
  BY <1>1, <1>2, <1>3, <1>4, <1>5, <1>6, <1>7 DEF Maintain

\* Where the statuses match the graph, adding, blocking, unblocking, closing,
\* snoozing and waking leave them matching: only the commands that move a status
\* past applyProjectBlockedState end the agreement.
THEOREM MaintainingKeepsStatuses == Spec => MaintainKeepsStatuses
<1>1. TypeOK /\ EdgesBetweenRows /\ StatusMatchesGraph /\ Maintain => StatusMatchesGraph'
  BY MatchesStep
<1>2. TypeOK /\ EdgesBetweenRows
         => [StatusMatchesGraph /\ ~StatusMatchesGraph' => ~Maintain]_vars
  BY <1>1
<1>3. Init => EdgesBetweenRows
  BY DEF Init, EdgesBetweenRows
<1> QED
  BY <1>2, <1>3, EdgesStep, TypeCorrect, PTL DEF Spec, MaintainKeepsStatuses

----------------------------------------------------------------------------
(* Projects that are over *)

\* No edge added or removed, no cascade and no sweep changes the status of a
\* project that is over.
THEOREM OverStaysOver == Spec => OverUntilSaidOtherwise
<1>1. ASSUME TypeOK, Maintain, NEW x \in Rows \ Open PROVE status'[x] = status[x]
  <2> USE DEF TypeOK, Rows, Open, OpenStatuses, TerminalStatuses
  <2>1. \A edges, open : BlockedStatus(x, edges, open) = status[x]
    BY <1>1 DEF BlockedStatus
  <2>2. ASSUME NEW p \in Projects, NEW up \in Projects \union {NoProject},
               Add(p, up) \/ SetParent(p, up)
        PROVE  status'[x] = status[x]
    BY <1>1, <2>2 DEF Add, SetParent
  <2>3. ASSUME NEW p \in Projects, NEW q \in Projects,
               BlockProject(q, p) \/ UnblockProject(q, p)
        PROVE  status'[x] = status[x]
    BY <1>1, <2>1, <2>3 DEF BlockProject, UnblockProject
  <2>4. ASSUME NEW p \in Projects, NEW s, CloseProject(p, s) PROVE status'[x] = status[x]
    BY <1>1, <2>1, <2>4 DEF CloseProject
  <2>5. ASSUME NEW p \in Projects, NEW d \in Dates, Snooze(p, d) PROVE status'[x] = status[x]
    BY <1>1, <2>5 DEF Snooze
  <2>6. CASE WakeExpired
    BY <1>1, <2>6 DEF WakeExpired, Expired
  <2>7. CASE Tick
    BY <1>1, <2>7 DEF Tick
  <2> QED BY <1>1, <2>2, <2>3, <2>4, <2>5, <2>6, <2>7 DEF Maintain
<1>2. TypeOK => [(\E p \in Rows \ Open : status'[p] # status[p]) => ~Maintain]_vars
  BY <1>1
<1> QED
  BY <1>2, TypeCorrect, PTL DEF Spec, OverUntilSaidOtherwise
=============================================================================
