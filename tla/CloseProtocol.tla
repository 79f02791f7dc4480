--------------------------- MODULE CloseProtocol ---------------------------
(***************************************************************************)
(* The operations of roz that create rows: `action add`, closing an action *)
(* whose verb starts a pipeline, and `pr chain`.  Each runs in phases that *)
(* are separate SQLite transactions -- read what to do, allocate an        *)
(* identifier per row (a statement of its own that always commits), write  *)
(* -- so a process can stop, or another can act, between any two of them.  *)
(* What a write does to the action table is the step of ActionGraph of the *)
(* same name; this module adds the verbs, subjects and pipelines a plan is *)
(* made from, and the sequence table.  Actions are the numbers 1, 2, ...   *)
(***************************************************************************)
EXTENDS ActionGraph

CONSTANTS
    MaxActions,     \* the identifiers are 1 .. MaxActions
    Procs,          \* processes on the database: commands, the server, an agent
    PRs,            \* tracked pull requests
    NoPR,           \* no subject
    Verbs,          \* the vocabulary
    StartsPipeline, \* the verbs with starts_pipeline set
    Pipelines,      \* the names of pipelines
    NoPipeline,     \* what a pull request follows that no pipeline reaches
    StepLists,      \* the lists of steps a pipeline can have: verbs, which may repeat
    Facts           \* what can be true of a pull request: verbs whose predicate holds

ASSUME NumbersAssumption == MaxActions \in Nat /\ Actions = 1 .. MaxActions
ASSUME NoPRAssumption == NoPR \notin PRs
ASSUME StartsPipelineAssumption == StartsPipeline \subseteq Verbs
ASSUME NoPipelineAssumption == NoPipeline \notin Pipelines
ASSUME StepListsAssumption == \A c \in StepLists : c \in Seq(Verbs) /\ Len(c) <= MaxSteps
ASSUME FactsAssumption == Facts \subseteq SUBSET Verbs

VARIABLES
    verb,           \* action.verb
    subject,        \* the action_pr row with role 'subject'
    facts,          \* per pull request, the verbs whose predicate it satisfies
    pipeline,       \* effectivePipeline of each pull request
    pipeline_step,  \* the steps of each pipeline
    next_n,         \* sequence.next_n for actions
    plan            \* what each process is in the middle of

columns  == <<verb, subject>>
observed == <<facts, pipeline, pipeline_step>>
allVars  == <<vars, columns, observed, next_n, plan>>

\* A plan: what it is for, what was read -- a chain's steps also by their place
\* in the pipeline -- and the numbers allocated so far.
Idle == [op |-> "idle", action |-> NoAction, verb |-> "none", pr |-> NoPR,
         reason |-> "none", from |-> NoPipeline, at |-> <<>>, want |-> <<>>, ids |-> <<>>]

Allocated(p) == Len(plan[p].ids) = Len(plan[p].want)

----------------------------------------------------------------------------
(* What a plan reads *)

\* Where an element of a set of numbers comes in it, the k-th one, and all of
\* them, in order.
RankIn(S, x) == Cardinality({y \in S : y <= x})
Nth(S, k)    == CHOOSE x \in S : RankIn(S, x) = k
InOrder(S)   == [k \in 1 .. Cardinality(S) |-> Nth(S, k)]

\* The steps of the pipeline that reaches pr, and where in it a verb is.
Steps(pr)     == IF pipeline[pr] = NoPipeline THEN <<>> ELSE pipeline_step[pipeline[pr]]
StepsOf(pr, v) == {i \in DOMAIN Steps(pr) : Steps(pr)[i] = v}

VerbsAt(pr, at) == [k \in DOMAIN at |-> Steps(pr)[at[k]]]

\* actionsOnPR, closed ones included, those with the verb v.
OnPR(pr, v) == {a \in Rows : subject[a] = pr /\ verb[a] = v}

\* ChainOf, through takeByVerb: the i-th step takes the oldest row with its verb
\* that no step before it took, so a verb named twice is answered by two rows.
Stands(pr, i) ==
    LET v == Steps(pr)[i]
        k == RankIn(StepsOf(pr, v), i)
    IN  IF k <= Cardinality(OnPR(pr, v)) THEN Nth(OnPR(pr, v), k) ELSE NoAction

\* ChainStep.Missing: no row stands for the step, and it is not already true.
MissingAt(pr) ==
    {i \in DOMAIN Steps(pr) : Stands(pr, i) = NoAction /\ Steps(pr)[i] \notin facts[pr]}

\* ChainState.Missing: the steps nothing covers, in pipeline order.
Missing(pr) == VerbsAt(pr, InOrder(MissingAt(pr)))

\* readPipeline: the steps closing a would start, about pr.
StepsToStart(a, pr, r) ==
    IF pr = NoPR \/ verb[a] \notin StartsPipeline \/ r # "completed" THEN <<>>
    ELSE VerbsAt(pr, InOrder({i \in DOMAIN Steps(pr) : Steps(pr)[i] \notin facts[pr]}))

\* Mutant: only rows written with it are waited for.
BlockerOfItsOwn(p, k) ==
    LET new == {j \in DOMAIN plan[p].at : plan[p].at[j] = plan[p].at[k] - 1}
    IN  IF new = {} THEN NoAction ELSE plan[p].ids[CHOOSE j \in new : TRUE]

\* chainBlockers: what the k-th step p writes waits for is the row at the place
\* before it -- the one p writes there, or else the one that stands there if it
\* is open.  The places are the plan's, the rows at them what the write reads.
Blocker(p, k) ==
    LET i   == plan[p].at[k] - 1
        new == {j \in DOMAIN plan[p].at : plan[p].at[j] = i}
    IN  IF new # {} THEN plan[p].ids[CHOOSE j \in new : TRUE]
        ELSE IF i \in DOMAIN Steps(plan[p].pr) /\ Stands(plan[p].pr, i) \in Open
        THEN Stands(plan[p].pr, i)
        ELSE NoAction

----------------------------------------------------------------------------
ProtocolInit ==
    /\ Init
    /\ verb     = [a \in Actions |-> "none"]
    /\ subject  = [a \in Actions |-> NoPR]
    /\ facts    = [pr \in PRs |-> {}]
    /\ pipeline \in [PRs -> Pipelines \union {NoPipeline}]
    /\ pipeline_step \in [Pipelines -> StepLists]
    /\ next_n   = 1
    /\ plan     = [p \in Procs |-> Idle]

Begin(p, new) ==
    /\ plan[p].op = "idle"
    /\ plan' = [plan EXCEPT ![p] = new]
    /\ UNCHANGED <<vars, columns, observed, next_n>>

(* runActionAdd: the references are checked, then a number is taken. *)
PlanAdd(p, v, pr) ==
    Begin(p, [Idle EXCEPT !.op = "add", !.pr = pr, !.want = <<v>>])

(* planClose.  pr is what --pr names, NoPR where it was not given. *)
PlanClose(p, a, r, pr) ==
    LET about == IF pr = NoPR THEN subject[a] ELSE pr
    IN  /\ a \in Open
        /\ Begin(p, [Idle EXCEPT !.op = "close", !.action = a, !.verb = verb[a],
                                 !.pr = about, !.reason = r,
                                 !.want = StepsToStart(a, about, r)])

(* planChain. *)
PlanChain(p, pr) ==
    /\ MissingAt(pr) # {}
    /\ Begin(p, [Idle EXCEPT !.op = "chain", !.pr = pr, !.from = pipeline[pr],
                             !.at = InOrder(MissingAt(pr)), !.want = Missing(pr)])

(* Mutant: the number after the rows there are. *)
AllocateAfterRows(p) ==
    /\ plan[p].op # "idle"
    /\ ~Allocated(p)
    /\ Cardinality(Rows) + 1 \in Actions
    /\ next_n' = next_n + 1
    /\ plan' = [plan EXCEPT ![p].ids = Append(@, Cardinality(Rows) + 1)]
    /\ UNCHANGED <<vars, columns, observed>>

(* Store.Allocate: one autocommitted UPDATE ... RETURNING. *)
Allocate(p) ==
    /\ plan[p].op # "idle"
    /\ ~Allocated(p)
    /\ next_n \in Actions      \* bound: the model has no more identifiers
    /\ next_n' = next_n + 1
    /\ plan' = [plan EXCEPT ![p].ids = Append(@, next_n)]
    /\ UNCHANGED <<vars, columns, observed>>

\* Mutant: every step gets the verb of the action being closed.
WriteOneVerb(p, about) ==
    /\ verb' = [a \in Actions |-> IF a \in NewSteps(plan[p].ids) THEN plan[p].verb ELSE verb[a]]
    /\ subject' = [a \in Actions |->
                     IF a \in NewSteps(plan[p].ids) \union about THEN plan[p].pr ELSE subject[a]]

\* instantiateAfter writes the verb and the subject of each new row.
WriteSteps(p, about) ==
    LET ids == plan[p].ids
    IN  /\ verb' = [a \in Actions |->
                      IF a \in NewSteps(ids)
                      THEN plan[p].want[CHOOSE i \in DOMAIN ids : ids[i] = a]
                      ELSE verb[a]]
        /\ subject' = [a \in Actions |->
                         IF a \in NewSteps(ids) \union about THEN plan[p].pr
                         ELSE subject[a]]

Finish(p) ==
    /\ plan' = [plan EXCEPT ![p] = Idle]
    /\ UNCHANGED <<observed, next_n>>

(* The insert of runActionAdd. *)
ApplyAdd(p) ==
    /\ plan[p].op = "add"
    /\ Allocated(p)
    /\ Add(plan[p].ids[1])
    /\ WriteSteps(p, {})
    /\ Finish(p)

\* Mutant: the verb is not asked again.
StillOpen(p) ==
    LET a == plan[p].action
    IN  a \in Open /\ (plan[p].pr # NoPR => subject[a] \in {NoPR, plan[p].pr})

\* What applyClose asks again, in the transaction that writes: the action is
\* still open, has the verb the plan was made for, and is not about another
\* pull request.
PlanStillHolds(p) ==
    LET a == plan[p].action
    IN  /\ a \in Open
        /\ verb[a] = plan[p].verb
        /\ plan[p].pr # NoPR => subject[a] \in {NoPR, plan[p].pr}

(* applyClose. *)
ApplyClose(p) ==
    LET a == plan[p].action
    IN  /\ plan[p].op = "close"
        /\ Allocated(p)
        /\ PlanStillHolds(p)
        /\ Close(a, plan[p].reason, plan[p].ids)
        /\ WriteSteps(p, IF plan[p].pr = NoPR THEN {} ELSE {a})
        /\ Finish(p)

\* Mutant: only the pipeline's name is compared.
SamePipeline(p) == pipeline[plan[p].pr] = plan[p].from

\* sameMissing: the pipeline's name, and what is missing of it, are what was
\* planned; where in it the steps are is not asked again.
SameMissing(p) ==
    /\ pipeline[plan[p].pr] = plan[p].from
    /\ Missing(plan[p].pr) = plan[p].want

(* applyChain. *)
ApplyChain(p) ==
    LET pr == plan[p].pr
    IN  /\ plan[p].op = "chain"
        /\ Allocated(p)
        /\ SameMissing(p)
        /\ InstantiateChain(plan[p].ids, [k \in DOMAIN plan[p].ids |-> Blocker(p, k)])
        /\ WriteSteps(p, {})
        /\ Finish(p)

(* The process stops, or its transaction fails and is rolled back: what it   *)
(* allocated is spent.                                                       *)
Abandon(p) ==
    /\ plan[p].op # "idle"
    /\ Finish(p)
    /\ UNCHANGED <<vars, columns>>

----------------------------------------------------------------------------
(* Everything else that moves what a plan was made from *)

(* `action set --verb`. *)
SetVerb(a, v) ==
    /\ a \in Rows
    /\ verb' = [verb EXCEPT ![a] = v]
    /\ UNCHANGED <<vars, subject, observed, next_n, plan>>

(* `action link-pr`; action_one_subject refuses a second subject. *)
LinkPR(a, pr) ==
    /\ a \in Rows
    /\ subject[a] = NoPR
    /\ subject' = [subject EXCEPT ![a] = pr]
    /\ UNCHANGED <<vars, verb, observed, next_n, plan>>

(* A poll of the pull request, and `pr set --pipeline` or `repo set`. *)
Observe(pr, f) ==
    /\ facts' = [facts EXCEPT ![pr] = f]
    /\ UNCHANGED <<vars, columns, pipeline, pipeline_step, next_n, plan>>

SetPipeline(pr, name) ==
    /\ pipeline' = [pipeline EXCEPT ![pr] = name]
    /\ UNCHANGED <<vars, columns, facts, pipeline_step, next_n, plan>>

(* SetSteps of `pipeline set`: the steps are replaced as a whole. *)
SetSteps(name, chain) ==
    /\ pipeline_step' = [pipeline_step EXCEPT ![name] = chain]
    /\ UNCHANGED <<vars, columns, facts, pipeline, next_n, plan>>

\* A reason other than completed starts no pipeline, whichever it is.
ProtocolNext ==
    \/ \E p \in Procs :
          \/ \E v \in Verbs, pr \in PRs \union {NoPR} : PlanAdd(p, v, pr)
          \/ \E a \in Actions, r \in {"completed", "dropped"}, pr \in PRs \union {NoPR} :
                PlanClose(p, a, r, pr)
          \/ \E pr \in PRs : PlanChain(p, pr)
          \/ Allocate(p)
          \/ ApplyAdd(p)
          \/ ApplyClose(p)
          \/ ApplyChain(p)
          \/ Abandon(p)
    \/ \E a \in Actions :
          \/ \E v \in Verbs : SetVerb(a, v)
          \/ \E pr \in PRs : LinkPR(a, pr)
    \/ \E pr \in PRs :
          \/ \E f \in Facts : Observe(pr, f)
          \/ \E name \in Pipelines \union {NoPipeline} : SetPipeline(pr, name)
    \/ \E name \in Pipelines, chain \in StepLists : SetSteps(name, chain)

ProtocolSpec == ProtocolInit /\ [][ProtocolNext]_allVars

----------------------------------------------------------------------------
Plans ==
    [op : {"idle", "add", "close", "chain"}, action : Actions \union {NoAction},
     verb : Verbs \union {"none"}, pr : PRs \union {NoPR},
     reason : Reasons \union {"none"}, from : Pipelines \union {NoPipeline},
     at : Seq(Nat), want : Seq(Verbs), ids : Seq(Actions)]

ProtocolTypeOK ==
    /\ TypeOK
    /\ verb \in [Actions -> Verbs \union {"none"}]
    /\ \A a \in Rows : verb[a] \in Verbs
    /\ subject \in [Actions -> PRs \union {NoPR}]
    /\ facts \in [PRs -> SUBSET Verbs]
    /\ pipeline \in [PRs -> Pipelines \union {NoPipeline}]
    /\ pipeline_step \in [Pipelines -> StepLists]
    /\ next_n \in Nat
    /\ plan \in [Procs -> Plans]

\* "Gaps are fine; reuse is not" (store/alloc.go:28).  A number a process holds
\* is below the sequence, is no row's, and is held once: whatever fails or stops
\* between allocating and inserting, no two inserts ever meet on a number.
NumbersHeldOnce ==
    /\ \A a \in Rows : a < next_n
    /\ \A p \in Procs : \A i \in DOMAIN plan[p].ids :
          /\ plan[p].ids[i] < next_n
          /\ plan[p].ids[i] \notin Rows
          /\ \A q \in Procs : \A j \in DOMAIN plan[q].ids :
                plan[p].ids[i] = plan[q].ids[j] => p = q /\ i = j

\* The rows a step inserts.
NewRows == Rows' \ Rows

\* "Creating a duplicate merge step is the one failure this command must not
\* have" (store/chain.go:383), and "repeats are counted rather than collapsed"
\* (134): however many run at once, once `pr chain` has written a step there are
\* as many rows with its verb about that pull request as the pipeline has steps
\* with it.
ChainNeverDuplicates ==
    [][\A p \in Procs, pr \in PRs :
          plan[p].op = "chain" /\ plan[p].pr = pr /\ plan'[p] = Idle =>
             \A v \in {verb'[a] : a \in NewRows} :
                Cardinality(OnPR(pr, v)') = Cardinality(StepsOf(pr, v))]_allVars

\* A chain that follows a close follows the verb the action was closed with,
\* and is about the pull request that action is about (store/close.go:280).
ChainFollowsTheClosed ==
    [][\A a \in Open \ Open' : \A n \in NewRows :
          /\ verb[a] \in StartsPipeline
          /\ closed_reason'[a] = "completed"
          /\ subject'[n] = subject'[a]]_allVars

\* What a row waits for.
WaitsFor(n) == {b \in Actions : <<b, n>> \in blocks}

\* Once p's chain is written, what stands at the place before its k-th step: the
\* row written there, or the one that stood there.
StandsBefore(p, k) ==
    LET pr == plan[p].pr
        at == InOrder(MissingAt(pr))
        i  == at[k] - 1
    IN  IF i = 0 THEN {}
        ELSE IF i \in MissingAt(pr) THEN {plan[p].ids[k - 1]}
        ELSE {Stands(pr, i)} \ {NoAction}

\* The steps of a chain become actionable in the order of the pipeline.  Of the
\* rows a close inserts each waits for the one before it and for nothing else.
\* A row `pr chain` inserts waits for what fulfils "the step immediately before
\* it" (store/chain.go:282), written with it or there before, if that is open,
\* and for nothing else; no row that was there is made to wait (277).  Excepted
\* is a pipeline whose steps were moved since the plan was made: SameMissing does
\* not see that, and the rows wait for what is at the places of the old list.
ChainInOrder ==
    [][\A p \in Procs :
          /\ plan[p].op \in {"close", "chain"} /\ plan'[p] = Idle /\ NewRows # {}
          /\ plan[p].op = "chain" => plan[p].at = InOrder(MissingAt(plan[p].pr))
          => /\ blocks' \ blocks \subseteq Actions \X NewRows
             /\ \A k \in DOMAIN plan[p].ids : \A n \in {plan[p].ids[k]} :
                   /\ WaitsFor(n)' = IF plan[p].op = "close"
                                     THEN {plan[p].ids[j] : j \in {k - 1} \ {0}}
                                     ELSE StandsBefore(p, k) \intersect Open'
                   /\ state'[n] = "blocked" <=> WaitsFor(n)' # {}]_allVars

\* The action table, for pipelines as long as the identifiers last.
AG == INSTANCE ActionGraph WITH MaxSteps <- MaxActions

\* Every phase that writes is one step of the action table, with identifiers
\* that never had a row: planning apart from writing, and stopping in between,
\* is invisible there.
TableStep == UNCHANGED vars \/ AG!Maintain

ImplementsActionGraph == AG!Init /\ [][TableStep]_vars

----------------------------------------------------------------------------
\* "It instantiates the repository's pipeline when the verb starts one"
\* (cli/action.go:1165): completing such an action, about a pull request with
\* steps still to do, writes at least one of them.
CompletingStartsThePipeline ==
    [][\A a \in Open \ Open' :
          /\ closed_reason'[a] = "completed"
          /\ verb[a] \in StartsPipeline
          /\ subject'[a] # NoPR
          /\ StepsToStart(a, subject'[a], "completed") # <<>>
          => NewRows # {}]_allVars
=============================================================================
