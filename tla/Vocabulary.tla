----------------------------- MODULE Vocabulary -----------------------------
(***************************************************************************)
(* The vocabulary as data: verbs that name the predicates they close on,   *)
(* pipelines of verbs, and the repositories that follow a pipeline, edited *)
(* by commands of several builds while a process that opened the database  *)
(* earlier goes on.  A build registers its own predicates.                 *)
(*                                                                         *)
(* A command is one transaction after its opening check, but for tracking  *)
(* a repository, which reads the default pipeline before it.               *)
(***************************************************************************)
EXTENDS Integers, FiniteSets

CONSTANTS
    VerbNames,      \* of verbs
    Pipelines, Repos,
    Registers,  \* the predicates each build registers, by build
    Definitions,\* what verbs may be: [closes, takes], takes the requires_ columns set
    MaxSteps    \* bound on the verbs of a pipeline

Human == "human"

VocabularyAssumption ==
    /\ MaxSteps \in Nat
    /\ IsFiniteSet(Pipelines)
    /\ \A d \in Definitions : d.takes \subseteq {"owner", "ref", "issue"}

VARIABLES
    verbs,      \* the table actionverb
    lines,      \* the tables action_pipeline and pipeline_step
    repos,      \* each repository's pipeline, or Untracked
    track,      \* a repo track in progress: the default it read
    running,    \* the build of a process that opened the database, or none
    waiting,    \* verbs with open actions
    arrivals    \* the pipelines in the order they were added, and at which end

vocabularyVars == <<verbs, lines, repos, track, running, waiting, arrivals>>

VerbBuilds == DOMAIN Registers
NoVerb     == [there |-> FALSE, active |-> FALSE, closes |-> Human, takes |-> {}]
NoLine     == [there |-> FALSE, active |-> FALSE, n |-> 0, steps |-> {}]
Untracked  == "untracked"
Unstated   == "unstated"
NoTrack    == [repo |-> Untracked, line |-> Unstated]

\* A step, with what its brackets hold.
Step == [verb : VerbNames, spec : {"nothing", "owner", "ref"}]

There     == {p \in Pipelines : lines[p].there}
Active    == {p \in There : lines[p].active}
Numbers   == {lines[p].n : p \in There}
Lowest(S) == CHOOSE m \in S : \A n \in S : m <= n
Top(S)    == CHOOSE m \in S : \A n \in S : n <= m

\* checkPredicates: an active verb's predicate is one this build has.
Opens(build) == \A v \in VerbNames : verbs[v].active /\ verbs[v].closes # Human
                                     => verbs[v].closes \in Registers[build]

Edits == UNCHANGED <<track, running, waiting>>

----------------------------------------------------------------------------
(* Verbs *)

\* ValidateVerbDefinition, against the build that adds it.
ValidFor(build, d) == d.closes = Human \/ d.closes \in Registers[build]

\* A name is never taken twice, retired or not.
VerbAdd(build, v, d) ==
    /\ Opens(build) /\ ValidFor(build, d)
    /\ ~verbs[v].there
    /\ verbs' = [verbs EXCEPT ![v] = [there |-> TRUE, active |-> TRUE, closes |-> d.closes, takes |-> d.takes]]
    /\ Edits /\ UNCHANGED <<lines, repos, arrivals>>

\* verb set: what a verb means is not editable, whether it is offered is.
VerbSet(build, v, active) ==
    /\ Opens(build)
    /\ verbs[v].there
    /\ verbs' = [verbs EXCEPT ![v].active = active]
    /\ Edits /\ UNCHANGED <<lines, repos, arrivals>>

----------------------------------------------------------------------------
(* Pipelines *)

\* Mutant: steps are checked for the names they use.
StepsNamed(steps) == \A s \in steps : verbs[s.verb].there

\* The brackets hold one thing, an owner before a ref, and never an issue.
SpecFor(takes) ==
    IF "owner" \in takes THEN "owner" ELSE IF "ref" \in takes THEN "ref" ELSE "nothing"

\* CheckPipelineSteps: each verb is offered, closes on a predicate and is given
\* what its brackets may hold.
CheckPipelineSteps(steps) ==
    \A s \in steps : /\ verbs[s.verb].active
                     /\ verbs[s.verb].closes # Human
                     /\ s.spec = SpecFor(verbs[s.verb].takes)

\* Mutant: the first of those offered is asked, retired ones are not.
FirstOfActive(order) ==
    LET Offered == {lines[p].n : p \in Active}
    IN IF Numbers = {} \/ Offered = {} THEN 1
       ELSE IF order = "first" THEN Lowest(Offered) - 1 ELSE Top(Numbers) + 1

\* InsertPipeline: one beyond either end of all there are.
Place(order) ==
    IF Numbers = {} THEN 1
    ELSE IF order = "first" THEN Lowest(Numbers) - 1 ELSE Top(Numbers) + 1

PipelineAdd(p, steps, order) ==
    /\ p \notin There
    /\ CheckPipelineSteps(steps)
    /\ lines' = [lines EXCEPT ![p] = [there |-> TRUE, active |-> TRUE, n |-> Place(order), steps |-> steps]]
    /\ arrivals' = [arrivals EXCEPT ![p] = [at |-> Cardinality(There) + 1, order |-> order]]
    /\ Edits /\ UNCHANGED <<verbs, repos>>

PipelineSet(p, steps) ==
    /\ p \in There
    /\ CheckPipelineSteps(steps)
    /\ lines' = [lines EXCEPT ![p].steps = steps]
    /\ Edits /\ UNCHANGED <<verbs, repos, arrivals>>

PipelineRetire(p, active) ==
    /\ p \in There
    /\ lines' = [lines EXCEPT ![p].active = active]
    /\ Edits /\ UNCHANGED <<verbs, repos, arrivals>>

----------------------------------------------------------------------------
(* Repositories *)

\* The lowest-numbered of those in use.
DefaultPipeline ==
    IF Active = {} THEN Unstated
    ELSE CHOOSE p \in Active : \A q \in Active : lines[p].n <= lines[q].n

\* Mutant: what was read is taken to be usable still.
UsableWhenRead(line) == line = Unstated \/ line \in There

\* checkPipelineUsable, in the transaction that writes.
Usable(line) == line = Unstated \/ line \in Active

BeginTrack(r) ==
    /\ track.repo = Untracked
    /\ track' = [repo |-> r, line |-> DefaultPipeline]
    /\ UNCHANGED <<verbs, lines, repos, running, waiting, arrivals>>

Track ==
    /\ track.repo # Untracked
    /\ track' = NoTrack
    /\ repos' = IF repos[track.repo] = Untracked /\ Usable(track.line)
                THEN [repos EXCEPT ![track.repo] = track.line] ELSE repos
    /\ UNCHANGED <<verbs, lines, running, waiting, arrivals>>

RepoSet(r, line) ==
    /\ repos[r] # Untracked
    /\ Usable(line)
    /\ repos' = [repos EXCEPT ![r] = line]
    /\ Edits /\ UNCHANGED <<verbs, lines, arrivals>>

----------------------------------------------------------------------------
(* Actions, and the process that settles them *)

AddAction(v) ==
    /\ verbs[v].active
    /\ waiting' = waiting \cup {v}
    /\ UNCHANGED <<verbs, lines, repos, track, running, arrivals>>

\* Closing the pipeline's head starts an action a step, retired verbs and all.
StartPipeline(r) ==
    /\ repos[r] \in There
    /\ waiting' = waiting \cup {s.verb : s \in lines[repos[r]].steps}
    /\ UNCHANGED <<verbs, lines, repos, track, running, arrivals>>

Open(build) ==
    /\ Opens(build)
    /\ running' = build
    /\ UNCHANGED <<verbs, lines, repos, track, waiting, arrivals>>

VocabularyInit ==
    /\ verbs = [v \in VerbNames |-> NoVerb]
    /\ lines = [p \in Pipelines |-> NoLine]
    /\ repos = [r \in Repos |-> Untracked]
    /\ track = NoTrack
    /\ running = "none"
    /\ waiting = {}
    /\ arrivals = [p \in Pipelines |-> [at |-> 0, order |-> "last"]]

SomeSteps == {S \in SUBSET Step : Cardinality(S) <= MaxSteps}

VocabularyNext ==
    \/ \E build \in VerbBuilds : Open(build)
    \/ \E build \in VerbBuilds, v \in VerbNames :
          \/ \E d \in Definitions : VerbAdd(build, v, d)
          \/ \E active \in BOOLEAN : VerbSet(build, v, active)
    \/ \E p \in Pipelines :
          \/ \E steps \in SomeSteps : \/ PipelineSet(p, steps)
                                      \/ \E order \in {"last", "first"} : PipelineAdd(p, steps, order)
          \/ \E active \in BOOLEAN : PipelineRetire(p, active)
    \/ \E r \in Repos : BeginTrack(r) \/ StartPipeline(r)
    \/ \E r \in Repos, line \in Pipelines \cup {Unstated} : RepoSet(r, line)
    \/ Track
    \/ \E v \in VerbNames : AddAction(v)

VocabularySpec == VocabularyInit /\ [][VocabularyNext]_vocabularyVars

----------------------------------------------------------------------------
(* The type of the state.                                                     *)
VocabularyTypeOK ==
    /\ \A v \in VerbNames : verbs[v].active => verbs[v].there
    /\ \A p \in Pipelines : lines[p].n \in -Cardinality(Pipelines) .. Cardinality(Pipelines) + 1
    /\ \A p, q \in There : lines[p].n = lines[q].n => p = q
    /\ \A r \in Repos : repos[r] \in {Untracked, Unstated} \cup There

\* What the brackets hold is something the verb takes, and they are empty only where
\* it takes neither an owner nor a ref.
Held(spec, takes) == IF spec = "nothing" THEN takes \subseteq {"issue"} ELSE spec \in takes

(* A chain holds no step that a person closes, and starts none without the    *)
(* owner or the ref that its verb asks for: whatever was retired or rewritten *)
(* since, the steps of every pipeline close on a predicate and hold what      *)
(* their verb takes.  The check does not ask for a tracker issue, nor for the *)
(* ref of a verb that takes an owner too: such a step has nothing to wait for.*)
StepsHoldWhatIsAsked ==
    \A p \in There : \A s \in lines[p].steps :
        /\ verbs[s.verb].there
        /\ verbs[s.verb].closes # Human
        /\ Held(s.spec, verbs[s.verb].takes)

(* Of two pipelines in use the later goes before the earlier exactly when it  *)
(* was asked to go first, through every retirement and return between them:   *)
(* so one added last never becomes the default a new repository takes while   *)
(* another is in use.                                                         *)
OrderIsAsAsked ==
    \A p, q \in Active : arrivals[p].at < arrivals[q].at =>
        (arrivals[q].order = "first" <=> lines[q].n < lines[p].n)

(* The chains a pipeline starts hold what is asked of them, and go in the     *)
(* order asked for: the two properties above.                                 *)
ChainsAreAsAsked == VocabularyTypeOK /\ StepsHoldWhatIsAsked /\ OrderIsAsAsked

(* A repository is only ever moved onto a pipeline that is in use at that     *)
(* moment, though the default it takes was read in an earlier transaction.    *)
TakenInUse ==
    [][\A r \in Repos : repos'[r] # repos[r] /\ repos'[r] # Unstated
           => repos'[r] \in Active]_vocabularyVars

(* verb.go calls the definition check "the only place a verb is written": no  *)
(* build is refused by what a command of its own, or an older one it was      *)
(* allowed beside, leaves.  A command never locks its own build out.          *)
LocksNobodyOut ==
    [][\A build \in VerbBuilds :
           (\E v \in VerbNames : \/ \E d \in Definitions : VerbAdd(build, v, d)
                             \/ \E active \in BOOLEAN : VerbSet(build, v, active))
               => Opens(build)']_vocabularyVars

(* verb.go of the check at opening: a missing predicate should "fail loudly   *)
(* at startup rather than silently at three in the morning, when an action    *)
(* quietly stops closing and nothing says why".                               *)
NothingQuietlyStops ==
    running # "none" => \A v \in waiting : verbs[v].closes \in {Human} \cup Registers[running]
=============================================================================
