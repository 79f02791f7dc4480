# roz in TLA+

A verification development for [roz](../src/README.md), a single-binary tool
that keeps projects, actions and pull requests in one SQLite database and works
out what the next action is. The modules here model the parts of roz that decide
what is in the database after several commands, a polling server and an agent
have all been at it; TLC checks them on small instances, and TLAPS proves the
main results for every instance.

Paths below are relative to `src/internal/` unless they start with another
directory of the repository (`codeowners/`, `github/`, `reviewqueue/`).

## 1. The system

roz is one binary with three kinds of process on one database file:

* **commands** (`cli/`): each opens the database, does one operation, exits;
* **the server** (`roz serve`): a web server and, in the same process, the
  *syncer*, which runs a sync cycle again and again;
* **an agent**, through MCP, which calls the same operations.

Nothing is shared but the database. A transaction is begun deferred
(`BeginTx(ctx, nil)`, `store/tx.go:72`): SQLite gives it the snapshot of its first
read, lets one transaction write at a time, and refuses the first write of one whose
snapshot is no longer the newest, so that what commits is as if run alone
(`EventLog` models this; the other modules take a transaction that commits as one step). The
interleavings that matter are therefore between *whole transactions*, and the
operations worth modelling are the ones that take more than one: they read in one
transaction, allocate identifiers in a second, write in a third, and another
process may act, or this one stop, in between.

### Components

| component | state it keeps | operations | correct when |
|---|---|---|---|
| **Action graph** (`store/action.go`, `edge.go`, `close.go`, `wake.go`, `raised.go`) | action rows: `state`, `closed_reason`, `hidden_behind`, `snooze_until`; edge rows `action_blocks`; `raised_action` | add, add-blocker, hide-behind, snooze, wake, set, close (a cascade), chains, sweeps | blockers stay acyclic; ready/blocked agree with the edges; what is hidden comes out; chases do not outlive their subject; closing is final |
| **Phased writes** (`store/close.go`, `chain.go`, `alloc.go`, `pipeline.go`) | the `sequence` table, verbs, subjects, pipelines; the plan in a process's memory | `action add`, closing with a pipeline, `pr chain --apply` | numbers are never reused; a plan that went stale is refused; no step is duplicated; steps wait for each other in order |
| **Overdue sweep** (`store/overdue.go`, `raised.go`) | `waited_too_long` events, chases, `raised_action` rows, four clocks of a wait | find, report, raise, stand down | one chase per outstanding condition; every late wait reaches the queue; a chase ends with its wait |
| **Settling** (`store/settle.go`, `predicate.go`) | facts of pull requests, issues, refs | evaluate every open action's predicate, close what holds | what holds is closed, once, with its pipeline; one failure does not hide the rest |
| **Project graph** (`store/project.go`, `projectedge.go`, `tree.go`, `close.go`) | project rows, blockers of both kinds, parent tree | close, supersede, snooze, wake, re-parent | trees and blockers acyclic; closing a project drops its work; statuses agree with the edges |
| **Sync cycle** (`ghsync/`) | observed columns of pull requests, issues, refs, teams | poll each, record, then sweep | one failed read does not lose the rest; a rate limit stops the cycle; the sweeps run either way |
| **Syncer** (`ghsync/syncer.go`) | failures in a row, the budget told | run, pace, back off, give up | no faster than asked but where the budget resets, and as long as the last answer foretold; only failures in a row end it, or a migration |
| **Merge queue** (`store/mergequeue.go`) | last observed queue state | detect an ejection, create a merge action | one action per ejection, never lost |
| **Unannounced waits** (`store/unannounced.go`) | events | report a wait nobody was told of | said once an interval |
| **Transactions, actors, log** (`store/tx.go`, `record.go`, `field.go`, `event.go`) | the event log, field ownership | write a record as its difference | only an owner writes a field; the log chains from transaction to transaction and ends at the row |
| **Queue and listings** (`store/action.go`, `rank.go`, `sort.go`, `where.go`) | none (queries) | what is in play, in which order | an action is listed exactly when it can be worked on |
| **Refs and gates** (`store/gitref.go`, `refrelative.go`) | tags, waits, pending gates | resolve, settle | a gate is not met when it is resolved, by anything recorded, and opens at a release cut later |
| **Trackers, issues** (`store/tracker.go`, `actionissue.go`, `issuepoll.go`) | issue rows, waits on them | poll, link | an issue wait settles when its issue closes; no issue drops out of the poll; links by hand stay |
| **Vocabulary** (`store/verb.go`, `pipeline.go`, `config.go`, `sequence.go`) | verbs, pipelines, settings | edit | no step is a person's to close, or lacks the owner or the ref its verb takes; the order is as asked |
| **Teams, owner channels** (`store/teammember.go`, `ownerchannel.go`) | membership cache | refresh | never half a team |
| **Code owners** (`codeowners/`) | none (pure) | parse, match, route approvals | last match wins; the routing covers every file |
| **Review queue** (`reviewqueue/`) | none (pure) | select and classify reviews | an item is shown under whoever has the next move |
| **GitHub client** (`github/`) | the hold after a rate limit | GraphQL, paging, retry | what it says it read it read whole; nothing is asked during a hold; every call ends |
| **Filters** (`filter/`) | none (pure) | compile CEL to SQL | the SQL lists what the CEL says, NULL included, and nothing else |
| **Database** (`store/store.go`, `migrate.go`, `backup.go`, `schema/`) | files, schema version | open, migrate, back up, restore | each migration once, as recorded; an opened database is whole; nothing is lost on the way |
| **Watch** (`cli/watch.go`) | a cursor | follow the log | no event missed or shown twice |
| **Server, pages, MCP, markdown, static, metrics, service** | | rendering and plumbing | |

### How they interact

The sync cycle observes (pull requests, issues, refs), each observation a
transaction of its own; then the sweeps run in order: settle, ejections, wake
expired deferrals, overdue and unannounced waits. Settling and commands close
actions through the same `CloseAction`, which inserts pipelines and cascades over
the action graph; the overdue sweep inserts *chases* into the same graph, and a
close stands them down. Everything is read back from the tables: there is no
in-memory state a command could find stale, except a plan.

### What is hard here

* plans read in a transaction that has ended (`store/close.go:72`, `store/chain.go`);
* a condition checked in one transaction and acted on in the next (`store/raised.go:44`);
* a process that ends between reporting and acting (`store/overdue.go:214`,
  `ghsync/ghsync.go:330`);
* a column that duplicates what the edges say (`store/edge.go:67`);
* cascades whose steps do not cascade themselves (`store/close.go:416`);
* long sequences of legal commands on a graph (`store/edge.go:29`).

`PROJECT.json` lists each under `hazards`, at its line, with the properties that
would catch it.

## 2. The modules

| module | models |
|---|---|
| `ActionGraph` | the action table and its edges; every transaction on them is one action |
| `CloseProtocol` | EXTENDS it with verbs, subjects, pipelines, the sequence table and processes in the middle of a plan; refines it |
| `ProjectClose` | EXTENDS `ActionGraph` with the project of each action, and what closing a project does to them |
| `ProjectGraph` | the project table: statuses, blockers, the parent tree, every command on them |
| `Overdue` | the overdue sweep in its phases, and what happens to a wait between them |
| `SyncCycle` | the sync cycle of one process: reads, the transaction per pull request, ejections, settling, sweeps |
| `Syncer` | the loop around it: pace, back-off, giving up, the guard of the schema |
| `ReleaseGates` | tags and the waits and gates that count on them, by sync and by command |
| `PullRequests` | rows, checks, stacks and owners, from answers that are old by the time they are written |
| `Issues` | issue rows, the links to them, the ladder they are polled on, the waits they end |
| `GitHubClient` | the calls: batches, pages, answers in part, retries, the shared hold |
| `EventLog` | the transaction of one actor, the diff it logs, the snapshots it runs on |
| `Watch` | `roz watch` over a log that grows |
| `Vocabulary` | verbs, pipelines and repositories as rows that commands of two builds edit |
| `Database` | the database as files: init, migration, open, backup, restore, and kills between their steps |
| `Codeowners` | a review: approvals, the plan of whom to ask, the answers |
| `ReviewQueue` | a pull request's way through a team's queue |
| `Filter` | a filter split between SQL and CEL, over one row and its relation |
| `Patterns` | the loops that match a path pattern and a glob |
| `ActionGraphProofs`, `CloseProtocolProofs`, `ProjectGraphProofs` | theorems about the modules they are named for |
| `StoreProofs` | theorems about `EventLog`, `Watch`, `Vocabulary`, `Filter` |
| `ReadingProofs` | theorems about `GitHubClient`, `PullRequests`, `Issues`, `ReviewQueue` |
| `WaitsProofs` | theorems about `Codeowners`, `ReleaseGates`, `SyncCycle` |
| `UpkeepProofs` | theorems about `Overdue`, `Database`, `Syncer` |
| `OrderFacts` | lemmas on finite orders and greedy choices, which five of these cite |
| `MCActionGraph`, `MCCloseProtocol`, `MCOverdue`, `MCProjectGraph`, `MCProjectClose`, `MCFilter` | instances of one module for TLC |
| `MCSafety`, `MCSyncing`, `MCReading`, `MCUpkeep` | instances of several modules side by side |

`CloseProtocol` and `ProjectClose` compose with `ActionGraph` because they write
its table. The others meet only in the database, one transaction at a time, and each
models what the rest do to its rows as actions of its own (`Observe` and
`SetPipeline` in `CloseProtocol`, `Announce` in `Overdue`, `Move` in `SyncCycle`).

The four last modules put the instances of several parts into one state space: a
variable `part`, chosen at the start, says which part runs; the variables of the others rest, so
that the states are the sum of the parts' and not their product; a part that is off rests in an
initial state. It is a way of checking many small instances together, not a claim that the parts do not
interact. The modules whose invariants have theorems are extended, so that what the run checks and what
the theorem states is one definition; the others are instances.

### ActionGraph

One variable per column: `state`, `closed_reason`, `hidden_behind`,
`snooze_until`, the pairs `blocks` (`action_blocks`), `raised` (the action a
`raised_action` row of a chase names) and the store's clock `today`, in days. A
row that was never inserted has the state `"none"`. One action per transaction:

| action | code |
|---|---|
| `Add`, `AddAs` | the insert of `runActionAdd` (`cli/action.go`), the second with `--status` |
| `RaiseChase` | the transaction of `RaiseAction` (`store/raised.go`) |
| `AddBlocker` | `runActionAddBlocker` and `Tx.AddBlocker`, with `wouldCycle` (`Reaches`) and `applyBlockedState` (`BlockedState`) |
| `HideBehind`, `ComeOut` | `action hide-behind` |
| `Snooze`, `Wake`, `WakeExpired` | `action snooze`, `action wake`, the sweep `WakeExpired` |
| `SetState` | `action set --status --snooze-until`, with `checkActionConsistency` |
| `InstantiateChain` | `instantiateAfter`, as `applyChain` calls it |
| `Close` | `applyClose`: the row, its chain, its dependents, what hides behind it and the chases about it, in that transaction |
| `StandDownCleared` | the write of `standDownClearedChases` |

A close is *one* action because it is one transaction, and the cascade is written
as it runs: dependents are recomputed against what is open after the close, the
chases are closed by `closeRecord` alone (no cascade of their own), new steps are
in the state their edge gives them. Two specifications share the actions:
`MaintainedSpec` takes every transaction but the ones that write a state by hand
(`ByHand`: `AddAs`, `SetState`, `Wake`), `Spec` takes them all.

`Reaches` is a recursive query in the code; here it is the quantified form (every
set closed under the edges that holds one end holds the other), which means the
same and can be proved about.

### CloseProtocol

`plan[p]` is what process *p* has in memory: the operation, what it read, and
the numbers allocated. `PlanAdd`/`PlanClose`/`PlanChain` are the read
transactions, `Allocate` the autocommitted `UPDATE ... RETURNING` of
`store/alloc.go`, once per row, `ApplyAdd`/`ApplyClose`/`ApplyChain` the write
transactions with what each asks again (`PlanStillHolds`, `SameMissing`), and
`Abandon` a process that stops or a transaction that fails: the numbers are spent.
`SetVerb`, `LinkPR`, `Observe`, `SetPipeline` and `SetSteps` are what others do to the
columns a plan was made from.

A pipeline is a list of verbs and may repeat one, which `store/pipeline.go:394` accepts. `Stands` is
`takeByVerb`: the i-th step of a verb is answered by the i-th oldest row with it, so that repeats are
counted. `Blocker` is `chainBlockers`: a row waits for the one at the place before its own, written with it
or there already and open. Left out are what a step's brackets hold, which the count does
not look at, and the guard of `suppressedBy` (a pull request tracked as somebody else's has no steps at
all). `SameMissing` compares the pipeline's name and what is missing, as the code does, and not
where in the pipeline the missing steps are.

 The writes *are* steps of `ActionGraph`, conjoined
with what happens to the new columns, so `ImplementsActionGraph` is a refinement
with the identity mapping: what it says is that the numbers a plan holds are always
distinct and fresh, that a plan that went stale is never written, and that
nothing but a write touches the action table.

### Overdue

A wait's four clocks are kept as the latest of them (`waitClock`), with the
explicit deadline apart (`okay`), because commands move the two separately. The
sweep is a program counter per sweeper: `FindOverdue` (the query), `Report` (an event, one
transaction), `CheckRaised` and `Raise` (the two halves of `RaiseAction`, which are
apart in the code), `ReadLate` and `StandDownCleared`. `Stop` ends the process
anywhere. `chases` and `recorded` are counts of rows: a second one is what could
go wrong. Chases of the same wait differ in nothing a property looks at.

### ProjectGraph

As `ActionGraph`, one variable per column (`status`, `snooze_until`, `parent`) and
one for the edges (`blocks`). The actions fall in three groups, and the properties are
about the line between them:

* `Maintain`: `Add`, `SetParent`, `BlockProject`, `UnblockProject`,
  `CloseProject`, `Snooze` (of an open project), `WakeExpired`, `Tick`. These
  re-evaluate what they touch with `applyProjectBlockedState` (`BlockedStatus`);
* `PastTheGraph`: `AddAs`, `SetStatus`, `Wake`, `Supersede`, and a snooze of a project
  that is over (`SnoozeClosed`), which nothing refuses and which reopens it. These write the
  status and re-evaluate nothing;
* `SetParentJSON`: `project set --json` with a `parent_id`, an authored column that
  `guardedColumns` (`store/json.go`) does not list, so that `CheckParent` is
  never asked.

`ProjectBlocks` and `IsAncestry` are the recursive query and the walk, in the
quantified form. A command line that sets a status and a parent at once is two
steps here.

### ProjectClose

`Drop` is one turn of the loop of `dropOpenActions`, a function on the
action table: the row, then its dependents, then what it hid, then its chases,
in that order, so that a dependent is re-evaluated while the chases are still
open. `CloseProject` folds it over the actions in any order (the code's is by
number, and any order is some numbering's). What the code loaded before the first write it
uses for two things only, the list and the row's own closing columns;
everything else is read again, so the fold is over the table as it stands, and an
action that a turn already closed as a chase is closed again with the same values.

### SyncCycle

`cycle.pc` walks through one cycle. The four reads come first, in the order of `Sync`;
`Answered`, `Unanswered` and `RateLimited` are what a read may come to, and
only the last, or the store, ends the cycle. `ApplyOne` is the transaction of one
pull request; when it saw it leave the merge queue, `CheckMerge`, `ReportLeftQueue` and
`QueueEjection` follow in transactions of their own. `ReadSatisfied` reads which actions'
predicates hold, `CloseCandidate` closes them one by one with what their verb starts,
again and again until a pass finds nothing new (`StepsToStart` is what a close adds);
`Sweep` stands for the sweeps of `Overdue` and `ActionGraph`. `CycleEnds` ends
the process anywhere, and GitHub `Move`s anywhere. `seen`, `left` and `logged`
count ejections as GitHub, the rows and the log have them.

### Syncer

`delay` is set by what a cycle came to: `Pace` by what is left of the budget, `Backoff` by
the failures in a row, the longest wait after a limit. What a cycle knows of the budget is what the last answer that told of it said:
what was left, and what that one request cost (`cost`). What the cycle spends after it, or a failed one at all, and what
others spend of a budget that `gh` shares with its user (`OthersSpend`), no answer told of (`unforeseen`). `elapsed`, `resetsIn` and `checkIn` are the three
clocks that matter, as distances. `CheckSchema` is the guard, a service beside the loop; either ends both.

### ReleaseGates

`wait[a]` is the row in `action_ref_wait`, `gate[a]` the one in `action_ref_pending`. The sync
process keeps what it began with in `sync`: it asks for what some row asked for then, reads
pages newest first (`Page`, `LastPage`), records each tag it read, resolves the gates that were
pending and settles. A command keeps its place in `cli`. `Highest` is the release a gate counts
from; `caught` is what a whole read has been through.

### PullRequests

`hub` (what GitHub holds) moves by `PushHead`, `Retarget`, `Report`, `End` and `Reopen`. A poll keeps in `syncs[s]`
the answer it read at once and what of it is still to apply; `Merge` is what `merge` keeps of the
row and takes of the answer; each ending has a date of its own (`DayOf`), and the window in which an
ended one is still polled begins again with it. `ListForOwners`, `DeriveOwners` and `RecordOwners` are the listing, the
read and the write of one head's owners, `ResolveStacking` the transaction at the end.
`checkLog` is the last event about the check.

### Issues

A row is a key until something is said of it (`Ensured`). An observation says what it will (`Sayings`): from GitHub a state always, by
hand or from a feed perhaps a title, a closing time or the time of the reading alone (`issue observe`), and what is not said stays.
`ToPollIssue` is the selection of `IssuesToPoll`: never read, without a closing time, or due by the `Rungs` of the ladder; an issue
reopened at the tracker keeps its closing time in the row and stays on the ladder. `IssuesToPoll`, `ReadIssues` and
`ObserveTrackerIssues` are the three steps of the poll; `ReconcileClosingIssues` replaces GitHub's
own links and no others. Ages stop counting past the last rung.

### GitHubClient

`reads[c]` is one call: what it has got, what was named as missing, which attempt the request out
now is. `Ask` checks the hold and sends; the answers are `FetchAnswer`, `TeamsAnswer`, `FilesAnswer`,
`RulesAnswer`, `ListAnswer` (whole or in part), `NoData`, `Limit`, `Fault` and `Cancel`; `Retry` is the wait before
another attempt. `runner` is `gh`, which remembers nothing, or `HTTPRunner`, whose hold every call shares.

### EventLog and Watch

A transaction in `tx[w]` has an actor, a time it began, the snapshot of its first read, the copies of
the record it loaded or wrote, the row as its own writes left it, and what they logged. It writes as often as it likes, from any
of its copies, which may be older than its own last write: so does the close of a project, which loads all
the open actions first (`store/close.go:577`) and closes one that the close of another has rewritten. `Update`
writes the `Diff` of two copies and an event a column (`Assigned`), whatever the row says by then; `MayWrite`
says which of an actor's may be written. The first write (`Write`) on a snapshot that is not the newest fails as SQLite's does,
and `Seen` is the log as a transaction that may write has it. Of one transaction's events a column's need not chain; what holds of
them is `StartsWithin`. `ExceptionOnce` reads
whether a standing condition was said within the interval, in the same transaction.
`Watch` takes the head, reads the backlog and follows; `KeptOf` is what of a filter is not in the query.

### Vocabulary

`verbs`, `lines` (pipelines, with their order in `n`) and `repos` are rows. A command checks at its opening that
it knows every predicate in use (`Opens`), then is one transaction. A verb may take an owner, a ref and a tracker
issue (the `requires_` columns); `CheckPipelineSteps` lets a step hold what `SpecFor` says, an owner before a ref and never an
issue. `Track` takes the default pipeline
it read before. `running` is a process that opened earlier and goes on; `waiting` is what chains have
started.

### Database

`db`, `wal`, `asides` and `staged` are files; `db.ran` counts how often a migration's statements ran,
which the program cannot see. `proc[p].pc` walks through `init` (bookkeeping, backfill, one transaction a migration, seeds), a
command that opens and commits, or a restore (stage, move aside, drop the sidecars, move into place). Two builds
have different migrations. `Kill` is the end of a process between any two steps.

### Codeowners, ReviewQueue, Patterns

`Codeowners`: a pattern is the set of the paths it matches, the file a sequence of rules; `StandsFor` is the
subset rule, `NextTier` the choice of the next ask (a hint in `OwnOnly` is taken only where it owns something itself), `Ask` one turn of the loop of `PlanPreferring`, and every owner asked is answered for by some
member. `ReviewQueue` has the decisions of `Select`, `waitingOn` and `section` as operators over one pull
request, and the events of a review as its actions. `Patterns` has the two loops as they run, a step at a time (`TryStart`,
`GlobStep`), against what a pattern means (`Covers`, `NamesFile`, `Reads`).

### Filter

A filter is a sequence of terms joined by `&&`; a term asks about the row, or about some, none or the one row of a
relation, with a disjunction of comparisons. Those after the first are also in `also`: the SQL of a relation joins the
disjunction to the link with AND and without brackets (`SqlRelated`), so they may be answered by rows related to another row (`others`). `CelTerm` and `SqlTerm` say how each side answers, errors and NULL
included; `PushableShape` and the samples of `Agrees` decide what goes to SQL (`Compile`), `Remains` what runs in Go on
what was read. Ready-made filters are the constant, so that TLC covers each shape with every
operator.

## 3. Runs

| run | asks | bounds |
|---|---|---|
| `graph` | every safety property of the action graph, hand edits and dates included; the cascade of closing a project, from every state of the graph | 3 actions, pipelines of 2, 1 project; with dates 2 rows and a day that passes |
| `stood_down` (violation) | the documented "blocked exactly while it has an open blocker" | 3 actions |
| `protocol_race` | two processes in the middle of plans | 2 processes, 3 numbers, a pipeline that names a verb twice, or none |
| `protocol_chain` | order of a chain, by a close and by `pr chain`; the refinement | 1 process, 3 numbers, pipeline of 2 steps that may change places, one of which may be true already |
| `protocol_link_race` (violation) | the documented "instantiates the pipeline when the verb starts one" | 1 process, 2 numbers |
| `projects` | every property of the project graph, every command | 3 projects, 1 day |
| `safety` | what may never happen in `Overdue`, `EventLog`, `Watch`, `Vocabulary`, `Codeowners`, `Filter` | below |
| `syncing` | `SyncCycle`, `Syncer`, `ReleaseGates`, with liveness | below |
| `reading` | `ReviewQueue`, `GitHubClient`, `Issues`, `PullRequests`, with liveness | below |
| `upkeep` | `Database`, `Patterns`, deferrals of `ActionGraph`, chases of `Overdue`, with liveness | below |
| `overdue_deferred`, `overdue_two_sweeps` (violations) | the properties of `Overdue` where one restriction is lifted | 1 wait, 4 or 5 days |

A property of these four runs is either one that a part's module states (`TypeOK` of `Overdue`,
`LogTellsTheRow` of `EventLog`) or the conjunction of what one part promises; its comment says which, and the
conjuncts are defined and commented in the part's module. They are invariants, action properties, and
liveness guarded by the part that is on.

Bounds, and why they are enough:

* **Action graph.** A cycle that is not a direct edge back, a chase that is
  chased, and a dependent with two blockers each need three actions; nothing in the
  cascade looks further than one edge, so a fourth adds no new shape. A two-step
  chain after a close needs three numbers, a duplicated step needs two processes and
  two, and a verb named twice one more. `graph` has three kinds of history (`history` in `MCProjectClose`): three rows with
  states written by hand; three rows and a project that closes; and two rows with dates, hand edits and the project, where a dated row may close, also as a
  chase of the other, and is then found by the sweep or written by hand (what a date does is done to its own row, by its
  blockers, and a blocker is the second row). The theorems hold without any of these bounds.
* **Overdue.** Allowance 1 and four days let a wait be late, announced after a chase, and late again. In `safety`
  it is one wait that may also be deferred and a sweep that may be cut short; in `upkeep` two waits, one of them in the
  queue, and neither.
* **EventLog.** Two writers, a log of three events, times 0 and 1 with an interval of 0 (a report is due again at the
  next time): a transaction may begin before and commit after another, write twice from one copy, and a condition be
  reported again in and after its interval.
* **Watch.** Five events of three kinds (kept; read and dropped; not read), backlogs asked by
  lines, by time and not at all.
* **Vocabulary.** Two pipelines of one step, one verb, one repository, two builds of which the newer knows a predicate more, a verb of
  which a person closes, one that takes an issue, one that takes an owner and a ref: the smallest
  in which an order can be wrong, a verb be rewritten under a pipeline and a step lack what its verb takes.
* **Codeowners.** Two paths, two rules, two teams and two people in any membership, one hint, one team in `OwnOnly`, and teams nobody
  could read: overlap and inclusion differ from there on.
* **ReviewQueue.** Two teams of which one lies in the other, an author in neither, three paths: ours, theirs and both.
* **Filter.** Two integer columns that may be NULL, a text and a boolean, relations with up to two rows, and a row that
  is related to another; filters of one and of two terms, disjunctions of two comparisons of the row and of related rows among them.
  What a filter does not read is fixed: a column it does not name, and the row related elsewhere where it asks related rows no disjunction.
* **SyncCycle.** One pull request, four moves of GitHub or of a person, two ends of the process, a verb that
  starts a pipeline: what pull requests do to each other in a cycle is their order.
* **Syncer.** An interval of 3, a budget of 11 that lasts 14, cycles that spend up to 4 of which the last answer tells of 1 or 3, others who spend as
  much, 4 failures: the back-off is capped, the budget spaced before it is spent, and spent before it resets. The floor
  and the limit pay for the costliest request (`RoomForAPoll`); the defaults do many times over.
* **ReleaseGates.** One waiter, three tags of history with the highest not the newest, two more cut, pages of one
  and two pages a read, one failure.
* **GitHubClient.** Two readers, two keys, one retry, waits of 1 and 2, so that a shorter one can come second.
* **Issues.** One key, one wait, one poller, a ladder of two rungs and an age beyond it, observations of six kinds; in a part of their own
  (`links`) the links made by hand, which no poll reads.
* **PullRequests.** Twice. `stack`: two pull requests that may be stacked either way, one poller, one move of GitHub or command, which may come
  between any two steps of a poll. `polls`: one pull request whose check may be any to begin with, two pollers whose steps and stale answers
  interleave in any way, and two moves, so that a check breaks, recovers or goes away while one of them is still to write what it read before.
* **Database.** Two processes, three migrations, a build without the second, one commit, one kill, one restore.
* **Patterns.** Every pattern and path of up to three segments over two names, every glob and name of up to three
  letters over two.

`Symmetry` permutes actions, processes, waits or writers in runs that have no liveness
property. `CHECK_DEADLOCK FALSE` appears where a part really does stop: everything closed and the
calendar over, a plan asked for, a pattern matched.

### Fairness

Steps of the program that nobody has to ask for are weakly fair: days pass (`Tick`), the sweeps run in every cycle
whatever failed (`WakeExpired`, `SweepStep`), each sync process goes on to its next step, a timer of the
syncer or of a retry fires, GitHub answers or the connection's deadline does, a process that began a step of its `init` takes the next.
What may fail again and again, but not for ever, is strongly fair: an answer about pull requests
(`Answered` in `SyncCycle`), a read of issues that comes whole, the guard's look at the schema, `init` run by the newest build. `RowsCatchUp` holds from
when on GitHub answers and no process is ended (`Answered` in `MCReading`): the
promise is about the rows, not about an outage.
Nothing a person does is fair, and neither are a process ending, a rate limit or a move of GitHub's.

In the modules of several parts one fairness condition may name an action of each. Since a
behaviour is of one part, the condition is that part's own.

### What the violations show

* **A chase that blocks something.** A chase is an ordinary action, so an action
  can be blocked by one. Standing it down closes it with `closeRecord` alone: the
  dependent stays `blocked`, and nothing looks at it again (`stood_down`). This is
  also the exception in `BlockedMatchesGraph` and `HiddenBehindSomething`.
* **A link between plan and write.** A close planned while the action had no pull
  request writes no steps even if one was linked in between (`protocol_link_race`).
* **Silence after a report.** The event that makes a report idempotent is
  compared with the deadline only. A wait that leaves the late set without its deadline
  moving loses its chase and its row, and is never chased again (`overdue_deferred`); a
  process that ends between the event and the chase has the same effect, which no run checks: set
  `MayStop` in `overdue_deferred.cfg` instead of `MayDefer` to see it.
* **Check, then insert.** Two sweeps raise a condition twice
  (`overdue_two_sweeps`). In the same window a wait may close, and its chase is
  then inserted after the close that would have stood it down.

### What else the source says and does not keep

Written into properties that hold, as exceptions:

* `project supersede` closes a project and re-evaluates nothing, although
  `cli/project.go:909` says a blocked project "returns to active when its last open blocker
  closes" (`MaintainKeepsStatuses` lists it under `PastTheGraph`).
* A parent given as JSON can close a loop, which `store/project.go` says "nothing here can
  write" (`OnlyJSONClosesALoop`).
* A process ended between the transaction that records an ejection and the one that logs it loses the
  ejection (`lost` in `EjectionIsLogged`), though "an unrecorded ejection is the defect".
* `pr chain` waits for what fulfils "the step immediately before it" (`store/chain.go:282`) at the place the step had when the plan
  was made. `sameMissing` does not ask whether the steps were moved since: then the row waits for what is now at another step's
  place, or for nothing (`ChainInOrder` excepts a plan whose places are no longer those of what is missing).
* A pipeline's check refuses "a chain that could not run" (`store/pipeline.go:302`), and does not ask for the tracker issue of a verb
  with `requires_issue`, nor for the ref of a verb that requires an owner too, whose brackets hold the owner. Such a step waits for
  nothing, and only a person can close it (`Held` in `StepsHoldWhatIsAsked`).
* Pushdown "may not change" an answer (`filter/null.go:17`). `a || q` about related rows is compiled to `link AND a OR q`
  (`filter/joins.go:438`, `:467`), which a row related to something else may satisfy: the query lists every row that matches,
  and may list others (`AsksOr` in `ListedAsCelSays`).
* A gate is worked out "from the highest release already tagged in the series" (`cli/ref.go:174`). It is worked out from what is recorded,
  which has gaps after a page that failed or a listing cut short (`store/gitref.go`, `ghsync/ghsync.go`), after a process that ended while it
  recorded tags newest first, and where a query stopped at a tag that the query of another series had recorded; a command resolves from what is there
  at that moment. The target may then be a release that is tagged already and that sync does not know, and the
  action may wait for the next one after it. `GateIsAboveAFirstRead` claims it for a first read carried to its
  end, and `GateOpensLater` of what is recorded.
* "Polling slows exactly enough to last" (`ghsync/syncer.go:142`, `cli/syncer.go:29`). What is spaced is the cost of the last request that told of
  one, of the several a cycle makes, of a budget that others may share: a poll may find it spent (`unforeseen` in
  `LastsAsForetold`).
* The loop "never polls faster than asked" (`cli/syncer.go:31`; "It never speeds up", `ghsync/syncer.go:143`). Once what is left does not
  pay for a poll, `pace` returns what is left of the window, however short, and `failureDelay` ends at 15 minutes, so that after a
  failure a longer interval is cut short (the two cases of `SoonerOnlyAtAReset`).

Stated in the modules beside the properties that hold, and violated when added to a run of that module (named
as module.definition; the counterexamples have a handful of steps):

| statement | the source says | what happens |
|---|---|---|
| `ReleaseGates.WaitsForWhatWasSaid` | a wait set by hand is what the action waits for (`cli/ref.go`) | a gate that sync had already read is resolved over it |
| `Watch.NothingIsMissed` | `cli/watch.go:270` "the moment after which a new event cannot be missed" | what comes between the head and the backlog's query can push the backlog's own lines out of its limit |
| `Database.NothingCommittedIsLost` | `cli/db.go:83` the old database "is renamed aside rather than deleted" | its write-ahead log, with what was committed last, is removed |
| `Database.RestoredIsAlone` | sidecars left behind "would be read as belonging to the restored one" | a kill between two steps of restore, then a command, leaves them |
| `Vocabulary.NothingQuietlyStops` | `store/verb.go:170` a missing predicate "should fail loudly at startup" | a newer build's verb reaches a process that has started |
| `Vocabulary.LocksNobodyOut` | `store/verb.go:197` "the only place a verb is written" | a verb inactive when the build opened is made active again and the build refuses to open |
| `GitHubClient.ChangeIsComplete` | `github/change.go:27` "Complete, or this returns an error" | rules that come back as null read as no rules |
| `Issues.PollPushesNextOut` | `store/issuepoll.go:65` a poll that finds nothing pushes the next one out | a row that did not change is not stamped by a read that nulls it |
| `Issues.WaitEndsOnClosed` | `store/predicate.go`: the tracker says the issue closed | the wait is settled by a row observed open since |
| `PullRequests.OwnersFollowTheBase` | `ghsync/owners.go:38` "where the answer could have changed" | a retarget changes the base and not the head; the owners stay |
| `PullRequests.StackedInTheRepository` | `store/pr.go:376` "in the same repository" | the head branch of a fork is taken for one of the repository's |
| `Codeowners.TierCountsFiles` | `codeowners/route.go:65` "how many outstanding files this ask settles" | a hint that owns nothing is credited with the sum of what the owners it stands for cover: a file that two of them own is counted twice |
| `ReviewQueue.UnreviewedIsUnreviewed` | `reviewqueue/reviewqueue.go:80` "no review or comment from any member" | an item a member spoke on comes back when the team itself is next |
| `Patterns.DirectoriesOnly` | `codeowners/pattern.go:30` a directory pattern "can only match a proper prefix" | `**` before the end takes the file's own name |
| `SyncCycle.EjectionIsLogged`, with `HasMergeVerb <- FALSE` | as above | the report fails with the merge that cannot be added |
| `SyncCycle.SettleEnds`, where an owner's verb starts a pipeline | `store/settle.go:31` the loop "is bounded by the number of candidates" | each pass adds a candidate that holds already |
| `Filter.ListedAsCelSays`, with `NegatedFilters` or `OrFilters` of `MCFilter` | `filter/null.go:17` pushdown "may not change" the answer | a negated relation, and a to-one in a disjunction, are compiled as if a column of the far row were never NULL |
| the same, a far column compared with null, by `!=`, or with another | as above | `store/relation.go:553` leaves a NULL column out of the related row, so that what runs in Go fails where the query answers |
| the same, `n == n \|\| x == 0 \|\| y == 0` on the row | as above | the samples of the probe (`filter/null.go`) change one column at a time, and none of them is the row where n is NULL and neither x nor y is 0 |
| a snoozed action that is closed | `cli/action.go:452` `checkActionConsistency` "reports the schema's couplings before they become CHECK violations" | the date stays on the row; every later `action set` on it is refused for a coupling that the schema does not have |

States written by hand are a different matter: `action set --status ready` and
`action wake` can make a blocked action ready, and no agreement with the edges is
claimed after them. What is checked and proved is that nothing *else* breaks it
(`MaintainKeepsStates`), and that everything else in the table survives hand edits.

## 4. Proofs

`ActionGraphProofs`, for any set of actions, any pipeline length and any calendar:

| theorem | argument |
|---|---|
| `TypeCorrect` | inductive as it stands |
| `EdgesAlwaysBetweenRows` | inductive with `TypeOK`; needs that a row is never deleted (`RowsStay`) |
| `NeverACycle` | `BlocksAcyclic` is inductive with the two above. For `AddBlocker`: if every member of a set waited for another, the set of what *a* reaches inside it would be a smaller such set, or hold the new edge's blocker. For a chain: the last new step of the set waits for nothing after it (`LastIndex`), because new rows have no edges out |
| `NothingHiddenForGood` | inductive with types and edges |
| `ClosedStaysClosed`, `ClosingTakesChases`, `MaintainingKeepsStates` | action properties, from types and edges |
| `GraphDecidesReadyOrBlocked` | `BlockedMatchesGraph` with types and edges, for `MaintainedSpec` (the runs check the step-wise form, `MaintainKeepsStates`, over `Spec`); one lemma per cascade (`CloseMatches`, `InstantiateMatches`) |

`CloseProtocolProofs`, for any number of processes, pull requests, verbs and
pipelines:

* `NumbersAreHeldOnce`, from the inductive invariant `ProtocolInv`: the property
  itself, that a plan holds fewer numbers than were given out, and that an `add` plan
  wants one row. The property alone is not inductive: to allocate, one must know that the
  next number is above everything held.
* `PhasesRefineTheTable`, that the phased operations implement `ActionGraph`: a
  write is a step of it because the numbers held are a chain of fresh rows
  (`IdsAreAChain`), everything else leaves the table alone.
* `ProtocolTypeCorrect`, `ChainsDuplicateNothing`, `ChainsFollowTheClosed` and `ChainsAreInOrder`, from `ChainInv`:
  `ProtocolInv`, the types, that a plan's numbers ascend and that one which wants steps was made for a completed verb that starts them
  (`PlanIs`), and that nothing here is a chase. What is missing is listed in order (`InOrderLists`, by a bijection of ranks). That nothing is
  duplicated is a count by verb: of a verb's steps in the pipeline those answered are as many as its rows
  (`MissingOfAVerb`), the others are missing, and a chain writes a row for each of these; a verb of which any step is written is not true of the pull request, or
  none of its steps would be missing. For the order, `EdgesInside` and `NewEdges` say that a write adds no edge to a row
  that was there, and `BlockerStandsBefore` that `chainBlockers` names what stands at the place before, if it is open.

`ProjectGraphProofs`, for any set of projects and any calendar: `TypeCorrect`;
`NeverACycle`, by the argument of the action graph; `OnlyJSONMakesALoop`, which
needs that a parent is always a row (`ParentsAreRows`, or a new row could come
in above itself) and then that the walk of `CheckParent` is closed under
parents; `MaintainingKeepsStatuses`, one case per command, where `AgreesAfter` says what
re-evaluating exactly the dependents achieves.

`StoreProofs`:

* `LogIsTheHistory` (`LogTellsTheRow`), from `LogInv`: of the committed log and of what each transaction that may write sees
  (`Sees`) the same is claimed, that it tells the row (`Tells`) and is plain (`Plain`); the events of one transaction are
  its last (`OwnAreLast`), and each column of each of its copies has a value that the row had since it began
  (`HadIn`), which is why a write from an old copy starts from such a value, and the first write of a transaction from what the row says.
* `ChainsHoldWhatIsAsked` (`ChainsAreAsAsked`) and `VocabularyTypeCorrect`, from `VocabularyInv`: a step holds what its verb takes, and a
  verb's row never changes what it takes or closes on; a verb that is offered is a row, whatever
  a repository's pipeline is is a row or nothing, and the numbers of pipelines are those of an order (`OrderInv`):
  they arrived in turn, one at a time, with those put first before all others.
* `TailPassesOver` (`WatchPassesOver`), from `WatchInv`: the cursor never passes an event nobody asked for (`Passes`), and what
  is printed is what was asked and kept, in the log's order (`Prints`).
* `FilterListsAsCelSays` (`ListsAsCelSays`), from `FilterInv`: the terms the compilation sent to SQL and the terms left for Go are
  together those of the filter (`SplitInto`, one step of it at a time), and the two sides read each alike
  (`TermsReadAlike`). That rests on an atom answering alike on both sides but where a NULL is compared with a literal
  (`AtomsAgree`), and on the samples of `nullProbe` refusing the shapes where that shows
  (`NeverBothAbsent`). A relation's SQL answers true wherever CEL does, and nowhere else if it asks no disjunction. The
  hypothesis `AskedPlainly` leaves out what the last rows of the table above violate.

`ReadingProofs`:

* `ReadsAreReadWhole` (`ReadsAreWhole`) and `NobodyAsksDuringAHold`, from `ClientInv`: of a batched read, what is left was not answered
  and what is not left was answered one way, read or missing (`Batched`); a team that is left has more pages, or none read yet, and one
  that is not was read to its end (`Paged`); a listing that ended well is short by less than a page (`Listed`); and with
  the runner that remembers, its hold is no shorter than what GitHub last asked for. Only `Ask` sends (`OnlyAskSends`).
* `PRRowsAreWellFormed` and `TheLogKnowsWhatIsBroken` (`LogKnowsWhatIsBroken`), from `PRInv`: the types of the rows and what their columns owe
  one another (`RowIs`), that a poll's memory is about rows that are there and holds what GitHub once said (`SyncIs`), and that nothing
  is known of a check before its row is tracked (`Untouched`), or tracking would forget a broken one. Rows are only ever added, which
  is why what a poll remembers stays about rows (`PollsGrow`).
* `IssueRowsAreWellFormed` and `LinksMadeByHandStay`, from `IssuesInv`: a row that says anything of a state or a closing is dated, and its
  two dates are in their order (`IssueRowIs`), whatever an observation leaves unsaid (`ObservedRow`); ticks keep this
  because ages that stop counting still do not overtake each other (`AgesGrow`); and links, waits and polls are about rows.
* `QueueTypeCorrect`, `QueueTellsWhoseMove`, `AnsweringPasses`, from `QueueInv`, the types with what the last word and an approval entail.

`WaitsProofs`:

* `OwnersTypeCorrect`, `AskedIsEnough` (`AskedSuffice`), `NobodyIsAskedInVain` (`EveryAskHelps`), from `PlanInv`: each ask is of
  someone new and leaves less to be approved, so that the asks made and the paths left are at most the paths there
  are, and what the asks cover together with the approvals there were is everything.
* `GatesTypeCorrect`, `OneThingAtATime`, `GatesOpenLater`, `AFirstReadSeesAll` and all together `GatesOpenInTime` (`GatesOpen`), from `GateInv`: the
  tables, the sync process's memory, the command's memory, and that a wait and a gate exclude each other. `ResolvesAbove`
  says that the release a gate is resolved to lies above every tag that had been recorded; `ReadingHolds`, that a first read
  which was not cut short has, of every series it asks for, fetched or recorded all tags down from the newest
  there was when it began to where it is now.
* `SettlesOnEvidence` (`SettledOnEvidence`) and `EjectionsCount` (`EjectionsAreCounted`), from `SyncInv`: no row is written between
  the read of the candidates and their close (`CandidatesHold`), a fall out of the queue is at GitHub before it is in the
  row (`FallsComeFirst`) and in the row before it is logged (`LoggedIsSeen`), and of an ejection one merge is
  asked for (`AskedOnce`).

`UpkeepProofs`:

* `OverdueTypeCorrect`, `ChasesAreRecorded`, from `OverdueInv`, for any number of sweeps, deferrals and stops: rows are deleted as many as the chases
  they remember. `OneChaseForAWait` where one process sweeps (`OneSweeper`): between the check and the insert nothing is
  recorded (`NoneRaised`).
* `DatabaseTypeCorrect`, `OpenedIsWhole`, `RecordStaysTrue`, `OldFileIsKept` and together `TheDatabaseStaysWhole`
  (`DatabaseIsWhole`), from `DatabaseInv`: what each process relies on of the file it has open (`Relies`), what the record says
  of the file (`Holds`); and a file only ever grows (`Grows`), so that what a process relied on stays.
* `SyncerTypeCorrect`, `GivesUpOnFailuresOnly`, `TheBudgetLastsAsForetold`, `NoSoonerButAtAReset` and together `TheLoopKeepsItsPace`
  (`SyncerKeepsPace`), from `SyncerInv` (failures counted are those in a row) and `PaceInv`: what has passed and
  what is still to be waited make the interval, or the wait ends as the budget is whole (`OnTimeInv`); and what is left pays for
  what was last told of a request, or something was spent untold, or the budget is whole again by the next poll (`BudgetInv`).

`OrderFacts` holds what several of these need and the libraries do not say: least and greatest members,
and that a recursion that descends, as the greedy choice of owners does, has a solution. The provers cannot instantiate the
library's induction theorems, so it is shown with a least counterexample, by the well-foundedness of the naturals.

### What the theorems assume

The assumptions are the named ASSUMEs of the modules, which TLC evaluates in every run, and these hypotheses, where a
theorem states them:

* sets the program enumerates are finite (people, teams, paths, pipelines, migrations, columns, pull requests), and a team is nobody's
  login: a team's name holds a slash;
* an interval and a calendar are not empty; the build that stamped a database before the record of its migrations knew the migrations up to
  its stamp (`LegacyStamp`, `store/migrate.go:109`);
* `OneSweeper`, `RoomForAPoll`, `AskedPlainly`: without them the statement is false, by the runs or the table above, or, for
  `RoomForAPoll` (neither the floor nor the limit is less than what a request costs), because a whole budget may not pay for one;
* for `Issues`, that what is told by hand is an observation (`ToldAssumption`);
* for `EjectionsCount`, that no pipeline starts a merge: one that does adds its own.

### What is only model-checked

* Liveness, and whatever needs `ENABLED` or fairness: the provers have neither. This includes `EjectionIsLogged`.
* The fold of `ProjectClose` over the actions (`ClosesCleanly`): an induction over data.
* The loops of `Patterns`, for the same reason.

No module declares a RECURSIVE operator.

## 5. What is not modelled

Columns no property looks at (titles, notes, ranks, verification stamps) and the rendering of
everything. Time of day: `ActionGraph`, `ProjectGraph` and `Overdue` count
days, and an event on the day of a deadline is past it; a wait's four clocks, which the code compares as texts of different
precision, are one number there, so that nothing here speaks of the precisions (`store/overdue.go:78`). SQLite itself: a
transaction commits or leaves nothing, and a reader sees one snapshot.

* Phased writes: the guard of a pull request tracked as somebody else's; what a step's brackets hold.
* Filters: chains of relations, JSON columns, `in`, string functions, timestamps. Related rows are read after the
  query, a row at a time, so that a listing may mix instants; `Filter` reads one row at one.
* Review queue: stacks, grouping, sorting and the merge of several repositories.
* Pull requests: the clause of the poll that asks for what has an open action (it is in `SyncCycle`); checks of the
  same name in two workflows, which the code collapses; a force-push back to an earlier head, after which the
  owners may have changed while the head agrees; one reopened after the window of the poll, which is never asked for again. Announcements are
  written beside a poll in the model, and no property relates them to it: the columns are a person's, which `EventLog` covers.
* GitHub client: decoding of scalars, the documents' text. A change's pages of files have no bound in the code either.
* Unannounced waits, queue order, listing rules, teams' rows, settings: single transactions or queries whose reports and
  reads are modelled elsewhere (`PROJECT.json` says where).
* The server, the pages, MCP, markdown, static files, metrics: front ends and formatting over the same operations.

## 6. Plan

1. Proofs: one turn of `Drop` of `ProjectClose`, and the loops of `Patterns` by a least counterexample.
2. `Overdue` and `SyncCycle` composed with `ActionGraph`, as refinements of it in the manner of `CloseProtocol`.
3. Stacks and grouping in `ReviewQueue`; chains of relations in `Filter`; unannounced waits beside `Overdue`.
