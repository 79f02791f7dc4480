---------------------------- MODULE ReleaseGates ----------------------------
(***************************************************************************)
(* Waiting for a release.  An action waits for a tag (action_ref_wait), or *)
(* holds a gate that counts from the highest release there is               *)
(* (action_ref_pending) until a version can be worked out.  The sync       *)
(* process reads a repository's tags newest first, a page at a time and no *)
(* further than it must, records them one transaction each, resolves the   *)
(* gates and settles; a command writes a wait or a gate, resolves the gate *)
(* and settles, in three transactions.                                     *)
(*                                                                         *)
(* One repository, with a top-level series and others under a path.  A     *)
(* version is major.minor; the patch level behaves as minor does.          *)
(***************************************************************************)
EXTENDS Naturals, Sequences, FiniteSets, FiniteSetsExt, Functions

CONSTANTS
    Waiters,     \* actions whose verb closes on ref_exists
    Series, TopLevel, \* the series, and the one with no path
    History,     \* the sequences of tags there may be to begin with
    Releases,    \* the tags that may be cut
    Gates,       \* what may be asked for relative to the newest release
    NoGate, NoWait,
    PageSize,    \* RefPageSize
    MaxPages,    \* RefMaxPages
    Behind,      \* how many tags are cut before a cycle that began after them ends
    MaxCuts, MaxSays, MaxFaults \* bounds on releases, commands, and failures

\* RefVersion's parts are unsigned.
Versions == [major : Nat, minor : Nat]
Tags     == [series : Series, version : Versions, pre : BOOLEAN]

SeriesAssumption == TopLevel \in Series
TagsAssumption   == History \subseteq Seq(Tags) /\ Releases \subseteq Tags
\* Offset "is at least one" (refrelative.go:33).
GatesAssumption  ==
    Gates \subseteq [series : Series, component : {"major", "minor"}, offset : Nat \ {0}]
PagesAssumption  == {PageSize, MaxPages} \subseteq Nat \ {0}
BoundAssumption  == {Behind, MaxCuts, MaxSays, MaxFaults} \subseteq Nat

VARIABLES
    tags,     \* GitHub's tags, oldest first
    known,    \* git_ref: the tags recorded, by position in tags
    wait,     \* action_ref_wait
    gate,     \* action_ref_pending
    open,     \* actions not closed
    sync,     \* the sync process's memory
    cli,      \* the command's: the action it still has to resolve or settle
    asked,    \* what was last said about an action, and what was tagged then
    caught,   \* how many tags there were when the last cycle began that read
    cuts, says, faults

tables == <<known, wait, gate, open>>
ghosts == <<asked, caught>>
bounds == <<cuts, says, faults>>
vars   == <<tags, tables, sync, cli, ghosts, bounds>>

----------------------------------------------------------------------------
(* Versions, waits and gates *)

AtLeast(v, least) == \/ v.major > least.major
                     \/ v.major = least.major /\ v.minor >= least.minor

\* RefWait.Matches: the series is compared for equality, and a constraint never
\* matches a pre-release.
Matches(w, tag) == /\ tag.series = w.series
                   /\ ~tag.pre
                   /\ AtLeast(tag.version, w.least)

\* What a gate counts from: its own series, and no pre-release.
CountsFrom(g, positions) == {i \in positions : tags[i].series = g.series /\ ~tags[i].pre}

\* Mutant: the newest is taken for the highest.
Newest(positions) == Max(positions)

Highest(positions) ==
    CHOOSE i \in positions : \A j \in positions : AtLeast(tags[i].version, tags[j].version)

\* RelativeRef.Resolve against the tags at these positions, if there is one to
\* count from: what is below the bumped component is zeroed.
Resolve(g, positions) ==
    LET v == tags[Highest(CountsFrom(g, positions))].version
    IN [series |-> g.series,
        least  |-> IF g.component = "major" THEN [major |-> v.major + g.offset, minor |-> 0]
                   ELSE [v EXCEPT !.minor = @ + g.offset]]

Satisfied(a, waits, recorded) ==
    waits[a] # NoWait /\ \E i \in recorded : Matches(waits[a], tags[i])

\* ResolvePendingRef and SetRefWait, in one transaction: the wait is written and
\* the gate goes, whatever the action's gate and wait are by now.
ResolveInto(a, g) ==
    IF CountsFrom(g, known) = {} THEN UNCHANGED <<wait, gate>>
    ELSE /\ wait' = [wait EXCEPT ![a] = Resolve(g, known)]
         /\ gate' = [gate EXCEPT ![a] = NoGate]

----------------------------------------------------------------------------
(* The sync process: what refQueries asks *)

Quiet == [pc |-> "idle", at |-> 0, pending |-> [a \in {} |-> NoGate], known |-> {}, cursor |-> [s \in {} |-> 0],
          pages |-> 0, fetched |-> {}, cut |-> {}]

\* A query is for one series; the top-level one's returns every tag.
Asks(s, i) == s = TopLevel \/ tags[i].series = s

SeriesAskedFor == {wait[a].series : a \in {b \in open : wait[b] # NoWait}}
                  \cup {gate[a].series : a \in {b \in open : gate[b] # NoGate}}

Begin ==
    /\ sync.pc = "idle"
    /\ SeriesAskedFor # {}
    /\ sync' = [Quiet EXCEPT !.pc = "read", !.at = Len(tags),
                  !.pending = [a \in {b \in open : gate[b] # NoGate} |-> gate[a]],
                  !.known = known,
                  !.cursor = [s \in SeriesAskedFor |-> 0]]
    /\ UNCHANGED <<tags, tables, cli, ghosts, bounds>>

\* The next page of a query: the newest tags older than its cursor, newest
\* first.  A cursor of nought is none yet.
Older(s) == {i \in 1 .. Len(tags) : Asks(s, i) /\ (sync.cursor[s] = 0 \/ i < sync.cursor[s])}

\* Mutant: the oldest come first.
OldestFirst(s) == {i \in Older(s) : Cardinality({j \in Older(s) : j < i}) < PageSize}

Page(s) == {i \in Older(s) : Cardinality({j \in Older(s) : j > i}) < PageSize}

HasNextPage(s) == Cardinality(Older(s)) > PageSize

Recognised(s) == Page(s) \cap sync.known # {}

FetchedBy(asking) == sync.fetched \cup UNION {Page(s) : s \in asking}

\* Mutant: one page too many.
LastPageLate(more) == sync.pages = MaxPages \/ more = {}

LastPage(more) == sync.pages + 1 = MaxPages \/ more = {}

(* One request: a page of every query that has more.  A query that recognised *)
(* something has caught up and leaves; one that still has more after the last *)
(* page allowed is cut short, and said to be.                                 *)
ReadPage ==
    /\ sync.pc = "read"
    /\ LET asking == DOMAIN sync.cursor
           more   == {s \in asking : HasNextPage(s) /\ ~Recognised(s)}
           last   == LastPage(more)
       IN sync' = [sync EXCEPT
                !.fetched = FetchedBy(asking),
                !.pages   = @ + 1,
                !.cursor  = [s \in more |-> Min(Page(s))],
                !.cut     = IF last THEN more ELSE {},
                !.pc      = IF ~last THEN "read" ELSE IF FetchedBy(asking) = {} THEN "resolve" ELSE "apply"]
    /\ UNCHANGED <<tags, tables, cli, ghosts, bounds>>

(* A page GitHub does not serve ends the read where it is: the queries that   *)
(* have read nothing are missing, the others are cut short.                   *)
PageFails ==
    /\ sync.pc = "read"
    /\ faults < MaxFaults
    /\ faults' = faults + 1
    /\ sync' = [sync EXCEPT !.pc = IF sync.fetched = {} THEN "resolve" ELSE "apply", !.cut = DOMAIN sync.cursor]
    /\ UNCHANGED <<tags, tables, cli, ghosts, cuts, says>>

(* A rate limit throws away what was read and ends the cycle; so does the end *)
(* of the process, wherever it is.                                            *)
Stop ==
    /\ sync.pc # "idle"
    /\ faults < MaxFaults
    /\ faults' = faults + 1
    /\ sync' = Quiet
    /\ UNCHANGED <<tags, tables, cli, ghosts, cuts, says>>

(* applyRef: one tag in a transaction of its own, those of a query newest     *)
(* first and the queries in any order.                                        *)
Apply ==
    /\ sync.pc = "apply"
    /\ \E i \in sync.fetched :
          /\ \A j \in sync.fetched : tags[j].series = tags[i].series => j <= i
          /\ known' = known \cup {i}
          /\ sync' = [sync EXCEPT !.fetched = @ \ {i},
                                  !.pc = IF sync.fetched = {i} THEN "resolve" ELSE "apply"]
    /\ UNCHANGED <<tags, wait, gate, open, cli, ghosts, bounds>>

\* The gates as they were listed before the read; none is looked at again.
ResolvePending(a) ==
    /\ sync.pc = "resolve"
    /\ a \in DOMAIN sync.pending
    /\ ResolveInto(a, sync.pending[a])
    /\ sync' = [sync EXCEPT !.pending = [b \in DOMAIN @ \ {a} |-> @[b]]]
    /\ UNCHANGED <<tags, known, open, cli, ghosts, bounds>>

\* The reports of what was cut short, and the sweep that settles: the actions
\* whose wait a recorded tag matches are closed.
Settle ==
    /\ sync.pc = "resolve"
    /\ DOMAIN sync.pending = {}
    /\ open' = {a \in open : ~Satisfied(a, wait, known)}
    /\ caught' = IF sync.pages > 0 THEN sync.at ELSE caught
    /\ sync' = Quiet
    /\ UNCHANGED <<tags, known, wait, gate, cli, asked, bounds>>

----------------------------------------------------------------------------
(* Commands, and releases *)

Idle == [pc |-> "idle", on |-> "none", gate |-> NoGate]

(* wait-ref with a version: SetRefWait replaces the wait and drops the gate. *)
WaitByHand(a, w) ==
    /\ cli.pc = "idle"
    /\ says < MaxSays
    /\ says' = says + 1
    /\ a \in open
    /\ wait' = [wait EXCEPT ![a] = w]
    /\ gate' = [gate EXCEPT ![a] = NoGate]
    /\ asked' = [asked EXCEPT ![a] = [said |-> w, before |-> Len(tags)]]
    /\ cli' = [pc |-> "settle", on |-> a, gate |-> NoGate]
    /\ UNCHANGED <<tags, known, open, sync, caught, cuts, faults>>

\* Mutant: a gate leaves the wait it was written over.
GateBeside(a, g) == gate' = [gate EXCEPT ![a] = g] /\ UNCHANGED wait

\* AddPendingRef.
AddPendingRef(a, g) ==
    /\ wait' = [wait EXCEPT ![a] = NoWait]
    /\ gate' = [gate EXCEPT ![a] = g]

GateByHand(a, g) ==
    /\ cli.pc = "idle"
    /\ says < MaxSays
    /\ says' = says + 1
    /\ a \in open
    /\ AddPendingRef(a, g)
    /\ asked' = [asked EXCEPT ![a] = [said |-> g, before |-> Len(tags)]]
    /\ cli' = [pc |-> "resolve", on |-> a, gate |-> g]
    /\ UNCHANGED <<tags, known, open, sync, caught, cuts, faults>>

\* resolveGateNow, in a transaction of its own.
ResolveGateNow ==
    /\ cli.pc = "resolve"
    /\ ResolveInto(cli.on, cli.gate)
    /\ cli' = [cli EXCEPT !.pc = "settle"]
    /\ UNCHANGED <<tags, known, open, sync, ghosts, bounds>>

\* settleActionNow.
SettleActionNow ==
    /\ cli.pc = "settle"
    /\ open' = IF Satisfied(cli.on, wait, known) THEN open \ {cli.on} ELSE open
    /\ cli' = Idle
    /\ UNCHANGED <<tags, known, wait, gate, sync, ghosts, bounds>>

\* The command may end after its first transaction.
CommandEnds ==
    /\ cli.pc # "idle"
    /\ cli' = Idle
    /\ UNCHANGED <<tags, tables, sync, ghosts, bounds>>

Cut(tag) ==
    /\ cuts < MaxCuts
    /\ cuts' = cuts + 1
    /\ Len(tags) < caught + Behind
    /\ tag \notin Range(tags)
    /\ tags' = Append(tags, tag)
    /\ UNCHANGED <<tables, sync, cli, ghosts, says, faults>>

----------------------------------------------------------------------------
Init ==
    /\ tags \in History
    /\ known = {}
    /\ open = Waiters
    /\ wait = [a \in Waiters |-> NoWait]
    /\ gate \in [Waiters -> Gates \cup {NoGate}]
    /\ sync = Quiet
    /\ cli = Idle
    /\ asked = [a \in Waiters |-> [said |-> gate[a], before |-> Len(tags)]]
    /\ caught = Len(tags)
    /\ cuts = 0 /\ says = 0 /\ faults = 0

\* What may be waited for by hand: a release that may come.
Waits == {[series |-> r.series, least |-> r.version] : r \in Releases}

Sync ==
    \/ Begin \/ ReadPage \/ Apply \/ Settle
    \/ \E a \in Waiters : ResolvePending(a)

Next ==
    \/ Sync
    \/ PageFails \/ Stop
    \/ \E a \in Waiters, w \in Waits : WaitByHand(a, w)
    \/ \E a \in Waiters, g \in Gates : GateByHand(a, g)
    \/ ResolveGateNow \/ SettleActionNow \/ CommandEnds
    \/ \E r \in Releases : Cut(r)

Spec     == Init /\ [][Next]_vars
FairSpec == Spec /\ WF_vars(Sync)

----------------------------------------------------------------------------
(* Properties *)

Wait == [series : Series, least : Versions]

(* The type of the state; a command's memory names an action while it runs. *)
GateTypeOK ==
    /\ tags \in Seq(Tags)
    /\ known \subseteq DOMAIN tags
    /\ caught <= Len(tags)
    /\ wait \in [Waiters -> Wait \cup {NoWait}]
    /\ gate \in [Waiters -> Gates \cup {NoGate}]
    /\ open \subseteq Waiters
    /\ sync.pc \in {"idle", "read", "apply", "resolve"}
    /\ DOMAIN sync.cursor \subseteq Series /\ sync.cut \subseteq Series
    /\ sync.pages \in 0 .. MaxPages
    /\ cli.pc # "idle" => cli.on \in Waiters

(* An action waits for one thing: a wait, or a gate that is not worked out.   *)
(* Two tables and four writers keep it, SetRefWait and AddPendingRef each     *)
(* deleting from the other's.                                                 *)
WaitsForOneThing == \A a \in Waiters : wait[a] = NoWait \/ gate[a] = NoGate

(* Resolving a gate never satisfies it: no tag recorded so far, of any series *)
(* or pre-release, matches the wait it becomes.                               *)
GateOpensLater ==
    [][\A a \in Waiters :
          wait'[a] # wait[a] /\ ~(says' > says) => ~Satisfied(a, wait', known)]_vars

(* A first read of the repository that was carried to its end saw every       *)
(* release there was when it began, of the series it asked for: a gate it     *)
(* resolves is above them all, "the highest release already tagged in the     *)
(* series" (cli/ref.go:174-176).  Of later reads, of reads cut short and of   *)
(* commands, that does not hold: what is recorded may have gaps.              *)
GateIsAboveAFirstRead ==
    [][\A a \in DOMAIN sync.pending \ DOMAIN sync'.pending :
          wait'[a] # wait[a] /\ sync.known = {} /\ sync.cut = {} =>
              \A i \in 1 .. sync.at : ~Matches(wait'[a], tags[i])]_vars

(* A gate opens for a release above all that are recorded, and above all      *)
(* there are if the repository was just read through for the first time; and  *)
(* its action waits for nothing else.                                         *)
GatesOpen == []WaitsForOneThing /\ GateOpensLater /\ GateIsAboveAFirstRead

(* A release cut after an action began to wait closes it, whatever failed or  *)
(* ended in between, provided fewer releases than fill a page come between    *)
(* two reads carried out to their end.                                        *)
Due(a) == /\ a \in open
          /\ wait[a] # NoWait
          /\ \E i \in DOMAIN tags : i > asked[a].before /\ Matches(wait[a], tags[i])
ReleasesAreSeen == \A a \in Waiters : Due(a) ~> ~Due(a)

(* What the code says and does not keep: a wait written by hand stands until  *)
(* something else is said by hand.                                            *)
WaitsForWhatWasSaid ==
    \A a \in Waiters : asked[a].said # NoGate /\ asked[a].said \notin Gates => wait[a] = asked[a].said
=============================================================================
