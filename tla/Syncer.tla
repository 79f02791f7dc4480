------------------------------- MODULE Syncer -------------------------------
(***************************************************************************)
(* The loop of Syncer.Run: how long it waits after each cycle, and when it *)
(* gives up.  Beside it run the services of the same process, the guard of *)
(* the schema among them; the first to return ends the rest.               *)
(*                                                                         *)
(* Time is counted in units both the interval and the budget's window are  *)
(* multiples of, and only the distances that matter are kept: until the    *)
(* next poll, since the last, until the budget is whole again.             *)
(*                                                                         *)
(* A cycle makes several requests, and paces itself by what the last that  *)
(* was asked for a budget said: what is left, and what that one request    *)
(* cost.  What is read after it is not told, and with gh the budget is the *)
(* user's, who may spend it too.                                           *)
(***************************************************************************)
EXTENDS Naturals

CONSTANTS
    Interval,      \* --interval
    Floor,         \* --rate-limit-floor
    MaxFailures,   \* --max-failures, 0 to keep trying
    MaxBackoff,
    Limit, Window, \* GitHub's budget, and how long it lasts
    Costs,         \* what a request may say it cost
    Most,          \* bound on what a cycle spends, and another between two cycles
    CheckInterval  \* how often the guard looks at the schema

SyncerAssumption ==
    /\ {Interval, MaxBackoff, Limit, Window, CheckInterval} \subseteq Nat \ {0}
    /\ {Floor, MaxFailures, Most} \subseteq Nat
    /\ Costs \subseteq Nat

VARIABLES
    loop,       \* "waiting", "gave up", or "stopped"
    failures,
    delay,      \* time until the next poll
    elapsed,    \* time since the last poll began, up to the interval
    remaining,  \* points left in the budget
    cost,       \* what the last answer said its request cost
    unforeseen, \* whether anything was spent since it that no answer told of
    resetsIn,   \* time until the budget is whole
    schema,     \* "started with", or "migrated"
    checkIn,    \* time until the guard looks
    fruitless   \* cycles since one got something from GitHub

budgetVars == <<remaining, cost, unforeseen>>
syncerVars == <<loop, failures, delay, elapsed, budgetVars, resetsIn, schema, checkIn, fruitless>>

Smaller(a, b) == IF a < b THEN a ELSE b
Longest == CHOOSE t \in {Interval, MaxBackoff, Window} :
               \A u \in {Interval, MaxBackoff, Window} : u <= t

----------------------------------------------------------------------------
(* How long to wait *)

\* Mutant: what is left is spread without asking what a poll costs.
PaceByPoints(left, told, window) ==
    IF left >= Floor THEN Interval
    ELSE IF left = 0 THEN window
    ELSE IF window \div left <= Interval THEN Interval ELSE window \div left

\* pace, for a budget GitHub told of.
Pace(left, told, window) ==
    LET affordable == IF told > 0 THEN left \div told ELSE left
        spaced     == window \div affordable
    IN  CASE left >= Floor   -> Interval
          [] left < Floor /\ affordable = 0 -> window
          [] left < Floor /\ affordable > 0 /\ spaced <= Interval -> Interval
          [] OTHER -> spaced

\* failureDelay of a fault: doubled from the interval, six times at the most.
Doubled    == <<2, 4, 8, 16, 32, 64>>
Backoff(n) == Smaller(Interval * Doubled[Smaller(n, 6)], MaxBackoff)

----------------------------------------------------------------------------
Running == loop = "waiting"

Poll ==
    /\ Running
    /\ delay = 0
    /\ elapsed' = 0
    /\ UNCHANGED <<resetsIn, schema, checkIn>>

Spends(n) ==
    /\ n <= remaining
    /\ remaining' = remaining - n

(* A cycle that got something, though some of its reads may have failed.  Its *)
(* last answer that told of a budget came after spent points, of which told   *)
(* were that request's, and before the owners are read for another rest.      *)
Worked(spent, told, rest) ==
    /\ Poll
    /\ told <= spent
    /\ Spends(spent + rest)
    /\ cost' = told
    /\ unforeseen' = (rest > 0)
    /\ failures' = 0
    /\ fruitless' = 0
    /\ delay' = Pace(remaining - spent, told, resetsIn)
    /\ UNCHANGED loop

\* What was spent and not told of.
SpendsUntold(spent) ==
    /\ Spends(spent)
    /\ unforeseen' = (unforeseen \/ spent > 0)
    /\ UNCHANGED cost

(* A cycle that had nothing to ask, or whose answers told of no budget.       *)
Untold(spent) ==
    /\ Poll
    /\ SpendsUntold(spent)
    /\ failures' = 0
    /\ fruitless' = 0
    /\ delay' = Interval
    /\ UNCHANGED loop

Failed(spent, wait) ==
    /\ SpendsUntold(spent)
    /\ failures' = failures + 1
    /\ fruitless' = fruitless + 1
    /\ IF MaxFailures > 0 /\ failures' >= MaxFailures
       THEN loop' = "gave up" /\ UNCHANGED delay
       ELSE delay' = wait /\ UNCHANGED loop

(* The store would not answer, or every read failed.                          *)
Fault(spent) == Poll /\ Failed(spent, Backoff(failures + 1))

(* GitHub refused: the budget is spent, or a secondary limit was hit.         *)
Limited(spent) == Poll /\ Failed(spent, MaxBackoff)

Cycle ==
    \E spent \in 0 .. Most :
        \/ \E told \in Costs, rest \in 0 .. Most : Worked(spent, told, rest)
        \/ Untold(spent) \/ Fault(spent) \/ Limited(spent)

(* Somebody else spends of the same budget.                                   *)
OthersSpend(n) ==
    /\ Running
    /\ SpendsUntold(n)
    /\ UNCHANGED <<loop, failures, delay, elapsed, resetsIn, schema, checkIn, fruitless>>

(* ctx is cancelled: a stop, whatever the loop was doing.                     *)
Cancel ==
    /\ Running
    /\ loop' = "stopped"
    /\ UNCHANGED <<failures, delay, elapsed, budgetVars, resetsIn, schema, checkIn, fruitless>>

(* Another process upgrades the database.                                     *)
SchemaMoves ==
    /\ schema = "started with"
    /\ schema' = "migrated"
    /\ UNCHANGED <<loop, failures, delay, elapsed, budgetVars, resetsIn, checkIn, fruitless>>

(* schemaGuard looks: a schema that moved ends the process, an answer that    *)
(* did not come waits for the next look.                                      *)
CheckSchema(answered) ==
    /\ Running
    /\ checkIn = 0
    /\ checkIn' = CheckInterval
    /\ loop' = IF answered /\ schema = "migrated" THEN "stopped" ELSE loop
    /\ UNCHANGED <<failures, delay, elapsed, budgetVars, resetsIn, schema, fruitless>>

(* Time passes unless something is due.                                       *)
TimePasses ==
    /\ Running
    /\ delay > 0 /\ checkIn > 0
    /\ delay' = delay - 1
    /\ checkIn' = checkIn - 1
    /\ elapsed' = Smaller(elapsed + 1, Interval)
    /\ resetsIn' = IF resetsIn = 1 THEN Window ELSE resetsIn - 1
    /\ remaining' = IF resetsIn = 1 THEN Limit ELSE remaining
    /\ unforeseen' = (unforeseen /\ resetsIn # 1)
    /\ UNCHANGED <<loop, failures, cost, schema, fruitless>>

SyncerInit ==
    /\ loop = "waiting"
    /\ failures = 0
    /\ delay = 0
    /\ elapsed = Interval
    /\ remaining = Limit
    /\ cost = 0
    /\ unforeseen = FALSE
    /\ resetsIn \in 1 .. Window
    /\ schema = "started with"
    /\ checkIn = CheckInterval
    /\ fruitless = 0

SyncerNext ==
    \/ Cycle
    \/ \E n \in 1 .. Most : OthersSpend(n)
    \/ Cancel \/ SchemaMoves \/ TimePasses
    \/ \E answered \in BOOLEAN : CheckSchema(answered)

SyncerSpec == SyncerInit /\ [][SyncerNext]_syncerVars

\* Time passes, a due poll and a due look happen, and the database answers a
\* look now and then.
FairSyncer ==
    /\ SyncerSpec
    /\ WF_syncerVars(TimePasses)
    /\ WF_syncerVars(Cycle)
    /\ WF_syncerVars(\E answered \in BOOLEAN : CheckSchema(answered))
    /\ SF_syncerVars(CheckSchema(TRUE))

----------------------------------------------------------------------------
SyncerTypeOK ==
    /\ loop \in {"waiting", "gave up", "stopped"}
    /\ {failures, fruitless} \subseteq Nat
    /\ delay \in 0 .. Longest
    /\ elapsed \in 0 .. Interval
    /\ remaining \in 0 .. Limit
    /\ cost \in {0} \union Costs
    /\ unforeseen \in BOOLEAN
    /\ resetsIn \in 1 .. Window
    /\ schema \in {"started with", "migrated"}
    /\ checkIn \in 0 .. CheckInterval

\* The budget lasts as far as it was foretold: no poll finds less left than the last
\* answer said its request cost, unless something was spent since that no answer told of.
\* It does not last for a cycle that costs more than its last request does.
LastsAsForetold == Running /\ delay = 0 => unforeseen \/ remaining >= cost

\* A poll comes sooner than asked only at the moment the budget is whole again, where
\* what was left of it paid for none (or where failures back off for less than that).
SoonerOnlyAtAReset ==
    Running /\ delay = 0 /\ elapsed < Interval => resetsIn = Window \/ MaxBackoff < Interval

\* It gives up on as many failures in a row as it tolerates, and on no partly
\* working cycle: counting it "eventually stops a process that is doing most of
\* its job" (ghsync/syncer.go:80).
GivesUpOnFailures == loop = "gave up" => MaxFailures > 0 /\ fruitless >= MaxFailures

\* The loop keeps its pace: it gives up on failures only, what is left pays for the next
\* poll as far as was foretold, and none comes sooner than asked but at a reset.
SyncerKeepsPace == GivesUpOnFailures /\ LastsAsForetold /\ SoonerOnlyAtAReset

\* A process does not go on against a schema it does not understand
\* (cli/schemaguard.go:22): it ends once the database has migrated.
EndsAfterMigration == schema = "migrated" ~> ~Running
=============================================================================
