---------------------------- MODULE GitHubClient ----------------------------
(***************************************************************************)
(* The GraphQL client: src/github.  A reader is one call of Fetch (or      *)
(* Issues, which has its shape), TeamMembers, Change or OpenPullRequests.  *)
(* Each is a loop of requests, and each request goes through Retrying and  *)
(* a runner: `gh`, which remembers nothing, or HTTPRunner, whose clients   *)
(* share one hold after a rate limit.  The check of the hold and the       *)
(* answer are two steps, so requests of several readers are out at once.   *)
(*                                                                         *)
(* GitHub is the environment.  It answers in whole or in part (a 200 whose *)
(* errors null some of what was asked), with no data at all, with a limit  *)
(* said in the status and headers or only in the body, or not at all.      *)
(* Waits are counted down in ticks; a page, a batch and the delays keep    *)
(* their order and lose their size.                                        *)
(***************************************************************************)
EXTENDS Integers, FiniteSets, Sequences

CONSTANTS
    Calls,          \* what each concurrent reader may call: reader -> kinds
    Keys,           \* pull requests, issues or teams one call asks for
    PRBatchSize,    \* keys in one request
    RetryDelays,    \* waits before the second and later attempts
    TeamMaxPages,   \* pages TeamMembers reads before it gives up
    OpenPRPage,     \* pull requests on one page of a listing
    OpenPRAttempts, \* times a short listing is read
    LimitWaits,     \* waits GitHub asks for after a limit
    GitHubs         \* what there is to read: visible, pages, rules, open

ClientAssumption ==
    /\ PRBatchSize \in Nat \ {0} /\ TeamMaxPages \in Nat \ {0}
    /\ OpenPRPage \in Nat \ {0} /\ OpenPRAttempts \in Nat \ {0}
    /\ \A c \in DOMAIN Calls : Calls[c] \subseteq {"fetch", "teams", "change", "list"}
    /\ GitHubs \subseteq [visible : SUBSET Keys, pages : [Keys -> Nat], rules : BOOLEAN, open : Nat]
    /\ LimitWaits \subseteq Nat \ {0}
    /\ RetryDelays \in Seq(Nat)

VARIABLES
    github, \* GitHub: what it holds, and the wait it last asked for
    runner, \* [name, hold]: the runner, and what is left of its hold
    reads   \* the calls

clientVars == <<github, runner, reads>>

Readers == DOMAIN Calls
Retries == Len(RetryDelays)
CallKinds == {"fetch", "teams", "change", "list"}
Finished == {"idle", "done", "failed", "limited", "cancelled"}

Longer(a, b) == IF a > b THEN a ELSE b
Shorter(a, b) == IF a < b THEN a ELSE b

ClientTypeOK ==
    /\ github \in [world : GitHubs, told : Nat]
    /\ runner \in [name : {"gh", "http"}, hold : Nat]
    /\ \A c \in Readers :
        /\ reads[c].kind \in CallKinds
        /\ reads[c].at \in Finished \cup {"ask", "out", "waiting"}
        /\ reads[c].left \subseteq Keys /\ reads[c].ask \subseteq reads[c].left
        /\ reads[c].lost \subseteq Keys
        /\ reads[c].got \in [Keys -> Nat]
        /\ reads[c].tries \in 0..Retries
        /\ reads[c].round \in 1..OpenPRAttempts
        /\ reads[c].rules \in {"unread", "none", "read"}

-----------------------------------------------------------------------------
(* What a call holds.                                                      *)

NewRead(kind) ==
    [kind |-> kind, at |-> "idle", left |-> {}, ask |-> {},
     got |-> [k \in Keys |-> 0], lost |-> {}, page |-> 0, tries |-> 0,
     wake |-> 0, round |-> 1, count |-> 0, reported |-> 0, rules |-> "unread"]

(* One request of at most PRBatchSize keys, in no order that matters.      *)
Batches(left) ==
    {b \in SUBSET left : Cardinality(b) = Shorter(PRBatchSize, Cardinality(left))}

(* The keys of the next request: a batch of what is left, or every team    *)
(* that still has more pages.                                              *)
NextAsk(kind, left) == IF kind = "fetch" THEN Batches(left) ELSE {left}

GoOn(r, left) ==
    IF left = {} THEN {[r EXCEPT !.at = "done", !.left = {}, !.ask = {}]}
    ELSE {[r EXCEPT !.at = "ask", !.left = left, !.ask = b] : b \in NextAsk(r.kind, left)}

Becomes(c, r) == reads' = [reads EXCEPT ![c] = r]

(* A call that fails returns nothing but its error.                        *)
Ends(c, how) == Becomes(c, [NewRead(reads[c].kind) EXCEPT !.at = how])

-----------------------------------------------------------------------------
(* Calls and requests.                                                     *)

(* A call begins: Change is about one pull request, the others about all.  *)
Begin(c, kind) ==
    /\ reads[c].at \in Finished
    /\ \E left \in (IF kind = "change" THEN {{k} : k \in Keys} ELSE {Keys}) :
        \E ask \in NextAsk(kind, left) :
            Becomes(c, [NewRead(kind) EXCEPT !.at = "ask", !.left = left, !.ask = ask])
    /\ UNCHANGED <<github, runner>>

(* HTTPRunner's first step: a request inside the hold fails at once, and a *)
(* rate limit is not retried.                                              *)
Ask(c) ==
    /\ reads[c].at = "ask"
    /\ IF runner.name = "http" /\ runner.hold > 0 THEN Ends(c, "limited")
       ELSE Becomes(c, [reads[c] EXCEPT !.at = "out"])
    /\ UNCHANGED <<github, runner>>

(* backoff.set: several requests were out when the limit began, and each   *)
(* comes back with its own wait.  The longest one counts.                  *)
HoldForLast(wait) == wait
Hold(wait) == Longer(runner.hold, wait)

(* A limit said in the status or the headers fails the whole call.         *)
Limit(c, wait) ==
    /\ reads[c].at = "out"
    /\ Ends(c, "limited")
    /\ github' = [github EXCEPT !.told = Longer(@, wait)]
    /\ runner' = [runner EXCEPT !.hold = IF runner.name = "http" THEN Hold(wait) ELSE 0]

(* No answer: Retrying waits and asks again, and gives up after the last   *)
(* of its delays.                                                          *)
GivesUp(tries) == tries >= Retries

SameAttempt(tries) == tries
Attempt(tries) == tries + 1

Fault(c) ==
    /\ reads[c].at = "out"
    /\ IF GivesUp(reads[c].tries) THEN Ends(c, "failed")
       ELSE Becomes(c, [reads[c] EXCEPT !.at = "waiting", !.tries = Attempt(@),
                                        !.wake = RetryDelays[reads[c].tries + 1]])
    /\ UNCHANGED <<github, runner>>

Retry(c) ==
    /\ reads[c].at = "waiting" /\ reads[c].wake = 0
    /\ Becomes(c, [reads[c] EXCEPT !.at = "ask"])
    /\ UNCHANGED <<github, runner>>

(* The context ends: while the request is out or between two attempts.     *)
Cancel(c) ==
    /\ reads[c].at \in {"out", "waiting"}
    /\ Ends(c, "cancelled")
    /\ UNCHANGED <<github, runner>>

-----------------------------------------------------------------------------
(* Answers.  Every one starts the next request with no attempt used.       *)

(* decodeInto, decodeIssuesInto: every alias asked for is found or named   *)
(* as missing.  GitHub answers nothing for what it does not show, and may  *)
(* null what it does.                                                      *)
MissingUnnamed(absent) == {}
Missing(absent) == absent

FetchAnswer(c) ==
    LET r == reads[c] IN
    /\ r.at = "out" /\ r.kind = "fetch"
    /\ \E absent \in SUBSET r.ask :
        /\ r.ask \ github.world.visible \subseteq absent
        /\ \E next \in GoOn([r EXCEPT !.tries = 0, !.lost = @ \cup Missing(absent),
                                      !.got = [k \in Keys |-> IF k \in r.ask \ absent THEN 1 ELSE @[k]]],
                            r.left \ r.ask) :
            Becomes(c, next)
    /\ UNCHANGED <<github, runner>>

(* decodeTeamPage: an alias that came back null fails the call; the teams  *)
(* with more pages are asked again, up to the bound.                       *)
ReadAsEmpty(absent) == FALSE
Unresolved(absent) == absent # {}

TeamsAnswer(c) ==
    LET r == reads[c] IN
    /\ r.at = "out" /\ r.kind = "teams"
    /\ \E absent \in SUBSET r.ask :
        /\ {k \in r.ask : github.world.pages[k] = 0} \subseteq absent
        /\ LET got  == [k \in Keys |-> r.got[k] + IF k \in r.ask \ absent THEN 1 ELSE 0]
               more == {k \in r.ask \ absent : github.world.pages[k] > got[k]}
           IN IF Unresolved(absent) \/ (more # {} /\ r.page + 1 >= TeamMaxPages)
              THEN Ends(c, "failed")
              ELSE \E next \in GoOn([r EXCEPT !.tries = 0, !.got = got, !.page = @ + 1], more) :
                       Becomes(c, next)
    /\ UNCHANGED <<github, runner>>

(* filePage: the files of a pull request GitHub does not show are an       *)
(* error.  A partial answer that nulls the files reads as a last, empty    *)
(* page: its errors are not looked at.                                     *)
FilesAnswer(c) ==
    LET r == reads[c] IN
    /\ r.at = "out" /\ r.kind = "change" /\ r.left # {}
    /\ \E k \in r.ask, whole \in BOOLEAN :
        LET got == [r.got EXCEPT ![k] = @ + IF whole THEN 1 ELSE 0]
        IN IF k \notin github.world.visible THEN Ends(c, "failed")
           ELSE Becomes(c, IF whole /\ github.world.pages[k] > got[k]
                           THEN [r EXCEPT !.at = "ask", !.tries = 0, !.got = got]
                           ELSE [r EXCEPT !.at = "ask", !.tries = 0, !.got = got,
                                          !.ask = {}, !.left = {}, !.lost = {k}])
    /\ UNCHANGED <<github, runner>>

(* codeowners: none of the three locations answered is a repository        *)
(* without one, whatever else the response says.                           *)
RulesAnswer(c) ==
    LET r == reads[c] IN
    /\ r.at = "out" /\ r.kind = "change" /\ r.left = {}
    /\ \E whole \in BOOLEAN :
        Becomes(c, [r EXCEPT !.at = "done", !.tries = 0,
                             !.rules = IF whole /\ github.world.rules THEN "read" ELSE "none"])
    /\ UNCHANGED <<github, runner>>

(* OpenPullRequests: a listing may end early with no error, and one that   *)
(* ends a page or more short of what was reported is read again.           *)
ShortOrEqual(missed) == missed > OpenPRPage
TooShort(missed) == missed >= OpenPRPage

ListAnswer(c) ==
    LET r     == reads[c]
        open  == github.world.open
        count == r.count + Shorter(OpenPRPage, open - r.count)
        counted == [r EXCEPT !.tries = 0, !.count = count, !.reported = Longer(@, open)]
    IN
    /\ r.at = "out" /\ r.kind = "list"
    /\ \/ /\ count < open
          /\ Becomes(c, [counted EXCEPT !.at = "ask"])
       \/ Becomes(c, IF ~TooShort(counted.reported - count)
                     THEN [counted EXCEPT !.at = "done", !.left = {}, !.ask = {}]
                     ELSE IF r.round = OpenPRAttempts
                     THEN [NewRead("list") EXCEPT !.at = "failed"]
                     ELSE [counted EXCEPT !.at = "ask", !.round = @ + 1,
                                          !.count = 0, !.reported = 0])
    /\ UNCHANGED <<github, runner>>

(* A 200 with no data.  noData recognises a rate limit in its errors, but  *)
(* only decodeInto asks it, and the hold is the runner's alone to set:     *)
(* nothing holds the next request back.                                    *)
NoData(c, limited) ==
    LET r == reads[c] IN
    /\ r.at = "out" /\ ~(r.kind = "change" /\ r.left = {})
    /\ Ends(c, IF limited /\ r.kind = "fetch" THEN "limited" ELSE "failed")
    /\ UNCHANGED <<github, runner>>

CountPast(n) == n - 1
Count(n) == IF n > 0 THEN n - 1 ELSE 0

Tick ==
    /\ \/ github.told > 0 \/ runner.hold > 0
       \/ \E c \in Readers : reads[c].wake > 0
    /\ github' = [github EXCEPT !.told = Count(@)]
    /\ runner' = [runner EXCEPT !.hold = Count(@)]
    /\ reads' = [c \in Readers |-> [reads[c] EXCEPT !.wake = Count(@)]]

Answer(c) ==
    FetchAnswer(c) \/ TeamsAnswer(c) \/ FilesAnswer(c) \/ RulesAnswer(c) \/ ListAnswer(c)

ClientInit ==
    /\ github \in [world : GitHubs, told : {0}]
    /\ runner \in [name : {"gh", "http"}, hold : {0}]
    /\ reads = [c \in Readers |-> NewRead("fetch")]

ClientNext ==
    \/ \E c \in Readers :
        \/ \E kind \in Calls[c] : Begin(c, kind)
        \/ Ask(c) \/ Retry(c) \/ Fault(c) \/ Cancel(c) \/ Answer(c)
        \/ \E wait \in LimitWaits : Limit(c, wait)
        \/ \E limited \in BOOLEAN : NoData(c, limited)
    \/ Tick

ClientSpec == ClientInit /\ [][ClientNext]_clientVars

(* GitHub answers or the connection's deadline passes, and timers fire.    *)
ReplyTo(c) ==
    \/ Answer(c) \/ Fault(c) \/ Cancel(c)
    \/ \E limited \in BOOLEAN : NoData(c, limited)
    \/ \E wait \in LimitWaits : Limit(c, wait)

ClientFairness ==
    /\ WF_clientVars(Tick)
    /\ \A c \in Readers : /\ WF_clientVars(Ask(c)) /\ WF_clientVars(Retry(c))
                          /\ WF_clientVars(ReplyTo(c))

FairClient == ClientSpec /\ ClientFairness

-----------------------------------------------------------------------------
(* Properties.                                                             *)

(* Once GitHub has said in a status or a header how long to stay away, no  *)
(* request of any reader goes out before that wait is over, although the   *)
(* limits of requests already out arrive in any order (http.go, backoff).  *)
NothingAskedWhileHeld ==
    [][\A c \in Readers :
        reads[c].at = "ask" /\ reads'[c].at = "out" /\ runner.name = "http" =>
            github.told = 0]_clientVars

(* A batched read that succeeds found or named as missing every key it was *)
(* asked for, and never both (github.go, decodeInto; issues.go).           *)
AskedIsAnswered ==
    \A c \in Readers :
        reads[c].kind = "fetch" /\ reads[c].at = "done" =>
            \A k \in Keys : (reads[c].got[k] = 1) # (k \in reads[c].lost)

(* A team's members are all of them or an error: never a first page, never *)
(* nobody for a team that did not resolve (teams.go).                      *)
TeamsAreWhole ==
    \A c \in Readers :
        reads[c].kind = "teams" /\ reads[c].at = "done" =>
            \A k \in Keys : reads[c].got[k] = github.world.pages[k] /\ reads[c].got[k] > 0

(* A listing that is believed misses less than a page of what was open     *)
(* while nothing moved, however often GitHub ended it early (openprs.go).  *)
ListingIsWhole ==
    \A c \in Readers :
        reads[c].kind = "list" /\ reads[c].at = "done" =>
            github.world.open - reads[c].count < OpenPRPage

(* What a call reports as read it read whole, whatever pages GitHub cut    *)
(* short or left out.                                                      *)
ReadsAreWhole == ClientTypeOK /\ AskedIsAnswered /\ TeamsAreWhole /\ ListingIsWhole

(* Every call ends, whatever GitHub does with its requests (retry.go).     *)
ReadsEnd == \A c \in Readers : reads[c].at \notin Finished ~> reads[c].at \in Finished

(* change.go:27-30: Files is "Complete, or this returns an error: a        *)
(* missing file could turn 'one owner covers everything' from false into   *)
(* true".  The same goes for the rules it is matched against.              *)
ChangeIsComplete ==
    \A c \in Readers :
        reads[c].kind = "change" /\ reads[c].at = "done" =>
            \A k \in reads[c].lost : reads[c].got[k] = github.world.pages[k]

=============================================================================
