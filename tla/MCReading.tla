---------------------------- MODULE MCReading ----------------------------
(* What is read from GitHub and the trackers, kept in rows or shown: the
   client's calls, pull requests, issues and a team's review queue, each on a
   small instance, in one state space: a behaviour is a behaviour of one of
   them, and the others rest. *)
EXTENDS Integers, Sequences, FiniteSets, GitHubClient, Issues, PullRequests, ReviewQueue

VARIABLE part

-----------------------------------------------------------------------------
(* The instances *)

\* One reader may do anything, the other reads a change beside it.
MCCalls       == <<{"fetch", "teams", "change", "list"}, {"change"}>>
MCRetryDelays == <<1>>
World(v, p, r, n) == [visible |-> v, pages |-> p, rules |-> r, open |-> n]
MCGitHubs     == {World({"k1", "k2"}, [k1 |-> 1, k2 |-> 2], TRUE, 4),
                  World({"k1"}, [k1 |-> 3, k2 |-> 0], FALSE, 1)}

MCIssueSteps  == <<[within |-> 1, every |-> 0], [within |-> 0, every |-> 2]>>

\* A title alone; a title read again some time ago; a closing time alone; states
\* without one, and with one that was read some time ago.
Say(status, closed, news, at) == [status |-> status, closed |-> closed, news |-> news, at |-> at]
MCTold        == {Say("unsaid", None, TRUE, None), Say("unsaid", None, FALSE, 2),
                  Say("unsaid", 3, FALSE, None), Say("open", None, FALSE, None),
                  Say("closed", None, FALSE, None), Say("closed", 0, FALSE, 2)}

\* Issues twice: polled, waited for and linked by sync alone; and linked by
\* whoever links them, while nobody waits or polls.
OfIssues == {"issues", "links"}

MCBranch      == <<"one", "two">>

\* Pull requests twice: two of them, one stacked on the other perhaps, with one
\* process that polls and one move; and one of them, with two such processes
\* and two moves, so that what is broken recovers between stale answers.
OfPRs == {"stack", "polls"}
OnePROnly == /\ prs'[2] = prs[2] /\ hub'[2] = hub[2]
             /\ prs'[1].announceCount = prs[1].announceCount

\* A member of both teams, one of the other only, and an author of neither; a
\* file for each team, and one whose rule names both.
MCMembersOf == [ours |-> {"ann"}, theirs |-> {"ann", "bob"}]
MCOwnersOf  == <<{"ours"}, {"theirs"}, {"ours", "theirs"}>>

ASSUME ReviewQueueAssumption
ASSUME ClientAssumption
ASSUME IssuesAssumption /\ ToldAssumption
ASSUME PullRequestsAssumption

-----------------------------------------------------------------------------
(* One part is on, the others rest *)

Quiet == [state |-> "open", head |-> 1, base |-> "main", check |-> "none", ended |-> 0]

ReadingInit ==
    /\ part \in {"client", "queue"} \cup OfIssues \cup OfPRs
    /\ ClientInit /\ (part = "client" \/ (github.world.rules /\ runner.name = "gh"))
    /\ IssuesInit /\ (part = "issues" \/ tracker["k1"].open)
    /\ PRInit
    /\ part # "stack" => hub[2] = Quiet
    /\ part = "polls" => hub[1].state = "open" /\ hub[1].base = "main"
    /\ part \notin OfPRs => hub[1] = Quiet
    /\ \A p \in PRs : part = "stack" => hub[p].check = "none"
    /\ QueueInit /\ (part = "queue" \/ pr.files = {})

ofClient   == <<github, runner, reads>>
ofIssues   == <<tracker, issues, links, waitsOn, polls>>
ofPRs      == <<hub, prs, checkLog, syncs, moves>>
readingVars == <<part, ofClient, ofIssues, ofPRs, pr>>

Frozen ==
    /\ UNCHANGED part
    /\ IF part = "client" THEN TRUE ELSE UNCHANGED ofClient
    /\ IF part \in OfIssues THEN TRUE ELSE UNCHANGED ofIssues
    /\ IF part \in OfPRs THEN TRUE ELSE UNCHANGED ofPRs
    /\ IF part = "queue" THEN TRUE ELSE UNCHANGED pr

IssuesGoOn ==
    /\ IssuesNext
    /\ \/ part = "issues" /\ links' \subseteq IssueKeys \X {"github"}
       \/ part = "links" /\ UNCHANGED <<tracker, waitsOn, polls>>

PRsGoOn ==
    /\ PRNext
    /\ \/ part = "stack" /\ moves' <= 1 /\ syncs'["t"] = syncs["t"]
       \/ part = "polls" /\ OnePROnly

ReadingNext ==
    \/ part = "client" /\ ClientNext /\ Frozen
    \/ IssuesGoOn /\ Frozen
    \/ PRsGoOn /\ Frozen
    \/ part = "queue" /\ QueueNext /\ Frozen

\* Each part's own fairness.  A behaviour is of one part, so that to be fair to
\* whichever of these actions it has is to be fair to that part's.
First ==
    \/ part = "client" /\ Tick /\ Frozen
    \/ part = "issues" /\ TickAges /\ Frozen
    \/ part \in OfPRs /\ SyncStep("s") /\ Frozen

Second ==
    \/ part = "client" /\ Ask(1) /\ Frozen
    \/ part = "polls" /\ SyncStep("t") /\ Frozen
    \/ part = "issues" /\ SettleIssue("a") /\ Frozen

Third ==
    \/ part = "client" /\ Ask(2) /\ Frozen
    \/ part = "issues" /\ IssuesToPoll(1) /\ Frozen

Fourth ==
    \/ part = "client" /\ Retry(1) /\ Frozen
    \/ part = "issues" /\ ObserveAnswer(1) /\ Frozen

\* From some time on GitHub answers what it is asked about pull requests.
GitHubAnswers ==
    <>[][\A s \in Pollers : syncs[s] # syncs'[s] => SyncStep(s)]_readingVars

FairReading ==
    /\ ReadingInit /\ [][ReadingNext]_readingVars
    /\ WF_readingVars(First) /\ WF_readingVars(Second) /\ WF_readingVars(Third)
    /\ WF_readingVars(Fourth)
    /\ WF_readingVars(part = "client" /\ Retry(2) /\ Frozen)
    /\ WF_readingVars(part = "client" /\ ReplyTo(1) /\ Frozen)
    /\ WF_readingVars(part = "client" /\ ReplyTo(2) /\ Frozen)
    /\ SF_readingVars(part = "issues" /\ ReadAllIssues(1) /\ Frozen)
    /\ SF_readingVars(part = "issues" /\ ObserveAllRead(1) /\ Frozen)
    /\ GitHubAnswers

-----------------------------------------------------------------------------
(* What is checked of each: ShownToWhoseMoveItIs of ReviewQueue, ReadsAreWhole *)
(* of GitHubClient and LogKnowsWhatIsBroken of PullRequests as they state them, *)
(* and:                                                                        *)

\* A row comes to say what GitHub says of its state, its stack and its owners,
\* whatever was pushed between listing, reading and writing (ghsync/ghsync.go,
\* ghsync/owners.go, store/pr.go).
RowsCatchUp ==
    /\ [](QueueTypeOK /\ PRTypeOK)
    /\ part \in OfPRs => RowCatchesUp
    /\ part \in OfPRs => StackingCatchesUp
    /\ part \in OfPRs => OwnersCatchUp

\* Nothing is asked while GitHub says to wait, and every call ends (github/retry.go,
\* http.go).  An action that waits for an issue closes once the issue has, no issue is
\* ever dropped from the poll, and a poll takes no link away that was made by hand
\* (store/issuepoll.go, store/prissue.go).
WaitsEnd ==
    /\ NothingAskedWhileHeld
    /\ part = "client" => ReadsEnd
    /\ []IssuesTypeOK
    /\ HandMadeLinksStay
    /\ part = "issues" => ClosedIssueEndsWait
    /\ part = "issues" => NothingIsDropped
=============================================================================
