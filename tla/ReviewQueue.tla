---------------------------- MODULE ReviewQueue ----------------------------
(***************************************************************************)
(* A team's review queue: the package reviewqueue, over what               *)
(* github/openprs.go reads.  One open pull request goes through a review:  *)
(* reviewers are asked and never unasked by GitHub, people speak, the      *)
(* author answers or pushes, and the files of the change move.  After each *)
(* step the queue says whether it is the team's, and whose move it is.     *)
(*                                                                         *)
(* The preferred reviewers are empty here (Codeowners has the routing), a  *)
(* pull request is its author's, and names are compared as they are.       *)
(***************************************************************************)
EXTENDS Integers, FiniteSets, FiniteSetsExt

CONSTANTS
    Team,          \* whose queue it is
    Teams,         \* every team, Team among them
    People,        \* every login
    Author,        \* who wrote the pull request
    MembersOf,     \* Teams -> SUBSET People
    Paths,
    OwnersOf,      \* Paths -> the owners of its CODEOWNERS rule
    IgnoreTeams,   \* never named as waited on
    MaxRuleOwners  \* a rule with more owners claims nothing

ReviewQueueAssumption ==
    /\ Team \in Teams /\ Author \in People
    /\ Teams \cap People = {} \* a team's name has its organisation in it, a login no slash
    /\ IsFiniteSet(Teams) /\ IsFiniteSet(Paths)
    /\ MembersOf \in [Teams -> SUBSET People]
    /\ OwnersOf \in [Paths -> SUBSET Teams]
    /\ IgnoreTeams \subseteq Teams /\ MaxRuleOwners \in Nat

VARIABLE pr \* the pull request, as a listing reads it

Members == MembersOf[Team]
Others == People \ {Author}

QueueTypeOK ==
    /\ pr.asking \in BOOLEAN /\ pr.unanswered \in BOOLEAN
    /\ pr.files \subseteq Paths /\ pr.teams \subseteq Teams
    /\ pr.users \subseteq Others /\ pr.assignees \subseteq People
    /\ pr.responders \subseteq Others
    /\ pr.approvers \subseteq pr.responders /\ pr.changesBy \subseteq pr.responders
    /\ pr.last \in People

-----------------------------------------------------------------------------
(* Whose it is.                                                            *)

Narrow(path) == Cardinality(OwnersOf[path]) <= MaxRuleOwners
ClaimsByName(path) == Team \in OwnersOf[path]
Claims(path) == Team \in OwnersOf[path] /\ Narrow(path)

TeamOwns == \E path \in pr.files : Claims(path)

(* askedForAnotherOwner: members of another team that owns a file.         *)
OtherOwners ==
    UNION {UNION {MembersOf[t] : t \in OwnersOf[path] \ {Team}} : path \in {f \in pr.files : Narrow(f)}}

MemberAsked ==
    \/ (pr.users \cap Members) \ OtherOwners # {}
    \/ (pr.assignees \cap Members) \ (OtherOwners \cup {Author}) # {}

MemberEngaged ==
    \E m \in pr.responders \cap Members : m \notin OtherOwners \/ Author \in Members

EngagedOnly == ~TeamOwns /\ ~MemberAsked /\ MemberEngaged

(* Select: what is in the queue, and what is said to be left out.          *)
Selected == pr.asking /\ (TeamOwns \/ MemberAsked \/ MemberEngaged)
Skipped == pr.asking /\ ~Selected /\ Team \in pr.teams

-----------------------------------------------------------------------------
(* Whose move it is.                                                       *)

Approval(people) == people \cup {t \in Teams : people \cap MembersOf[t] # {}}
Owners == UNION {OwnersOf[path] : path \in pr.files}
Remaining(have) == {path \in pr.files : OwnersOf[path] # {} /\ OwnersOf[path] \cap have = {}}

(* PlanPreferring: the fewest approvals left, whoever was asked first.     *)
StandsFor(t) == {o \in Owners \ {t} : MembersOf[t] # {} /\ MembersOf[o] # {} /\ MembersOf[t] \subseteq MembersOf[o]}
Settles(t, have) == Cardinality({path \in Remaining(have) : OwnersOf[path] \cap ({t} \cup StandsFor(t)) # {}})

Reach(have) == {t \in Owners \ have : Settles(t, have) > 0}
NextAsked(have) ==
    LET most == {t \in Reach(have) : \A o \in Reach(have) : Settles(o, have) <= Settles(t, have)}
    IN IF most \cap pr.teams # {} THEN CHOOSE t \in most \cap pr.teams : TRUE
       ELSE CHOOSE t \in most : TRUE
WithAsked(have) == have \cup {NextAsked(have)} \cup StandsFor(NextAsked(have))

PlanFrom[have \in SUBSET (Teams \cup People)] ==
    IF Reach(have) = {} THEN {} ELSE {NextAsked(have)} \cup PlanFrom[WithAsked(have)]

NeededOwners == PlanFrom[Approval(pr.approvers)]

(* stillAwaited: who was asked by name, and did not speak last.            *)
AwaitedByName == pr.users
StillAwaited == IF pr.last = Author THEN pr.users ELSE pr.users \ {pr.last}

Named == UNION {OwnersOf[path] : path \in Paths}

(* outstandingReviewers: the people, and the teams CODEOWNERS still needs  *)
(* or that something other than CODEOWNERS asked for; without a plan, the  *)
(* teams GitHub asks, but ours only if it owns something.                  *)
OutstandingReviewers ==
    LET asked == IF NeededOwners # {}
                 THEN (NeededOwners \ Approval(StillAwaited)) \cup (pr.teams \ Named)
                 ELSE pr.teams \ (IF TeamOwns THEN {} ELSE {Team})
    IN (StillAwaited \cup asked) \ IgnoreTeams

Engaged == pr.responders \cap Members # {}
Pending == pr.responders \ pr.approvers

(* turn: theirs who responded if the author moved last, else the author's. *)
TurnSwapped(responded) ==
    IF pr.last \in responded THEN [on |-> responded, why |-> "updated since review"]
    ELSE [on |-> {Author}, why |-> "author's turn"]
Turn(responded) ==
    IF pr.last = Author THEN [on |-> responded, why |-> "updated since review"]
    ELSE [on |-> {Author}, why |-> "author's turn"]

WaitingOn ==
    LET reviewers == OutstandingReviewers
    IN IF pr.changesBy # {} THEN [on |-> {Author}, why |-> "changes requested"]
       ELSE IF pr.unanswered THEN [on |-> {Author}, why |-> "unanswered"]
       ELSE IF /\ pr.users # {} \/ pr.teams # {}
               /\ Team \in reviewers \/ EngagedOnly
               /\ Engaged /\ Pending # {}
            THEN [Turn(Pending) EXCEPT !.on = @ \cup (reviewers \ {Team})]
       ELSE IF (pr.users # {} \/ pr.teams # {}) /\ reviewers # {}
            THEN [on |-> reviewers, why |-> "review requested"]
       ELSE IF Pending = {} THEN [on |-> {Author}, why |-> "no reviewer"]
       ELSE Turn(Pending)

WaitsOnTeam(waiting) == waiting.on \cap (Members \cup {Team}) # {}

SectionByNames(waiting) ==
    IF ~Engaged /\ (waiting.why = "no reviewer" \/ WaitsOnTeam(waiting)) THEN "not yet reviewed"
    ELSE IF waiting.on \cap Members # {} THEN "on member"
    ELSE IF Team \in waiting.on THEN "not yet reviewed"
    ELSE "on others"

(* section: in the order the code asks.                                    *)
Section(waiting) ==
    IF ~Engaged /\ (waiting.why = "no reviewer" \/ WaitsOnTeam(waiting)) THEN "not yet reviewed"
    ELSE IF pr.changesBy # {} THEN "on author"
    ELSE IF waiting.why = "no reviewer" THEN "not yet reviewed"
    ELSE IF waiting.why \in {"author's turn", "unanswered"} THEN "on author"
    ELSE IF waiting.on \cap Members # {} THEN "on member"
    ELSE IF Team \in waiting.on THEN "not yet reviewed"
    ELSE "on others"

-----------------------------------------------------------------------------
(* What happens to a pull request.                                         *)

(* GitHub asks every owning team for what a push touches, and takes no     *)
(* request back.                                                           *)
Push(files) ==
    /\ files # pr.files
    /\ pr' = [pr EXCEPT !.files = files, !.last = Author,
                        !.teams = @ \cup UNION {OwnersOf[path] : path \in files}]

RequestTeam(t) == t \notin pr.teams /\ pr' = [pr EXCEPT !.teams = @ \cup {t}]
RequestUser(u) == u \notin pr.users /\ pr' = [pr EXCEPT !.users = @ \cup {u}]
Assign(u) == u \notin pr.assignees /\ pr' = [pr EXCEPT !.assignees = @ \cup {u}]

(* A comment leaves a request open; a review that decides takes it back.   *)
Comment(u, thread) ==
    pr' = [pr EXCEPT !.responders = @ \cup {u}, !.last = u, !.unanswered = @ \/ thread]

ReviewUncounted(u, approves) ==
    pr' = [pr EXCEPT !.last = u, !.users = @ \ {u},
                     !.approvers = IF approves THEN @ \cup {u} ELSE @ \ {u},
                     !.changesBy = IF approves THEN @ \ {u} ELSE @ \cup {u}]
Review(u, approves) ==
    pr' = [pr EXCEPT !.responders = @ \cup {u}, !.last = u, !.users = @ \ {u},
                     !.approvers = IF approves THEN @ \cup {u} ELSE @ \ {u},
                     !.changesBy = IF approves THEN @ \ {u} ELSE @ \cup {u}]

Reply == pr' = [pr EXCEPT !.last = Author, !.unanswered = FALSE]

(* The pull request leaves draft or returns to it, is approved or not.     *)
Asks == pr' = [pr EXCEPT !.asking = ~@]

QueueInit ==
    \E files \in SUBSET Paths :
        pr = [asking |-> FALSE, files |-> files, teams |-> UNION {OwnersOf[path] : path \in files},
              users |-> {}, assignees |-> {}, responders |-> {}, approvers |-> {}, changesBy |-> {},
              unanswered |-> FALSE, last |-> Author]

QueueNext ==
    \/ Reply \/ Asks
    \/ \E files \in SUBSET Paths : Push(files)
    \/ \E t \in Teams : RequestTeam(t)
    \/ \E u \in Others :
        \/ RequestUser(u) \/ Assign(u)
        \/ \E b \in BOOLEAN : Comment(u, b) \/ Review(u, b)

QueueSpec == QueueInit /\ [][QueueNext]_pr

-----------------------------------------------------------------------------
(* Properties.                                                             *)

(* Who has the next move is somebody, and the section the item is shown in *)
(* says so: the author's holds what waits on the author, a member's what   *)
(* waits on a member, and nothing that waits on the author, the team or a  *)
(* member is shown as somebody else's (reviewqueue.go waitingOn, section). *)
SectionSaysWhoseMove ==
    Selected =>
        LET waiting == WaitingOn
        IN /\ waiting.on # {}
           /\ Section(waiting) = "on author" => Author \in waiting.on
           /\ Section(waiting) = "on member" => waiting.on \cap Members # {}
           /\ Section(waiting) = "on others" => ~WaitsOnTeam(waiting) /\ Author \notin waiting.on

(* A member who has the last word does not have the next move, although    *)
(* GitHub keeps the request open (stillAwaited, turn).                     *)
LastWordPassesTheMove ==
    Selected /\ pr.last \in Members \ {Author} =>
        pr.last \notin WaitingOn.on

(* A request GitHub made for files no longer in the change brings nobody:  *)
(* with none of its files, no member asked and none engaged, the team is   *)
(* not sent there, and the pull request is told as skipped.                *)
StaleRequestsAreSkipped ==
    pr.asking /\ Team \in pr.teams /\ pr.users = {} /\ pr.assignees = {} /\ pr.responders = {}
        /\ (\A path \in pr.files : Team \notin OwnersOf[path] \/ ~Narrow(path)) =>
            Skipped /\ ~Selected

(* The three above: an item is shown under whoever has the next move.      *)
ShownToWhoseMoveItIs == SectionSaysWhoseMove /\ LastWordPassesTheMove /\ StaleRequestsAreSkipped

(* The author who moved last, and owes nothing, has left the move to a     *)
(* reviewer: to whoever spoke and has not approved, if nobody else is      *)
(* asked.                                                                  *)
AnsweringPassesTheMove ==
    [][pr'.last = Author /\ pr'.asking /\ Selected' /\ pr'.changesBy = {} /\ ~pr'.unanswered
            /\ pr'.responders \ pr'.approvers # {} => Author \notin WaitingOn'.on]_pr

(* reviewqueue.go:80, of NotYetReviewed: it "has had no review or comment  *)
(* from any member of the team other than its author".                     *)
UnreviewedIsUnreviewed ==
    Selected /\ Section(WaitingOn) = "not yet reviewed" => ~Engaged

=============================================================================
