----------------------------- MODULE Codeowners -----------------------------
(***************************************************************************)
(* Who to ask for a change: the packages codeowners (parse.go,             *)
(* ownership.go, approval.go, route.go).  A CODEOWNERS file is a sequence  *)
(* of rules, of which the last that matches a path decides its owners;  a  *)
(* pattern is the set of paths it matches, and an owner its name.  From    *)
(* the file, the approvals a change has and the membership of teams a plan *)
(* is made, one ask at a time: the owner that settles most, or the first   *)
(* of the owners a repository prefers that settles anything.               *)
(*                                                                         *)
(* The behaviour modelled is a review: people approve, a plan is made,     *)
(* everybody it asks has one of its members answer.                        *)
(***************************************************************************)
EXTENDS Integers, FiniteSets, Sequences, FiniteSetsExt

CONSTANTS
    Paths,     \* files of the change
    Teams,     \* owners with members, whether known or not
    People,    \* owners without
    Names,     \* every owner, in the order names sort
    OwnOnly,   \* hints used only where they own something outstanding
    CodeFiles, \* the CODEOWNERS files: sequences of [paths, owners]
    HintLists  \* what a repository prefers: sequences of owners

CodeownersAssumption ==
    /\ IsFiniteSet(Paths)
    /\ Names \in Seq(Teams \cup People) /\ Teams \cap People = {}
    /\ \A o \in Teams \cup People : \E i \in DOMAIN Names : Names[i] = o
    /\ \A f \in CodeFiles : f \in Seq([paths : SUBSET Paths, owners : SUBSET (Teams \cup People)])
    /\ \A h \in HintLists : h \in Seq(Teams \cup People)

VARIABLES
    file,     \* the CODEOWNERS file
    members,  \* MembersOf a team; none for one nobody could read
    hints,    \* the owners preferred, in order
    review,   \* [at, approvals, answers]
    plan      \* [have, tiers]: what is settled, and who is asked for it

ownersVars == <<file, members, hints, review, plan>>

AllOwners == Teams \cup People
Rank(o) == CHOOSE i \in DOMAIN Names : Names[i] = o

-----------------------------------------------------------------------------
(* Ownership.                                                              *)

(* Match: the last rule that matches, which may name nobody.               *)
Matching(path) == {i \in DOMAIN file : path \in file[i].paths}
OwnersOf(path) == IF Matching(path) = {} THEN {} ELSE file[Max(Matching(path))].owners
Owners == UNION {OwnersOf(p) : p \in Paths}

(* Approval: a person approves for every team they belong to.              *)
TeamsOf(person) == {t \in Teams : person \in members[t]}
Approval(people) == people \cup UNION {TeamsOf(p) : p \in people}

(* Remaining: the owned paths none of whose owners has approved.           *)
RemainingForAll(have) == {p \in Paths : OwnersOf(p) \ have # {}}
Remaining(have) == {p \in Paths : OwnersOf(p) # {} /\ OwnersOf(p) \cap have = {}}

(* Useful: the owners with something outstanding, and what each covers.    *)
Useful(have) == UNION {OwnersOf(p) : p \in Remaining(have)}
Covers(o, have) == {p \in Remaining(have) : o \in OwnersOf(p)}

(* standsFor: the owners every member of this one belongs to.  A person is *)
(* a team of one; a team nobody could read stands for nothing.             *)
MembersOf(o) == IF o \in People THEN {o} ELSE members[o]
Overlaps(o, outstanding) ==
    {t \in (outstanding \cap Teams) \ {o} : MembersOf(o) \cap members[t] # {}}
StandsFor(o, outstanding) ==
    IF MembersOf(o) = {} THEN {}
    ELSE {t \in (outstanding \cap Teams) \ {o} : MembersOf(o) \subseteq members[t]}

(* Reach: what asking an owner would settle.                               *)
Settles(o, have) ==
    {p \in Remaining(have) : OwnersOf(p) \cap ({o} \cup StandsFor(o, Owners)) # {}}
Reach(have) == {o \in Owners \ have : Settles(o, have) # {}}

MoreUseful(o, than, have) ==
    LET a == Cardinality(Settles(o, have))
        b == Cardinality(Settles(than, have))
    IN a > b \/ (a = b /\ Rank(o) <= Rank(than))
Best(have) == CHOOSE o \in Reach(have) : \A other \in Reach(have) : MoreUseful(o, other, have)

(* SoleApprovers: those who settle every owned path alone.                 *)
SoleApprovers ==
    {o \in Reach({}) : Settles(o, {}) = {p \in Paths : OwnersOf(p) # {}}}

-----------------------------------------------------------------------------
(* Routing: nextTier.                                                      *)

HintHelps(h, have) ==
    /\ h \notin have
    /\ \/ h \in Useful(have)
       \/ h \notin OwnOnly /\ StandsFor(h, Useful(have)) # {}

(* A hint that owns something is credited with what it stands for in the   *)
(* change, one that does not with the outstanding owners it stands for.    *)
TierOfHint(h, have) ==
    IF h \in Useful(have)
    THEN [owner |-> h, stands |-> StandsFor(h, Owners), files |-> Cardinality(Settles(h, have))]
    ELSE LET stands == StandsFor(h, Useful(have))
         IN [owner |-> h, stands |-> stands,
             files |-> MapThenSumSet(LAMBDA o : Cardinality(Covers(o, have)), stands)]

TierOfBest(have) ==
    [owner |-> Best(have), stands |-> StandsFor(Best(have), Owners),
     files |-> Cardinality(Settles(Best(have), have))]

Helping(have) == {i \in DOMAIN hints : HintHelps(hints[i], have)}
NextTier(have) ==
    IF Helping(have) = {} THEN TierOfBest(have) ELSE TierOfHint(hints[Min(Helping(have))], have)

-----------------------------------------------------------------------------

(* An approval comes in before the plan is made.                           *)
Approve(person) ==
    /\ review.at = "open" /\ person \notin review.approvals
    /\ review' = [review EXCEPT !.approvals = @ \cup {person}]
    /\ UNCHANGED <<file, members, hints, plan>>

StartPlan ==
    /\ review.at = "open"
    /\ review' = [review EXCEPT !.at = "planning"]
    /\ plan' = [have |-> Approval(review.approvals), tiers |-> <<>>]
    /\ UNCHANGED <<file, members, hints>>

(* RouteWith, and PlanPreferring where nothing is preferred: one more ask. *)
Ask ==
    /\ review.at = "planning" /\ Useful(plan.have) # {}
    /\ LET tier == NextTier(plan.have)
       IN plan' = [have |-> plan.have \cup {tier.owner} \cup tier.stands,
                   tiers |-> Append(plan.tiers, tier)]
    /\ UNCHANGED <<file, members, hints, review>>

EndPlan ==
    /\ review.at = "planning" /\ Useful(plan.have) = {}
    /\ review' = [review EXCEPT !.at = "asked"]
    /\ UNCHANGED <<file, members, hints, plan>>

(* One member of the next owner asked approves: whoever of them it is.     *)
Answer(person) ==
    /\ review.at = "asked" /\ Len(review.answers) < Len(plan.tiers)
    /\ person \in MembersOf(plan.tiers[Len(review.answers) + 1].owner)
    /\ review' = [review EXCEPT !.answers = Append(@, person)]
    /\ UNCHANGED <<file, members, hints, plan>>

OwnersInit ==
    /\ file \in CodeFiles
    /\ members \in [Teams -> SUBSET People]
    /\ hints \in HintLists
    /\ review = [at |-> "open", approvals |-> {}, answers |-> <<>>]
    /\ plan = [have |-> {}, tiers |-> <<>>]

OwnersNext ==
    \/ StartPlan \/ Ask \/ EndPlan
    \/ \E person \in People : Approve(person) \/ Answer(person)

OwnersSpec == OwnersInit /\ [][OwnersNext]_ownersVars

-----------------------------------------------------------------------------
(* Properties.                                                             *)

(* Types; and a plan asks nobody twice, nor for what was settled before.   *)
OwnersTypeOK ==
    /\ review.at \in {"open", "planning", "asked"}
    /\ review.approvals \subseteq People
    /\ Len(review.answers) <= Len(plan.tiers)
    /\ plan.have \subseteq AllOwners
    /\ Len(plan.tiers) <= Cardinality(Paths)
    /\ \A i, j \in DOMAIN plan.tiers : i # j => plan.tiers[i].owner # plan.tiers[j].owner

(* A plan holds no maybe: when one member of every owner asked has         *)
(* answered, whichever it was, every owned path is approved -- by the      *)
(* names of those who answered, which is all GitHub knows (route.go).      *)
PlanSuffices ==
    review.at = "asked" /\ Len(review.answers) = Len(plan.tiers) =>
        Remaining(Approval(review.approvals \cup {review.answers[i] : i \in DOMAIN review.answers})) = {}

(* Every ask settles something that was outstanding, a preferred owner's   *)
(* too: the plan grows shorter of paths by each (ownership.go, route.go).  *)
EveryAskHelps ==
    [][plan.tiers # plan'.tiers /\ review.at = "planning" =>
            /\ Remaining(plan'.have) \subseteq Remaining(plan.have)
            /\ Remaining(plan'.have) # Remaining(plan.have)]_ownersVars

(* Whoever approves for a sole approver approves the whole change.         *)
SoleMeansSole ==
    \A o \in SoleApprovers : \A person \in MembersOf(o) : Remaining(Approval({person})) = {}

(* What is asked for suffices, and a sole approver is one: both of the above. *)
AskedSuffice == OwnersTypeOK /\ PlanSuffices /\ SoleMeansSole

(* route.go:65, of Tier: "Files is how many outstanding files this ask     *)
(* settles."                                                               *)
TierCountsFiles ==
    [][Len(plan'.tiers) > Len(plan.tiers) =>
            plan'.tiers[Len(plan'.tiers)].files =
                Cardinality(Remaining(plan.have) \ Remaining(plan'.have))]_ownersVars

=============================================================================
