---------------------------- MODULE WaitsProofs ----------------------------
(***************************************************************************)
(* What work waits for comes to an end the way it was meant to.  A plan of *)
(* whom to ask for a change suffices, whoever of a team answers, for any   *)
(* CODEOWNERS file, membership, preference and approvals (Codeowners).  A  *)
(* gate becomes a wait that no release there already was can end, for any  *)
(* series, history, page size and order of the two processes               *)
(* (ReleaseGates).  An action is settled on what was read, and an ejection *)
(* is one that happened, for any pull requests, verbs and pipelines        *)
(* (SyncCycle).                                                            *)
(***************************************************************************)
EXTENDS Codeowners, ReleaseGates, SyncCycle, OrderFacts, FiniteSetTheorems, TLAPS

----------------------------------------------------------------------------
(* The rules *)

\* What does not change in a review.
Given == /\ file \in CodeFiles
         /\ members \in [Teams -> SUBSET People]
         /\ hints \in HintLists

\* The last of the rules that match is one of them.
LEMMA LastOfSome ==
    ASSUME NEW n \in Nat, NEW S, S \subseteq 1 .. n, S # {}
    PROVE  Max(S) \in S /\ Min(S) \in S
<1>1. S \subseteq -n .. n
  OBVIOUS
<1>2. (\E m \in S : \A k \in S : m <= k) /\ (\E m \in S : \A k \in S : k <= m)
  BY <1>1, EndsOfASet
<1>3. \A m, k \in S : m \in Int /\ k \in Int /\ (m <= k <=> k >= m)
  BY <1>1
<1>4. \E m \in S : \A k \in S : m >= k
  BY <1>2, <1>3
<1> QED BY <1>2, <1>4 DEF Max, Min

LEMMA OwnersAreOwners ==
    ASSUME CodeownersAssumption, Given
    PROVE  (\A p : OwnersOf(p) \subseteq AllOwners) /\ Owners \subseteq AllOwners
<1>1. ASSUME NEW p
      PROVE  OwnersOf(p) \subseteq AllOwners
  <2> DEFINE Rule == [paths : SUBSET Paths, owners : SUBSET (Teams \cup People)]
  <2>1. file \in Seq(Rule)
    BY DEF Given, CodeownersAssumption
  <2>2. CASE Matching(p) = {}
    BY <2>2 DEF OwnersOf
  <2>3. CASE Matching(p) # {}
    <3>1. Len(file) \in Nat /\ Matching(p) \subseteq 1 .. Len(file)
      BY <2>1 DEF Matching
    <3>2. Max(Matching(p)) \in Matching(p)
      BY <2>3, <3>1, LastOfSome
    <3>3. file[Max(Matching(p))] \in Rule
      <4> HIDE DEF Rule
      <4> QED BY <2>1, <3>1, <3>2
    <3> QED BY <2>3, <3>3 DEF OwnersOf, AllOwners
  <2> QED BY <2>2, <2>3
<1> QED BY <1>1 DEF Owners

----------------------------------------------------------------------------
(* What an ask settles *)

LEMMA FiniteRemaining ==
    ASSUME CodeownersAssumption, NEW have
    PROVE  /\ IsFiniteSet(Remaining(have))
           /\ Cardinality(Remaining(have)) \in Nat
           /\ Cardinality(Remaining(have)) <= Cardinality(Paths)
           /\ \A o : Cardinality(Settles(o, have)) \in 0 .. Cardinality(Paths)
           /\ Cardinality(Paths) \in Nat
<1>1. \A P : P \subseteq Paths => /\ IsFiniteSet(P) /\ Cardinality(P) \in Nat
                                  /\ Cardinality(P) <= Cardinality(Paths)
  BY FS_Subset, FS_CardinalityType DEF CodeownersAssumption
<1>2. Remaining(have) \subseteq Paths
  BY DEF Remaining
<1>3. \A o : Settles(o, have) \subseteq Paths
  BY <1>2 DEF Settles
<1>4. \A o : Cardinality(Settles(o, have)) \in Nat /\ Cardinality(Settles(o, have)) <= Cardinality(Paths)
  BY <1>1, <1>3
<1>5. Cardinality(Paths) \in Nat
  BY <1>1
<1> QED BY <1>1, <1>2, <1>4, <1>5

\* More settled is less remaining.
LEMMA RemainingShrinks ==
    ASSUME NEW have, NEW more, have \subseteq more
    PROVE  Remaining(more) \subseteq Remaining(have)
BY DEF Remaining

\* Of the owners that settle something one is best: of those that settle most, the first
\* by name.
LEMMA SomeBest ==
    ASSUME CodeownersAssumption, Given, NEW have, Reach(have) # {}
    PROVE  Best(have) \in Reach(have)
<1> DEFINE S == Reach(have)
           n == [o \in S |-> Cardinality(Settles(o, have))]
<1>1. n \in [S -> 0 .. Cardinality(Paths)] /\ Cardinality(Paths) \in Nat
  BY FiniteRemaining
<1>2. \A o \in S : n[o] = Cardinality(Settles(o, have)) /\ n[o] \in Nat
  BY <1>1
<1>3. S \subseteq AllOwners
  BY OwnersAreOwners DEF Reach
<1>4. \A o \in S : Rank(o) \in Nat
  BY <1>3 DEF Rank, AllOwners, CodeownersAssumption
<1> HIDE DEF n, S
<1>5. PICK t \in S : \A o \in S : n[o] <= n[t]
  BY <1>1, GreatestValue DEF S
<1> DEFINE T == {o \in S : n[o] = n[t]}
           Ranks == {Rank(o) : o \in T}
<1>6. PICK r \in Ranks : \A k \in Ranks : r <= k
  <2>1. Ranks \subseteq Nat /\ Ranks # {}
    BY <1>4
  <2> HIDE DEF Ranks
  <2> QED BY <2>1, LeastNatural
<1>7. PICK b \in T : r = Rank(b)
  OBVIOUS
<1>8. \A o \in T : Rank(b) <= Rank(o)
  BY <1>6, <1>7
<1>9. \A other \in S : n[b] > n[other] \/ (n[b] = n[other] /\ Rank(b) <= Rank(other))
  <2> SUFFICES ASSUME NEW other \in S
               PROVE  n[b] > n[other] \/ (n[b] = n[other] /\ Rank(b) <= Rank(other))
    OBVIOUS
  <2>1. n[other] <= n[b] /\ n[other] \in Nat /\ n[b] \in Nat
    BY <1>2, <1>5
  <2>2. n[other] = n[b] => Rank(b) <= Rank(other)
    BY <1>8
  <2> QED BY <2>1, <2>2
<1>10. \A other \in S : MoreUseful(b, other, have)
  BY <1>2, <1>9 DEF MoreUseful
<1> QED BY <1>10 DEF Best, S

\* Whoever answers for an owner approves for it, and for those it stands for.
AnswersFor(o, stands) ==
    /\ o \in AllOwners /\ stands \subseteq Teams
    /\ \A t \in stands : MembersOf(o) \subseteq members[t]

LEMMA StandsIn ==
    ASSUME CodeownersAssumption, NEW o \in AllOwners, NEW outstanding
    PROVE  AnswersFor(o, StandsFor(o, outstanding))
BY DEF AnswersFor, StandsFor

LEMMA AnswerApproves ==
    ASSUME CodeownersAssumption, Given, NEW o, NEW stands, AnswersFor(o, stands),
           NEW person \in MembersOf(o)
    PROVE  person \in People /\ {o} \cup stands \subseteq {person} \cup TeamsOf(person)
<1>1. CASE o \in People
  BY <1>1 DEF AnswersFor, MembersOf, TeamsOf
<1>2. CASE o \in Teams /\ o \notin People
  BY <1>2 DEF AnswersFor, MembersOf, TeamsOf, Given
<1> QED BY <1>1, <1>2 DEF AnswersFor, AllOwners

\* The next ask is of an owner not yet settled, who answers for those it stands for, and
\* settles something.
LEMMA NextTierHelps ==
    ASSUME CodeownersAssumption, Given, NEW have, Useful(have) # {}
    PROVE  LET tier == NextTier(have)
               more == have \cup {tier.owner} \cup tier.stands
           IN /\ AnswersFor(tier.owner, tier.stands)
              /\ tier.owner \notin have
              /\ \E p \in Remaining(have) : p \notin Remaining(more)
<1> DEFINE tier == NextTier(have)
           more == have \cup {tier.owner} \cup tier.stands
<1>1. \A p, o : p \in Remaining(have) /\ o \in OwnersOf(p) /\ o \in more => p \notin Remaining(more)
  BY DEF Remaining
<1>2. CASE Helping(have) # {}
  <2> DEFINE h == hints[Min(Helping(have))]
  <2>1. hints \in Seq(Teams \cup People) /\ Len(hints) \in Nat /\ Helping(have) \subseteq 1 .. Len(hints)
    BY DEF Given, CodeownersAssumption, Helping
  <2>2. Min(Helping(have)) \in Helping(have)
    BY <1>2, <2>1, LastOfSome
  <2>3. h \in AllOwners /\ HintHelps(h, have)
    BY <2>1, <2>2 DEF AllOwners, Helping
  <2>4. tier = TierOfHint(h, have)
    BY <1>2 DEF NextTier
  <2> HIDE DEF h
  <2>5. CASE h \in Useful(have)
    <3>1. tier.owner = h /\ tier.stands = StandsFor(h, Owners)
      BY <2>4, <2>5 DEF TierOfHint
    <3>2. PICK p \in Remaining(have) : h \in OwnersOf(p)
      BY <2>5 DEF Useful
    <3> QED BY <1>1, <2>3, <3>1, <3>2, StandsIn DEF HintHelps
  <2>6. CASE h \notin Useful(have)
    <3>1. tier.owner = h /\ tier.stands = StandsFor(h, Useful(have))
      BY <2>4, <2>6 DEF TierOfHint
    <3>2. PICK t : t \in StandsFor(h, Useful(have))
      BY <2>3, <2>6 DEF HintHelps
    <3>3. t \in Useful(have)
      BY <3>2 DEF StandsFor
    <3>4. PICK p \in Remaining(have) : t \in OwnersOf(p)
      BY <3>3 DEF Useful
    <3> QED BY <1>1, <2>3, <3>1, <3>2, <3>4, StandsIn DEF HintHelps
  <2> QED BY <2>5, <2>6
<1>3. CASE Helping(have) = {}
  <2>1. Reach(have) # {}
    <3>1. PICK p \in Remaining(have) : OwnersOf(p) # {} /\ OwnersOf(p) \cap have = {} /\ p \in Paths
      BY DEF Useful, Remaining
    <3>2. PICK o : o \in OwnersOf(p)
      BY <3>1
    <3>3. o \in Owners \ have /\ p \in Settles(o, have)
      BY <3>1, <3>2 DEF Owners, Settles
    <3> QED BY <3>3 DEF Reach
  <2>2. Best(have) \in Reach(have)
    BY <2>1, SomeBest
  <2>3. tier.owner = Best(have) /\ tier.stands = StandsFor(Best(have), Owners)
    BY <1>3 DEF NextTier, TierOfBest
  <2>4. Best(have) \in AllOwners /\ Best(have) \notin have
    BY <2>2, OwnersAreOwners DEF Reach
  <2>5. PICK p \in Settles(Best(have), have) : TRUE
    BY <2>2 DEF Reach
  <2>6. PICK o \in OwnersOf(p) : o \in {Best(have)} \cup StandsFor(Best(have), Owners)
    BY <2>5 DEF Settles
  <2> HIDE DEF tier
  <2>7. p \in Remaining(have) /\ o \in more
    BY <2>3, <2>5, <2>6 DEF Settles
  <2> QED BY <1>1, <2>3, <2>4, <2>6, <2>7, StandsIn DEF tier
<1> QED BY <1>2, <1>3

----------------------------------------------------------------------------
(* The inductive invariant of an ask *)

IsSequence(s) == Len(s) \in Nat /\ s = [i \in 1 .. Len(s) |-> s[i]]

\* The owners of the asks of a plan, and those they stand for.
Covered(tiers) == UNION {{tiers[i].owner} \cup tiers[i].stands : i \in DOMAIN tiers}

PlanInv ==
    /\ Given
    /\ review \in [at : {"open", "planning", "asked"}, approvals : SUBSET People, answers : Seq(People)]
    /\ IsSequence(plan.tiers)
    \* Nobody has answered before the plan is made, and nobody is planned for before that.
    /\ review.at # "asked" => review.answers = <<>>
    /\ review.at = "open" => plan.have = {} /\ plan.tiers = <<>>
    \* What is settled is by those who approved and those who are asked.
    /\ plan.have \subseteq Approval(review.approvals) \cup Covered(plan.tiers)
    /\ plan.have \subseteq AllOwners
    /\ \A i \in DOMAIN plan.tiers :
          /\ AnswersFor(plan.tiers[i].owner, plan.tiers[i].stands)
          /\ plan.tiers[i].owner \in plan.have
    /\ review.at = "asked" => Remaining(plan.have) = {}
    \* One answer for each of the first asks.
    /\ Len(review.answers) <= Len(plan.tiers)
    /\ \A i \in DOMAIN review.answers : review.answers[i] \in MembersOf(plan.tiers[i].owner)
    \* Each ask is of somebody else, and left less to ask for.
    /\ \A i, j \in DOMAIN plan.tiers : i # j => plan.tiers[i].owner # plan.tiers[j].owner
    /\ Len(plan.tiers) + Cardinality(Remaining(plan.have)) <= Cardinality(Paths)

LEMMA GivenKeeps ==
    ASSUME Given, UNCHANGED <<file, members, hints>>
    PROVE  /\ Given'
           /\ \A o : MembersOf(o)' = MembersOf(o)
           /\ \A have : Remaining(have)' = Remaining(have)
           /\ Approval(review.approvals)' = Approval(review'.approvals)
           /\ \A o, stands : AnswersFor(o, stands)' <=> AnswersFor(o, stands)
BY DEF Given, MembersOf, Remaining, OwnersOf, Matching, Approval, TeamsOf, AnswersFor

\* What appending does to a sequence, whatever is in it.
LEMMA AppendToAny ==
    ASSUME NEW s, IsSequence(s), NEW e, NEW r, r = Append(s, e)
    PROVE  /\ IsSequence(r) /\ Len(r) = Len(s) + 1
           /\ DOMAIN s = 1 .. Len(s) /\ DOMAIN r = 1 .. Len(r)
           /\ \A i \in 1 .. Len(s) : r[i] = s[i]
           /\ r[Len(r)] = e
<1> DEFINE S == {s[i] : i \in 1 .. Len(s)} \union {e}
<1>1. Len(s) \in Nat /\ s = [i \in 1 .. Len(s) |-> s[i]]
  BY DEF IsSequence
<1>2. \A i \in 1 .. Len(s) : s[i] \in S
  OBVIOUS
<1>3. e \in S
  OBVIOUS
<1> HIDE DEF S
<1>4. s \in [1 .. Len(s) -> S]
  BY <1>1, <1>2
<1>5. s \in Seq(S)
  BY <1>1, <1>4
<1>6. r \in Seq(S) /\ Len(r) = Len(s) + 1
  BY <1>3, <1>5
<1>7. /\ \A i \in 1 .. Len(s) : r[i] = s[i]
      /\ r[Len(s) + 1] = e
  BY <1>3, <1>5
<1>8. DOMAIN s = 1 .. Len(s) /\ DOMAIN r = 1 .. Len(r) /\ Len(r) \in Nat
  BY <1>5, <1>6
<1>9. r = [i \in 1 .. Len(r) |-> r[i]]
  <2>1. \A f, n : f \in [1 .. n -> S] => f = [i \in 1 .. n |-> f[i]]
    OBVIOUS
  <2>2. \A f \in Seq(S) : f \in [1 .. Len(f) -> S]
    OBVIOUS
  <2> QED BY <1>6, <2>1, <2>2
<1> QED BY <1>6, <1>7, <1>8, <1>9 DEF IsSequence

LEMMA NothingIsASequence ==
    IsSequence(<<>>) /\ DOMAIN <<>> = {} /\ Len(<<>>) = 0
<1>1. DOMAIN <<>> = {} /\ Len(<<>>) = 0
  OBVIOUS
<1>2. 1 .. 0 = {}
  OBVIOUS
<1>3. \A f : f = <<>> => f = [i \in {} |-> f[i]]
  OBVIOUS
<1>4. \A f : f = <<>> => f = [i \in 1 .. Len(f) |-> f[i]]
  BY <1>1, <1>2, <1>3
<1> QED BY <1>1, <1>4 DEF IsSequence

LEMMA AskKeeps ==
    ASSUME CodeownersAssumption, PlanInv, Ask
    PROVE  PlanInv'
<1> DEFINE tier == NextTier(plan.have)
           more == plan.have \cup {tier.owner} \cup tier.stands
<1>1. /\ Given /\ IsSequence(plan.tiers) /\ review.at = "planning" /\ Useful(plan.have) # {}
      /\ UNCHANGED <<file, members, hints, review>>
      /\ plan' = [have |-> more, tiers |-> Append(plan.tiers, tier)]
  BY DEF PlanInv, Ask
<1>2. /\ AnswersFor(tier.owner, tier.stands) /\ tier.owner \notin plan.have
      /\ \E p \in Remaining(plan.have) : p \notin Remaining(more)
  BY <1>1, NextTierHelps
<1>3. /\ more = plan.have \cup {tier.owner} \cup tier.stands
      /\ plan.have \subseteq more /\ tier.owner \in more
      /\ more \subseteq AllOwners
  BY <1>2 DEF PlanInv, AnswersFor, AllOwners
<1> HIDE DEF tier, more
<1>4. plan'.have = more /\ plan'.tiers = Append(plan.tiers, tier)
  BY <1>1
<1>5. /\ IsSequence(plan'.tiers) /\ Len(plan'.tiers) = Len(plan.tiers) + 1
      /\ DOMAIN plan.tiers = 1 .. Len(plan.tiers) /\ DOMAIN plan'.tiers = 1 .. Len(plan'.tiers)
      /\ \A i \in 1 .. Len(plan.tiers) : plan'.tiers[i] = plan.tiers[i]
      /\ plan'.tiers[Len(plan'.tiers)] = tier /\ Len(plan.tiers) \in Nat
  BY <1>1, <1>4, AppendToAny DEF IsSequence
<1>6. \A i \in DOMAIN plan'.tiers : (i \in DOMAIN plan.tiers /\ plan'.tiers[i] = plan.tiers[i])
                                    \/ (i = Len(plan'.tiers) /\ plan'.tiers[i] = tier)
  BY <1>5
<1>7. Covered(plan'.tiers) = Covered(plan.tiers) \cup {tier.owner} \cup tier.stands
  <2>1. DOMAIN plan.tiers \subseteq DOMAIN plan'.tiers /\ Len(plan'.tiers) \in DOMAIN plan'.tiers
    BY <1>5
  <2>2. \A i \in DOMAIN plan.tiers : plan'.tiers[i] = plan.tiers[i]
    BY <1>5
  <2> QED BY <1>5, <1>6, <2>1, <2>2 DEF Covered
<1>8. /\ Given' /\ \A o : MembersOf(o)' = MembersOf(o)
      /\ \A have : Remaining(have)' = Remaining(have)
      /\ Approval(review.approvals)' = Approval(review'.approvals)
      /\ \A o, stands : AnswersFor(o, stands)' <=> AnswersFor(o, stands)
  BY <1>1, GivenKeeps
<1>9. plan'.have \subseteq Approval(review.approvals)' \cup Covered(plan'.tiers)
  <2>1. plan.have \subseteq Approval(review.approvals) \cup Covered(plan.tiers)
    BY DEF PlanInv
  <2>2. Approval(review.approvals)' = Approval(review.approvals)
    BY <1>1, <1>8
  <2> QED BY <1>3, <1>4, <1>7, <2>1, <2>2
<1>10. \A i \in DOMAIN plan'.tiers : /\ AnswersFor(plan'.tiers[i].owner, plan'.tiers[i].stands)
                                      /\ plan'.tiers[i].owner \in plan'.have
  BY <1>2, <1>3, <1>4, <1>6 DEF PlanInv
<1>11. \A i, j \in DOMAIN plan'.tiers : i # j => plan'.tiers[i].owner # plan'.tiers[j].owner
  BY <1>2, <1>6 DEF PlanInv
<1>12. Len(plan'.tiers) + Cardinality(Remaining(plan'.have)) <= Cardinality(Paths)
  <2> DEFINE A == Remaining(plan.have)
             B == Remaining(more)
  <2>1. PICK p \in A : p \notin B
    BY <1>2
  <2>2. B \subseteq A \ {p}
    BY <1>3, <2>1, RemainingShrinks
  <2>3. /\ IsFiniteSet(A) /\ Cardinality(A) \in Nat /\ Cardinality(B) \in Nat
        /\ Cardinality(Paths) \in Nat
    BY FiniteRemaining
  <2> HIDE DEF A, B
  <2>4. IsFiniteSet(A \ {p}) /\ Cardinality(A \ {p}) = Cardinality(A) - 1
    BY <2>1, <2>3, FS_RemoveElement
  <2>5. Cardinality(B) <= Cardinality(A) - 1
    BY <2>2, <2>4, FS_Subset
  <2>6. Len(plan.tiers) + Cardinality(A) <= Cardinality(Paths)
    BY DEF PlanInv, A
  <2> QED BY <1>4, <1>5, <2>3, <2>5, <2>6 DEF B
<1>13. review' = review /\ review.answers = <<>> /\ review.answers \in Seq(People)
  BY <1>1 DEF PlanInv
<1>14. DOMAIN review.answers = {} /\ Len(review.answers) = 0
  BY <1>13
<1>15. Len(plan'.tiers) \in Nat
  BY <1>5
<1> QED BY <1>1, <1>3, <1>4, <1>5, <1>8, <1>9, <1>10, <1>11, <1>12, <1>13, <1>14, <1>15 DEF PlanInv

LEMMA PlanStarts ==
    ASSUME CodeownersAssumption, PlanInv, StartPlan
    PROVE  PlanInv'
<1> DEFINE new == [review EXCEPT !.at = "planning"]
<1>1. /\ review' = new /\ plan' = [have |-> Approval(review.approvals), tiers |-> <<>>]
      /\ review.at = "open" /\ UNCHANGED <<file, members, hints>> /\ Given
  BY DEF StartPlan, PlanInv
<1>2. new \in [at : {"open", "planning", "asked"}, approvals : SUBSET People, answers : Seq(People)]
      /\ new.at = "planning" /\ new.approvals = review.approvals /\ new.answers = <<>>
  BY <1>1 DEF PlanInv
<1> HIDE DEF new
<1>3. IsSequence(<<>>) /\ DOMAIN <<>> = {} /\ Len(<<>>) = 0
  BY NothingIsASequence
<1>4. plan'.have = Approval(review.approvals) /\ plan'.tiers = <<>>
  BY <1>1
<1>5. Approval(review.approvals) \subseteq AllOwners
  BY DEF PlanInv, Approval, TeamsOf, AllOwners
<1>6. Cardinality(Remaining(plan'.have)) <= Cardinality(Paths) /\ Cardinality(Remaining(plan'.have)) \in Nat
  BY FiniteRemaining
<1>7. /\ Given' /\ \A have : Remaining(have)' = Remaining(have)
      /\ Approval(review.approvals)' = Approval(review'.approvals)
  BY <1>1, GivenKeeps
<1> QED BY <1>1, <1>2, <1>3, <1>4, <1>5, <1>6, <1>7 DEF PlanInv

\* A step that changes nothing but the review, and neither its asks nor who settled what.
LEMMA ReviewGoesOn ==
    ASSUME CodeownersAssumption, PlanInv, UNCHANGED <<file, members, hints, plan>>,
           review' \in [at : {"open", "planning", "asked"}, approvals : SUBSET People, answers : Seq(People)],
           review.approvals \subseteq review'.approvals,
           review'.at # "asked" => review'.answers = <<>>,
           review'.at = "open" => review.at = "open",
           review'.at = "asked" => Remaining(plan.have) = {},
           Len(review'.answers) <= Len(plan.tiers),
           \A i \in DOMAIN review'.answers : review'.answers[i] \in MembersOf(plan.tiers[i].owner)
    PROVE  PlanInv'
<1>1. Given
  BY DEF PlanInv
<1>2. /\ Given' /\ \A o : MembersOf(o)' = MembersOf(o)
      /\ \A have : Remaining(have)' = Remaining(have)
      /\ Approval(review.approvals)' = Approval(review'.approvals)
      /\ \A o, stands : AnswersFor(o, stands)' <=> AnswersFor(o, stands)
  BY <1>1, GivenKeeps
<1>3. Approval(review.approvals) \subseteq Approval(review'.approvals)
  BY DEF Approval
<1>4. plan.have \subseteq Approval(review.approvals) \cup Covered(plan.tiers)
      /\ IsSequence(plan.tiers) /\ plan.have \subseteq AllOwners
  BY DEF PlanInv
<1>7. (plan.have \subseteq Approval(review.approvals) \cup Covered(plan.tiers))'
  <2>1. plan.have \subseteq Approval(review.approvals)' \cup Covered(plan.tiers)
    BY <1>2, <1>3, <1>4
  <2> QED BY <2>1
<1>5. review'.at = "open" => plan.have = {} /\ plan.tiers = <<>>
  BY DEF PlanInv
<1>6. /\ \A i \in DOMAIN plan.tiers : /\ AnswersFor(plan.tiers[i].owner, plan.tiers[i].stands)'
                                      /\ plan.tiers[i].owner \in plan.have
      /\ \A i, j \in DOMAIN plan.tiers : i # j => plan.tiers[i].owner # plan.tiers[j].owner
      /\ Len(plan.tiers) + Cardinality(Remaining(plan.have)) <= Cardinality(Paths)
  BY <1>2 DEF PlanInv
<1> QED BY <1>2, <1>4, <1>5, <1>6, <1>7 DEF PlanInv

\* Reviews, and how an approval, the end of a plan and an answer change one.
Reviews == [at : {"open", "planning", "asked"}, approvals : SUBSET People, answers : Seq(People)]

LEMMA ApproveKeeps ==
    ASSUME CodeownersAssumption, PlanInv, NEW person \in People, Approve(person)
    PROVE  PlanInv'
<1> DEFINE new == [review EXCEPT !.approvals = @ \cup {person}]
<1>1. /\ review' = new /\ review \in Reviews /\ review.at = "open"
      /\ UNCHANGED <<file, members, hints, plan>> /\ review.answers = <<>>
  BY DEF Approve, PlanInv, Reviews
<1>2. new \in Reviews /\ new.at = "open" /\ new.answers = <<>> /\ review.approvals \subseteq new.approvals
  BY <1>1 DEF Reviews
<1> HIDE DEF new
<1>3. Len(<<>>) = 0 /\ DOMAIN <<>> = {}
  OBVIOUS
<1>4. Len(plan.tiers) \in Nat
  BY DEF PlanInv, IsSequence
<1> QED BY <1>1, <1>2, <1>3, <1>4, ReviewGoesOn DEF Reviews

LEMMA EndKeeps ==
    ASSUME CodeownersAssumption, PlanInv, EndPlan
    PROVE  PlanInv'
<1> DEFINE new == [review EXCEPT !.at = "asked"]
<1>1. /\ review' = new /\ review \in Reviews /\ UNCHANGED <<file, members, hints, plan>>
      /\ review.answers = <<>> /\ Useful(plan.have) = {}
  BY DEF EndPlan, PlanInv, Reviews
<1>2. new \in Reviews /\ new.at = "asked" /\ new.answers = <<>> /\ new.approvals = review.approvals
  BY <1>1 DEF Reviews
<1> HIDE DEF new
<1>3. Len(<<>>) = 0 /\ DOMAIN <<>> = {}
  OBVIOUS
<1>4. Len(plan.tiers) \in Nat
  BY DEF PlanInv, IsSequence
\* Whoever owns an outstanding path is useful.
<1>5. Remaining(plan.have) = {}
  BY <1>1 DEF Useful, Remaining
<1> QED BY <1>1, <1>2, <1>3, <1>4, <1>5, ReviewGoesOn DEF Reviews

LEMMA AnswerKeeps ==
    ASSUME CodeownersAssumption, PlanInv, NEW person \in People, Answer(person)
    PROVE  PlanInv'
<1> DEFINE old == review.answers
           more == Append(old, person)
           new == [review EXCEPT !.answers = Append(@, person)]
<1>1. /\ review' = new /\ review \in Reviews /\ review.at = "asked"
      /\ UNCHANGED <<file, members, hints, plan>>
      /\ Len(old) < Len(plan.tiers) /\ person \in MembersOf(plan.tiers[Len(old) + 1].owner)
  BY DEF Answer, PlanInv, Reviews
<1>2. old \in Seq(People) /\ more \in Seq(People)
  BY <1>1 DEF Reviews
<1>3. /\ Len(old) \in Nat /\ Len(more) = Len(old) + 1
      /\ DOMAIN old = 1 .. Len(old) /\ DOMAIN more = 1 .. Len(more)
      /\ \A i \in DOMAIN old : more[i] = old[i]
      /\ more[Len(old) + 1] = person
  BY <1>2
<1>4. new \in Reviews /\ new.at = "asked" /\ new.approvals = review.approvals /\ new.answers = more
  BY <1>1, <1>2 DEF Reviews
<1> HIDE DEF new, more
<1>5. Len(plan.tiers) \in Nat /\ Remaining(plan.have) = {}
      /\ \A i \in DOMAIN old : old[i] \in MembersOf(plan.tiers[i].owner)
  BY <1>1 DEF PlanInv, IsSequence
<1>6. \A i \in DOMAIN more : i \in DOMAIN old \/ i = Len(old) + 1
  BY <1>3
<1>7. \A i \in DOMAIN more : more[i] \in MembersOf(plan.tiers[i].owner)
  BY <1>1, <1>3, <1>5, <1>6
<1>8. Len(more) <= Len(plan.tiers)
  BY <1>1, <1>3, <1>5
<1> QED BY <1>1, <1>4, <1>5, <1>7, <1>8, ReviewGoesOn DEF Reviews

LEMMA PlanBegins ==
    ASSUME CodeownersAssumption, OwnersInit
    PROVE  PlanInv
<1>1. /\ Given /\ review = [at |-> "open", approvals |-> {}, answers |-> <<>>]
      /\ plan = [have |-> {}, tiers |-> <<>>]
  BY DEF OwnersInit, Given
<1>2. /\ review.at = "open" /\ review.approvals = {} /\ review.answers = <<>>
      /\ plan.have = {} /\ plan.tiers = <<>>
  BY <1>1
<1>3. /\ <<>> \in Seq(People) /\ Len(<<>>) = 0 /\ DOMAIN <<>> = {}
  OBVIOUS
<1>4. review \in [at : {"open", "planning", "asked"}, approvals : SUBSET People, answers : Seq(People)]
  BY <1>1, <1>3
<1>5. Cardinality(Remaining(plan.have)) <= Cardinality(Paths) /\ Cardinality(Remaining(plan.have)) \in Nat
  BY FiniteRemaining
<1> QED BY <1>1, <1>2, <1>3, <1>4, <1>5, NothingIsASequence DEF PlanInv

LEMMA PlanInvHolds ==
    ASSUME CodeownersAssumption
    PROVE  OwnersSpec => []PlanInv
<1>1. OwnersInit => PlanInv
  BY PlanBegins
<1>2. PlanInv /\ [OwnersNext]_ownersVars => PlanInv'
  <2> SUFFICES ASSUME PlanInv, [OwnersNext]_ownersVars
               PROVE  PlanInv'
    OBVIOUS
  <2>1. CASE StartPlan
    BY <2>1, PlanStarts
  <2>2. CASE Ask
    BY <2>2, AskKeeps
  <2>3. CASE EndPlan
    BY <2>3, EndKeeps
  <2>4. ASSUME NEW person \in People, Approve(person) \/ Answer(person)
        PROVE  PlanInv'
    BY <2>4, ApproveKeeps, AnswerKeeps
  <2>5. CASE UNCHANGED ownersVars
    <3>1. UNCHANGED <<file, members, hints, review, plan>>
      BY <2>5 DEF ownersVars
    <3>2. Given
      BY DEF PlanInv
    <3>3. /\ Given' /\ \A o : MembersOf(o)' = MembersOf(o)
          /\ \A have : Remaining(have)' = Remaining(have)
          /\ Approval(review.approvals)' = Approval(review'.approvals)
          /\ \A o, stands : AnswersFor(o, stands)' <=> AnswersFor(o, stands)
      BY <3>1, <3>2, GivenKeeps
    <3> QED BY <3>1, <3>3 DEF PlanInv, IsSequence, Covered
  <2> QED BY <2>1, <2>2, <2>3, <2>4, <2>5 DEF OwnersNext
<1> QED BY <1>1, <1>2, PTL DEF OwnersSpec

----------------------------------------------------------------------------
(* What it gives *)

\* Types: a review and its plan are what they are declared to be, and a plan asks nobody
\* twice nor more often than the change has files (route.go).
THEOREM OwnersTypeCorrect ==
    ASSUME CodeownersAssumption
    PROVE  OwnersSpec => []OwnersTypeOK
<1>1. PlanInv => OwnersTypeOK
  <2> SUFFICES ASSUME PlanInv
               PROVE  OwnersTypeOK
    OBVIOUS
  <2>1. Len(plan.tiers) <= Cardinality(Paths)
    <3>1. /\ Cardinality(Remaining(plan.have)) \in Nat /\ Cardinality(Paths) \in Nat
      BY FiniteRemaining
    <3> QED BY <3>1 DEF PlanInv, IsSequence
  <2> QED BY <2>1 DEF PlanInv, OwnersTypeOK
<1> QED BY <1>1, PlanInvHolds, PTL

\* Whoever of each owner asked has answered, what is settled by the plan is approved.
LEMMA AnswersApprove ==
    ASSUME CodeownersAssumption, PlanInv, review.at = "asked",
           Len(review.answers) = Len(plan.tiers)
    PROVE  plan.have \subseteq
               Approval(review.approvals \cup {review.answers[i] : i \in DOMAIN review.answers})
<1> DEFINE answered == {review.answers[i] : i \in DOMAIN review.answers}
           all == review.approvals \cup answered
<1>1. \A person \in answered : {person} \cup TeamsOf(person) \subseteq Approval(all)
  BY DEF Approval
<1>2. Approval(review.approvals) \subseteq Approval(all)
  BY DEF Approval
<1>3. review.answers \in Seq(People)
  BY DEF PlanInv
<1>4. DOMAIN plan.tiers = DOMAIN review.answers
  BY <1>3 DEF PlanInv, IsSequence
<1>5. ASSUME NEW i \in DOMAIN plan.tiers
      PROVE  {plan.tiers[i].owner} \cup plan.tiers[i].stands \subseteq Approval(all)
  <2>1. review.answers[i] \in MembersOf(plan.tiers[i].owner) /\ review.answers[i] \in answered
    BY <1>4, <1>5 DEF PlanInv
  <2>2. Given /\ AnswersFor(plan.tiers[i].owner, plan.tiers[i].stands)
    BY <1>5 DEF PlanInv
  <2>3. {plan.tiers[i].owner} \cup plan.tiers[i].stands
            \subseteq {review.answers[i]} \cup TeamsOf(review.answers[i])
    BY <2>1, <2>2, AnswerApproves
  <2> QED BY <1>1, <2>1, <2>3
<1>6. Covered(plan.tiers) \subseteq Approval(all)
  BY <1>5 DEF Covered
<1> QED BY <1>2, <1>6 DEF PlanInv

\* Whoever approves for a sole approver approves for all it settles: every owned path.
LEMMA SoleOnesSuffice ==
    ASSUME CodeownersAssumption, Given
    PROVE  SoleMeansSole
<1> SUFFICES ASSUME NEW o \in SoleApprovers, NEW person \in MembersOf(o),
                    NEW p \in Remaining(Approval({person}))
             PROVE  FALSE
  BY DEF SoleMeansSole
<1> DEFINE stands == StandsFor(o, Owners)
<1>1. o \in AllOwners
  BY OwnersAreOwners DEF SoleApprovers, Reach
<1>2. {o} \cup stands \subseteq {person} \cup TeamsOf(person)
  BY <1>1, StandsIn, AnswerApproves
<1>3. p \in Settles(o, {})
  BY DEF SoleApprovers, Remaining
<1>4. OwnersOf(p) \cap ({o} \cup stands) # {}
  BY <1>3 DEF Settles
<1>5. {person} \cup TeamsOf(person) \subseteq Approval({person})
  BY DEF Approval
<1> HIDE DEF stands
<1> QED BY <1>2, <1>4, <1>5 DEF Remaining

\* Nobody is asked in vain and nobody is missing: when one member of every owner asked has
\* answered, whichever it was, every owned path is approved by the names of those who
\* answered, and a sole approver is one (route.go, ownership.go).
THEOREM AskedIsEnough ==
    ASSUME CodeownersAssumption
    PROVE  OwnersSpec => []AskedSuffice
<1>1. PlanInv /\ OwnersTypeOK => AskedSuffice
  <2> SUFFICES ASSUME PlanInv, OwnersTypeOK
               PROVE  AskedSuffice
    OBVIOUS
  <2>1. PlanSuffices
    <3> DEFINE all == review.approvals \cup {review.answers[i] : i \in DOMAIN review.answers}
    <3> SUFFICES ASSUME review.at = "asked", Len(review.answers) = Len(plan.tiers)
                 PROVE  Remaining(Approval(all)) = {}
      BY DEF PlanSuffices
    <3>1. plan.have \subseteq Approval(all)
      BY AnswersApprove
    <3>2. Remaining(plan.have) = {}
      BY DEF PlanInv
    <3>3. Remaining(Approval(all)) \subseteq Remaining(plan.have)
      BY <3>1, RemainingShrinks
    <3> QED BY <3>2, <3>3
  <2>2. SoleMeansSole
    BY SoleOnesSuffice DEF PlanInv
  <2> QED BY <2>1, <2>2 DEF AskedSuffice
<1> QED BY <1>1, PlanInvHolds, OwnersTypeCorrect, PTL

\* Every ask settles something that was outstanding, a preferred owner's too, and nothing
\* settled comes back (ownership.go, route.go).
THEOREM NobodyIsAskedInVain ==
    ASSUME CodeownersAssumption
    PROVE  OwnersSpec => EveryAskHelps
<1>1. PlanInv /\ [OwnersNext]_ownersVars =>
         [plan.tiers # plan'.tiers /\ review.at = "planning" =>
              /\ Remaining(plan'.have) \subseteq Remaining(plan.have)
              /\ Remaining(plan'.have) # Remaining(plan.have)]_ownersVars
  <2> SUFFICES ASSUME PlanInv, OwnersNext, plan.tiers # plan'.tiers, review.at = "planning"
               PROVE  /\ Remaining(plan'.have) \subseteq Remaining(plan.have)
                      /\ Remaining(plan'.have) # Remaining(plan.have)
    OBVIOUS
  <2>1. Ask
    BY DEF OwnersNext, StartPlan, EndPlan, Approve, Answer
  <2> DEFINE tier == NextTier(plan.have)
  <2>2. plan'.have = plan.have \cup {tier.owner} \cup tier.stands /\ Useful(plan.have) # {} /\ Given
    BY <2>1 DEF Ask, PlanInv
  <2>3. \E p \in Remaining(plan.have) : p \notin Remaining(plan'.have)
    BY <2>2, NextTierHelps
  <2>4. Remaining(plan'.have) \subseteq Remaining(plan.have)
    BY <2>2, RemainingShrinks
  <2> QED BY <2>3, <2>4
<1> QED BY <1>1, PlanInvHolds, PTL DEF OwnersSpec, EveryAskHelps


----------------------------------------------------------------------------
(* A gate and the tags it counts from *)

GatesAssumed == /\ SeriesAssumption /\ TagsAssumption /\ GatesAssumption
                /\ PagesAssumption /\ BoundAssumption

\* Versions are compared part by part, and any two of them are.
LEMMA VersionsAreOrdered ==
    /\ \A v \in Versions : AtLeast(v, v)
    /\ \A v, w \in Versions : AtLeast(v, w) \/ AtLeast(w, v)
    /\ \A v, w, x \in Versions : AtLeast(v, w) /\ AtLeast(w, x) => AtLeast(v, x)
<1>1. \A v \in Versions : v.major \in Nat /\ v.minor \in Nat
  BY DEF Versions
<1> QED BY <1>1 DEF AtLeast

\* Of some tags there is a highest: else there would be a first tag at which there
\* stops being one.
LEMMA SomeHighest ==
    ASSUME tags \in Seq(Tags), NEW S, S \subseteq DOMAIN tags, S # {}
    PROVE  /\ Highest(S) \in S
           /\ \A j \in S : AtLeast(tags[Highest(S)].version, tags[j].version)
<1> DEFINE Tops(T) == {i \in T : \A j \in T : AtLeast(tags[i].version, tags[j].version)}
           Bad == {k \in 0 .. Len(tags) : \E T \in SUBSET (1 .. k) : T # {} /\ Tops(T) = {}}
<1>1. /\ Len(tags) \in Nat /\ DOMAIN tags = 1 .. Len(tags)
      /\ \A i \in 1 .. Len(tags) : tags[i].version \in Versions
  <2>1. \A i \in 1 .. Len(tags) : tags[i] \in Tags
    OBVIOUS
  <2>2. \A t \in Tags : t.version \in Versions
    BY DEF Tags
  <2> QED BY <2>1, <2>2
<1>2. Bad = {}
  <2> SUFFICES ASSUME Bad # {}
               PROVE  FALSE
    OBVIOUS
  <2>1. PICK k \in Bad : \A n \in Bad : k <= n
    <3>1. Bad \subseteq Nat
      BY <1>1
    <3> QED BY <3>1, LeastNatural
  <2>2. PICK T \in SUBSET (1 .. k) : T # {} /\ Tops(T) = {}
    BY <2>1
  <2> DEFINE R == T \ {k}
  <2>3. k \in 1 .. Len(tags) /\ k - 1 \in 0 .. Len(tags) /\ k - 1 \notin Bad
    <3>1. k \in 0 .. Len(tags) /\ k # 0
      BY <2>1, <2>2
    <3>2. k \in Nat /\ k >= 1 /\ k <= Len(tags)
      BY <3>1, <1>1
    <3>3. k - 1 \in 0 .. Len(tags) /\ ~(k <= k - 1)
      BY <3>2, <1>1
    <3> HIDE DEF Bad
    <3>4. k - 1 \notin Bad
      BY <3>3, <2>1
    <3> QED BY <3>2, <3>3, <3>4, <1>1
  <2>4. R \in SUBSET (1 .. (k - 1)) /\ T \in SUBSET (1 .. Len(tags))
    <3>1. k \in Nat /\ k <= Len(tags)
      BY <2>3, <1>1
    <3>2. \A n \in T : n \in Nat /\ 1 <= n /\ n <= k
      BY <3>1
    <3> HIDE DEF Bad, Tops
    <3>3. \A n \in T : n # k => n \in 1 .. (k - 1)
      BY <3>1, <3>2
    <3>4. \A n \in T : n \in 1 .. Len(tags)
      BY <3>1, <3>2, <1>1
    <3> QED BY <3>3, <3>4
  <2>5. R = {} \/ Tops(R) # {}
    BY <2>3, <2>4
  <2>6. k \in T
    <3> SUFFICES ASSUME k \notin T
                 PROVE  FALSE
      OBVIOUS
    <3>1. R = T
      OBVIOUS
    <3> HIDE DEF R, Tops
    <3> QED BY <3>1, <2>5, <2>2
  <2>7. \A i \in T : tags[i].version \in Versions
    BY <2>4, <1>1
  <2>8. CASE R = {}
    <3>1. T = {k}
      BY <2>8, <2>6
    <3>2. k \in Tops(T)
      BY <3>1, <2>7, VersionsAreOrdered
    <3> QED BY <3>2, <2>2
  <2>9. CASE Tops(R) # {}
    <3>1. PICK i \in R : \A j \in R : AtLeast(tags[i].version, tags[j].version)
      BY <2>9
    <3>2. CASE AtLeast(tags[i].version, tags[k].version)
      <4>1. i \in Tops(T)
        BY <3>1, <3>2
      <4> QED BY <4>1, <2>2
    <3>3. CASE AtLeast(tags[k].version, tags[i].version)
      <4>1. ASSUME NEW j \in R
            PROVE  AtLeast(tags[k].version, tags[j].version)
        <5>1. /\ tags[i].version \in Versions /\ tags[j].version \in Versions
              /\ tags[k].version \in Versions
          BY <2>6, <2>7
        <5>2. AtLeast(tags[i].version, tags[j].version)
          BY <3>1
        <5> QED BY <5>1, <5>2, <3>3, VersionsAreOrdered, Zenon
      <4>2. AtLeast(tags[k].version, tags[k].version)
        BY <2>6, <2>7, VersionsAreOrdered
      <4>3. \A j \in T : AtLeast(tags[k].version, tags[j].version)
        BY <4>1, <4>2
      <4>4. k \in Tops(T)
        BY <4>3, <2>6
      <4> QED BY <4>4, <2>2
    <3> QED BY <3>1, <3>2, <3>3, <2>6, <2>7, VersionsAreOrdered
  <2> QED BY <2>5, <2>8, <2>9
<1>3. Tops(S) # {}
  <2>1. S \in SUBSET (1 .. Len(tags)) /\ Len(tags) \in 0 .. Len(tags)
    BY <1>1
  <2> QED BY <1>2, <2>1
<1> QED BY <1>3 DEF Highest

\* A gate resolves to a wait, for a release above every one there is to count from.
LEMMA ResolvesAbove ==
    ASSUME GatesAssumption, tags \in Seq(Tags), NEW K \in SUBSET DOMAIN tags,
           NEW g \in Gates, CountsFrom(g, K) # {}
    PROVE  /\ Resolve(g, K) \in Wait
           /\ \A i \in K : ~Matches(Resolve(g, K), tags[i])
<1> DEFINE S == CountsFrom(g, K)
           v == tags[Highest(S)].version
           w == Resolve(g, K)
<1>1. /\ S \subseteq DOMAIN tags /\ S # {}
      /\ \A i \in K : i \in S <=> tags[i].series = g.series /\ ~tags[i].pre
  BY DEF CountsFrom
<1>2. Highest(S) \in S /\ \A j \in S : AtLeast(v, tags[j].version)
  <2> HIDE DEF S
  <2> QED BY <1>1, SomeHighest
<1>3. \A i \in DOMAIN tags : tags[i].version \in Versions
  <2>1. \A i \in DOMAIN tags : tags[i] \in Tags
    OBVIOUS
  <2>2. \A t \in Tags : t.version \in Versions
    BY DEF Tags
  <2> QED BY <2>1, <2>2
<1>4. v \in Versions
  BY <1>1, <1>2, <1>3
<1>5. /\ g.series \in Series /\ g.offset \in Nat \ {0}
      /\ v.major \in Nat /\ v.minor \in Nat /\ v = [major |-> v.major, minor |-> v.minor]
  BY <1>4 DEF GatesAssumption, Versions
<1>6. /\ w.series = g.series
      /\ w \in Wait
      /\ \/ w.least.major = v.major + g.offset /\ w.least.minor = 0
         \/ w.least.major = v.major /\ w.least.minor = v.minor + g.offset
  <2> DEFINE least == IF g.component = "major" THEN [major |-> v.major + g.offset, minor |-> 0]
                      ELSE [v EXCEPT !.minor = @ + g.offset]
  <2>1. w = [series |-> g.series, least |-> least]
    BY DEF Resolve
  <2> HIDE DEF v
  <2>2. /\ least \in Versions
        /\ \/ least.major = v.major + g.offset /\ least.minor = 0
           \/ least.major = v.major /\ least.minor = v.minor + g.offset
    <3>1. CASE g.component = "major"
      BY <3>1, <1>5 DEF Versions
    <3>2. CASE g.component # "major"
      <4>1. least = [major |-> v.major, minor |-> v.minor + g.offset]
        BY <3>2, <1>5
      <4> QED BY <4>1, <1>5 DEF Versions
    <3> QED BY <3>1, <3>2
  <2> HIDE DEF least, w
  <2> QED BY <2>1, <2>2, <1>5 DEF Wait
<1>7. ASSUME NEW i \in K, Matches(w, tags[i])
      PROVE  FALSE
  <2> HIDE DEF S, w, v
  <2>1. i \in S /\ AtLeast(tags[i].version, w.least)
    BY <1>7, <1>6, <1>1 DEF Matches
  <2>2. AtLeast(v, tags[i].version)
    BY <2>1, <1>2
  <2>3. tags[i].version \in Versions
    BY <1>3
  <2>5. \A x \in Versions : ~(AtLeast(x, w.least) /\ AtLeast(v, x))
    <3>1. \A x \in Versions : x.major \in Nat /\ x.minor \in Nat
      BY DEF Versions
    <3> QED BY <3>1, <1>5, <1>6 DEF AtLeast
  <2> QED BY <2>1, <2>2, <2>3, <2>5
<1> QED BY <1>6, <1>7

----------------------------------------------------------------------------
(* The inductive invariant of the gates *)

TablesHold ==
    /\ tags \in Seq(Tags)
    /\ known \subseteq DOMAIN tags
    /\ wait \in [Waiters -> Wait \cup {NoWait}]
    /\ gate \in [Waiters -> Gates \cup {NoGate}]
    /\ open \subseteq Waiters
    /\ caught \in Nat /\ caught <= Len(tags)

\* The sync process remembers gates that were asked for and tags that are there.
MemoryHolds ==
    /\ sync = [pc |-> sync.pc, at |-> sync.at, pending |-> sync.pending, known |-> sync.known,
               cursor |-> sync.cursor, pages |-> sync.pages, fetched |-> sync.fetched, cut |-> sync.cut]
    /\ sync.pc \in {"idle", "read", "apply", "resolve"}
    /\ sync.at \in Nat /\ sync.at <= Len(tags)
    /\ DOMAIN sync.pending \subseteq Waiters
    /\ \A a \in DOMAIN sync.pending : sync.pending[a] \in Gates
    /\ DOMAIN sync.cursor \subseteq Series /\ sync.cut \subseteq Series
    /\ sync.pages \in 0 .. MaxPages
    /\ sync.pc = "read" => sync.pages < MaxPages
    /\ sync.fetched \subseteq DOMAIN tags

CommandHolds ==
    /\ cli = [pc |-> cli.pc, on |-> cli.on, gate |-> cli.gate]
    /\ cli.pc \in {"idle", "resolve", "settle"}
    /\ cli.pc # "idle" => cli.on \in Waiters
    /\ cli.pc = "resolve" => cli.gate \in Gates
    /\ says \in Nat

GateInv == TablesHold /\ MemoryHolds /\ CommandHolds /\ WaitsForOneThing

LEMMA GatesStart ==
    ASSUME GatesAssumed, Init
    PROVE  GateInv
<1>1. TablesHold
  <2>1. tags \in Seq(Tags)
    BY DEF GatesAssumed, TagsAssumption, Init
  <2> QED BY <2>1 DEF Init, TablesHold
<1>2. MemoryHolds
  <2>1. sync = Quiet /\ tags \in Seq(Tags) /\ MaxPages \in Nat \ {0}
    BY <1>1 DEF GatesAssumed, PagesAssumption, Init, TablesHold
  <2> QED BY <2>1 DEF Quiet, MemoryHolds
<1>3. CommandHolds
  BY DEF Init, Idle, CommandHolds
<1>4. WaitsForOneThing
  BY DEF Init, WaitsForOneThing
<1> QED BY <1>1, <1>2, <1>3, <1>4 DEF GateInv

\* A gate that is worked out is one that goes, and a wait that comes.
LEMMA ResolvingKeeps ==
    ASSUME GatesAssumed, TablesHold, WaitsForOneThing, NEW a \in Waiters, NEW g \in Gates,
           ResolveInto(a, g), UNCHANGED <<tags, known, open, caught>>
    PROVE  TablesHold' /\ WaitsForOneThing'
<1>1. CASE CountsFrom(g, known) = {}
  <2>1. UNCHANGED <<tags, known, open, caught, wait, gate>>
    BY <1>1 DEF ResolveInto
  <2> QED BY <2>1 DEF TablesHold, WaitsForOneThing
<1>2. CASE CountsFrom(g, known) # {}
  <2>1. /\ wait' = [wait EXCEPT ![a] = Resolve(g, known)]
        /\ gate' = [gate EXCEPT ![a] = NoGate]
    BY <1>2 DEF ResolveInto
  <2>2. Resolve(g, known) \in Wait
    BY <1>2, ResolvesAbove DEF TablesHold, GatesAssumed
  <2>3. /\ wait' \in [Waiters -> Wait \cup {NoWait}]
        /\ gate' \in [Waiters -> Gates \cup {NoGate}]
    BY <2>1, <2>2 DEF TablesHold
  <2>4. WaitsForOneThing'
    BY <2>1 DEF TablesHold, WaitsForOneThing
  <2> QED BY <2>3, <2>4 DEF TablesHold
<1> QED BY <1>1, <1>2

LEMMA BeginKeeps ==
    ASSUME GatesAssumed, GateInv, Begin
    PROVE  GateInv'
<1>1. TablesHold' /\ CommandHolds' /\ WaitsForOneThing'
  BY DEF GateInv, TablesHold, CommandHolds, WaitsForOneThing, Begin, tables, ghosts, bounds
<1> DEFINE gates == [a \in {b \in open : gate[b] # NoGate} |-> gate[a]]
           asking == [s \in SeriesAskedFor |-> 0]
<1>2. sync' = [pc |-> "read", at |-> Len(tags), pending |-> gates, known |-> known,
               cursor |-> asking, pages |-> 0, fetched |-> {}, cut |-> {}]
  BY DEF Begin, Quiet
<1>3. tags' = tags /\ tags \in Seq(Tags) /\ MaxPages \in Nat \ {0}
  BY DEF GatesAssumed, PagesAssumption, GateInv, TablesHold, Begin
<1>4. DOMAIN gates \subseteq Waiters /\ \A a \in DOMAIN gates : gates[a] \in Gates
  BY DEF GateInv, TablesHold
<1>5. DOMAIN asking \subseteq Series
  <2>1. \A a \in open : wait[a] # NoWait => wait[a].series \in Series
    BY DEF GateInv, TablesHold, Wait
  <2>2. \A a \in open : gate[a] # NoGate => gate[a].series \in Series
    <3>1. \A g \in Gates : g.series \in Series
      BY DEF GatesAssumed, GatesAssumption
    <3> QED BY <3>1 DEF GateInv, TablesHold
  <2> QED BY <2>1, <2>2 DEF SeriesAskedFor
<1>6. MemoryHolds'
  <2> HIDE DEF gates, asking
  <2> QED BY <1>2, <1>3, <1>4, <1>5 DEF MemoryHolds
<1> QED BY <1>1, <1>6 DEF GateInv

\* What a page holds is there, and one page more is not more than are read.
LEMMA ReadPageKeeps ==
    ASSUME GatesAssumed, GateInv, ReadPage
    PROVE  GateInv'
<1>1. TablesHold' /\ CommandHolds' /\ WaitsForOneThing'
  BY DEF GateInv, TablesHold, CommandHolds, WaitsForOneThing, ReadPage, tables, ghosts, bounds
<1> DEFINE asking == DOMAIN sync.cursor
           more   == {s \in asking : HasNextPage(s) /\ ~Recognised(s)}
           last   == LastPage(more)
           read   == FetchedBy(asking)
           next   == [s \in more |-> Min(Page(s))]
           cut    == IF last THEN more ELSE {}
           pc     == IF ~last THEN "read" ELSE IF read = {} THEN "resolve" ELSE "apply"
<1>2. sync' = [pc |-> pc, at |-> sync.at, pending |-> sync.pending, known |-> sync.known,
               cursor |-> next, pages |-> sync.pages + 1, fetched |-> read, cut |-> cut]
  <2>1. sync' = [sync EXCEPT !.fetched = read, !.pages = @ + 1, !.cursor = next,
                             !.cut = cut, !.pc = pc]
    BY DEF ReadPage
  <2> HIDE DEF read, next, cut, pc
  <2> QED BY <2>1 DEF GateInv, MemoryHolds
<1>3. /\ tags' = tags /\ sync.pc = "read" /\ MaxPages \in Nat \ {0}
      /\ sync.pages \in 0 .. MaxPages /\ sync.pages < MaxPages
  BY DEF GatesAssumed, PagesAssumption, GateInv, MemoryHolds, ReadPage
<1>4. DOMAIN next \subseteq Series /\ cut \subseteq Series
  BY DEF GateInv, MemoryHolds
<1>5. read \subseteq DOMAIN tags
  <2>1. \A s : Page(s) \subseteq DOMAIN tags
    <3>1. DOMAIN tags = 1 .. Len(tags)
      BY DEF GateInv, TablesHold
    <3> QED BY <3>1 DEF Page, Older
  <2>2. sync.fetched \subseteq DOMAIN tags
    BY DEF GateInv, MemoryHolds
  <2> QED BY <2>1, <2>2 DEF FetchedBy
<1>6. /\ pc \in {"idle", "read", "apply", "resolve"}
      /\ pc = "read" => sync.pages + 1 # MaxPages
  BY DEF LastPage
<1>7. sync.pages + 1 \in 0 .. MaxPages /\ (pc = "read" => sync.pages + 1 < MaxPages)
  BY <1>3, <1>6
<1>8. MemoryHolds'
  <2> HIDE DEF read, next, cut, pc
  <2> QED BY <1>2, <1>3, <1>4, <1>5, <1>6, <1>7 DEF GateInv, MemoryHolds
<1> QED BY <1>1, <1>8 DEF GateInv

LEMMA PageFailsKeeps ==
    ASSUME GatesAssumed, GateInv, PageFails
    PROVE  GateInv'
<1>1. TablesHold' /\ CommandHolds' /\ WaitsForOneThing'
  BY DEF GateInv, TablesHold, CommandHolds, WaitsForOneThing, PageFails, tables, ghosts, bounds
<1> DEFINE pc == IF sync.fetched = {} THEN "resolve" ELSE "apply"
<1>2. sync' = [sync EXCEPT !.pc = pc, !.cut = DOMAIN sync.cursor]
  BY DEF PageFails
<1>3. pc \in {"apply", "resolve"} /\ tags' = tags
  BY DEF PageFails
<1>4. MemoryHolds'
  <2> HIDE DEF pc
  <2>1. sync' = [pc |-> pc, at |-> sync.at, pending |-> sync.pending, known |-> sync.known,
                 cursor |-> sync.cursor, pages |-> sync.pages, fetched |-> sync.fetched,
                 cut |-> DOMAIN sync.cursor]
    BY <1>2 DEF GateInv, MemoryHolds
  <2> QED BY <2>1, <1>3 DEF GateInv, MemoryHolds
<1> QED BY <1>1, <1>4 DEF GateInv

LEMMA StopKeeps ==
    ASSUME GatesAssumed, GateInv, Stop
    PROVE  GateInv'
<1>1. TablesHold' /\ CommandHolds' /\ WaitsForOneThing'
  BY DEF GateInv, TablesHold, CommandHolds, WaitsForOneThing, Stop, tables, ghosts, bounds
<1>2. sync' = Quiet /\ tags' = tags /\ tags \in Seq(Tags) /\ MaxPages \in Nat \ {0}
  BY DEF GatesAssumed, PagesAssumption, GateInv, TablesHold, Stop
<1>3. MemoryHolds'
  BY <1>2 DEF Quiet, MemoryHolds
<1> QED BY <1>1, <1>3 DEF GateInv

LEMMA ApplyKeeps ==
    ASSUME GatesAssumed, GateInv, Apply
    PROVE  GateInv'
<1>1. PICK i \in sync.fetched :
          /\ known' = known \cup {i}
          /\ sync' = [sync EXCEPT !.fetched = @ \ {i},
                                  !.pc = IF sync.fetched = {i} THEN "resolve" ELSE "apply"]
  BY DEF Apply
<1>2. i \in DOMAIN tags /\ tags' = tags
  BY <1>1 DEF Apply, GateInv, MemoryHolds
<1>3. TablesHold' /\ CommandHolds' /\ WaitsForOneThing'
  BY <1>1, <1>2 DEF GateInv, TablesHold, CommandHolds, WaitsForOneThing, Apply, ghosts, bounds
<1> DEFINE pc == IF sync.fetched = {i} THEN "resolve" ELSE "apply"
<1>4. pc \in {"apply", "resolve"}
  OBVIOUS
<1>5. MemoryHolds'
  <2> HIDE DEF pc
  <2>1. sync' = [pc |-> pc, at |-> sync.at, pending |-> sync.pending, known |-> sync.known,
                 cursor |-> sync.cursor, pages |-> sync.pages, fetched |-> sync.fetched \ {i},
                 cut |-> sync.cut]
    BY <1>1 DEF GateInv, MemoryHolds, pc
  <2> QED BY <2>1, <1>4, <1>2 DEF GateInv, MemoryHolds
<1> QED BY <1>3, <1>5 DEF GateInv

LEMMA ResolvePendingKeeps ==
    ASSUME GatesAssumed, GateInv, NEW a \in Waiters, ResolvePending(a)
    PROVE  GateInv'
<1>1. a \in DOMAIN sync.pending /\ sync.pending[a] \in Gates
  BY DEF ResolvePending, GateInv, MemoryHolds
<1>2. TablesHold' /\ WaitsForOneThing'
  BY <1>1, ResolvingKeeps DEF ResolvePending, GateInv, ghosts
<1>3. CommandHolds'
  BY DEF ResolvePending, GateInv, CommandHolds, bounds
<1> DEFINE rest == [b \in DOMAIN sync.pending \ {a} |-> sync.pending[b]]
<1>4. MemoryHolds'
  <2>1. sync' = [sync EXCEPT !.pending = rest] /\ tags' = tags
    BY DEF ResolvePending
  <2>2. /\ DOMAIN rest \subseteq DOMAIN sync.pending
        /\ \A b \in DOMAIN rest : rest[b] \in Gates
    BY DEF GateInv, MemoryHolds
  <2> HIDE DEF rest
  <2>3. sync' = [pc |-> sync.pc, at |-> sync.at, pending |-> rest, known |-> sync.known,
                 cursor |-> sync.cursor, pages |-> sync.pages, fetched |-> sync.fetched,
                 cut |-> sync.cut]
    BY <2>1 DEF GateInv, MemoryHolds
  <2> QED BY <2>1, <2>2, <2>3 DEF GateInv, MemoryHolds
<1> QED BY <1>2, <1>3, <1>4 DEF GateInv

LEMMA SettleKeeps ==
    ASSUME GatesAssumed, GateInv, Settle
    PROVE  GateInv'
<1>1. TablesHold'
  <2>1. sync.at \in Nat /\ sync.at <= Len(tags)
    BY DEF GateInv, MemoryHolds
  <2>2. open' \subseteq Waiters /\ caught' \in {sync.at, caught}
    BY DEF Settle, GateInv, TablesHold
  <2> QED BY <2>1, <2>2 DEF GateInv, TablesHold, Settle
<1>2. CommandHolds' /\ WaitsForOneThing'
  BY DEF GateInv, CommandHolds, WaitsForOneThing, Settle, bounds
<1>3. sync' = Quiet /\ tags' = tags /\ tags \in Seq(Tags) /\ MaxPages \in Nat \ {0}
  BY DEF GatesAssumed, PagesAssumption, GateInv, TablesHold, Settle
<1>4. MemoryHolds'
  BY <1>3 DEF Quiet, MemoryHolds
<1> QED BY <1>1, <1>2, <1>4 DEF GateInv

\* What a command writes about an action replaces what was written of either kind.
LEMMA ByHandKeeps ==
    ASSUME GatesAssumed, GateInv,
           \/ \E a \in Waiters, w \in Waits : WaitByHand(a, w)
           \/ \E a \in Waiters, g \in Gates : GateByHand(a, g)
    PROVE  GateInv'
<1>1. PICK a \in Waiters, w \in Wait \cup {NoWait}, g \in Gates \cup {NoGate}, pc \in {"resolve", "settle"} :
          /\ w = NoWait \/ g = NoGate
          /\ wait' = [wait EXCEPT ![a] = w] /\ gate' = [gate EXCEPT ![a] = g]
          /\ cli' = [pc |-> pc, on |-> a, gate |-> g]
          /\ pc = "resolve" => g \in Gates
          /\ UNCHANGED <<tags, known, open, sync, caught>> /\ says' = says + 1
  <2>1. CASE \E a \in Waiters, w \in Waits : WaitByHand(a, w)
    <3>1. Waits \subseteq Wait
      <4>1. \A r \in Releases : r.series \in Series /\ r.version \in Versions
        BY DEF GatesAssumed, TagsAssumption, Tags
      <4> QED BY <4>1 DEF Waits, Wait
    <3> QED BY <2>1, <3>1 DEF WaitByHand
  <2>2. CASE \E a \in Waiters, g \in Gates : GateByHand(a, g)
    BY <2>2 DEF GateByHand, AddPendingRef
  <2> QED BY <2>1, <2>2
<1>2. TablesHold'
  BY <1>1 DEF GateInv, TablesHold
<1>3. WaitsForOneThing'
  BY <1>1 DEF GateInv, TablesHold, WaitsForOneThing
<1>4. MemoryHolds'
  BY <1>1 DEF GateInv, MemoryHolds
<1>5. CommandHolds'
  BY <1>1 DEF GateInv, CommandHolds
<1> QED BY <1>2, <1>3, <1>4, <1>5 DEF GateInv

LEMMA CommandKeeps ==
    ASSUME GatesAssumed, GateInv, ResolveGateNow \/ SettleActionNow \/ CommandEnds
    PROVE  GateInv'
<1>1. TablesHold' /\ WaitsForOneThing'
  <2>1. CASE ResolveGateNow
    <3>1. cli.on \in Waiters /\ cli.gate \in Gates
      BY <2>1 DEF ResolveGateNow, GateInv, CommandHolds
    <3> QED BY <2>1, <3>1, ResolvingKeeps DEF ResolveGateNow, GateInv, ghosts
  <2>2. CASE SettleActionNow
    BY <2>2 DEF SettleActionNow, GateInv, TablesHold, WaitsForOneThing, ghosts
  <2>3. CASE CommandEnds
    BY <2>3 DEF CommandEnds, GateInv, TablesHold, WaitsForOneThing, tables, ghosts, bounds
  <2> QED BY <2>1, <2>2, <2>3
<1>2. MemoryHolds'
  BY DEF GateInv, MemoryHolds, ResolveGateNow, SettleActionNow, CommandEnds
<1>3. CommandHolds'
  <2>1. CASE ResolveGateNow
    <3>1. /\ cli' = [pc |-> "settle", on |-> cli.on, gate |-> cli.gate] /\ cli.on \in Waiters
          /\ says' = says /\ says \in Nat
      BY <2>1 DEF ResolveGateNow, GateInv, CommandHolds, bounds
    <3> QED BY <3>1 DEF CommandHolds
  <2>2. CASE SettleActionNow \/ CommandEnds
    BY <2>2 DEF SettleActionNow, CommandEnds, Idle, GateInv, CommandHolds, bounds
  <2> QED BY <2>1, <2>2
<1> QED BY <1>1, <1>2, <1>3 DEF GateInv

LEMMA CutKeeps ==
    ASSUME GatesAssumed, GateInv, NEW r \in Releases, Cut(r)
    PROVE  GateInv'
<1>1. /\ tags' = Append(tags, r) /\ tags \in Seq(Tags) /\ r \in Tags
      /\ UNCHANGED <<known, wait, gate, open, sync, cli, caught, says>>
  BY DEF Cut, GateInv, TablesHold, GatesAssumed, TagsAssumption, tables, ghosts, bounds
<1>2. /\ tags' \in Seq(Tags) /\ DOMAIN tags \subseteq DOMAIN tags'
      /\ Len(tags) \in Nat /\ Len(tags') = Len(tags) + 1
  BY <1>1
<1>3. TablesHold' /\ WaitsForOneThing'
  BY <1>1, <1>2 DEF GateInv, TablesHold, WaitsForOneThing
<1>4. MemoryHolds'
  BY <1>1, <1>2 DEF GateInv, MemoryHolds
<1>5. CommandHolds'
  BY <1>1 DEF GateInv, CommandHolds
<1> QED BY <1>3, <1>4, <1>5 DEF GateInv

LEMMA GateInvHolds ==
    ASSUME GatesAssumed
    PROVE  Spec => []GateInv
<1>1. Init => GateInv
  BY GatesStart
<1>2. GateInv /\ [Next]_vars => GateInv'
  <2> SUFFICES ASSUME GateInv, [Next]_vars
               PROVE  GateInv'
    OBVIOUS
  <2>1. CASE Begin
    BY <2>1, BeginKeeps
  <2>2. CASE ReadPage
    BY <2>2, ReadPageKeeps
  <2>3. CASE Apply
    BY <2>3, ApplyKeeps
  <2>4. CASE Settle
    BY <2>4, SettleKeeps
  <2>5. CASE \E a \in Waiters : ResolvePending(a)
    BY <2>5, ResolvePendingKeeps
  <2>6. CASE PageFails
    BY <2>6, PageFailsKeeps
  <2>7. CASE Stop
    BY <2>7, StopKeeps
  <2>8. CASE \/ \E a \in Waiters, w \in Waits : WaitByHand(a, w)
             \/ \E a \in Waiters, g \in Gates : GateByHand(a, g)
    BY <2>8, ByHandKeeps
  <2>9. CASE ResolveGateNow \/ SettleActionNow \/ CommandEnds
    BY <2>9, CommandKeeps
  <2>10. CASE \E r \in Releases : Cut(r)
    BY <2>10, CutKeeps
  <2>11. CASE UNCHANGED vars
    BY <2>11 DEF vars, tables, ghosts, bounds, GateInv, TablesHold, MemoryHolds, CommandHolds, WaitsForOneThing
  <2> QED BY <2>1, <2>2, <2>3, <2>4, <2>5, <2>6, <2>7, <2>8, <2>9, <2>10, <2>11 DEF Next, Sync
<1> QED BY <1>1, <1>2, PTL DEF Spec

----------------------------------------------------------------------------
(* What it gives *)

\* Every table, and what the sync process and a command remember, keep their types:
\* gates and series are of those asked for, tags of those there are, and no more
\* pages are read than are allowed.
THEOREM GatesTypeCorrect ==
    ASSUME GatesAssumed
    PROVE  Spec => []GateTypeOK
<1>1. GateInv => GateTypeOK
  BY DEF GateInv, TablesHold, MemoryHolds, CommandHolds, GateTypeOK
<1> QED BY <1>1, GateInvHolds, PTL

\* An action never has a wait and a gate at once, though commands and the sync
\* process write the two tables in transactions of their own and the sync process
\* resolves the gates it listed before it read (store/refrelative.go).
THEOREM OneThingAtATime ==
    ASSUME GatesAssumed
    PROVE  Spec => []WaitsForOneThing
<1>1. GateInv => WaitsForOneThing
  BY DEF GateInv
<1> QED BY <1>1, GateInvHolds, PTL

\* A gate becomes a wait that no tag recorded by then satisfies, however old the list
\* of gates it came from, whichever process resolves it (store/refrelative.go): only a
\* release recorded later ends it.
THEOREM GatesOpenLater ==
    ASSUME GatesAssumed
    PROVE  Spec => GateOpensLater
<1> DEFINE Later == \A a \in Waiters :
                       wait'[a] # wait[a] /\ ~(says' > says) => ~Satisfied(a, wait', known)
<1>1. ASSUME GateInv, NEW a \in Waiters, NEW g \in Gates, ResolveInto(a, g)
      PROVE  Later
  <2> SUFFICES ASSUME NEW b \in Waiters, wait'[b] # wait[b]
               PROVE  ~Satisfied(b, wait', known)
    OBVIOUS
  <2>1. /\ CountsFrom(g, known) # {}
        /\ wait' = [wait EXCEPT ![a] = Resolve(g, known)]
    BY <1>1 DEF ResolveInto
  <2>2. b = a /\ wait'[b] = Resolve(g, known)
    BY <1>1, <2>1 DEF GateInv, TablesHold
  <2>3. \A i \in known : ~Matches(Resolve(g, known), tags[i])
    BY <1>1, <2>1, ResolvesAbove DEF GateInv, TablesHold, GatesAssumed
  <2> QED BY <2>2, <2>3 DEF Satisfied
<1>2. ASSUME GateInv, [Next]_vars
      PROVE  [Later]_vars
  <2>2. CASE says' = says + 1
    <3>1. says \in Nat
      BY <1>2 DEF GateInv, CommandHolds
    <3>2. says' > says
      BY <3>1, <2>2
    <3> QED BY <3>2
  <2>3. CASE \E a \in Waiters : ResolvePending(a)
    <3>1. PICK a \in Waiters : sync.pending[a] \in Gates /\ ResolveInto(a, sync.pending[a])
      BY <1>2, <2>3 DEF ResolvePending, GateInv, MemoryHolds
    <3> QED BY <1>1, <1>2, <3>1
  <2>4. CASE ResolveGateNow
    <3>1. cli.on \in Waiters /\ cli.gate \in Gates /\ ResolveInto(cli.on, cli.gate)
      BY <1>2, <2>4 DEF ResolveGateNow, GateInv, CommandHolds
    <3> QED BY <1>1, <1>2, <3>1
  <2>5. CASE /\ ~\E a \in Waiters : ResolvePending(a)
             /\ ~ResolveGateNow
             /\ says' # says + 1
    <3>1. UNCHANGED wait
      BY <1>2, <2>5 DEF Next, Sync, Begin, ReadPage, Apply, Settle, PageFails, Stop, WaitByHand,
         GateByHand, SettleActionNow, CommandEnds, Cut, vars, tables
    <3> QED BY <3>1
  <2> QED BY <2>2, <2>3, <2>4, <2>5
<1> QED BY <1>2, GateInvHolds, PTL DEF Spec, GateOpensLater

----------------------------------------------------------------------------
(* A first read of the repository *)

\* The releases of a series there were when the read began, from a tag on, that were
\* read.
ReadOf(s, from, at, held) == \A i \in 1 .. at : tags[i].series = s /\ i >= from => i \in held

ReadFrom(s, from) == ReadOf(s, from, sync.at, sync.fetched \cup known)

\* As long as nothing was cut short, a series that is still asked for was read down to
\* its cursor, and one that is not, to its end.
FirstReadHolds ==
    sync.pc # "idle" /\ sync.known = {} /\ sync.cut = {} =>
        \A a \in DOMAIN sync.pending :
            LET s == sync.pending[a].series
            IN  \/ /\ sync.pc = "read" /\ s \in DOMAIN sync.cursor
                   /\ sync.cursor[s] # 0 => ReadFrom(s, sync.cursor[s])
                \/ ReadFrom(s, 1)

ReadingHolds ==
    /\ sync.pc = "read" => sync.cut = {} /\ DOMAIN sync.cursor # {}
    /\ sync.pc = "read" => \A s \in DOMAIN sync.cursor : sync.cursor[s] \in Nat
    /\ sync.pc = "resolve" => sync.fetched = {}
    /\ FirstReadHolds

\* A page holds what is older than the cursor, all of it or the newest of it.
LEMMA PageHolds ==
    ASSUME PagesAssumption, tags \in Seq(Tags), NEW s
    PROVE  /\ ~HasNextPage(s) => Older(s) \subseteq Page(s)
           /\ HasNextPage(s) => /\ Min(Page(s)) \in Nat \ {0}
                                /\ \A i \in Older(s) : i >= Min(Page(s)) => i \in Page(s)
<1> DEFINE O == Older(s)
           Above(i) == {j \in O : j > i}
<1>1. Len(tags) \in Nat /\ PageSize \in Nat \ {0}
  BY DEF PagesAssumption
<1>2. O \subseteq 1 .. Len(tags) /\ Page(s) = {i \in O : Cardinality(Above(i)) < PageSize}
  BY DEF Older, Page
<1> HIDE DEF O
<1>3. IsFiniteSet(O) /\ Cardinality(O) \in Nat
  <2>1. IsFiniteSet(1 .. Len(tags))
    BY <1>1, FS_Interval
  <2> QED BY <1>2, <2>1, FS_Subset, FS_CardinalityType
<1>4. \A i \in O : /\ IsFiniteSet(Above(i)) /\ Cardinality(Above(i)) \in Nat
                   /\ Cardinality(Above(i)) < Cardinality(O)
  <2> TAKE i \in O
  <2>1. Above(i) \subseteq O /\ i \notin Above(i)
    BY <1>1, <1>2
  <2>2. Above(i) # O
    BY <2>1
  <2> HIDE DEF Above
  <2>3. IsFiniteSet(Above(i)) /\ Cardinality(Above(i)) \in Nat
    BY <1>3, <2>1, FS_Subset, FS_CardinalityType
  <2>4. Cardinality(Above(i)) <= Cardinality(O) /\ Cardinality(Above(i)) # Cardinality(O)
    BY <1>3, <2>1, <2>2, FS_Subset
  <2> QED BY <1>3, <2>3, <2>4
<1>5. ASSUME ~HasNextPage(s)
      PROVE  O \subseteq Page(s)
  <2>1. Cardinality(O) <= PageSize
    BY <1>1, <1>3, <1>5 DEF HasNextPage, O
  <2> HIDE DEF Above
  <2>2. \A i \in O : Cardinality(Above(i)) < PageSize
    BY <1>1, <1>3, <1>4, <2>1
  <2> QED BY <1>2, <2>2
<1>6. ASSUME HasNextPage(s)
      PROVE  /\ Min(Page(s)) \in Nat \ {0}
             /\ \A i \in O : i >= Min(Page(s)) => i \in Page(s)
  <2> DEFINE P == Page(s)
             m == Min(P)
  <2>1. O # {}
    <3> SUFFICES ASSUME O = {}
                 PROVE  FALSE
      OBVIOUS
    <3>1. Cardinality(O) = 0
      BY FS_EmptySet
    <3> QED BY <1>1, <1>6, <3>1 DEF HasNextPage, O
  <2>2. P # {}
    <3>1. PICK top \in O : \A i \in O : i <= top
      <4>1. O \subseteq -Len(tags) .. Len(tags)
        BY <1>1, <1>2
      <4> QED BY <1>1, <2>1, <4>1, EndsOfASet
    <3>2. Above(top) = {}
      <4>1. \A i \in O : i \in Nat /\ ~(i > top)
        BY <1>2, <3>1
      <4> QED BY <4>1
    <3>3. Cardinality(Above(top)) = 0
      BY <3>2, FS_EmptySet
    <3> QED BY <1>1, <1>2, <3>3
  <2>3. P \subseteq O /\ O \subseteq 1 .. Len(tags) /\ P \subseteq Nat
    <3>1. P \subseteq O /\ O \subseteq 1 .. Len(tags)
      BY <1>2
    <3>2. 1 .. Len(tags) \subseteq Nat
      OBVIOUS
    <3> HIDE DEF P
    <3> QED BY <3>1, <3>2
  <2>4. m \in P /\ \A i \in P : m <= i
    <3>1. \E i \in P : \A k \in P : i <= k
      BY <2>2, <2>3, LeastNatural
    <3> HIDE DEF P
    <3> QED BY <3>1 DEF Min
  <2>5. ASSUME NEW i \in O, i >= m
        PROVE  i \in P
    <3> HIDE DEF P, m
    <3>1. Above(i) \subseteq Above(m) /\ m \in O
      <4>1. m \in O /\ m \in Nat /\ i \in Nat
        BY <2>3, <2>4, <2>5
      <4>2. \A j \in O : j \in Nat
        BY <2>3
      <4>3. \A j \in O : j > i => j > m
        BY <2>5, <4>1, <4>2
      <4> QED BY <4>1, <4>3
    <3> HIDE DEF Above
    <3>2. Cardinality(Above(i)) <= Cardinality(Above(m)) /\ Cardinality(Above(m)) < PageSize
      <4>1. Cardinality(Above(i)) <= Cardinality(Above(m))
        BY <1>4, <3>1, FS_Subset
      <4>2. Cardinality(Above(m)) < PageSize
        BY <1>2, <2>4 DEF P, Above
      <4> QED BY <4>1, <4>2
    <3>3. Cardinality(Above(i)) < PageSize
      BY <1>1, <1>4, <3>1, <3>2
    <3> QED BY <1>2, <3>3 DEF P, Above
  <2>6. m \in Nat \ {0}
    <3> HIDE DEF P, m
    <3> QED BY <1>1, <1>2, <2>3, <2>4
  <2> QED BY <2>5, <2>6
<1> QED BY <1>5, <1>6 DEF O

LEMMA BeginReads ==
    ASSUME GatesAssumed, GateInv, ReadingHolds, Begin
    PROVE  ReadingHolds'
<1> DEFINE gates == [a \in {b \in open : gate[b] # NoGate} |-> gate[a]]
           asking == [s \in SeriesAskedFor |-> 0]
<1>1. sync' = [pc |-> "read", at |-> Len(tags), pending |-> gates, known |-> known,
               cursor |-> asking, pages |-> 0, fetched |-> {}, cut |-> {}]
  BY DEF Begin, Quiet
<1>2. /\ sync'.pc = "read" /\ sync'.cut = {} /\ DOMAIN sync'.cursor = SeriesAskedFor
      /\ \A s \in SeriesAskedFor : sync'.cursor[s] = 0
      /\ SeriesAskedFor # {}
  <2>1. SeriesAskedFor # {}
    BY DEF Begin
  <2>2. DOMAIN asking = SeriesAskedFor /\ \A s \in SeriesAskedFor : asking[s] = 0
    OBVIOUS
  <2> HIDE DEF asking, gates
  <2>3. sync'.pc = "read" /\ sync'.cut = {} /\ sync'.cursor = asking
    BY <1>1
  <2> QED BY <2>1, <2>2, <2>3
<1>3. \A a \in DOMAIN sync'.pending : sync'.pending[a].series \in SeriesAskedFor
  <2>1. sync'.pending = gates
    BY <1>1
  <2> QED BY <2>1 DEF SeriesAskedFor
<1> QED BY <1>2, <1>3 DEF ReadingHolds, FirstReadHolds

\* A page read on leaves none of a series behind, to its cursor or to its end.
LEMMA PageReads ==
    ASSUME GatesAssumed, GateInv, ReadingHolds, ReadPage
    PROVE  ReadingHolds'
<1> DEFINE asking == DOMAIN sync.cursor
           more   == {s \in asking : HasNextPage(s) /\ ~Recognised(s)}
           last   == LastPage(more)
           read   == FetchedBy(asking)
           next   == [s \in more |-> Min(Page(s))]
           cut    == IF last THEN more ELSE {}
           pc     == IF ~last THEN "read" ELSE IF read = {} THEN "resolve" ELSE "apply"
<1>1. sync' = [pc |-> pc, at |-> sync.at, pending |-> sync.pending, known |-> sync.known,
               cursor |-> next, pages |-> sync.pages + 1, fetched |-> read, cut |-> cut]
  <2>1. sync' = [sync EXCEPT !.fetched = read, !.pages = @ + 1, !.cursor = next,
                             !.cut = cut, !.pc = pc]
    BY DEF ReadPage
  <2> HIDE DEF read, next, cut, pc
  <2> QED BY <2>1 DEF GateInv, MemoryHolds
<1>2. /\ UNCHANGED <<tags, known>> /\ tags \in Seq(Tags) /\ PagesAssumption
      /\ sync.pc = "read" /\ sync.cut = {} /\ sync.at \in Nat /\ sync.at <= Len(tags)
      /\ \A s \in asking : sync.cursor[s] \in Nat
  BY DEF ReadPage, tables, GateInv, TablesHold, MemoryHolds, ReadingHolds, GatesAssumed
<1>3. /\ sync'.pc = pc /\ sync'.cut = cut /\ sync'.cursor = next /\ sync'.fetched = read
      /\ sync'.at = sync.at /\ sync'.pending = sync.pending /\ sync'.known = sync.known
  <2> HIDE DEF read, next, cut, pc
  <2> QED BY <1>1
<1>4. /\ pc = "read" => cut = {} /\ more # {}
      /\ pc = "resolve" => read = {}
      /\ pc # "read" => cut = more
  BY DEF LastPage
<1>5. sync.fetched \subseteq read /\ \A s \in asking : Page(s) \subseteq read
  BY DEF FetchedBy
<1>6. \A s \in more : next[s] \in Nat
  BY <1>2, PageHolds
<1>7. ASSUME sync.known = {}, cut = {}, NEW a \in DOMAIN sync.pending
      PROVE  LET s == sync.pending[a].series
             IN  \/ pc = "read" /\ s \in more /\ ReadOf(s, next[s], sync.at, read \cup known)
                 \/ ReadOf(s, 1, sync.at, read \cup known)
  <2> DEFINE s == sync.pending[a].series
  <2>1. \/ s \in asking /\ (sync.cursor[s] # 0 => ReadFrom(s, sync.cursor[s]))
        \/ ReadFrom(s, 1)
    BY <1>2, <1>7 DEF ReadingHolds, FirstReadHolds
  <2>2. ReadFrom(s, 1) => ReadOf(s, 1, sync.at, read \cup known)
    BY <1>5 DEF ReadFrom, ReadOf
  <2>3. ASSUME s \in asking, sync.cursor[s] # 0 => ReadFrom(s, sync.cursor[s]),
               NEW from \in Nat, \A i \in Older(s) : i >= from => i \in Page(s)
        PROVE  ReadOf(s, from, sync.at, read \cup known)
    <3>1. SUFFICES ASSUME NEW i \in 1 .. sync.at, tags[i].series = s, i >= from
                   PROVE  i \in read \cup known
      BY DEF ReadOf
    <3>2. i \in 1 .. Len(tags) /\ i \in Nat
      BY <1>2
    <3>3. CASE i \in Older(s)
      BY <1>5, <2>3, <3>1, <3>3
    <3>4. CASE i \notin Older(s)
      <4>1. sync.cursor[s] # 0 /\ ~(i < sync.cursor[s])
        BY <3>1, <3>2, <3>4 DEF Older, Asks
      <4>2. i >= sync.cursor[s]
        BY <1>2, <2>3, <3>2, <4>1
      <4> QED BY <1>5, <2>3, <3>1, <4>1, <4>2 DEF ReadFrom, ReadOf
    <3> QED BY <3>3, <3>4
  <2>4. CASE s \in asking /\ (sync.cursor[s] # 0 => ReadFrom(s, sync.cursor[s]))
    <3>1. CASE HasNextPage(s)
      <4>1. s \in more
        BY <1>7, <2>4, <3>1 DEF Recognised
      <4>2. pc = "read"
        BY <1>4, <1>7, <4>1
      <4>3. Min(Page(s)) \in Nat /\ \A i \in Older(s) : i >= Min(Page(s)) => i \in Page(s)
        BY <1>2, <3>1, PageHolds
      <4>4. ReadOf(s, next[s], sync.at, read \cup known)
        BY <2>3, <2>4, <4>1, <4>3
      <4> QED BY <4>1, <4>2, <4>4
    <3>2. CASE ~HasNextPage(s)
      <4>1. \A i \in Older(s) : i >= 1 => i \in Page(s)
        BY <1>2, <3>2, PageHolds
      <4> QED BY <2>3, <2>4, <4>1
    <3> QED BY <3>1, <3>2
  <2> HIDE DEF s
  <2>5. CASE ReadFrom(s, 1)
    BY <2>2, <2>5 DEF s
  <2> QED BY <2>1, <2>4, <2>5 DEF s
<1> HIDE DEF read, next, cut, pc, more
<1>8. DOMAIN sync'.cursor = more
  BY <1>3 DEF next
<1>9. FirstReadHolds'
  <2>1. SUFFICES ASSUME sync'.known = {}, sync'.cut = {}, NEW a \in DOMAIN sync'.pending
                 PROVE  LET s == sync'.pending[a].series
                        IN  \/ /\ sync'.pc = "read" /\ s \in DOMAIN sync'.cursor
                               /\ sync'.cursor[s] # 0 =>
                                      ReadOf(s, sync'.cursor[s], sync'.at, sync'.fetched \cup known')
                            \/ ReadOf(s, 1, sync'.at, sync'.fetched \cup known')
    BY <1>2 DEF FirstReadHolds, ReadFrom, ReadOf
  <2> QED BY <1>2, <1>3, <1>7, <1>8, <2>1
<1> QED BY <1>3, <1>4, <1>6, <1>8, <1>9 DEF ReadingHolds

\* What is recorded is no longer only in memory.
LEMMA ApplyReads ==
    ASSUME GatesAssumed, GateInv, ReadingHolds, Apply
    PROVE  ReadingHolds'
<1>1. PICK i \in sync.fetched :
          /\ known' = known \cup {i}
          /\ sync' = [sync EXCEPT !.fetched = @ \ {i},
                                  !.pc = IF sync.fetched = {i} THEN "resolve" ELSE "apply"]
  BY DEF Apply
<1> DEFINE pc == IF sync.fetched = {i} THEN "resolve" ELSE "apply"
<1>2. sync' = [pc |-> pc, at |-> sync.at, pending |-> sync.pending, known |-> sync.known,
               cursor |-> sync.cursor, pages |-> sync.pages, fetched |-> sync.fetched \ {i},
               cut |-> sync.cut]
  BY <1>1 DEF GateInv, MemoryHolds
<1>3. /\ sync'.pc = pc /\ sync'.fetched = sync.fetched \ {i} /\ sync.pc = "apply" /\ tags' = tags
      /\ sync'.at = sync.at /\ sync'.pending = sync.pending /\ sync'.known = sync.known
      /\ sync'.cut = sync.cut
  <2> HIDE DEF pc
  <2> QED BY <1>2 DEF Apply
<1>4. pc # "read" /\ (pc = "resolve" => sync.fetched \ {i} = {})
  OBVIOUS
<1> HIDE DEF pc
<1>5. \A s : ReadFrom(s, 1) => ReadFrom(s, 1)'
  BY <1>1, <1>3 DEF ReadFrom, ReadOf
<1> QED BY <1>3, <1>4, <1>5 DEF ReadingHolds, FirstReadHolds

\* A step that reads nothing keeps what was read, or forgets it.
LEMMA OthersRead ==
    ASSUME GatesAssumed, GateInv, ReadingHolds, [Next]_vars, ~Begin, ~ReadPage, ~Apply
    PROVE  ReadingHolds'
<1>0. tags \in Seq(Tags) /\ sync.at \in Nat /\ sync.at <= Len(tags)
  BY DEF GateInv, TablesHold, MemoryHolds
<1>1. CASE Settle \/ Stop
  <2>1. sync' = Quiet
    BY <1>1 DEF Settle, Stop
  <2>2. sync'.pc = "idle"
    BY <2>1 DEF Quiet
  <2> QED BY <2>2 DEF ReadingHolds, FirstReadHolds
<1>2. CASE PageFails
  <2> DEFINE pc == IF sync.fetched = {} THEN "resolve" ELSE "apply"
  <2>1. sync' = [sync EXCEPT !.pc = pc, !.cut = DOMAIN sync.cursor] /\ sync.pc = "read"
    BY <1>2 DEF PageFails
  <2>2. sync'.pc = pc /\ sync'.cut = DOMAIN sync.cursor /\ sync'.fetched = sync.fetched
    <3> HIDE DEF pc
    <3> QED BY <2>1 DEF GateInv, MemoryHolds
  <2>3. sync'.cut # {}
    BY <2>1, <2>2 DEF ReadingHolds
  <2> QED BY <2>2, <2>3 DEF ReadingHolds, FirstReadHolds
<1>3. ASSUME NEW a \in Waiters, ResolvePending(a)
      PROVE  ReadingHolds'
  <2> DEFINE rest == [b \in DOMAIN sync.pending \ {a} |-> sync.pending[b]]
  <2>1. sync' = [sync EXCEPT !.pending = rest] /\ UNCHANGED <<tags, known>> /\ sync.pc = "resolve"
    BY <1>3 DEF ResolvePending
  <2>2. \A b \in DOMAIN rest : b \in DOMAIN sync.pending /\ rest[b] = sync.pending[b]
    OBVIOUS
  <2> HIDE DEF rest
  <2>3. sync' = [pc |-> sync.pc, at |-> sync.at, pending |-> rest, known |-> sync.known,
                 cursor |-> sync.cursor, pages |-> sync.pages, fetched |-> sync.fetched,
                 cut |-> sync.cut]
    BY <2>1 DEF GateInv, MemoryHolds
  <2>4. /\ sync'.pc = sync.pc /\ sync'.at = sync.at /\ sync'.pending = rest /\ sync'.known = sync.known
        /\ sync'.fetched = sync.fetched /\ sync'.cut = sync.cut
    BY <2>3
  <2>5. \A s : ReadFrom(s, 1) => ReadFrom(s, 1)'
    BY <2>1, <2>4 DEF ReadFrom, ReadOf
  <2> QED BY <2>1, <2>2, <2>4, <2>5 DEF ReadingHolds, FirstReadHolds
<1>4. ASSUME UNCHANGED <<sync, known>>, \A i \in 1 .. Len(tags) : tags'[i] = tags[i]
      PROVE  ReadingHolds'
  <2>1. \A i \in 1 .. sync.at : tags'[i] = tags[i]
    BY <1>0, <1>4
  <2>2. \A s, from : ReadFrom(s, from) => ReadFrom(s, from)'
    BY <1>4, <2>1 DEF ReadFrom, ReadOf
  <2> QED BY <1>4, <2>2 DEF ReadingHolds, FirstReadHolds
<1>5. CASE \E r \in Releases : Cut(r)
  <2>1. PICK r \in Releases : tags' = Append(tags, r) /\ UNCHANGED <<sync, known>>
    BY <1>5 DEF Cut, tables
  <2>2. \A i \in 1 .. Len(tags) : tags'[i] = tags[i]
    BY <1>0, <2>1
  <2> QED BY <1>4, <2>1, <2>2
<1>6. CASE \/ \E a \in Waiters, w \in Waits : WaitByHand(a, w)
           \/ \E a \in Waiters, g \in Gates : GateByHand(a, g)
           \/ ResolveGateNow \/ SettleActionNow \/ CommandEnds \/ UNCHANGED vars
  <2>1. UNCHANGED <<sync, known, tags>>
    BY <1>6 DEF WaitByHand, GateByHand, ResolveGateNow, SettleActionNow, CommandEnds, vars, tables
  <2> QED BY <1>4, <2>1
<1> QED BY <1>1, <1>2, <1>3, <1>5, <1>6 DEF Next, Sync

LEMMA ReadingInvHolds ==
    ASSUME GatesAssumed
    PROVE  Spec => [](GateInv /\ ReadingHolds)
<1>1. Init => ReadingHolds
  BY DEF Init, Quiet, ReadingHolds, FirstReadHolds
<1>2. GateInv /\ ReadingHolds /\ [Next]_vars => ReadingHolds'
  BY BeginReads, PageReads, ApplyReads, OthersRead
<1> QED BY <1>1, <1>2, GateInvHolds, PTL DEF Spec

\* A gate that a first read of its repository resolves, nothing of it cut short, is above
\* every release of its series there was when the read began (cli/ref.go:174-176,
\* github/refs.go:112-221): the pages left none of them out, and all were recorded first.
THEOREM AFirstReadSeesAll ==
    ASSUME GatesAssumed
    PROVE  Spec => GateIsAboveAFirstRead
<1> DEFINE AboveAll == \A a \in DOMAIN sync.pending \ DOMAIN sync'.pending :
                          wait'[a] # wait[a] /\ sync.known = {} /\ sync.cut = {} =>
                              \A i \in 1 .. sync.at : ~Matches(wait'[a], tags[i])
<1>1. ASSUME GateInv, ReadingHolds, [Next]_vars
      PROVE  AboveAll
  <2> SUFFICES ASSUME NEW a \in DOMAIN sync.pending, a \notin DOMAIN sync'.pending,
                      wait'[a] # wait[a], sync.known = {}, sync.cut = {},
                      NEW i \in 1 .. sync.at, Matches(wait'[a], tags[i])
               PROVE  FALSE
    OBVIOUS
  <2>1. \E b \in Waiters : ResolvePending(b)
    <3>1. UNCHANGED wait \/ UNCHANGED sync \/ \E b \in Waiters : ResolvePending(b)
      BY <1>1 DEF Next, Sync, Begin, ReadPage, Apply, Settle, PageFails, Stop, WaitByHand, GateByHand,
         ResolveGateNow, SettleActionNow, CommandEnds, Cut, vars, tables
    <3> QED BY <3>1
  <2>2. PICK b \in Waiters : ResolvePending(b)
    BY <2>1
  <2>3. /\ b \in DOMAIN sync.pending /\ sync.pending[b] \in Gates /\ sync.pc = "resolve"
        /\ ResolveInto(b, sync.pending[b])
    BY <1>1, <2>2 DEF ResolvePending, GateInv, MemoryHolds
  <2> DEFINE g == sync.pending[b]
  <2>4. CountsFrom(g, known) # {} /\ wait' = [wait EXCEPT ![b] = Resolve(g, known)]
    BY <2>3 DEF ResolveInto
  <2>5. b = a /\ wait'[a] = Resolve(g, known)
    BY <1>1, <2>4 DEF GateInv, TablesHold
  <2>6. tags[i].series = g.series
    <3>1. Resolve(g, known).series = g.series
      BY DEF Resolve
    <3> QED BY <2>5, <3>1 DEF Matches
  <2>7. i \in known
    <3>1. ReadFrom(g.series, 1) /\ sync.fetched = {}
      BY <1>1, <2>3 DEF ReadingHolds, FirstReadHolds
    <3>2. i >= 1
      BY <1>1 DEF GateInv, MemoryHolds
    <3> QED BY <2>6, <3>1, <3>2 DEF ReadFrom, ReadOf
  <2>8. ~Matches(Resolve(g, known), tags[i])
    BY <1>1, <2>3, <2>4, <2>7, ResolvesAbove DEF GateInv, TablesHold, GatesAssumed
  <2> QED BY <2>5, <2>8
<1>2. GateInv /\ ReadingHolds /\ [Next]_vars => [AboveAll]_vars
  BY <1>1
<1> QED BY <1>2, ReadingInvHolds, PTL DEF Spec, GateIsAboveAFirstRead

\* All of it: an action holds a gate until a release can be named that is above all that
\* are recorded, above all there are where the repository was just read through for the
\* first time, and then waits for that release alone (store/refrelative.go).
THEOREM GatesOpenInTime ==
    ASSUME GatesAssumed
    PROVE  Spec => GatesOpen
<1>1. Spec => []WaitsForOneThing
  BY OneThingAtATime
<1>2. Spec => GateOpensLater
  BY GatesOpenLater
<1>3. Spec => GateIsAboveAFirstRead
  BY AFirstReadSeesAll
<1> QED BY <1>1, <1>2, <1>3, PTL DEF GatesOpen
----------------------------------------------------------------------------
(* The cycle *)

CycleAssumed == NoPRAssumption /\ KindsAssumption /\ WorkAssumption /\ CycleAssumption

\* What is in the tables and at GitHub, and what the process remembers of a cycle.
RowsAreTyped ==
    /\ github \in [PRs -> Answers]
    /\ row \in [PRs -> Answers \cup {Unread}]
    /\ todo \in [PRs -> [Kinds -> Nat]]
    /\ left \in [PRs -> Nat] /\ seen \in [PRs -> Nat] /\ logged \in [PRs -> Nat]
    /\ lost \subseteq PRs

Steps == Reads \cup {"idle", "apply", "ejected", "report", "queue", "settle", "close", "sweep"}

CycleIsTyped ==
    /\ cycle \in [pc : Steps, fetched : UNION {[S -> Answers] : S \in SUBSET PRs},
                  pr : PRs \cup {NoPR}, add : BOOLEAN, candidates : [PRs -> [Kinds -> Nat]]]
    /\ cycle.pr = NoPR <=> cycle.pc \notin {"ejected", "report", "queue"}

\* What was read as finished still is, as long as the cycle closes what it read: no
\* row is written in between.
CandidatesHold ==
    cycle.pc = "close" =>
        \A p \in PRs, k \in Kinds : cycle.candidates[p][k] > 0 => Holds(k, row[p])

\* Out of the queue, and not by landing.
Fell(now) == now.state \notin {"queued", "merged"}

\* A fall is at GitHub before it is seen: wherever the row, or an answer not applied
\* yet, says queued and what is newer says it is not, a fall is still to be seen.
FallsComeFirst ==
    \A p \in PRs :
        /\ seen[p] <= left[p]
        /\ row[p].state = "queued" /\ Fell(github[p]) => seen[p] < left[p]
        /\ p \in DOMAIN cycle.fetched =>
               /\ cycle.fetched[p].state = "queued" /\ Fell(github[p]) => seen[p] < left[p]
               /\ row[p].state = "queued" /\ Fell(cycle.fetched[p]) => seen[p] < left[p]

\* What is being reported is a fall that was seen and is not logged.
Reported(p) == IF cycle.pc \in {"ejected", "report"} /\ cycle.pr = p THEN 1 ELSE 0
LoggedIsSeen == \A p \in PRs : logged[p] + Reported(p) <= seen[p]

\* Where a merge is to be asked for, none is.
AskedOnce ==
    /\ cycle.pc = "report" /\ cycle.add => todo[cycle.pr]["merge"] = 0
    /\ cycle.pc = "queue" => todo[cycle.pr]["merge"] = 0

SyncInv == /\ RowsAreTyped /\ CycleIsTyped /\ CandidatesHold
           /\ FallsComeFirst /\ LoggedIsSeen /\ AskedOnce

LEMMA CycleBegins == ASSUME CycleAssumed, CycleInit PROVE SyncInv
<1>1. RowsAreTyped
  BY DEF CycleInit, CycleAssumed, WorkAssumption, RowsAreTyped, Answers
<1>2. CycleIsTyped
  <2>1. NoCycle.fetched \in [{} -> Answers] /\ {} \in SUBSET PRs
    BY DEF NoCycle
  <2>2. NoCycle.candidates \in [PRs -> [Kinds -> Nat]]
    BY DEF NoCycle, Nothing
  <2>3. NoCycle.fetched \in UNION {[S -> Answers] : S \in SUBSET PRs}
    BY <2>1
  <2> QED BY <2>2, <2>3 DEF CycleInit, NoCycle, CycleIsTyped, Steps
<1>3. \A p \in PRs : p \notin DOMAIN cycle.fetched
  BY DEF CycleInit, NoCycle
<1> QED BY <1>1, <1>2, <1>3 DEF CycleInit, NoCycle, Unread, CandidatesHold, FallsComeFirst,
       LoggedIsSeen, Reported, AskedOnce, SyncInv
\* A step to where nothing was read yet, or nothing is left to do.
LEMMA GoingOn ==
    ASSUME SyncInv, NEW pc \in {"refs", "issues", "prs", "teams", "settle"},
           cycle.pr = NoPR, Go(pc), UNCHANGED <<outside, store, seen, lost>>
    PROVE  SyncInv'
<1>1. cycle' = [pc |-> pc, fetched |-> cycle.fetched, pr |-> cycle.pr, add |-> cycle.add,
                candidates |-> cycle.candidates]
  BY DEF SyncInv, CycleIsTyped, Go
<1>2. RowsAreTyped'
  BY DEF SyncInv, RowsAreTyped, outside, store
<1>3. CycleIsTyped'
  BY <1>1 DEF SyncInv, CycleIsTyped, Steps, Reads
<1>4. CandidatesHold' /\ AskedOnce'
  BY <1>1 DEF CandidatesHold, AskedOnce
<1>5. FallsComeFirst'
  BY <1>1 DEF SyncInv, FallsComeFirst, outside, store, Fell
<1>6. LoggedIsSeen'
  BY <1>1 DEF SyncInv, LoggedIsSeen, Reported, store, RowsAreTyped, CycleIsTyped
<1> QED BY <1>2, <1>3, <1>4, <1>5, <1>6 DEF SyncInv

\* A cycle that ends, wherever it was: the fall being reported is never logged.
LEMMA EndingACycle ==
    ASSUME SyncInv, cycle' = NoCycle, UNCHANGED <<outside, store, seen>>, lost' \subseteq PRs
    PROVE  SyncInv'
<1>1. RowsAreTyped'
  BY DEF SyncInv, RowsAreTyped, outside, store
<1>2. CycleIsTyped'
  <2>1. NoCycle.fetched \in [{} -> Answers] /\ {} \in SUBSET PRs
    BY DEF NoCycle
  <2>2. NoCycle.candidates \in [PRs -> [Kinds -> Nat]]
    BY DEF NoCycle, Nothing
  <2>3. NoCycle.fetched \in UNION {[S -> Answers] : S \in SUBSET PRs}
    BY <2>1
  <2> QED BY <2>2, <2>3 DEF NoCycle, CycleIsTyped, Steps
<1>3. CandidatesHold' /\ AskedOnce'
  BY DEF NoCycle, CandidatesHold, AskedOnce
<1>4. FallsComeFirst'
  <2>1. \A p \in PRs : p \notin DOMAIN cycle'.fetched
    BY DEF NoCycle
  <2> QED BY <2>1 DEF SyncInv, FallsComeFirst, outside, store, Fell
<1>5. LoggedIsSeen'
  BY DEF SyncInv, LoggedIsSeen, Reported, store, RowsAreTyped, NoCycle
<1> QED BY <1>1, <1>2, <1>3, <1>4, <1>5 DEF SyncInv

LEMMA FetchingKeeps ==
    ASSUME SyncInv, Answered("prs")
    PROVE  SyncInv'
<1>1. cycle' = [pc |-> "apply", fetched |-> [p \in PRsToPoll |-> github[p]], pr |-> cycle.pr,
                add |-> cycle.add, candidates |-> cycle.candidates]
  BY DEF SyncInv, CycleIsTyped, Answered
<1>2. UNCHANGED <<github, left, row, todo, logged, seen, lost>> /\ cycle.pc = "prs"
  BY DEF Answered, outside, store
<1>3. RowsAreTyped'
  BY <1>2 DEF SyncInv, RowsAreTyped
<1>4. CycleIsTyped'
  <2>1. PRsToPoll \in SUBSET PRs
    BY DEF PRsToPoll
  <2>2. [p \in PRsToPoll |-> github[p]] \in [PRsToPoll -> Answers]
    BY <2>1 DEF SyncInv, RowsAreTyped
  <2>3. cycle'.fetched \in UNION {[S -> Answers] : S \in SUBSET PRs}
    BY <1>1, <2>1, <2>2
  <2> QED BY <1>1, <1>2, <2>3 DEF SyncInv, CycleIsTyped, Steps
<1>5. CandidatesHold' /\ AskedOnce'
  BY <1>1 DEF CandidatesHold, AskedOnce
<1>6. FallsComeFirst'
  <2>1. \A p \in DOMAIN cycle'.fetched : cycle'.fetched[p] = github[p]
    BY <1>1
  <2> QED BY <2>1, <1>2 DEF SyncInv, FallsComeFirst, Fell
<1>7. LoggedIsSeen'
  BY <1>1, <1>2 DEF SyncInv, LoggedIsSeen, Reported, RowsAreTyped
<1> QED BY <1>3, <1>4, <1>5, <1>6, <1>7 DEF SyncInv

LEMMA ApplyingKeeps ==
    ASSUME SyncInv, CycleAssumed, NEW p \in PRs, ApplyOne(p)
    PROVE  SyncInv'
<1> DEFINE now == cycle.fetched[p]
           fell == EjectedFromMergeQueue(row[p], now)
           rest == [q \in DOMAIN cycle.fetched \ {p} |-> cycle.fetched[q]]
<1>1. /\ cycle' = [pc |-> IF fell THEN "ejected" ELSE "apply", fetched |-> rest,
                   pr |-> IF fell THEN p ELSE NoPR, add |-> cycle.add,
                   candidates |-> cycle.candidates]
      /\ row' = [row EXCEPT ![p] = now]
      /\ seen' = IF fell THEN [seen EXCEPT ![p] = @ + 1] ELSE seen
      /\ cycle.pc = "apply" /\ cycle.pr = NoPR /\ p \in DOMAIN cycle.fetched
      /\ UNCHANGED <<github, left, todo, logged, lost>>
  BY DEF SyncInv, CycleIsTyped, ApplyOne, outside
<1>2. PICK S \in SUBSET PRs : cycle.fetched \in [S -> Answers]
  BY DEF SyncInv, CycleIsTyped
<1>3. now \in Answers
  BY <1>1, <1>2
<1>4. RowsAreTyped'
  BY <1>1, <1>3 DEF SyncInv, RowsAreTyped
<1>5. CycleIsTyped'
  <2>1. rest \in [S \ {p} -> Answers] /\ S \ {p} \in SUBSET PRs
    BY <1>2
  <2>2. rest \in UNION {[T -> Answers] : T \in SUBSET PRs}
    BY <2>1
  <2> HIDE DEF rest, fell
  <2>3. p # NoPR
    BY DEF CycleAssumed, NoPRAssumption
  <2> QED BY <1>1, <2>2, <2>3 DEF SyncInv, CycleIsTyped, Steps
<1>6. CandidatesHold' /\ AskedOnce'
  BY <1>1 DEF CandidatesHold, AskedOnce
<1>7. FallsComeFirst'
  <2>1. \A q \in DOMAIN cycle'.fetched :
            q # p /\ q \in DOMAIN cycle.fetched /\ cycle'.fetched[q] = cycle.fetched[q]
    BY <1>1
  <2>2. fell => row[p].state = "queued" /\ Fell(now)
    BY DEF EjectedFromMergeQueue, Fell
  <2>3. fell => now.state # "queued"
    BY DEF EjectedFromMergeQueue
  <2>4. \A q \in PRs : /\ q # p => row'[q] = row[q] /\ seen'[q] = seen[q]
                       /\ q = p => row'[q] = now /\ seen'[q] = IF fell THEN seen[q] + 1 ELSE seen[q]
                       /\ seen[q] \in Nat /\ left[q] \in Nat
    BY <1>1 DEF SyncInv, RowsAreTyped
  <2> HIDE DEF fell, now
  <2>5. ASSUME NEW q \in PRs
        PROVE  /\ seen'[q] <= left'[q]
               /\ row'[q].state = "queued" /\ Fell(github'[q]) => seen'[q] < left'[q]
               /\ q \in DOMAIN cycle'.fetched =>
                      /\ cycle'.fetched[q].state = "queued" /\ Fell(github'[q]) => seen'[q] < left'[q]
                      /\ row'[q].state = "queued" /\ Fell(cycle'.fetched[q]) => seen'[q] < left'[q]
    <3>1. CASE q # p
      BY <3>1, <1>1, <2>1, <2>4 DEF SyncInv, FallsComeFirst
    <3>2. CASE q = p
      <4>1. q \notin DOMAIN cycle'.fetched
        BY <2>1, <3>2
      <4>2. /\ row[p].state = "queued" /\ Fell(now) => seen[p] < left[p]
            /\ now.state = "queued" /\ Fell(github[p]) => seen[p] < left[p]
            /\ seen[p] <= left[p]
        BY <1>1 DEF SyncInv, FallsComeFirst, now
      <4> QED BY <3>2, <4>1, <4>2, <1>1, <2>2, <2>3, <2>4
    <3> QED BY <3>1, <3>2
  <2> QED BY <2>5 DEF FallsComeFirst, Fell
<1>8. LoggedIsSeen'
  <2>1. \A q \in PRs : /\ logged[q] \in Nat /\ seen[q] \in Nat /\ logged[q] <= seen[q]
                       /\ logged'[q] = logged[q]
                       /\ seen'[q] = IF fell /\ q = p THEN seen[q] + 1 ELSE seen[q]
                       /\ Reported(q)' = IF fell /\ q = p THEN 1 ELSE 0
    BY <1>1 DEF SyncInv, RowsAreTyped, LoggedIsSeen, Reported
  <2> HIDE DEF fell
  <2> QED BY <2>1 DEF LoggedIsSeen
<1> QED BY <1>4, <1>5, <1>6, <1>7, <1>8 DEF SyncInv
\* The three steps after an ejection that was seen, in which no row is written.
LEMMA ReportingKeeps ==
    ASSUME SyncInv, CycleAssumed, CheckMerge \/ ReportLeftQueue \/ QueueEjection,
           cycle' # NoCycle
    PROVE  SyncInv'
<1>1. cycle.pr \in PRs /\ "merge" \in Kinds
  BY DEF SyncInv, CycleIsTyped, CheckMerge, ReportLeftQueue, QueueEjection, CycleAssumed,
     KindsAssumption
<1>2. /\ UNCHANGED <<github, left, row, seen, lost>>
      /\ cycle' = [pc |-> cycle'.pc, fetched |-> cycle.fetched, pr |-> cycle'.pr,
                   add |-> cycle'.add, candidates |-> cycle.candidates]
  BY DEF SyncInv, CycleIsTyped, CheckMerge, ReportLeftQueue, QueueEjection, outside, store
<1>3. \/ /\ cycle.pc = "ejected" /\ cycle'.pc = "report" /\ cycle'.pr = cycle.pr
         /\ cycle'.add = ~MergeIsAlreadyQueued(cycle.pr) /\ UNCHANGED <<todo, logged>>
      \/ /\ cycle.pc = "report" /\ logged' = [logged EXCEPT ![cycle.pr] = @ + 1]
         /\ cycle'.add = cycle.add /\ UNCHANGED todo
         /\ \/ cycle.add /\ cycle'.pc = "queue" /\ cycle'.pr = cycle.pr
            \/ ~cycle.add /\ cycle'.pc = "apply" /\ cycle'.pr = NoPR
      \/ /\ cycle.pc = "queue" /\ todo' = [todo EXCEPT ![cycle.pr]["merge"] = @ + 1]
         /\ cycle'.pc = "apply" /\ cycle'.pr = NoPR /\ cycle'.add = FALSE /\ UNCHANGED logged
  BY DEF SyncInv, CycleIsTyped, CheckMerge, ReportLeftQueue, QueueEjection, store
<1>4. RowsAreTyped'
  <2>1. todo \in [PRs -> [Kinds -> Nat]] /\ logged \in [PRs -> Nat]
    BY DEF SyncInv, RowsAreTyped
  <2>2. todo' \in [PRs -> [Kinds -> Nat]]
    BY <1>1, <1>3, <2>1
  <2>3. logged' \in [PRs -> Nat]
    BY <1>1, <1>3, <2>1
  <2> QED BY <1>2, <2>2, <2>3 DEF SyncInv, RowsAreTyped
<1>5. CycleIsTyped'
  <2>1. cycle.pr # NoPR /\ cycle'.add \in BOOLEAN
    BY <1>1, <1>3 DEF CycleAssumed, NoPRAssumption, SyncInv, CycleIsTyped
  <2> QED BY <1>1, <1>2, <1>3, <2>1 DEF SyncInv, CycleIsTyped, Steps
<1>6. CandidatesHold'
  BY <1>2, <1>3 DEF CandidatesHold
<1>7. FallsComeFirst'
  <2>1. cycle'.fetched = cycle.fetched
    BY <1>2
  <2> QED BY <1>2, <2>1 DEF SyncInv, FallsComeFirst, Fell
<1>8. LoggedIsSeen'
  <2>1. \A q \in PRs : logged[q] \in Nat /\ seen[q] \in Nat /\ logged[q] + Reported(q) <= seen[q]
    BY DEF SyncInv, RowsAreTyped, LoggedIsSeen
  <2>2. \A q \in PRs : logged'[q] + Reported(q)' <= logged[q] + Reported(q)
    <3>1. NoPR \notin PRs
      BY DEF CycleAssumed, NoPRAssumption
    <3>2. \A q \in PRs : logged'[q] = IF cycle.pc = "report" /\ q = cycle.pr THEN logged[q] + 1
                                      ELSE logged[q]
      BY <1>3 DEF SyncInv, RowsAreTyped
    <3>3. \A q \in PRs : q = cycle.pr /\ cycle.pc = "report" => Reported(q) = 1 /\ Reported(q)' = 0
      BY <1>1, <1>3, <3>1 DEF Reported
    <3>4. \A q \in PRs : Reported(q)' <= Reported(q) /\ {Reported(q), Reported(q)'} \subseteq Nat
      BY <1>3, <3>1 DEF Reported
    <3> QED BY <2>1, <3>2, <3>3, <3>4
  <2>3. \A q \in PRs : logged'[q] \in Nat /\ Reported(q) \in Nat /\ Reported(q)' \in Nat
    BY <1>4 DEF RowsAreTyped, Reported
  <2> QED BY <1>2, <2>1, <2>2, <2>3 DEF LoggedIsSeen
<1>9. AskedOnce'
  <2>1. todo[cycle.pr]["merge"] \in Nat
    BY <1>1 DEF SyncInv, RowsAreTyped
  <2>2. MergeIsAlreadyQueued(cycle.pr) <=> todo[cycle.pr]["merge"] # 0
    BY <2>1 DEF MergeIsAlreadyQueued
  <2>3. cycle.pc = "report" /\ cycle.add => todo[cycle.pr]["merge"] = 0
    BY DEF SyncInv, AskedOnce
  <2>4. cycle'.pc \in {"report", "queue"} => cycle'.pr = cycle.pr /\ todo' = todo
    BY <1>3
  <2>5. /\ cycle'.pc = "report" /\ cycle'.add => todo[cycle.pr]["merge"] = 0
        /\ cycle'.pc = "queue" => todo[cycle.pr]["merge"] = 0
    BY <1>3, <2>2, <2>3
  <2> QED BY <2>4, <2>5 DEF AskedOnce
<1> QED BY <1>4, <1>5, <1>6, <1>7, <1>8, <1>9 DEF SyncInv

\* Settling: what is read holds, and what a close starts is not among it.
LEMMA SettlingKeeps ==
    ASSUME SyncInv, CycleAssumed,
           ReadSatisfied \/ \E p \in PRs, k \in Kinds : CloseCandidate(p, k),
           cycle' # NoCycle
    PROVE  SyncInv'
<1>1. /\ UNCHANGED <<github, left, row, seen, logged, lost>>
      /\ cycle.pc \in {"settle", "close"} /\ cycle'.pc \in {"sweep", "close"}
      /\ cycle' = [pc |-> cycle'.pc, fetched |-> cycle.fetched, pr |-> cycle.pr,
                   add |-> cycle.add, candidates |-> cycle'.candidates]
  BY DEF SyncInv, CycleIsTyped, ReadSatisfied, CloseCandidate, outside, store
<1>2. /\ todo' \in [PRs -> [Kinds -> Nat]]
      /\ cycle'.candidates \in [PRs -> [Kinds -> Nat]]
      /\ CandidatesHold'
  <2>1. CASE ReadSatisfied
    <3>1. cycle'.candidates = SatisfiedActions /\ todo' = todo
      BY <2>1 DEF ReadSatisfied, SyncInv, CycleIsTyped, store
    <3>2. /\ SatisfiedActions \in [PRs -> [Kinds -> Nat]]
          /\ \A p \in PRs, k \in Kinds : SatisfiedActions[p][k] > 0 => Holds(k, row[p])
      BY DEF SatisfiedActions, SyncInv, RowsAreTyped
    <3> QED BY <1>1, <3>1, <3>2 DEF SyncInv, RowsAreTyped, CandidatesHold, Holds
  <2>2. CASE \E p \in PRs, k \in Kinds : CloseCandidate(p, k)
    <3>1. PICK p \in PRs, k \in Kinds : CloseCandidate(p, k)
      BY <2>2
    <3> DEFINE here == [j \in Kinds |-> todo[p][j] - (IF j = k THEN 1 ELSE 0)
                                          + (IF j \in StepsToStart(p, k) THEN 1 ELSE 0)]
    <3>2. /\ todo[p][k] # 0 /\ cycle.candidates[p][k] > 0 /\ cycle.pc = "close"
          /\ todo' = [todo EXCEPT ![p] = here]
          /\ cycle'.candidates = [cycle.candidates EXCEPT ![p][k] = @ - 1]
      BY <3>1 DEF CloseCandidate, SyncInv, CycleIsTyped, RowsAreTyped
    <3>3. here \in [Kinds -> Nat]
      <4>1. \A j \in Kinds : todo[p][j] \in Nat
        BY DEF SyncInv, RowsAreTyped
      <4> QED BY <3>2, <4>1
    <3> HIDE DEF here
    <3>4. todo' \in [PRs -> [Kinds -> Nat]]
      BY <3>2, <3>3 DEF SyncInv, RowsAreTyped
    <3>5. /\ cycle'.candidates \in [PRs -> [Kinds -> Nat]]
          /\ \A q \in PRs, j \in Kinds : cycle'.candidates[q][j] <= cycle.candidates[q][j]
      <4>1. cycle.candidates \in [PRs -> [Kinds -> Nat]]
        BY DEF SyncInv, CycleIsTyped
      <4> QED BY <3>2, <4>1
    <3>6. \A q \in PRs, j \in Kinds : cycle'.candidates[q][j] > 0 => Holds(j, row[q])
      <4>1. \A q \in PRs, j \in Kinds : cycle.candidates[q][j] \in Nat /\ cycle'.candidates[q][j] \in Nat
        BY <3>5 DEF SyncInv, CycleIsTyped
      <4>2. \A q \in PRs, j \in Kinds : cycle'.candidates[q][j] > 0 => cycle.candidates[q][j] > 0
        BY <3>5, <4>1
      <4> QED BY <3>2, <4>2 DEF SyncInv, CandidatesHold
    <3> QED BY <1>1, <3>4, <3>5, <3>6 DEF CandidatesHold, Holds
  <2> QED BY <2>1, <2>2
<1>3. RowsAreTyped'
  BY <1>1, <1>2 DEF SyncInv, RowsAreTyped
<1>4. CycleIsTyped'
  BY <1>1, <1>2 DEF SyncInv, CycleIsTyped, Steps
<1>5. FallsComeFirst'
  <2>1. cycle'.fetched = cycle.fetched
    BY <1>1
  <2> QED BY <1>1, <2>1 DEF SyncInv, FallsComeFirst, Fell
<1>6. LoggedIsSeen'
  BY <1>1 DEF SyncInv, LoggedIsSeen, Reported, RowsAreTyped
<1>7. AskedOnce'
  BY <1>1 DEF AskedOnce
<1> QED BY <1>2, <1>3, <1>4, <1>5, <1>6, <1>7 DEF SyncInv
\* GitHub and a person move, whatever the process does.
LEMMA MovesKeep ==
    ASSUME SyncInv, CycleAssumed, NEW p \in PRs,
           \/ Review(p)
           \/ \E to \in {"open", "queued", "merged", "closed"} : Transition(p, to)
           \/ \E k \in Kinds : CloseByHand(p, k)
    PROVE  SyncInv'
<1>1. UNCHANGED <<row, logged, cycle, seen, lost>>
  BY DEF Review, Transition, CloseByHand, store, memory
<1>2. /\ github' \in [PRs -> Answers] /\ left' \in [PRs -> Nat]
      /\ \A q \in PRs : /\ left[q] <= left'[q]
                        /\ Fell(github'[q]) => Fell(github[q]) \/ left[q] < left'[q]
  <2>1. CASE Review(p)
    <3>1. github' = [github EXCEPT ![p].approved = ~@] /\ left' = left
      BY <2>1 DEF Review
    <3>2. \A q \in PRs : github'[q].state = github[q].state /\ github'[q] \in Answers /\ left[q] \in Nat
      BY <3>1 DEF SyncInv, RowsAreTyped, Answers
    <3>3. github' \in [PRs -> Answers]
      <4>1. \A q \in PRs : github[q] \in [state : {"open", "queued", "merged", "closed"}, approved : BOOLEAN]
        BY DEF SyncInv, RowsAreTyped, Answers
      <4>2. DOMAIN github' = PRs /\ github' = [q \in PRs |-> github'[q]]
        BY <3>1 DEF SyncInv, RowsAreTyped
      <4> QED BY <3>2, <4>2
    <3>4. \A q \in PRs : Fell(github'[q]) => Fell(github[q])
      BY <3>2 DEF Fell
    <3>5. left' \in [PRs -> Nat] /\ \A q \in PRs : left[q] <= left'[q]
      BY <3>1, <3>2 DEF SyncInv, RowsAreTyped
    <3> QED BY <3>3, <3>4, <3>5
  <2>2. CASE \E to \in {"open", "queued", "merged", "closed"} : Transition(p, to)
    <3>1. PICK to \in {"open", "queued", "merged", "closed"} : Transition(p, to)
      BY <2>2
    <3>2. /\ to \in MayBecome(github[p].state)
          /\ github' = [github EXCEPT ![p].state = to]
          /\ left' = IF github[p].state = "queued" /\ to # "merged"
                     THEN [left EXCEPT ![p] = @ + 1] ELSE left
      BY <3>1 DEF Transition
    <3>3. github[p].state \in {"open", "queued", "closed"}
      BY <3>2 DEF MayBecome, SyncInv, RowsAreTyped, Answers
    <3>4. \A q \in PRs : github'[q] \in Answers /\ left[q] \in Nat /\ left'[q] \in Nat
                         /\ (q # p => github'[q] = github[q])
      <4>1. github \in [PRs -> Answers] /\ left \in [PRs -> Nat]
        BY DEF SyncInv, RowsAreTyped
      <4>2. [github[p] EXCEPT !.state = to] \in Answers
        BY <4>1 DEF Answers
      <4>3. \A q \in PRs : github'[q] \in Answers /\ (q # p => github'[q] = github[q])
        BY <3>2, <4>1, <4>2
      <4>4. \A q \in PRs : left[q] \in Nat /\ left'[q] \in Nat
        BY <3>2, <4>1
      <4> QED BY <4>3, <4>4
    <3>5. github'[p].state = to
      <4>1. github[p] \in Answers /\ github'[p] = [github[p] EXCEPT !.state = to]
        BY <3>2 DEF SyncInv, RowsAreTyped
      <4> QED BY <4>1 DEF Answers
    <3>6. github' \in [PRs -> Answers] /\ left' \in [PRs -> Nat]
      BY <3>2, <3>4 DEF SyncInv, RowsAreTyped
    <3>7. /\ Fell(github[p]) <=> github[p].state # "queued"
          /\ Fell(github'[p]) <=> to \notin {"queued", "merged"}
          /\ \A q \in PRs \ {p} : Fell(github'[q]) <=> Fell(github[q])
      BY <3>3, <3>4, <3>5 DEF Fell
    <3>8. /\ \A q \in PRs : left[q] <= left'[q]
          /\ github[p].state = "queued" /\ to # "merged" => left[p] < left'[p]
      BY <3>2, <3>4 DEF SyncInv, RowsAreTyped
    <3> QED BY <3>6, <3>7, <3>8
  <2>3. CASE \E k \in Kinds : CloseByHand(p, k)
    <3>1. github' = github /\ left' = left
      BY <2>3 DEF CloseByHand, outside
    <3>2. \A q \in PRs : left[q] \in Nat
      BY DEF SyncInv, RowsAreTyped
    <3> QED BY <3>1, <3>2 DEF SyncInv, RowsAreTyped
  <2> QED BY <2>1, <2>2, <2>3
<1>3. /\ todo' \in [PRs -> [Kinds -> Nat]]
      /\ \A q \in PRs, k \in Kinds : todo[q][k] = 0 => todo'[q][k] = 0
  <2>1. CASE UNCHANGED todo
    BY <2>1 DEF SyncInv, RowsAreTyped
  <2>2. CASE \E k \in Kinds : CloseByHand(p, k)
    <3>1. PICK k \in Kinds : todo[p][k] > 0 /\ todo' = [todo EXCEPT ![p][k] = @ - 1]
      BY <2>2 DEF CloseByHand
    <3>2. todo \in [PRs -> [Kinds -> Nat]]
      BY DEF SyncInv, RowsAreTyped
    <3> QED BY <3>1, <3>2
  <2> QED BY <2>1, <2>2 DEF Review, Transition, store
<1>4. RowsAreTyped'
  BY <1>1, <1>2, <1>3 DEF SyncInv, RowsAreTyped
<1>5. CycleIsTyped'
  BY <1>1 DEF SyncInv, CycleIsTyped
<1>6. CandidatesHold'
  BY <1>1 DEF SyncInv, CandidatesHold, Holds
<1>7. FallsComeFirst'
  <2>1. \A q \in PRs : left[q] \in Nat /\ left'[q] \in Nat /\ seen[q] \in Nat
    BY <1>2 DEF SyncInv, RowsAreTyped
  <2>2. \A q \in PRs : seen[q] <= left[q]
    BY DEF SyncInv, FallsComeFirst
  <2>3. FallsComeFirst
    BY DEF SyncInv
  <2>4. ASSUME NEW q \in PRs
        PROVE  /\ seen[q] <= left'[q]
               /\ row[q].state = "queued" /\ Fell(github'[q]) => seen[q] < left'[q]
               /\ q \in DOMAIN cycle.fetched =>
                      /\ cycle.fetched[q].state = "queued" /\ Fell(github'[q]) => seen[q] < left'[q]
                      /\ row[q].state = "queued" /\ Fell(cycle.fetched[q]) => seen[q] < left'[q]
    BY <1>2, <2>1, <2>2, <2>3 DEF FallsComeFirst
  <2> QED BY <1>1, <2>4 DEF FallsComeFirst, Fell
<1>8. LoggedIsSeen'
  BY <1>1 DEF SyncInv, LoggedIsSeen, Reported
<1>9. AskedOnce'
  <2>1. cycle.pc \in {"report", "queue"} => cycle.pr \in PRs /\ "merge" \in Kinds
    BY DEF SyncInv, CycleIsTyped, CycleAssumed, KindsAssumption
  <2> QED BY <1>1, <1>3, <2>1 DEF SyncInv, AskedOnce
<1> QED BY <1>4, <1>5, <1>6, <1>7, <1>8, <1>9 DEF SyncInv

LEMMA CycleKeeps == ASSUME SyncInv, CycleAssumed, [CycleNext]_cycleVars PROVE SyncInv'
<1>1. CASE cycle' = NoCycle /\ UNCHANGED <<outside, store, seen>> /\ lost' \subseteq PRs
  BY <1>1, EndingACycle
<1>2. CASE /\ cycle.pr = NoPR /\ UNCHANGED <<outside, store, seen, lost>>
           /\ \E pc \in {"refs", "issues", "prs", "teams", "settle"} : Go(pc)
  BY <1>2, GoingOn
<1>3. CASE Sweep \/ CycleEnds \/ \E read \in Reads : RateLimited(read)
  <2>1. lost' \subseteq PRs
    BY <1>3 DEF SyncInv, RowsAreTyped, CycleIsTyped, Sweep, CycleEnds, RateLimited
  <2> QED BY <1>1, <1>3, <2>1 DEF Sweep, CycleEnds, RateLimited
<1>4. CASE BeginCycle \/ Applied \/ Closed
  BY <1>2, <1>4 DEF BeginCycle, Applied, Closed, SyncInv, CycleIsTyped
<1>5. ASSUME NEW read \in Reads, Unanswered(read) \/ Answered(read)
      PROVE  SyncInv'
  <2>1. CASE read = "prs" /\ Answered(read)
    BY <2>1, FetchingKeeps
  <2>2. CASE read # "prs" \/ ~Answered(read)
    <3>1. Go(After(read)) /\ UNCHANGED <<outside, store, seen, lost>> /\ cycle.pc = read
      BY <1>5, <2>2 DEF Unanswered, Answered
    <3>2. After(read) \in {"refs", "issues", "prs", "teams", "settle"}
      BY DEF After, Reads
    <3> QED BY <1>2, <3>1, <3>2 DEF SyncInv, CycleIsTyped, Reads
  <2> QED BY <2>1, <2>2
<1>6. CASE \E p \in PRs : ApplyOne(p)
  BY <1>6, ApplyingKeeps
<1>7. CASE CheckMerge \/ ReportLeftQueue \/ QueueEjection
  <2>1. CASE cycle' = NoCycle
    <3>1. cycle.pc = "ejected"
      <4>1. NoCycle.pc = "idle"
        BY DEF NoCycle
      <4> QED BY <1>7, <2>1, <4>1 DEF CheckMerge, ReportLeftQueue, QueueEjection, SyncInv, CycleIsTyped
    <3> QED BY <1>1, <1>7, <2>1, <3>1 DEF CheckMerge, ReportLeftQueue, QueueEjection, SyncInv,
           RowsAreTyped
  <2> QED BY <1>7, <2>1, ReportingKeeps
<1>8. CASE ReadSatisfied \/ \E p \in PRs, k \in Kinds : CloseCandidate(p, k)
  <2>1. CASE cycle' = NoCycle
    <3>1. NoCycle.pc = "idle"
      BY DEF NoCycle
    <3>2. UNCHANGED <<outside, store, seen, lost>>
      BY <1>8, <2>1, <3>1 DEF ReadSatisfied, CloseCandidate, SyncInv, CycleIsTyped, store
    <3> QED BY <1>1, <2>1, <3>2 DEF SyncInv, RowsAreTyped
  <2> QED BY <1>8, <2>1, SettlingKeeps
<1>9. CASE UNCHANGED cycleVars
  <2>1. UNCHANGED <<github, row, todo, cycle, left, seen, logged, lost>>
    BY <1>9 DEF cycleVars
  <2> QED BY <2>1 DEF SyncInv, RowsAreTyped, CycleIsTyped, CandidatesHold, Holds, FallsComeFirst, Fell,
         LoggedIsSeen, Reported, AskedOnce
<1>10. CASE \E p \in PRs : \/ Review(p)
                           \/ \E to \in {"open", "queued", "merged", "closed"} : Transition(p, to)
                           \/ \E k \in Kinds : CloseByHand(p, k)
  BY <1>10, MovesKeep
<1> QED BY <1>3, <1>4, <1>5, <1>6, <1>7, <1>8, <1>9, <1>10 DEF CycleNext, Step

LEMMA CycleInvHolds == ASSUME CycleAssumed PROVE CycleSpec => []SyncInv
<1>1. CycleInit => SyncInv
  BY CycleBegins
<1>2. SyncInv /\ [CycleNext]_cycleVars => SyncInv'
  BY CycleKeeps
<1> QED BY <1>1, <1>2, PTL DEF CycleSpec
\* No action is settled on a row that nothing was read into, whatever is written,
\* withdrawn or closed by hand between reading which predicates hold and closing what
\* they settle (store/settle.go:58).
THEOREM SettlesOnEvidence ==
    ASSUME CycleAssumed
    PROVE  CycleSpec => SettledOnEvidence
<1> DEFINE Evidence == \A p \in PRs, k \in Kinds :
                          cycle.pc = "close" /\ todo'[p][k] < todo[p][k] /\ cycle' # cycle
                          => row[p] # Unread
<1>1. ASSUME SyncInv, [CycleNext]_cycleVars
      PROVE  [Evidence]_cycleVars
  <2> SUFFICES ASSUME NEW p \in PRs, NEW k \in Kinds,
                      cycle.pc = "close", todo'[p][k] < todo[p][k], cycle' # cycle
               PROVE  row[p] # Unread
    OBVIOUS
  <2>1. \A q \in PRs, j \in Kinds : todo[q][j] \in Nat /\ ~(todo[q][j] < todo[q][j])
    BY <1>1 DEF SyncInv, RowsAreTyped
  <2>2. todo' # todo
    BY <2>1
  <2>3. PICK q \in PRs, j \in Kinds : CloseCandidate(q, j)
    <3>1. ~(\E r \in PRs : \/ Review(r)
                           \/ \E to \in {"open", "queued", "merged", "closed"} : Transition(r, to)
                           \/ \E j \in Kinds : CloseByHand(r, j))
      BY DEF Review, Transition, CloseByHand, memory
    <3>2. /\ ~\E read \in Reads : Unanswered(read) \/ Answered(read) \/ RateLimited(read)
          /\ ~\E r \in PRs : ApplyOne(r)
          /\ ~(BeginCycle \/ Applied \/ CheckMerge \/ ReportLeftQueue \/ QueueEjection
               \/ ReadSatisfied \/ Closed \/ Sweep)
      BY <2>2 DEF Reads, Unanswered, Answered, RateLimited, ApplyOne, BeginCycle, Applied, CheckMerge,
         ReportLeftQueue, QueueEjection, ReadSatisfied, Closed, Sweep, store
    <3>3. ~CycleEnds /\ ~UNCHANGED cycleVars
      BY <2>2 DEF CycleEnds, cycleVars, store
    <3> QED BY <1>1, <3>1, <3>2, <3>3 DEF CycleNext, Step
  <2>4. q = p /\ j = k
    <3> DEFINE here == [i \in Kinds |-> todo[q][i] - (IF i = j THEN 1 ELSE 0)
                                          + (IF i \in StepsToStart(q, j) THEN 1 ELSE 0)]
    <3>1. todo' = [todo EXCEPT ![q] = here]
      BY <2>2, <2>3 DEF CloseCandidate
    <3>2. q = p
      BY <1>1, <2>1, <3>1 DEF SyncInv, RowsAreTyped
    <3>3. todo'[p][k] = here[k]
      BY <1>1, <3>1, <3>2 DEF SyncInv, RowsAreTyped
    <3>4. k # j => here[k] >= todo[q][k]
      BY <2>1
    <3> HIDE DEF here
    <3>5. here[k] < todo[p][k] /\ todo[p][k] \in Nat
      BY <3>3, <2>1
    <3>6. here[k] \in Int
      BY <2>1 DEF here
    <3> QED BY <3>2, <3>4, <3>5, <3>6
  <2>5. cycle.candidates[p][k] > 0
    BY <2>3, <2>4 DEF CloseCandidate
  <2>6. Holds(k, row[p])
    BY <1>1, <2>5 DEF SyncInv, CandidatesHold
  <2> QED BY <2>6 DEF Holds, Unread
<1> QED BY <1>1, CycleInvHolds, PTL DEF CycleSpec, SettledOnEvidence

\* What no close starts is a merge: of a merge there is one then, the one an ejection
\* asked for or the one there was.
OneMergeInv == SyncInv /\ OneMergeOpen

\* However often a pull request falls, is queued again, seen late or never, and
\* whenever the process ends: every exception logged is a fall that happened, and
\* there is one merge on the list (store/mergequeue.go:18, :132).  No pipeline starts
\* a merge here: with one that does, the settling adds its own.
THEOREM EjectionsCount ==
    ASSUME CycleAssumed, \A k \in Kinds : "merge" \notin Chain[k]
    PROVE  CycleSpec => []EjectionsAreCounted
<1>1. CycleInit => OneMergeInv
  <2> SUFFICES ASSUME CycleInit PROVE OneMergeInv
    OBVIOUS
  <2>1. \A p \in PRs : todo[p]["merge"] \in 0 .. 1
    BY DEF CycleInit, CycleAssumed, WorkAssumption, KindsAssumption
  <2> QED BY <2>1, CycleBegins DEF OneMergeInv, OneMergeOpen
<1>2. ASSUME OneMergeInv, [CycleNext]_cycleVars
      PROVE  OneMergeInv'
  <2>1. SyncInv'
    BY <1>2, CycleKeeps DEF OneMergeInv
  <2>2. "merge" \in Kinds /\ \A p \in PRs : todo[p]["merge"] \in Nat
    BY <1>2 DEF CycleAssumed, KindsAssumption, OneMergeInv, SyncInv, RowsAreTyped
  <2>3. CASE \E p \in PRs, k \in Kinds : CloseCandidate(p, k)
    <3>1. PICK p \in PRs, k \in Kinds : CloseCandidate(p, k)
      BY <2>3
    <3> DEFINE here == [i \in Kinds |-> todo[p][i] - (IF i = k THEN 1 ELSE 0)
                                          + (IF i \in StepsToStart(p, k) THEN 1 ELSE 0)]
    <3>2. todo' = todo \/ todo' = [todo EXCEPT ![p] = here]
      BY <3>1 DEF CloseCandidate
    <3>3. "merge" \notin StepsToStart(p, k)
      BY DEF StepsToStart
    <3>4. here["merge"] \in Int /\ here["merge"] <= todo[p]["merge"]
      BY <2>2, <3>3
    <3> HIDE DEF here
    <3>5. here["merge"] <= 1
      BY <1>2, <2>2, <3>4 DEF OneMergeInv, OneMergeOpen
    <3>6. \A q \in PRs : todo'[q]["merge"] <= 1
      BY <1>2, <3>2, <3>5 DEF OneMergeInv, OneMergeOpen, SyncInv, RowsAreTyped
    <3> QED BY <2>1, <3>6 DEF OneMergeInv, OneMergeOpen
  <2>4. CASE QueueEjection
    <3>1. cycle.pr \in PRs /\ todo[cycle.pr]["merge"] = 0
      BY <1>2, <2>4 DEF QueueEjection, OneMergeInv, SyncInv, AskedOnce, CycleIsTyped
    <3>2. todo' = [todo EXCEPT ![cycle.pr]["merge"] = @ + 1]
      BY <2>4 DEF QueueEjection
    <3>3. todo \in [PRs -> [Kinds -> Nat]]
      BY <1>2 DEF OneMergeInv, SyncInv, RowsAreTyped
    <3>4. \A q \in PRs : todo'[q]["merge"] <= 1
      BY <1>2, <2>2, <3>1, <3>2, <3>3 DEF OneMergeInv, OneMergeOpen
    <3> QED BY <2>1, <3>4 DEF OneMergeInv, OneMergeOpen
  <2>5. CASE \E p \in PRs, k \in Kinds : CloseByHand(p, k)
    <3>1. PICK p \in PRs, k \in Kinds : todo[p][k] > 0 /\ todo' = [todo EXCEPT ![p][k] = @ - 1]
      BY <2>5 DEF CloseByHand
    <3>2. todo \in [PRs -> [Kinds -> Nat]]
      BY <1>2 DEF OneMergeInv, SyncInv, RowsAreTyped
    <3>3. \A q \in PRs : todo'[q]["merge"] <= todo[q]["merge"] /\ todo'[q]["merge"] \in Nat
      BY <2>2, <3>1, <3>2
    <3>4. \A q \in PRs : todo'[q]["merge"] <= 1
      BY <1>2, <2>2, <3>3 DEF OneMergeInv, OneMergeOpen
    <3> QED BY <2>1, <3>4 DEF OneMergeInv, OneMergeOpen
  <2>6. CASE UNCHANGED todo
    BY <1>2, <2>1, <2>6 DEF OneMergeInv, OneMergeOpen
  <2> QED BY <1>2, <2>3, <2>4, <2>5, <2>6 DEF CycleNext, Step, BeginCycle, Unanswered, Answered,
         RateLimited, ApplyOne, Applied, CheckMerge, ReportLeftQueue, ReadSatisfied, Closed, Sweep,
         CycleEnds, Review, Transition, store, cycleVars
<1>3. OneMergeInv => EjectionsAreCounted
  <2> SUFFICES ASSUME SyncInv PROVE SyncTypeOK /\ EjectionsAreReal
    BY DEF OneMergeInv, EjectionsAreCounted
  <2>1. SyncTypeOK
    BY DEF SyncInv, RowsAreTyped, CycleIsTyped, Steps, SyncTypeOK
  <2>2. \A p \in PRs : logged[p] + Reported(p) <= seen[p] /\ seen[p] <= left[p]
    BY DEF SyncInv, LoggedIsSeen, FallsComeFirst
  <2>3. \A p \in PRs : {logged[p], seen[p], left[p], Reported(p)} \subseteq Nat
    BY DEF SyncInv, RowsAreTyped, Reported
  <2> QED BY <2>1, <2>2, <2>3 DEF EjectionsAreReal
<1> QED BY <1>1, <1>2, <1>3, PTL DEF CycleSpec
=============================================================================
