---------------------------- MODULE ReadingProofs ----------------------------
(***************************************************************************)
(* What is read, and what is shown of it.  A call of the client reports as *)
(* read what it read whole, and asks for nothing while GitHub says to wait *)
(* (GitHubClient).  Rows of pull requests stay well formed and the log     *)
(* knows what is broken, whatever two polls write over each other          *)
(* (PullRequests).  Links and waits name issues that have rows, and a poll *)
(* leaves the links made by hand (Issues).  The review queue has an item   *)
(* under whoever has the next move (ReviewQueue).  For any number of       *)
(* readers, pollers, pull requests, issues, teams and people.              *)
(***************************************************************************)
EXTENDS GitHubClient, PullRequests, Issues, ReviewQueue, OrderFacts, FiniteSetTheorems, TLAPS

----------------------------------------------------------------------------
(* The client's calls *)

Records ==
    [kind : CallKinds, at : Finished \cup {"ask", "out", "waiting"}, left : SUBSET Keys, ask : SUBSET Keys,
     got : [Keys -> Nat], lost : SUBSET Keys, page : Int, tries : 0 .. Retries, wake : Nat,
     round : 1 .. OpenPRAttempts, count : Int, reported : Int, rules : {"unread", "none", "read"}]

\* A call that goes on, or has ended well.
Good(r) == r.at \in {"ask", "out", "waiting", "done"}

\* What is left of a batched read has not been answered, what is not left has, one way.
Batched(r) ==
    r.kind = "fetch" /\ Good(r) =>
        /\ \A k \in Keys : IF k \in r.left THEN r.got[k] = 0 /\ k \notin r.lost
                           ELSE (r.got[k] = 1) # (k \in r.lost)
        /\ r.at = "done" => r.left = {}

\* A team that is left has more pages or none read yet, one that is not was read to its end;
\* every request asks for all that are left.
Paged(r, world) ==
    r.kind = "teams" /\ Good(r) =>
        /\ r.ask = r.left
        /\ \A k \in Keys : IF k \in r.left THEN r.got[k] < world.pages[k] \/ r.got[k] = 0
                           ELSE r.got[k] = world.pages[k] /\ r.got[k] > 0
        /\ r.at = "done" => r.left = {}

Listed(r, world) == r.kind = "list" /\ r.at = "done" => world.open - r.count < OpenPRPage

ReadInv(r, world) ==
    /\ r \in Records /\ r.ask \subseteq r.left
    /\ Batched(r) /\ Paged(r, world) /\ Listed(r, world)

ClientInv ==
    /\ github \in [world : GitHubs, told : Nat]
    /\ runner \in [name : {"gh", "http"}, hold : Nat]
    /\ runner.name = "http" => github.told <= runner.hold
    /\ reads \in [Readers -> Records]
    /\ \A c \in Readers : ReadInv(reads[c], github.world)

LEMMA CallKindFacts ==
    ASSUME ClientAssumption
    PROVE  /\ \A c \in Readers : \A kind \in Calls[c] : kind \in CallKinds
           /\ OpenPRAttempts \in Nat /\ 1 \in 1 .. OpenPRAttempts /\ OpenPRPage \in Nat
           /\ Retries \in Nat /\ \A i \in 1 .. Retries : RetryDelays[i] \in Nat
           /\ \A world \in GitHubs : /\ world.pages \in [Keys -> Nat] /\ world.open \in Nat
                                     /\ world.visible \in SUBSET Keys
<1>1. /\ \A c \in Readers : \A kind \in Calls[c] : kind \in CallKinds
      /\ OpenPRAttempts \in Nat /\ 1 \in 1 .. OpenPRAttempts /\ OpenPRPage \in Nat
  BY DEF ClientAssumption, Readers, CallKinds
<1>2. Retries \in Nat /\ \A i \in 1 .. Retries : RetryDelays[i] \in Nat
  BY DEF ClientAssumption, Retries
<1>3. \A world \in GitHubs : world.pages \in [Keys -> Nat] /\ world.open \in Nat /\ world.visible \in SUBSET Keys
  BY DEF ClientAssumption
<1> QED BY <1>1, <1>2, <1>3

\* A call that has just begun, or has failed.
LEMMA NewReadFacts ==
    ASSUME ClientAssumption, NEW kind \in CallKinds
    PROVE  /\ NewRead(kind) \in Records
           /\ NewRead(kind).kind = kind /\ NewRead(kind).at = "idle"
           /\ \A how \in Finished \ {"done"} : \A world :
                  ReadInv([NewRead(kind) EXCEPT !.at = how], world)
<1>1. 0 \in 0 .. Retries /\ 1 \in 1 .. OpenPRAttempts /\ "idle" \in Finished /\ 0 \in Nat /\ 0 \in Int
  BY CallKindFacts DEF Finished
<1>2. NewRead(kind) = [kind |-> kind, at |-> "idle", left |-> {}, ask |-> {},
                       got |-> [k \in Keys |-> 0], lost |-> {}, page |-> 0, tries |-> 0,
                       wake |-> 0, round |-> 1, count |-> 0, reported |-> 0, rules |-> "unread"]
  BY DEF NewRead
<1>3. NewRead(kind) \in Records
  BY <1>1, <1>2 DEF Records
<1>4. ASSUME NEW how \in Finished \ {"done"}, NEW world
      PROVE  ReadInv([NewRead(kind) EXCEPT !.at = how], world)
  <2> DEFINE r == [NewRead(kind) EXCEPT !.at = how]
  <2>1. r \in Records
    BY <1>3, <1>4 DEF Records
  <2>2. r.at = how /\ r.ask = {} /\ r.left = {}
    BY <1>2
  <2>3. ~Good(r) /\ r.at # "done"
    BY <1>4, <2>2 DEF Good, Finished
  <2> HIDE DEF r
  <2>4. ReadInv(r, world)
    BY <2>1, <2>2, <2>3 DEF ReadInv, Batched, Paged, Listed
  <2> QED BY <2>4 DEF r
<1> QED BY <1>2, <1>3, <1>4

\* A step of one call.
LEMMA BecomesKeeps ==
    ASSUME ClientInv, NEW c \in Readers, NEW r, ReadInv(r, github.world), Becomes(c, r),
           UNCHANGED <<github, runner>>
    PROVE  ClientInv'
BY DEF ClientInv, Becomes, ReadInv

LEMMA EndsKeeps ==
    ASSUME ClientAssumption, ClientInv, NEW c \in Readers, NEW how \in Finished \ {"done"}, Ends(c, how),
           UNCHANGED <<github, runner>>
    PROVE  ClientInv'
<1>1. reads[c].kind \in CallKinds
  BY DEF ClientInv, Records
<1>2. ReadInv([NewRead(reads[c].kind) EXCEPT !.at = how], github.world)
  BY <1>1, NewReadFacts
<1> QED BY <1>2, BecomesKeeps DEF Ends

LEMMA BeginKeeps ==
    ASSUME ClientAssumption, ClientInv, NEW c \in Readers, NEW kind \in Calls[c], Begin(c, kind)
    PROVE  ClientInv'
<1>1. PICK left \in (IF kind = "change" THEN {{k} : k \in Keys} ELSE {Keys}) :
        \E ask \in NextAsk(kind, left) :
            Becomes(c, [NewRead(kind) EXCEPT !.at = "ask", !.left = left, !.ask = ask])
  BY DEF Begin
<1>2. PICK ask \in NextAsk(kind, left) :
            Becomes(c, [NewRead(kind) EXCEPT !.at = "ask", !.left = left, !.ask = ask])
  BY <1>1
<1>3. left \subseteq Keys /\ (kind # "change" => left = Keys)
  OBVIOUS
<1>4. ask \subseteq left /\ (kind # "fetch" => ask = left)
  BY DEF NextAsk, Batches
<1>5. kind \in CallKinds
  BY CallKindFacts
<1> DEFINE r == [NewRead(kind) EXCEPT !.at = "ask", !.left = left, !.ask = ask]
<1>6. /\ r \in Records /\ r.at = "ask" /\ r.left = left /\ r.ask = ask /\ r.kind = kind
      /\ \A k \in Keys : r.got[k] = 0
      /\ r.lost = {}
  <2>1. NewRead(kind) \in Records
    BY <1>5, NewReadFacts
  <2>2. r \in Records
    BY <1>3, <1>4, <2>1 DEF Records
  <2> QED BY <2>2 DEF NewRead
<1>7. ReadInv(r, github.world)
  <2> HIDE DEF r
  <2> QED BY <1>3, <1>4, <1>6 DEF ReadInv, Batched, Paged, Listed
<1> QED BY <1>2, <1>7, BecomesKeeps DEF Begin

\* A change of where a call stands that asks for nothing else.
LEMMA MovesOn ==
    ASSUME NEW r, NEW world, ReadInv(r, world), NEW s, s \in Records,
           s.kind = r.kind, s.left = r.left, s.ask = r.ask, s.got = r.got, s.lost = r.lost,
           s.count = r.count, Good(r), s.at # "done"
    PROVE  ReadInv(s, world)
BY DEF ReadInv, Batched, Paged, Listed, Good

LEMMA AskKeeps ==
    ASSUME ClientAssumption, ClientInv, NEW c \in Readers, Ask(c)
    PROVE  ClientInv'
<1>1. CASE Ends(c, "limited")
  BY <1>1, EndsKeeps DEF Ask, Finished
<1>2. CASE Becomes(c, [reads[c] EXCEPT !.at = "out"])
  <2> DEFINE s == [reads[c] EXCEPT !.at = "out"]
  <2>1. reads[c] \in Records /\ ReadInv(reads[c], github.world) /\ reads[c].at = "ask"
    BY DEF ClientInv, Ask
  <2>2. s \in Records
    BY <2>1 DEF Records
  <2>3. ReadInv(s, github.world)
    <3>1. /\ s.kind = reads[c].kind /\ s.left = reads[c].left /\ s.ask = reads[c].ask
          /\ s.got = reads[c].got /\ s.lost = reads[c].lost /\ s.count = reads[c].count /\ s.at # "done"
      BY <2>1 DEF Records
    <3> HIDE DEF s
    <3> QED BY <2>1, <2>2, <3>1, MovesOn DEF Good
  <2> QED BY <1>2, <2>3, BecomesKeeps DEF Ask
<1> QED BY <1>1, <1>2 DEF Ask

LEMMA RetryKeeps ==
    ASSUME ClientAssumption, ClientInv, NEW c \in Readers, Retry(c)
    PROVE  ClientInv'
<1> DEFINE s == [reads[c] EXCEPT !.at = "ask"]
<1>1. reads[c] \in Records /\ ReadInv(reads[c], github.world) /\ reads[c].at = "waiting"
  BY DEF ClientInv, Retry
<1>2. s \in Records
  BY <1>1 DEF Records
<1>3. ReadInv(s, github.world)
  <2>1. /\ s.kind = reads[c].kind /\ s.left = reads[c].left /\ s.ask = reads[c].ask
        /\ s.got = reads[c].got /\ s.lost = reads[c].lost /\ s.count = reads[c].count /\ s.at # "done"
    BY <1>1 DEF Records
  <2> HIDE DEF s
  <2> QED BY <1>1, <1>2, <2>1, MovesOn DEF Good
<1> QED BY <1>3, BecomesKeeps DEF Retry

LEMMA FaultKeeps ==
    ASSUME ClientAssumption, ClientInv, NEW c \in Readers, Fault(c)
    PROVE  ClientInv'
<1>0. reads[c] \in Records /\ ReadInv(reads[c], github.world) /\ reads[c].at = "out"
  BY DEF ClientInv, Fault
<1>1. CASE GivesUp(reads[c].tries)
  BY <1>1, EndsKeeps DEF Fault, Finished
<1>2. CASE ~GivesUp(reads[c].tries)
  <2> DEFINE n == reads[c].tries
             s == [reads[c] EXCEPT !.at = "waiting", !.tries = n + 1, !.wake = RetryDelays[n + 1]]
  <2>1. n \in 0 .. Retries /\ n < Retries /\ Retries \in Nat
    BY <1>0, <1>2, CallKindFacts DEF Records, GivesUp
  <2>2. n + 1 \in 0 .. Retries /\ RetryDelays[n + 1] \in Nat
    BY <2>1, CallKindFacts
  <2>3. Becomes(c, s)
    BY <1>2 DEF Fault, Attempt
  <2>4. s \in Records
    BY <1>0, <2>2 DEF Records
  <2>5. ReadInv(s, github.world)
    <3>1. /\ s.kind = reads[c].kind /\ s.left = reads[c].left /\ s.ask = reads[c].ask
          /\ s.got = reads[c].got /\ s.lost = reads[c].lost /\ s.count = reads[c].count /\ s.at # "done"
      BY <1>0 DEF Records
    <3> HIDE DEF s
    <3> QED BY <1>0, <2>4, <3>1, MovesOn DEF Good
  <2> HIDE DEF s
  <2> QED BY <2>3, <2>5, BecomesKeeps DEF Fault
<1> QED BY <1>1, <1>2

LEMMA LimitKeeps ==
    ASSUME ClientAssumption, ClientInv, NEW c \in Readers, NEW wait \in LimitWaits, Limit(c, wait)
    PROVE  ClientInv'
<1>1. wait \in Nat
  BY DEF ClientAssumption
<1>2. /\ github \in [world : GitHubs, told : Nat] /\ runner \in [name : {"gh", "http"}, hold : Nat]
      /\ runner.name = "http" => github.told <= runner.hold
  BY DEF ClientInv
<1>3. github' = [github EXCEPT !.told = IF github.told > wait THEN github.told ELSE wait]
  BY DEF Limit, Longer
<1>4. runner' = [runner EXCEPT !.hold = IF runner.name = "http"
                                        THEN (IF runner.hold > wait THEN runner.hold ELSE wait) ELSE 0]
  BY DEF Limit, Hold, Longer
<1>5. /\ github' \in [world : GitHubs, told : Nat] /\ github'.world = github.world
      /\ github'.told = IF github.told > wait THEN github.told ELSE wait
  BY <1>1, <1>2, <1>3
<1>6. /\ runner' \in [name : {"gh", "http"}, hold : Nat] /\ runner'.name = runner.name
      /\ runner.name = "http" => runner'.hold = IF runner.hold > wait THEN runner.hold ELSE wait
  BY <1>1, <1>2, <1>4
<1>7. runner'.name = "http" => github'.told <= runner'.hold
  BY <1>1, <1>2, <1>5, <1>6
<1>8. reads[c].kind \in CallKinds
  BY DEF ClientInv, Records
<1>9. ReadInv([NewRead(reads[c].kind) EXCEPT !.at = "limited"], github.world)
  BY <1>8, NewReadFacts DEF Finished
<1>10. reads' = [reads EXCEPT ![c] = [NewRead(reads[c].kind) EXCEPT !.at = "limited"]]
  BY DEF Limit, Ends, Becomes
<1>11. reads' \in [Readers -> Records] /\ \A d \in Readers : ReadInv(reads'[d], github.world)
  BY <1>9, <1>10 DEF ClientInv, ReadInv
<1> QED BY <1>5, <1>6, <1>7, <1>11 DEF ClientInv

\* A request that is answered goes on with what is left, or ends well.
LEMMA GoOnFacts ==
    ASSUME NEW r, NEW left, left \subseteq r.left, r \in Records, NEW next \in GoOn(r, left)
    PROVE  /\ next \in Records /\ next.ask \subseteq next.left /\ next.left = left
           /\ next.kind = r.kind /\ next.got = r.got /\ next.lost = r.lost /\ next.page = r.page
           /\ next.at \in {"ask", "done"} /\ (next.at = "done" => left = {})
           /\ r.kind # "fetch" => next.ask = left
<1>1. left \in SUBSET Keys
  BY DEF Records
<1>2. CASE left = {}
  <2>1. next = [r EXCEPT !.at = "done", !.left = {}, !.ask = {}]
    BY <1>2 DEF GoOn
  <2> QED BY <1>2, <2>1 DEF Records, Finished
<1>3. CASE left # {}
  <2>1. PICK b \in NextAsk(r.kind, left) : next = [r EXCEPT !.at = "ask", !.left = left, !.ask = b]
    BY <1>3 DEF GoOn
  <2>2. b \subseteq left /\ (r.kind # "fetch" => b = left)
    BY <2>1 DEF NextAsk, Batches
  <2> QED BY <1>1, <2>1, <2>2 DEF Records
<1> QED BY <1>2, <1>3

LEMMA FetchKeeps ==
    ASSUME ClientAssumption, ClientInv, NEW c \in Readers, FetchAnswer(c)
    PROVE  ClientInv'
<1> DEFINE r == reads[c]
<1>1. r \in Records /\ ReadInv(r, github.world) /\ r.at = "out" /\ r.kind = "fetch"
  BY DEF ClientInv, FetchAnswer
<1>2. PICK absent \in SUBSET r.ask :
        \E next \in GoOn([r EXCEPT !.tries = 0, !.lost = r.lost \cup absent,
                                   !.got = [k \in Keys |-> IF k \in r.ask \ absent THEN 1 ELSE r.got[k]]],
                         r.left \ r.ask) : Becomes(c, next)
  BY DEF FetchAnswer, Missing
<1> DEFINE s == [r EXCEPT !.tries = 0, !.lost = r.lost \cup absent,
                          !.got = [k \in Keys |-> IF k \in r.ask \ absent THEN 1 ELSE r.got[k]]]
<1>3. PICK next \in GoOn(s, r.left \ r.ask) : Becomes(c, next)
  BY <1>2
<1>4. /\ r.ask \subseteq r.left /\ r.left \subseteq Keys /\ r.got \in [Keys -> Nat] /\ r.lost \subseteq Keys
      /\ \A k \in Keys : IF k \in r.left THEN r.got[k] = 0 /\ k \notin r.lost
                         ELSE (r.got[k] = 1) # (k \in r.lost)
  BY <1>1 DEF ReadInv, Batched, Good, Records
<1>5. /\ s \in Records /\ s.left = r.left /\ s.kind = "fetch" /\ s.lost = r.lost \cup absent
      /\ s.got = [k \in Keys |-> IF k \in r.ask \ absent THEN 1 ELSE r.got[k]]
  <2>1. 0 \in 0 .. Retries
    BY CallKindFacts
  <2>2. [k \in Keys |-> IF k \in r.ask \ absent THEN 1 ELSE r.got[k]] \in [Keys -> Nat]
    BY <1>4
  <2>3. r.lost \cup absent \in SUBSET Keys
    BY <1>4
  <2> QED BY <1>1, <2>1, <2>2, <2>3 DEF Records
<1>6. /\ next \in Records /\ next.ask \subseteq next.left /\ next.left = r.left \ r.ask
      /\ next.kind = "fetch" /\ next.lost = r.lost \cup absent
      /\ next.got = [k \in Keys |-> IF k \in r.ask \ absent THEN 1 ELSE r.got[k]]
      /\ next.at = "done" => next.left = {}
  <2> HIDE DEF s
  <2> QED BY <1>3, <1>5, GoOnFacts
<1>7. \A k \in Keys : IF k \in next.left THEN next.got[k] = 0 /\ k \notin next.lost
                      ELSE (next.got[k] = 1) # (k \in next.lost)
  <2> SUFFICES ASSUME NEW k \in Keys
               PROVE  IF k \in next.left THEN next.got[k] = 0 /\ k \notin next.lost
                      ELSE (next.got[k] = 1) # (k \in next.lost)
    OBVIOUS
  <2>1. next.got[k] = IF k \in r.ask \ absent THEN 1 ELSE r.got[k]
    BY <1>6
  <2>2. k \in next.lost <=> k \in r.lost \/ k \in absent
    BY <1>6
  <2>3. k \in next.left <=> k \in r.left /\ k \notin r.ask
    BY <1>6
  <2>4. r.got[k] = 0 => (r.got[k] = 1) = FALSE
    OBVIOUS
  <2>5. CASE k \in absent
    BY <1>4, <2>1, <2>2, <2>3, <2>5
  <2>6. CASE k \in r.ask \ absent
    BY <1>4, <2>1, <2>2, <2>3, <2>6
  <2>7. CASE k \notin r.ask
    BY <1>4, <2>1, <2>2, <2>3, <2>7
  <2> QED BY <2>5, <2>6, <2>7
<1>8. ReadInv(next, github.world)
  BY <1>6, <1>7 DEF ReadInv, Batched, Paged, Listed
<1> QED BY <1>3, <1>8, BecomesKeeps DEF FetchAnswer

LEMMA TeamsKeeps ==
    ASSUME ClientAssumption, ClientInv, NEW c \in Readers, TeamsAnswer(c)
    PROVE  ClientInv'
<1> DEFINE r == reads[c]
           pages == github.world.pages
<1>1. r \in Records /\ ReadInv(r, github.world) /\ r.at = "out" /\ r.kind = "teams"
      /\ pages \in [Keys -> Nat]
  BY CallKindFacts DEF ClientInv, TeamsAnswer
<1> DEFINE gotBy(absent) == [k \in Keys |-> r.got[k] + IF k \in r.ask \ absent THEN 1 ELSE 0]
           moreBy(absent) == {k \in r.ask \ absent : pages[k] > gotBy(absent)[k]}
           s(absent) == [r EXCEPT !.tries = 0, !.got = gotBy(absent), !.page = r.page + 1]
<1>2. PICK absent \in SUBSET r.ask :
        /\ {k \in r.ask : pages[k] = 0} \subseteq absent
        /\ IF absent # {} \/ (moreBy(absent) # {} /\ r.page + 1 >= TeamMaxPages)
           THEN Ends(c, "failed")
           ELSE \E next \in GoOn(s(absent), moreBy(absent)) : Becomes(c, next)
  BY DEF TeamsAnswer, Unresolved
<1> DEFINE got == gotBy(absent)
           more == moreBy(absent)
<1>3. CASE Ends(c, "failed")
  BY <1>3, EndsKeeps DEF TeamsAnswer, Finished
<1>4. CASE ~Ends(c, "failed")
  <2>1. absent = {} /\ \E next \in GoOn(s(absent), more) : Becomes(c, next)
    BY <1>2, <1>4
  <2>2. PICK next \in GoOn(s(absent), more) : Becomes(c, next)
    BY <2>1
  <2>3. /\ r.ask = r.left /\ r.left \subseteq Keys /\ r.got \in [Keys -> Nat] /\ r.page \in Int
        /\ \A k \in Keys : IF k \in r.left THEN r.got[k] < pages[k] \/ r.got[k] = 0
                           ELSE r.got[k] = pages[k] /\ r.got[k] > 0
    BY <1>1 DEF ReadInv, Paged, Good, Records
  <2>4. /\ got \in [Keys -> Nat]
        /\ \A k \in Keys : got[k] = IF k \in r.left THEN r.got[k] + 1 ELSE r.got[k]
        /\ more = {k \in r.left : pages[k] > got[k]}
        /\ \A k \in r.left : pages[k] # 0
    <3>1. /\ got = [k \in Keys |-> r.got[k] + IF k \in r.left THEN 1 ELSE 0]
          /\ more = {k \in r.left : pages[k] > got[k]}
      BY <2>1, <2>3, Zenon
    <3>2. {k \in r.left : pages[k] = 0} \subseteq {}
      BY <1>2, <2>1, <2>3, Zenon
    <3> HIDE DEF gotBy, moreBy
    <3>3. \A k \in Keys : got[k] = IF k \in r.left THEN r.got[k] + 1 ELSE r.got[k]
      BY <2>3, <3>1
    <3>4. \A k \in Keys : got[k] \in Nat
      BY <2>3, <3>3
    <3>5. got \in [Keys -> Nat]
      BY <3>1, <3>4
    <3> QED BY <3>1, <3>2, <3>3, <3>5
  <2>5. s(absent) \in Records /\ s(absent).left = r.left /\ s(absent).kind = "teams" /\ s(absent).got = got
    <3>1. 0 \in 0 .. Retries /\ r.page + 1 \in Int
      BY <2>3, CallKindFacts
    <3> HIDE DEF gotBy
    <3> QED BY <1>1, <2>4, <3>1 DEF Records
  <2>6. /\ next \in Records /\ next.ask = next.left /\ next.left = more
        /\ next.kind = "teams" /\ next.got = got
        /\ next.at = "done" => next.left = {}
    <3>1. more \subseteq r.left
      BY <2>4
    <3> DEFINE q == s(absent)
               m == moreBy(absent)
    <3>2. q \in Records /\ q.left = r.left /\ q.kind = "teams" /\ q.got = got /\ m \subseteq q.left
          /\ next \in GoOn(q, m)
      BY <2>2, <2>5, <3>1
    <3> HIDE DEF q, m
    <3>3. /\ next \in Records /\ next.left = m /\ next.ask = next.left
          /\ next.kind = "teams" /\ next.got = got /\ (next.at = "done" => m = {})
      BY <3>2, GoOnFacts
    <3> QED BY <3>3 DEF m
  <2> HIDE DEF gotBy, moreBy, s
  <2>7. \A k \in Keys : IF k \in next.left THEN next.got[k] < pages[k] \/ next.got[k] = 0
                        ELSE next.got[k] = pages[k] /\ next.got[k] > 0
    <3> SUFFICES ASSUME NEW k \in Keys
                 PROVE  IF k \in next.left THEN next.got[k] < pages[k] \/ next.got[k] = 0
                        ELSE next.got[k] = pages[k] /\ next.got[k] > 0
      OBVIOUS
    <3>1. next.got[k] = (IF k \in r.left THEN r.got[k] + 1 ELSE r.got[k]) /\ r.got[k] \in Nat
      BY <2>3, <2>4, <2>6
    <3>2. k \in next.left <=> k \in r.left /\ pages[k] > next.got[k]
      BY <2>4, <2>6
    <3>3. pages[k] \in Nat /\ (k \in r.left => pages[k] # 0)
      BY <1>1, <2>4
    <3> QED BY <2>3, <3>1, <3>2, <3>3
  <2>8. ReadInv(next, github.world)
    BY <2>6, <2>7 DEF ReadInv, Batched, Paged, Listed
  <2> QED BY <2>2, <2>8, BecomesKeeps DEF TeamsAnswer
<1> QED BY <1>3, <1>4

LEMMA FilesKeeps ==
    ASSUME ClientAssumption, ClientInv, NEW c \in Readers, FilesAnswer(c)
    PROVE  ClientInv'
<1> DEFINE r == reads[c]
           pages == github.world.pages
<1>1. r \in Records /\ ReadInv(r, github.world) /\ r.at = "out" /\ r.kind = "change"
  BY DEF ClientInv, FilesAnswer
<1>2. PICK k \in r.ask, whole \in BOOLEAN :
        LET got == [r.got EXCEPT ![k] = @ + IF whole THEN 1 ELSE 0]
        IN IF k \notin github.world.visible THEN Ends(c, "failed")
           ELSE Becomes(c, IF whole /\ pages[k] > got[k]
                           THEN [r EXCEPT !.at = "ask", !.tries = 0, !.got = got]
                           ELSE [r EXCEPT !.at = "ask", !.tries = 0, !.got = got,
                                          !.ask = {}, !.left = {}, !.lost = {k}])
  BY DEF FilesAnswer
<1> DEFINE got == [r.got EXCEPT ![k] = r.got[k] + IF whole THEN 1 ELSE 0]
           s == [r EXCEPT !.at = "ask", !.tries = 0, !.got = got]
           t == [r EXCEPT !.at = "ask", !.tries = 0, !.got = got, !.ask = {}, !.left = {}, !.lost = {k}]
<1>3. Ends(c, "failed") \/ Becomes(c, s) \/ Becomes(c, t)
  BY <1>2
<1>4. k \in Keys /\ r.got \in [Keys -> Nat] /\ 0 \in 0 .. Retries /\ r.ask \subseteq r.left
  BY <1>1, CallKindFacts DEF ReadInv, Records
<1>5. got \in [Keys -> Nat]
  BY <1>4
<1> HIDE DEF got
<1>6. s \in Records /\ s.ask \subseteq s.left /\ s.kind = "change"
  BY <1>1, <1>4, <1>5 DEF Records
<1>7. t \in Records /\ t.ask \subseteq t.left /\ t.kind = "change"
  BY <1>1, <1>4, <1>5 DEF Records
<1> HIDE DEF s, t
<1>8. ReadInv(s, github.world) /\ ReadInv(t, github.world)
  BY <1>6, <1>7 DEF ReadInv, Batched, Paged, Listed
<1> QED BY <1>3, <1>8, BecomesKeeps, EndsKeeps DEF FilesAnswer, Finished

LEMMA RulesKeeps ==
    ASSUME ClientAssumption, ClientInv, NEW c \in Readers, RulesAnswer(c)
    PROVE  ClientInv'
<1> DEFINE r == reads[c]
<1>1. r \in Records /\ ReadInv(r, github.world) /\ r.kind = "change"
  BY DEF ClientInv, RulesAnswer
<1>2. PICK rules \in {"read", "none"} :
        Becomes(c, [r EXCEPT !.at = "done", !.tries = 0, !.rules = rules])
  BY DEF RulesAnswer
<1> DEFINE s == [r EXCEPT !.at = "done", !.tries = 0, !.rules = rules]
<1>3. s \in Records /\ s.ask \subseteq s.left /\ s.kind = "change"
  <2>1. 0 \in 0 .. Retries /\ r.ask \subseteq r.left
    BY <1>1, CallKindFacts DEF ReadInv
  <2> QED BY <1>1, <2>1 DEF Records, Finished
<1> HIDE DEF s
<1>4. ReadInv(s, github.world)
  BY <1>3 DEF ReadInv, Batched, Paged, Listed
<1> QED BY <1>2, <1>4, BecomesKeeps DEF RulesAnswer, s

LEMMA ListKeeps ==
    ASSUME ClientAssumption, ClientInv, NEW c \in Readers, ListAnswer(c)
    PROVE  ClientInv'
<1> DEFINE r     == reads[c]
           open  == github.world.open
           count == r.count + Shorter(OpenPRPage, open - r.count)
           counted == [r EXCEPT !.tries = 0, !.count = count, !.reported = Longer(r.reported, open)]
           more  == [counted EXCEPT !.at = "ask"]
           whole == [counted EXCEPT !.at = "done", !.left = {}, !.ask = {}]
           again == [counted EXCEPT !.at = "ask", !.round = r.round + 1, !.count = 0, !.reported = 0]
<1>1. r \in Records /\ ReadInv(r, github.world) /\ r.at = "out" /\ r.kind = "list" /\ open \in Nat
  BY CallKindFacts DEF ClientInv, ListAnswer
<1>2. OpenPRPage \in Nat /\ OpenPRAttempts \in Nat /\ 0 \in 0 .. Retries
  BY CallKindFacts
<1>3. /\ r.count \in Int /\ r.reported \in Int /\ r.round \in 1 .. OpenPRAttempts
      /\ r.ask \subseteq r.left
  BY <1>1 DEF Records, ReadInv
<1>4. count \in Int /\ Longer(r.reported, open) \in Int /\ open <= Longer(r.reported, open)
  BY <1>1, <1>2, <1>3 DEF Shorter, Longer
<1> HIDE DEF count
<1>5. /\ counted \in Records /\ counted.ask = r.ask /\ counted.left = r.left /\ counted.kind = "list"
      /\ counted.count = count /\ counted.reported = Longer(r.reported, open) /\ counted.at = "out"
      /\ counted.round = r.round
  BY <1>1, <1>2, <1>4 DEF Records
<1>6. \/ Becomes(c, more)
      \/ Becomes(c, whole) /\ ~TooShort(counted.reported - count)
      \/ Becomes(c, [NewRead("list") EXCEPT !.at = "failed"])
      \/ Becomes(c, again) /\ r.round # OpenPRAttempts
  <2> HIDE DEF counted
  <2>1. counted.round = r.round
    BY <1>5
  <2> USE DEF counted, count
  <2> QED BY DEF ListAnswer
<1> HIDE DEF counted
<1>7. CASE Becomes(c, more)
  <2>1. more \in Records /\ more.ask \subseteq more.left /\ more.kind = "list" /\ more.at # "done"
    BY <1>3, <1>5 DEF Records
  <2> HIDE DEF more
  <2>2. ReadInv(more, github.world)
    BY <2>1 DEF ReadInv, Batched, Paged, Listed
  <2> QED BY <1>7, <2>2, BecomesKeeps DEF ListAnswer
<1>8. CASE Becomes(c, whole) /\ ~TooShort(counted.reported - count)
  <2>1. /\ whole \in Records /\ whole.ask \subseteq whole.left /\ whole.kind = "list"
        /\ whole.count = count
    BY <1>5 DEF Records, Finished
  <2>2. open - count < OpenPRPage
    BY <1>1, <1>2, <1>4, <1>5, <1>8 DEF TooShort
  <2> HIDE DEF whole
  <2>3. ReadInv(whole, github.world)
    BY <2>1, <2>2 DEF ReadInv, Batched, Paged, Listed
  <2> QED BY <1>8, <2>3, BecomesKeeps DEF ListAnswer
<1>9. CASE Becomes(c, [NewRead("list") EXCEPT !.at = "failed"])
  <2>1. ReadInv([NewRead("list") EXCEPT !.at = "failed"], github.world)
    BY NewReadFacts DEF Finished, CallKinds
  <2> QED BY <1>9, <2>1, BecomesKeeps DEF ListAnswer
<1>10. CASE Becomes(c, again) /\ r.round # OpenPRAttempts
  <2>0. \A n \in 1 .. OpenPRAttempts : n # OpenPRAttempts => n + 1 \in 1 .. OpenPRAttempts
    BY <1>2
  <2>1. r.round + 1 \in 1 .. OpenPRAttempts
    <3> DEFINE n == r.round
    <3>1. n \in 1 .. OpenPRAttempts /\ n # OpenPRAttempts
      BY <1>3, <1>10
    <3> HIDE DEF n
    <3>2. n + 1 \in 1 .. OpenPRAttempts
      BY <2>0, <3>1
    <3> QED BY <3>2 DEF n
  <2> DEFINE next == r.round + 1
  <2>2. again \in Records /\ again.ask \subseteq again.left /\ again.kind = "list" /\ again.at # "done"
    <3>1. /\ counted \in Records /\ counted.ask \subseteq counted.left /\ counted.kind = "list"
          /\ next \in 1 .. OpenPRAttempts
      BY <1>3, <1>5, <2>1
    <3>2. again = [counted EXCEPT !.at = "ask", !.round = next, !.count = 0, !.reported = 0]
      OBVIOUS
    <3> HIDE DEF again, next
    <3>3. /\ again.kind = "list" /\ again.at = "ask" /\ again.ask = counted.ask /\ again.left = counted.left
          /\ again.round = next
      BY <3>1, <3>2 DEF Records
    <3>4. again \in Records
      <4>1. again = [kind |-> counted.kind, at |-> "ask", left |-> counted.left, ask |-> counted.ask,
                     got |-> counted.got, lost |-> counted.lost, page |-> counted.page,
                     tries |-> counted.tries, wake |-> counted.wake, round |-> next, count |-> 0,
                     reported |-> 0, rules |-> counted.rules]
        BY <3>1, <3>2 DEF Records
      <4> HIDE DEF counted
      <4> QED BY <3>1, <4>1 DEF Records
    <3> QED BY <3>1, <3>3, <3>4
  <2> HIDE DEF again
  <2>3. ReadInv(again, github.world)
    BY <2>2 DEF ReadInv, Batched, Paged, Listed
  <2> QED BY <1>10, <2>3, BecomesKeeps DEF ListAnswer
<1> QED BY <1>6, <1>7, <1>8, <1>9, <1>10

LEMMA TickKeeps ==
    ASSUME ClientAssumption, ClientInv, Tick
    PROVE  ClientInv'
<1>1. \A n \in Nat : Count(n) \in Nat /\ Count(n) <= n
  BY DEF Count
<1>2. \A m, n \in Nat : m <= n => Count(m) <= Count(n)
  BY DEF Count
<1>3. /\ github \in [world : GitHubs, told : Nat] /\ runner \in [name : {"gh", "http"}, hold : Nat]
      /\ runner.name = "http" => github.told <= runner.hold
      /\ github' = [github EXCEPT !.told = Count(github.told)]
      /\ runner' = [runner EXCEPT !.hold = Count(runner.hold)]
  BY DEF ClientInv, Tick
<1>4. /\ github' \in [world : GitHubs, told : Nat] /\ github'.world = github.world
      /\ runner' \in [name : {"gh", "http"}, hold : Nat]
      /\ runner'.name = "http" => github'.told <= runner'.hold
  BY <1>1, <1>2, <1>3
<1>5. ASSUME NEW c \in Readers
      PROVE  [reads[c] EXCEPT !.wake = Count(reads[c].wake)] \in Records
             /\ ReadInv([reads[c] EXCEPT !.wake = Count(reads[c].wake)], github.world)
  <2> DEFINE r == reads[c]
             s == [r EXCEPT !.wake = Count(r.wake)]
  <2>1. r \in Records /\ ReadInv(r, github.world)
    BY DEF ClientInv
  <2>2. Count(r.wake) \in Nat
    BY <1>1, <2>1 DEF Records
  <2>3. s \in Records
    BY <2>1, <2>2 DEF Records
  <2>4. /\ s.at = r.at /\ s.kind = r.kind /\ s.left = r.left /\ s.ask = r.ask /\ s.got = r.got
        /\ s.lost = r.lost /\ s.count = r.count
    BY <2>1 DEF Records
  <2> HIDE DEF s
  <2>5. ReadInv(s, github.world)
    BY <2>1, <2>3, <2>4 DEF ReadInv, Batched, Paged, Listed, Good
  <2> QED BY <2>3, <2>5 DEF s
<1>6. reads' = [c \in Readers |-> [reads[c] EXCEPT !.wake = Count(reads[c].wake)]]
  BY DEF Tick
<1>7. reads' \in [Readers -> Records] /\ \A c \in Readers : ReadInv(reads'[c], github.world)
  BY <1>5, <1>6, Zenon
<1> QED BY <1>4, <1>7 DEF ClientInv

LEMMA ClientInvHolds ==
    ASSUME ClientAssumption
    PROVE  ClientSpec => []ClientInv
<1>1. ClientInit => ClientInv
  <2> SUFFICES ASSUME ClientInit
               PROVE  ClientInv
    OBVIOUS
  <2>1. /\ github \in [world : GitHubs, told : Nat] /\ github.told = 0
        /\ runner \in [name : {"gh", "http"}, hold : Nat] /\ runner.hold = 0
    BY DEF ClientInit
  <2>2. NewRead("fetch") \in Records /\ NewRead("fetch").at = "idle" /\ NewRead("fetch").ask = {}
        /\ NewRead("fetch").left = {}
    <3>1. "fetch" \in CallKinds
      BY DEF CallKinds
    <3> QED BY <3>1, NewReadFacts DEF NewRead
  <2> DEFINE r == NewRead("fetch")
  <2> HIDE DEF r
  <2>3. ReadInv(r, github.world)
    BY <2>2 DEF r, ReadInv, Batched, Paged, Listed, Good
  <2>4. reads = [c \in Readers |-> r]
    BY DEF ClientInit, r
  <2> QED BY <2>1, <2>2, <2>3, <2>4 DEF ClientInv, r
<1>2. ClientInv /\ [ClientNext]_clientVars => ClientInv'
  <2> SUFFICES ASSUME ClientInv, [ClientNext]_clientVars
               PROVE  ClientInv'
    OBVIOUS
  <2>1. ASSUME NEW c \in Readers, Cancel(c)
        PROVE  ClientInv'
    BY <2>1, EndsKeeps DEF Cancel, Finished
  <2>2. ASSUME NEW c \in Readers, NEW limited \in BOOLEAN, NoData(c, limited)
        PROVE  ClientInv'
    <3>1. Ends(c, "limited") \/ Ends(c, "failed")
      BY <2>2 DEF NoData
    <3> QED BY <2>2, <3>1, EndsKeeps DEF NoData, Finished
  <2>3. CASE UNCHANGED clientVars
    BY <2>3 DEF ClientInv, clientVars
  <2> QED BY <2>1, <2>2, <2>3, BeginKeeps, AskKeeps, RetryKeeps, FaultKeeps, LimitKeeps, FetchKeeps,
             TeamsKeeps, FilesKeeps, RulesKeeps, ListKeeps, TickKeeps DEF ClientNext, Answer
<1> QED BY <1>1, <1>2, PTL DEF ClientSpec

\* What a call reports as read it read whole, however GitHub cut its answers, in whatever order
\* the requests of several calls came back (github/github.go, teams.go, openprs.go).
THEOREM ReadsAreReadWhole ==
    ASSUME ClientAssumption
    PROVE  ClientSpec => []ReadsAreWhole
<1>1. ClientInv => ReadsAreWhole
  <2> SUFFICES ASSUME ClientInv
               PROVE  ReadsAreWhole
    OBVIOUS
  <2>1. ClientTypeOK
    BY DEF ClientInv, ClientTypeOK, ReadInv, Records
  <2>2. AskedIsAnswered
    BY DEF ClientInv, AskedIsAnswered, ReadInv, Batched, Good
  <2>3. TeamsAreWhole
    BY DEF ClientInv, TeamsAreWhole, ReadInv, Paged, Good
  <2>4. ListingIsWhole
    BY DEF ClientInv, ListingIsWhole, ReadInv, Listed
  <2> QED BY <2>1, <2>2, <2>3, <2>4 DEF ReadsAreWhole
<1> QED BY <1>1, ClientInvHolds, PTL

\* Only Ask sends a request of a call that waits for its turn.
LEMMA OnlyAskSends ==
    ASSUME ClientInv, ClientNext, NEW c \in Readers, reads[c].at = "ask", reads'[c].at = "out"
    PROVE  \E d \in Readers : Ask(d)
<1>1. reads \in [Readers -> Records]
  BY DEF ClientInv
<1>2. ASSUME NEW d \in Readers, NEW r, Becomes(d, r), reads[d].at # "ask"
      PROVE  FALSE
  <2>1. d # c /\ reads' = [reads EXCEPT ![d] = r]
    BY <1>2 DEF Becomes
  <2>2. reads'[c] = reads[c]
    BY <1>1, <2>1
  <2> QED BY <2>2
<1>3. ASSUME NEW d \in Readers, NEW kind \in Calls[d], Begin(d, kind)
      PROVE  FALSE
  <2>1. reads[d].at # "ask"
    BY <1>3 DEF Begin, Finished
  <2> QED BY <1>2, <1>3, <2>1 DEF Begin
<1>4. ASSUME NEW d \in Readers, Retry(d) \/ Fault(d) \/ Cancel(d) \/ Answer(d)
                                \/ (\E wait \in LimitWaits : Limit(d, wait))
                                \/ (\E limited \in BOOLEAN : NoData(d, limited))
      PROVE  FALSE
  <2>1. reads[d].at # "ask"
    BY <1>4 DEF Retry, Fault, Cancel, Answer, FetchAnswer, TeamsAnswer, FilesAnswer, RulesAnswer,
                ListAnswer, Limit, NoData
  <2>2. \E r : Becomes(d, r)
    <3>1. ASSUME Retry(d) \/ Fault(d) \/ Cancel(d) \/ (\E wait \in LimitWaits : Limit(d, wait))
                 \/ (\E limited \in BOOLEAN : NoData(d, limited))
          PROVE  \E r : Becomes(d, r)
      BY <3>1 DEF Retry, Fault, Cancel, Limit, NoData, Ends
    <3>2. ASSUME FetchAnswer(d) \/ TeamsAnswer(d)
          PROVE  \E r : Becomes(d, r)
      BY <3>2 DEF FetchAnswer, TeamsAnswer, Ends
    <3>3. ASSUME FilesAnswer(d) \/ RulesAnswer(d) \/ ListAnswer(d)
          PROVE  \E r : Becomes(d, r)
      BY <3>3 DEF FilesAnswer, RulesAnswer, ListAnswer, Ends
    <3> QED BY <1>4, <3>1, <3>2, <3>3 DEF Answer
  <2> QED BY <1>2, <2>1, <2>2
<1>5. ASSUME Tick
      PROVE  FALSE
  <2>1. reads'[c] = [reads[c] EXCEPT !.wake = Count(reads[c].wake)] /\ reads[c] \in Records
    BY <1>1, <1>5 DEF Tick
  <2> QED BY <2>1 DEF Records
<1> QED BY <1>3, <1>4, <1>5 DEF ClientNext

\* No request goes out while a wait that GitHub asked for lasts, whichever call was told, where
\* the calls share one runner's hold (github/http.go, backoff).
THEOREM NobodyAsksDuringAHold ==
    ASSUME ClientAssumption
    PROVE  ClientSpec => NothingAskedWhileHeld
<1>1. ClientInv /\ [ClientNext]_clientVars =>
         [\A c \in Readers :
             reads[c].at = "ask" /\ reads'[c].at = "out" /\ runner.name = "http" =>
                 github.told = 0]_clientVars
  <2> SUFFICES ASSUME ClientInv, ClientNext, NEW c \in Readers, reads[c].at = "ask",
                      reads'[c].at = "out", runner.name = "http"
               PROVE  github.told = 0
    OBVIOUS
  <2>1. ASSUME NEW d \in Readers, Ask(d)
        PROVE  github.told = 0
    <3>1. /\ github.told \in Nat /\ runner.hold \in Nat /\ github.told <= runner.hold
          /\ reads[d].kind \in CallKinds /\ reads \in [Readers -> Records]
      BY DEF ClientInv, Records
    <3>2. CASE runner.hold > 0
      <4>1. reads'[d] = [NewRead(reads[d].kind) EXCEPT !.at = "limited"] /\ \A e \in Readers \ {d} : reads'[e] = reads[e]
        BY <2>1, <3>1, <3>2 DEF Ask, Ends, Becomes
      <4>2. reads'[d].at = "limited"
        BY <4>1 DEF NewRead
      <4> QED BY <4>1, <4>2
    <3> QED BY <3>1, <3>2
  <2>2. \E d \in Readers : Ask(d)
    BY OnlyAskSends
  <2> QED BY <2>1, <2>2
<1> QED BY <1>1, ClientInvHolds, PTL DEF ClientSpec, NothingAskedWhileHeld

----------------------------------------------------------------------------
(* The rows of pull requests *)

\* What GitHub may say: an ending has its day.
Dated == {seen \in Observations : Ended(seen.state) => seen.ended > 0}

PRRows ==
    [tracked : BOOLEAN, state : States \cup {"none"}, head : Heads \cup {Nobody},
     base : Branches \cup {"none"}, check : Checks, ended : Nat, lapsed : BOOLEAN,
     stackedOn : PRs \cup {Nobody}, owners : {<<>>} \cup (Heads \X Branches),
     ownersHead : Heads \cup {Nobody}, announced : 0 .. MaxMoves, announceCount : 0 .. MaxMoves]

\* What the columns of a row owe one another, and the other rows.
RowIs(row, p, tracked, told) ==
    /\ row \in PRRows
    /\ row.stackedOn \in (tracked \ {p}) \cup {Nobody}
    /\ Ended(row.state) => row.ended > 0
    /\ row.announceCount <= told
    /\ row.announced # Nobody => row.announceCount > 0

\* A poll's memory.
Memory(at, answer, todo, owed) == [at |-> at, answer |-> answer, todo |-> todo, owed |-> owed]

\* What a poll has in hand is about rows that are there, and was at GitHub.
SyncIs(sync, tracked) ==
    /\ sync = Memory(sync.at, sync.answer, sync.todo, sync.owed)
    /\ sync.at \in {"idle", "chosen", "apply", "owners", "derived"}
    /\ DOMAIN sync.answer \subseteq tracked
    /\ \A p \in DOMAIN sync.answer : sync.answer[p] \in Dated
    /\ sync.todo \subseteq tracked
    /\ DOMAIN sync.owed \subseteq tracked
    /\ \A p \in DOMAIN sync.owed : sync.owed[p] \in Heads \cup {Nobody}
    /\ sync.at = "derived" => sync.todo \subseteq DOMAIN sync.answer \cap DOMAIN sync.owed

RowsHold == /\ prs \in [PRs -> PRRows]
            /\ \A p \in PRs : RowIs(prs[p], p, Tracked, moves)

PollsHold == /\ syncs = [s \in Pollers |-> syncs[s]]
             /\ \A s \in Pollers : SyncIs(syncs[s], Tracked)

\* Nothing is known of a pull request before it is tracked.
Untouched == \A p \in PRs : ~prs[p].tracked => prs[p].check = "none"

PRInv ==
    /\ hub \in [PRs -> Dated]
    /\ moves \in 0 .. MaxMoves
    /\ checkLog \in [PRs -> BOOLEAN]
    /\ RowsHold
    /\ PollsHold
    /\ LogKnowsWhatIsBroken
    /\ Untouched

LEMMA PRFacts ==
    ASSUME PullRequestsAssumption
    PROVE  /\ MaxMoves \in Nat /\ PRs \subseteq Nat /\ IsFiniteSet(PRs)
           /\ 1 \in Heads /\ Heads \subseteq Nat /\ Nobody = 0 /\ 0 \in 0 .. MaxMoves
           /\ \A p \in PRs : Branch[p] \in Branches
BY DEF PullRequestsAssumption, Heads, Nobody, Branches

LEMMA FreshRows ==
    ASSUME PullRequestsAssumption, NEW p \in PRs, NEW tracked, NEW told \in Nat
    PROVE  RowIs(NewPR, p, tracked, told) /\ RowIs(NoPR, p, tracked, told)
           /\ NewPR.tracked /\ ~NoPR.tracked /\ NoPR.check = "none" /\ NewPR.check = "none"
<1>1. NewPR \in PRRows
  <2>1. /\ "none" \in Checks /\ Nobody \in PRs \cup {Nobody} /\ Nobody \in 0 .. MaxMoves
        /\ 0 \in 0 .. MaxMoves
    BY PRFacts DEF Checks
  <2> QED BY <2>1 DEF NewPR, PRRows
<1>2. NewPR.state = "none" /\ NewPR.stackedOn = Nobody /\ NewPR.announced = Nobody
      /\ NewPR.announceCount = 0 /\ NewPR.tracked /\ NewPR.check = "none"
  BY DEF NewPR
<1>3. NoPR \in PRRows
  BY <1>1 DEF NoPR, PRRows
<1>4. NoPR.state = "none" /\ NoPR.stackedOn = Nobody /\ NoPR.announced = Nobody
      /\ NoPR.announceCount = 0 /\ ~NoPR.tracked /\ NoPR.check = "none"
  BY <1>1, <1>2 DEF NoPR, PRRows
<1> QED BY <1>1, <1>2, <1>3, <1>4 DEF RowIs, Ended

\* A poll that starts over.
LEMMA FreshSync ==
    ASSUME NEW at, NEW answer, NEW todo, NEW owed
    PROVE  /\ [NoSync EXCEPT !.at = at, !.todo = todo] = Memory(at, <<>>, todo, <<>>)
           /\ [NoSync EXCEPT !.at = at, !.answer = answer] = Memory(at, answer, {}, <<>>)
           /\ [NoSync EXCEPT !.at = at, !.owed = owed] = Memory(at, <<>>, {}, owed)
<1> DEFINE y == [NoSync EXCEPT !.at = at]
           idle == "idle"
           nothing == <<>>
           none == {}
<1>1. NoSync = Memory(idle, nothing, none, nothing)
  BY DEF NoSync, Memory
<1> HIDE DEF NoSync, idle, nothing, none
<1>2. y = Memory(at, nothing, none, nothing)
  BY <1>1 DEF Memory
<1>3. /\ [NoSync EXCEPT !.at = at, !.todo = todo] = [y EXCEPT !.todo = todo]
      /\ [NoSync EXCEPT !.at = at, !.answer = answer] = [y EXCEPT !.answer = answer]
      /\ [NoSync EXCEPT !.at = at, !.owed = owed] = [y EXCEPT !.owed = owed]
  BY DEF y
<1> HIDE DEF y
<1>4. [y EXCEPT !.todo = todo] = Memory(at, nothing, todo, nothing)
  BY <1>2 DEF Memory
<1>5. [y EXCEPT !.answer = answer] = Memory(at, answer, none, nothing)
  BY <1>2 DEF Memory
<1>6. [y EXCEPT !.owed = owed] = Memory(at, nothing, none, owed)
  BY <1>2 DEF Memory
<1> QED BY <1>3, <1>4, <1>5, <1>6 DEF nothing, none

LEMMA EmptySync ==
    ASSUME NEW tracked
    PROVE  SyncIs(NoSync, tracked)
<1>1. DOMAIN <<>> = {}
  OBVIOUS
<1>2. NoSync.at = "idle" /\ NoSync.answer = <<>> /\ NoSync.todo = {} /\ NoSync.owed = <<>>
  BY DEF NoSync
<1>3. NoSync = Memory(NoSync.at, NoSync.answer, NoSync.todo, NoSync.owed)
  BY DEF NoSync, Memory
<1>4. DOMAIN NoSync.answer = {} /\ DOMAIN NoSync.owed = {}
  BY <1>1, <1>2
<1> QED BY <1>2, <1>3, <1>4 DEF SyncIs

\* More rows, and more announcements, take nothing from a row or a poll.
LEMMA RowsGrow ==
    ASSUME NEW row, NEW p, NEW t, NEW u, t \subseteq u, NEW m \in Nat, NEW n \in Nat, m <= n,
           MaxMoves \in Nat, RowIs(row, p, t, m)
    PROVE  RowIs(row, p, u, n)
<1>1. row.announceCount \in Nat
  BY DEF RowIs, PRRows
<1> QED BY <1>1 DEF RowIs

LEMMA PollsGrow ==
    ASSUME NEW sync, NEW t, NEW u, t \subseteq u, SyncIs(sync, t)
    PROVE  SyncIs(sync, u)
BY DEF SyncIs

\* One row changes, and the others stay.
LEMMA OneRow ==
    ASSUME PullRequestsAssumption, PRInv, NEW p \in PRs, NEW row,
           prs' = [prs EXCEPT ![p] = row], moves' \in moves .. MaxMoves,
           prs[p].tracked => row.tracked,
           RowIs(row, p, Tracked', moves')
    PROVE  RowsHold' /\ Tracked \subseteq Tracked'
<1>1. MaxMoves \in Nat /\ moves \in Nat /\ moves' \in Nat /\ moves <= moves'
  BY PRFacts DEF PRInv
<1>2. prs \in [PRs -> PRRows] /\ row \in PRRows
  BY DEF PRInv, RowsHold, RowIs
<1>3. prs' \in [PRs -> PRRows] /\ prs'[p] = row /\ \A q \in PRs \ {p} : prs'[q] = prs[q]
  BY <1>2
<1>4. Tracked \subseteq Tracked'
  BY <1>3 DEF Tracked
<1>5. ASSUME NEW q \in PRs \ {p}
      PROVE  RowIs(prs'[q], q, Tracked', moves')
  <2>1. RowIs(prs[q], q, Tracked, moves)
    BY DEF PRInv, RowsHold
  <2> QED BY <1>1, <1>3, <1>4, <2>1, RowsGrow
<1>6. \A q \in PRs : RowIs(prs'[q], q, Tracked', moves')
  BY <1>3, <1>5
<1> QED BY <1>3, <1>4, <1>6 DEF RowsHold

LEMMA PollsStay ==
    ASSUME PRInv, Tracked \subseteq Tracked', UNCHANGED syncs
    PROVE  PollsHold'
<1>1. \A s \in Pollers : SyncIs(syncs[s], Tracked)
  BY DEF PRInv, PollsHold
<1>2. \A s \in Pollers : SyncIs(syncs[s], Tracked')
  BY <1>1, PollsGrow, Zenon
<1> QED BY <1>2 DEF PRInv, PollsHold

\* One poll goes on, and the others stay.
LEMMA OnePoll ==
    ASSUME PRInv, Tracked \subseteq Tracked', NEW s \in Pollers, NEW sync,
           syncs' = [syncs EXCEPT ![s] = sync], SyncIs(sync, Tracked')
    PROVE  PollsHold'
<1>1. syncs' = [t \in Pollers |-> IF t = s THEN sync ELSE syncs[t]]
  BY DEF PRInv, PollsHold
<1>2. \A t \in Pollers : SyncIs(syncs[t], Tracked')
  <2>1. \A t \in Pollers : SyncIs(syncs[t], Tracked)
    BY DEF PRInv, PollsHold
  <2> QED BY <2>1, PollsGrow, Zenon
<1>3. \A t \in Pollers : SyncIs(syncs'[t], Tracked')
  BY <1>1, <1>2
<1>4. syncs' = [t \in Pollers |-> syncs'[t]]
  BY <1>1
<1> QED BY <1>3, <1>4 DEF PollsHold

LEMMA RowsStay ==
    ASSUME PullRequestsAssumption, PRInv, UNCHANGED prs, moves' \in moves .. MaxMoves
    PROVE  RowsHold' /\ Tracked' = Tracked
<1>1. Tracked' = Tracked
  BY DEF Tracked
<1>2. MaxMoves \in Nat /\ moves \in Nat /\ moves' \in Nat /\ moves <= moves'
  BY PRFacts DEF PRInv
<1>3. \A p \in PRs : RowIs(prs[p], p, Tracked, moves)
  BY DEF PRInv, RowsHold
<1>4. \A p \in PRs : RowIs(prs[p], p, Tracked, moves')
  BY <1>2, <1>3, RowsGrow
<1> QED BY <1>1, <1>4 DEF PRInv, RowsHold

\* GitHub moves: what it holds is one of what it may hold.
LEMMA MovesKeep ==
    ASSUME PullRequestsAssumption, PRInv, NEW p \in PRs, NEW to \in Dated, Move(p, to)
    PROVE  PRInv'
<1>1. hub' \in [PRs -> Dated]
  BY DEF Move, PRInv
<1>2. moves' \in 0 .. MaxMoves /\ moves' \in moves .. MaxMoves
  BY PRFacts DEF Move, PRInv
<1>3. RowsHold' /\ Tracked' = Tracked
  BY <1>2, RowsStay DEF Move
<1>4. PollsHold'
  BY <1>3, PollsStay DEF Move
<1> QED BY <1>1, <1>2, <1>3, <1>4 DEF Move, PRInv, LogKnowsWhatIsBroken, Untouched

LEMMA GitHubKeeps ==
    ASSUME PullRequestsAssumption, PRInv, NEW p \in PRs,
           \/ PushHead(p) \/ Reopen(p)
           \/ \E base \in Branches : Retarget(p, base)
           \/ \E check \in Checks : Report(p, check)
           \/ \E state \in {"merged", "closed"} : End(p, state)
    PROVE  PRInv'
<1>1. hub[p] \in Dated
  BY DEF PRInv
<1>2. CASE PushHead(p)
  <2>1. [hub[p] EXCEPT !.head = hub[p].head + 1, !.check = "none"] \in Dated
    BY <1>1, <1>2 DEF PushHead, Ended, Dated, Observations, Checks
  <2> QED BY <1>2, <2>1, MovesKeep DEF PushHead
<1>3. CASE Reopen(p)
  <2>1. [hub[p] EXCEPT !.state = "open"] \in Dated
    BY <1>1 DEF Dated, Observations, States, Ended
  <2> QED BY <1>3, <2>1, MovesKeep DEF Reopen
<1>4. ASSUME NEW base \in Branches, Retarget(p, base)
      PROVE  PRInv'
  <2>1. [hub[p] EXCEPT !.base = base] \in Dated
    BY <1>1 DEF Dated, Observations
  <2> QED BY <1>4, <2>1, MovesKeep DEF Retarget
<1>5. ASSUME NEW check \in Checks, Report(p, check)
      PROVE  PRInv'
  <2>1. [hub[p] EXCEPT !.check = check] \in Dated
    BY <1>1 DEF Dated, Observations
  <2> QED BY <1>5, <2>1, MovesKeep DEF Report
<1>6. ASSUME NEW state \in {"merged", "closed"}, End(p, state)
      PROVE  PRInv'
  <2> DEFINE over == [hub[p] EXCEPT !.state = state]
             to == [over EXCEPT !.ended = hub[p].ended + 1]
  <2>0. over \in Observations /\ hub[p].ended \in Nat
    BY <1>1 DEF Dated, Observations, States
  <2> HIDE DEF over
  <2>1. to \in Dated
    BY <2>0 DEF Dated, Observations
  <2>2. Move(p, to)
    BY <1>6 DEF End, over
  <2> HIDE DEF to
  <2> QED BY <2>1, <2>2, MovesKeep
<1> QED BY <1>2, <1>3, <1>4, <1>5, <1>6

\* A command or the clock writes one row, and leaves the check alone.
LEMMA RowKeeps ==
    ASSUME PullRequestsAssumption, PRInv, NEW p \in PRs, NEW row,
           prs' = [prs EXCEPT ![p] = row], moves' \in moves .. MaxMoves,
           prs[p].tracked => row.tracked, row.check = prs[p].check,
           RowIs(row, p, Tracked', moves'), UNCHANGED <<hub, checkLog, syncs>>
    PROVE  PRInv'
<1>1. RowsHold' /\ Tracked \subseteq Tracked'
  BY OneRow
<1>2. PollsHold'
  BY <1>1, PollsStay
<1>3. prs \in [PRs -> PRRows]
  BY DEF PRInv, RowsHold
<1>4. \A q \in PRs : prs'[q].check = prs[q].check
  BY <1>3
<1>5. moves' \in 0 .. MaxMoves
  BY PRFacts DEF PRInv
<1>6. LogKnowsWhatIsBroken'
  BY <1>4 DEF PRInv, LogKnowsWhatIsBroken
<1>7. Untouched'
  <2>1. \A q \in PRs : prs[q].tracked => prs'[q].tracked
    BY <1>3
  <2> QED BY <1>4, <2>1 DEF PRInv, Untouched
<1> QED BY <1>1, <1>2, <1>5, <1>6, <1>7 DEF PRInv

LEMMA CommandsKeep ==
    ASSUME PullRequestsAssumption, PRInv, NEW p \in PRs,
           \/ WindowPasses(p) \/ TrackPR(p)
           \/ \E at \in 1..MaxMoves : Announce(p, at)
    PROVE  PRInv'
<1>1. /\ RowIs(prs[p], p, Tracked, moves) /\ prs[p] \in PRRows
      /\ prs \in [PRs -> PRRows] /\ MaxMoves \in Nat /\ moves \in Nat /\ moves \in moves .. MaxMoves
  BY PRFacts DEF PRInv, RowsHold
<1>2. CASE WindowPasses(p)
  <2> DEFINE row == [prs[p] EXCEPT !.lapsed = TRUE]
  <2>1. prs' = [prs EXCEPT ![p] = row] /\ UNCHANGED <<hub, checkLog, syncs, moves>>
    BY <1>2 DEF WindowPasses
  <2>2. /\ row \in PRRows /\ row.tracked = prs[p].tracked /\ row.check = prs[p].check
        /\ row.stackedOn = prs[p].stackedOn /\ row.state = prs[p].state /\ row.ended = prs[p].ended
        /\ row.announceCount = prs[p].announceCount /\ row.announced = prs[p].announced
    BY <1>1 DEF PRRows
  <2> HIDE DEF row
  <2>3. Tracked' = Tracked
    BY <1>1, <2>1, <2>2 DEF Tracked
  <2>4. RowIs(row, p, Tracked', moves')
    BY <1>1, <2>1, <2>2, <2>3 DEF RowIs
  <2> QED BY <1>1, <2>1, <2>2, <2>4, RowKeeps
<1>3. CASE TrackPR(p)
  <2>1. prs' = [prs EXCEPT ![p] = NewPR] /\ UNCHANGED <<hub, checkLog, syncs, moves>> /\ ~prs[p].tracked
    BY <1>3 DEF TrackPR
  <2>2. RowIs(NewPR, p, Tracked', moves') /\ NewPR.check = "none"
    BY <1>1, <2>1, FreshRows
  <2>3. RowsHold' /\ Tracked \subseteq Tracked'
    BY <1>1, <2>1, <2>2, OneRow
  <2>4. PollsHold'
    BY <2>1, <2>3, PollsStay
  <2>5. prs[p].check = "none"
    BY <2>1 DEF PRInv, Untouched
  <2>6. LogKnowsWhatIsBroken'
    <3>1. \A q \in PRs : prs'[q].check = prs[q].check
      BY <1>1, <2>1, <2>2, <2>5
    <3> QED BY <2>1, <3>1 DEF PRInv, LogKnowsWhatIsBroken
  <2>7. Untouched'
    BY <1>1, <2>1, <2>2 DEF PRInv, Untouched
  <2> QED BY <2>1, <2>3, <2>4, <2>6, <2>7 DEF PRInv
<1>4. ASSUME NEW at \in 1..MaxMoves, Announce(p, at)
      PROVE  PRInv'
  <2> DEFINE count == IF prs[p].announced = at THEN prs[p].announceCount ELSE prs[p].announceCount + 1
             row == [prs[p] EXCEPT !.announced = at, !.announceCount = count]
  <2>1. /\ prs' = [prs EXCEPT ![p] = row] /\ UNCHANGED <<hub, checkLog, syncs>>
        /\ moves < MaxMoves /\ moves' = moves + 1
    BY <1>4 DEF Announce, Announced
  <2>2. /\ prs[p].announceCount \in Nat /\ prs[p].announceCount <= moves
        /\ prs[p].announced # Nobody => prs[p].announceCount > 0
    BY <1>1 DEF RowIs, PRRows
  <2>3. count \in Nat /\ count <= moves + 1 /\ count > 0 /\ count \in 0 .. MaxMoves /\ at \in 0 .. MaxMoves
    <3>1. at \in Nat /\ at > 0 /\ at <= MaxMoves
      BY <1>1
    <3> QED BY <1>1, <2>1, <2>2, <3>1 DEF Nobody
  <2> HIDE DEF count
  <2>4. /\ row \in PRRows /\ row.tracked = prs[p].tracked /\ row.check = prs[p].check
        /\ row.stackedOn = prs[p].stackedOn /\ row.state = prs[p].state /\ row.ended = prs[p].ended
        /\ row.announceCount = count /\ row.announced = at
    BY <1>1, <2>3 DEF PRRows
  <2> HIDE DEF row
  <2>5. Tracked' = Tracked
    BY <1>1, <2>1, <2>4 DEF Tracked
  <2>6. RowIs(row, p, Tracked', moves')
    BY <1>1, <2>1, <2>3, <2>4, <2>5 DEF RowIs
  <2>7. moves' \in moves .. MaxMoves
    BY <1>1, <2>1
  <2> QED BY <2>1, <2>4, <2>6, <2>7, RowKeeps
<1> QED BY <1>2, <1>3, <1>4

\* A poll takes a step that writes no row.
LEMMA PollKeeps ==
    ASSUME PullRequestsAssumption, PRInv, NEW s \in Pollers, NEW sync,
           syncs' = [syncs EXCEPT ![s] = sync], SyncIs(sync, Tracked),
           UNCHANGED <<hub, prs, checkLog, moves>>
    PROVE  PRInv'
<1>1. moves' \in moves .. MaxMoves
  BY PRFacts DEF PRInv
<1>2. RowsHold' /\ Tracked' = Tracked
  BY <1>1, RowsStay
<1>3. PollsHold'
  BY <1>2, OnePoll
<1> QED BY <1>2, <1>3 DEF PRInv, LogKnowsWhatIsBroken, Untouched

LEMMA PollingKeeps ==
    ASSUME PullRequestsAssumption, PRInv, NEW s \in Pollers,
           \/ PRsToPoll(s) \/ ListForOwners(s) \/ SyncStops(s)
           \/ \E seen \in SUBSET Tracked : ReadPRs(s, seen)
           \/ \E p \in PRs : DeriveOwners(s, p) \/ OwnersUnreadable(s, p)
    PROVE  PRInv'
<1> DEFINE y == syncs[s]
<1>1. /\ SyncIs(y, Tracked) /\ hub \in [PRs -> Dated] /\ Tracked \subseteq PRs
      /\ prs \in [PRs -> PRRows]
  BY DEF PRInv, PollsHold, RowsHold, Tracked
<1>2. DOMAIN <<>> = {}
  OBVIOUS
<1>3. CASE SyncStops(s)
  BY <1>3, EmptySync, PollKeeps DEF SyncStops
<1>4. CASE PRsToPoll(s)
  <2> DEFINE z == Memory("chosen", <<>>, {p \in Tracked : ToPoll(p)}, <<>>)
  <2>1. syncs' = [syncs EXCEPT ![s] = z]
    BY FreshSync, <1>4 DEF PRsToPoll
  <2>2. SyncIs(z, Tracked)
    BY <1>2 DEF SyncIs, Memory
  <2> HIDE DEF z
  <2> QED BY <1>4, <2>1, <2>2, PollKeeps DEF PRsToPoll
<1>5. ASSUME NEW seen \in SUBSET Tracked, ReadPRs(s, seen)
      PROVE  PRInv'
  <2> DEFINE z == Memory("apply", [p \in seen |-> hub[p]], {}, <<>>)
  <2>1. syncs' = [syncs EXCEPT ![s] = z]
    BY FreshSync, <1>5 DEF ReadPRs
  <2>2. SyncIs(z, Tracked)
    BY <1>1, <1>2 DEF SyncIs, Memory
  <2> HIDE DEF z
  <2> QED BY <1>5, <2>1, <2>2, PollKeeps DEF ReadPRs
<1>6. CASE ListForOwners(s)
  <2> DEFINE owed == [p \in {q \in Tracked : prs[q].state = "open" /\ HeadMoved(prs[q])} |-> prs[p].head]
             z == Memory("owners", <<>>, {}, owed)
  <2>1. syncs' = [syncs EXCEPT ![s] = z]
    <3>1. [NoSync EXCEPT !.at = "owners", !.owed = owed] = z
      BY FreshSync, Zenon
    <3>2. syncs' = [syncs EXCEPT ![s] = [NoSync EXCEPT !.at = "owners", !.owed = owed]]
      BY <1>6 DEF ListForOwners
    <3> HIDE DEF owed, z
    <3> QED BY <3>1, <3>2
  <2>2. DOMAIN owed \subseteq Tracked /\ \A p \in DOMAIN owed : owed[p] \in Heads \cup {Nobody}
    BY <1>1 DEF PRRows
  <2> HIDE DEF owed
  <2>3. SyncIs(z, Tracked)
    BY <1>2, <2>2 DEF SyncIs, Memory
  <2> HIDE DEF z
  <2> QED BY <1>6, <2>1, <2>3, PollKeeps DEF ListForOwners
<1>7. ASSUME NEW p \in PRs, DeriveOwners(s, p)
      PROVE  PRInv'
  <2> DEFINE z == Memory("derived", [q \in {p} |-> hub[q]], {p}, y.owed)
  <2>1. p \in DOMAIN y.owed /\ p \in Tracked
    BY <1>1, <1>7 DEF DeriveOwners, SyncIs
  <2>2. syncs' = [syncs EXCEPT ![s] = z]
    <3>1. y = Memory(y.at, y.answer, y.todo, y.owed)
      BY <1>1 DEF SyncIs
    <3>2. [y EXCEPT !.at = "derived", !.todo = {p}, !.answer = [q \in {p} |-> hub[q]]] = z
      <4> DEFINE read == [q \in {p} |-> hub[q]]
                 y1 == [y EXCEPT !.at = "derived"]
                 y2 == [y1 EXCEPT !.todo = {p}]
      <4> HIDE DEF y
      <4>1. [y EXCEPT !.at = "derived", !.todo = {p}, !.answer = read] = [y2 EXCEPT !.answer = read]
        BY DEF y1, y2
      <4> HIDE DEF read
      <4>2. y1 = Memory("derived", y.answer, y.todo, y.owed)
        BY <3>1 DEF Memory
      <4> HIDE DEF y1
      <4>3. y2 = Memory("derived", y.answer, {p}, y.owed)
        BY <4>2 DEF Memory
      <4> HIDE DEF y2
      <4>4. [y2 EXCEPT !.answer = read] = Memory("derived", read, {p}, y.owed)
        BY <4>3 DEF Memory
      <4> QED BY <4>1, <4>4 DEF read
    <3>3. syncs' = [syncs EXCEPT ![s] = [y EXCEPT !.at = "derived", !.todo = {p},
                                                  !.answer = [q \in {p} |-> hub[q]]]]
      BY <1>7 DEF DeriveOwners, PRInv, PollsHold
    <3> QED BY <3>2, <3>3
  <2>3. SyncIs(z, Tracked)
    BY <1>1, <2>1 DEF SyncIs, Memory
  <2> HIDE DEF z
  <2> QED BY <1>7, <2>2, <2>3, PollKeeps DEF DeriveOwners
<1>8. ASSUME NEW p \in PRs, OwnersUnreadable(s, p)
      PROVE  PRInv'
  <2> DEFINE z == Memory(y.at, y.answer, y.todo, [q \in DOMAIN y.owed \ {p} |-> y.owed[q]])
  <2>1. syncs' = [syncs EXCEPT ![s] = z]
    <3>1. y = Memory(y.at, y.answer, y.todo, y.owed)
      BY <1>1 DEF SyncIs
    <3>2. [y EXCEPT !.owed = [q \in DOMAIN y.owed \ {p} |-> y.owed[q]]] = z
      <4> DEFINE owed == [q \in DOMAIN y.owed \ {p} |-> y.owed[q]]
      <4> HIDE DEF y, owed
      <4>1. [y EXCEPT !.owed = owed] = Memory(y.at, y.answer, y.todo, owed)
        BY <3>1 DEF Memory
      <4> QED BY <4>1 DEF owed
    <3>3. syncs' = [syncs EXCEPT ![s] = [y EXCEPT !.owed = [q \in DOMAIN y.owed \ {p} |-> y.owed[q]]]]
      BY <1>8 DEF OwnersUnreadable
    <3> QED BY <3>2, <3>3
  <2>2. y.at = "owners"
    BY <1>8 DEF OwnersUnreadable, At
  <2>3. SyncIs(z, Tracked)
    BY <1>1, <2>2 DEF SyncIs, Memory
  <2> HIDE DEF z
  <2> QED BY <1>8, <2>1, <2>3, PollKeeps DEF OwnersUnreadable
<1> QED BY <1>3, <1>4, <1>5, <1>6, <1>7, <1>8

\* An observation is applied: the row is GitHub's word, and the log hears of it.
LEMMA ApplyKeeps ==
    ASSUME PullRequestsAssumption, PRInv, NEW s \in Pollers, NEW p \in PRs, ApplyOne(s, p)
    PROVE  PRInv'
<1> DEFINE y == syncs[s]
           seen == y.answer[p]
           merged == Merge(prs[p], seen)
           row == [merged EXCEPT !.check = seen.check]
           rest == [q \in DOMAIN y.answer \ {p} |-> y.answer[q]]
<1>1. /\ SyncIs(y, Tracked) /\ p \in DOMAIN y.answer /\ y.at = "apply"
      /\ prs' = [prs EXCEPT ![p] = row]
      /\ checkLog' = [checkLog EXCEPT ![p] = Logged(prs[p].check, seen.check, checkLog[p])]
      /\ syncs' = [syncs EXCEPT ![s] = [y EXCEPT !.answer = rest]]
      /\ UNCHANGED <<hub, moves>>
  BY DEF ApplyOne, At, PRInv, PollsHold
<1>2. seen \in Dated /\ p \in Tracked
  BY <1>1 DEF SyncIs
<1>3. /\ RowIs(prs[p], p, Tracked, moves) /\ prs[p] \in PRRows /\ prs \in [PRs -> PRRows]
      /\ prs[p].tracked
  BY <1>2 DEF PRInv, RowsHold, Tracked
<1>4. moves' \in moves .. MaxMoves /\ moves \in Nat /\ MaxMoves \in Nat
  BY <1>1, PRFacts DEF PRInv
<1> HIDE DEF seen
<1>5. /\ merged \in PRRows /\ merged.tracked = prs[p].tracked /\ merged.state = seen.state
      /\ merged.stackedOn = prs[p].stackedOn /\ merged.announceCount = prs[p].announceCount
      /\ merged.announced = prs[p].announced /\ (Ended(seen.state) => merged.ended > 0)
  <2> DEFINE day == DayOf(prs[p], seen)
             same == prs[p].lapsed /\ day = prs[p].ended
             r1 == [prs[p] EXCEPT !.state = seen.state]
             r2 == [r1 EXCEPT !.head = seen.head]
             r3 == [r2 EXCEPT !.base = seen.base]
             r4 == [r3 EXCEPT !.ended = day]
             r5 == [r4 EXCEPT !.lapsed = same]
  <2>1. merged = r5
    BY DEF Merge
  <2>2. /\ day \in Nat /\ seen.state \in States /\ seen.head \in Heads /\ seen.base \in Branches
        /\ (Ended(seen.state) => day > 0) /\ same \in BOOLEAN
    BY <1>2, <1>3 DEF Dated, Observations, Ended, PRRows, DayOf
  <2> HIDE DEF day, same
  <2>3. /\ r1 \in PRRows /\ r1.tracked = prs[p].tracked /\ r1.state = seen.state
        /\ r1.stackedOn = prs[p].stackedOn /\ r1.announceCount = prs[p].announceCount
        /\ r1.announced = prs[p].announced
    BY <1>3, <2>2 DEF PRRows
  <2> HIDE DEF r1
  <2>4. /\ r2 \in PRRows /\ r2.tracked = r1.tracked /\ r2.state = r1.state
        /\ r2.stackedOn = r1.stackedOn /\ r2.announceCount = r1.announceCount
        /\ r2.announced = r1.announced
    BY <2>2, <2>3 DEF PRRows
  <2> HIDE DEF r2
  <2>5. /\ r3 \in PRRows /\ r3.tracked = r2.tracked /\ r3.state = r2.state
        /\ r3.stackedOn = r2.stackedOn /\ r3.announceCount = r2.announceCount
        /\ r3.announced = r2.announced
    BY <2>2, <2>4 DEF PRRows
  <2> HIDE DEF r3
  <2>6. /\ r4 \in PRRows /\ r4.tracked = r3.tracked /\ r4.state = r3.state
        /\ r4.stackedOn = r3.stackedOn /\ r4.announceCount = r3.announceCount
        /\ r4.announced = r3.announced /\ r4.ended = day
    BY <2>2, <2>5 DEF PRRows
  <2> HIDE DEF r4
  <2>7. /\ r5 \in PRRows /\ r5.tracked = r4.tracked /\ r5.state = r4.state
        /\ r5.stackedOn = r4.stackedOn /\ r5.announceCount = r4.announceCount
        /\ r5.announced = r4.announced /\ r5.ended = r4.ended
    BY <2>2, <2>6 DEF PRRows
  <2> HIDE DEF r5
  <2> QED BY <2>1, <2>2, <2>3, <2>4, <2>5, <2>6, <2>7
<1> HIDE DEF merged
<1>6. /\ row \in PRRows /\ row.tracked = merged.tracked /\ row.state = merged.state
      /\ row.stackedOn = merged.stackedOn /\ row.announceCount = merged.announceCount
      /\ row.announced = merged.announced /\ row.ended = merged.ended /\ row.check = seen.check
  BY <1>2, <1>5 DEF PRRows, Dated, Observations
<1> HIDE DEF row
<1>7. Tracked' = Tracked
  BY <1>1, <1>3, <1>5, <1>6 DEF Tracked
<1>8. RowIs(row, p, Tracked', moves')
  BY <1>1, <1>3, <1>5, <1>6, <1>7 DEF RowIs
<1>9. RowsHold'
  BY <1>1, <1>3, <1>4, <1>5, <1>6, <1>8, OneRow
<1>10. PollsHold'
  <2> DEFINE z == Memory(y.at, rest, y.todo, y.owed)
  <2>1. [y EXCEPT !.answer = rest] = z
    <3>1. y = Memory(y.at, y.answer, y.todo, y.owed)
      BY <1>1 DEF SyncIs
    <3> HIDE DEF y, rest
    <3> QED BY <3>1 DEF Memory
  <2>2. DOMAIN rest \subseteq Tracked /\ \A q \in DOMAIN rest : rest[q] \in Dated
    BY <1>1 DEF SyncIs
  <2> HIDE DEF rest
  <2>3. SyncIs(z, Tracked)
    BY <1>1, <2>2 DEF SyncIs, Memory
  <2> HIDE DEF z, y
  <2> QED BY <1>1, <1>7, <2>1, <2>3, OnePoll
<1>11. LogKnowsWhatIsBroken'
  <2>1. checkLog \in [PRs -> BOOLEAN] /\ \A q \in PRs : checkLog[q] = IsBroken(prs[q].check)
    BY DEF PRInv, LogKnowsWhatIsBroken
  <2>2. checkLog'[p] = Logged(prs[p].check, seen.check, checkLog[p]) /\ prs'[p] = row
    BY <1>1, <1>3, <2>1
  <2>3. checkLog'[p] = IsBroken(prs'[p].check)
    BY <1>6, <2>1, <2>2 DEF Logged, IsBroken
  <2>4. \A q \in PRs \ {p} : checkLog'[q] = checkLog[q] /\ prs'[q] = prs[q]
    BY <1>1, <1>3, <2>1
  <2> QED BY <2>1, <2>3, <2>4 DEF LogKnowsWhatIsBroken
<1>12. checkLog' \in [PRs -> BOOLEAN]
  <2>1. Logged(prs[p].check, seen.check, checkLog[p]) \in BOOLEAN
    BY DEF Logged, IsBroken, PRInv
  <2> QED BY <1>1, <2>1 DEF PRInv
<1>13. Untouched'
  BY <1>1, <1>3, <1>5, <1>6 DEF PRInv, Untouched
<1> HIDE DEF y, rest
<1> QED BY <1>1, <1>9, <1>10, <1>11, <1>12, <1>13 DEF PRInv

\* Owners are written under the head of the listing.
LEMMA RecordKeeps ==
    ASSUME PullRequestsAssumption, PRInv, NEW s \in Pollers, RecordOwners(s)
    PROVE  PRInv'
<1> DEFINE y == syncs[s]
<1>1. SyncIs(y, Tracked) /\ y.at = "derived" /\ UNCHANGED <<hub, checkLog, moves>>
  BY DEF RecordOwners, At, PRInv, PollsHold
<1>2. PICK p \in y.todo :
        /\ prs' = [prs EXCEPT ![p].owners = <<y.answer[p].head, y.answer[p].base>>,
                              ![p].ownersHead = y.owed[p]]
        /\ syncs' = [syncs EXCEPT ![s] =
                [NoSync EXCEPT !.at = "owners",
                               !.owed = [q \in DOMAIN y.owed \ {p} |-> y.owed[q]]]]
  BY DEF RecordOwners
<1>3. p \in Tracked /\ p \in PRs /\ y.answer[p] \in Dated /\ y.owed[p] \in Heads \cup {Nobody}
  BY <1>1, <1>2 DEF SyncIs, Tracked
<1>4. /\ RowIs(prs[p], p, Tracked, moves) /\ prs[p] \in PRRows /\ prs \in [PRs -> PRRows]
  BY <1>3 DEF PRInv, RowsHold
<1> DEFINE needs == <<y.answer[p].head, y.answer[p].base>>
           row1 == [prs[p] EXCEPT !.owners = needs]
           row == [row1 EXCEPT !.ownersHead = y.owed[p]]
           rest == [q \in DOMAIN y.owed \ {p} |-> y.owed[q]]
           z == Memory("owners", <<>>, {}, rest)
<1>5. needs \in Heads \X Branches
  BY <1>3 DEF Dated, Observations
<1>6. prs' = [prs EXCEPT ![p] = row]
  BY <1>2, <1>3, <1>4
<1>7. syncs' = [syncs EXCEPT ![s] = z]
  <2>1. syncs' = [syncs EXCEPT ![s] = [NoSync EXCEPT !.at = "owners", !.owed = rest]]
    BY <1>2
  <2> HIDE DEF rest
  <2> QED BY <2>1, FreshSync
<1> HIDE DEF needs
<1>8. /\ row1 \in PRRows /\ row1.tracked = prs[p].tracked /\ row1.state = prs[p].state
      /\ row1.stackedOn = prs[p].stackedOn /\ row1.announceCount = prs[p].announceCount
      /\ row1.announced = prs[p].announced /\ row1.check = prs[p].check
      /\ row1.ended = prs[p].ended
  BY <1>4, <1>5 DEF PRRows
<1> HIDE DEF row1
<1>9. /\ row \in PRRows /\ row.tracked = row1.tracked /\ row.state = row1.state
      /\ row.stackedOn = row1.stackedOn /\ row.announceCount = row1.announceCount
      /\ row.announced = row1.announced /\ row.check = row1.check /\ row.ended = row1.ended
  BY <1>3, <1>8 DEF PRRows
<1> HIDE DEF row
<1>10. moves' \in moves .. MaxMoves
  BY <1>1, PRFacts DEF PRInv
<1>11. Tracked' = Tracked
  BY <1>4, <1>6, <1>8, <1>9 DEF Tracked
<1>12. RowIs(row, p, Tracked', moves')
  BY <1>1, <1>4, <1>8, <1>9, <1>11 DEF RowIs
<1>13. RowsHold'
  BY <1>3, <1>6, <1>8, <1>9, <1>10, <1>12, OneRow
<1>14. DOMAIN rest \subseteq Tracked /\ \A q \in DOMAIN rest : rest[q] \in Heads \cup {Nobody}
  BY <1>1 DEF SyncIs
<1> HIDE DEF rest
<1>15. SyncIs(z, Tracked)
  <2>1. DOMAIN <<>> = {}
    OBVIOUS
  <2> QED BY <1>14, <2>1 DEF SyncIs, Memory
<1> HIDE DEF z
<1>16. PollsHold'
  BY <1>7, <1>11, <1>15, OnePoll
<1>17. \A q \in PRs : prs'[q].check = prs[q].check /\ prs'[q].tracked = prs[q].tracked
  BY <1>4, <1>6, <1>8, <1>9
<1> HIDE DEF y
<1> QED BY <1>1, <1>13, <1>16, <1>17 DEF PRInv, LogKnowsWhatIsBroken, Untouched

\* A set of numbers that has a member and an end has a last one.
LEMMA NewestIsOne ==
    ASSUME NEW S, IsFiniteSet(S), S \subseteq Nat, S # {}
    PROVE  Newest(S) \in S
<1> DEFINE upTo(p) == {q \in S : q <= p}
<1>1. \A p \in S : IsFiniteSet(upTo(p)) /\ Cardinality(upTo(p)) \in 0 .. Cardinality(S)
  <2>1. TAKE p \in S
  <2>2. upTo(p) \in SUBSET S
    OBVIOUS
  <2> HIDE DEF upTo
  <2>3. IsFiniteSet(upTo(p)) /\ Cardinality(upTo(p)) <= Cardinality(S)
    BY <2>2, FS_Subset
  <2>4. Cardinality(upTo(p)) \in Nat /\ Cardinality(S) \in Nat
    BY <2>3, FS_CardinalityType
  <2> QED BY <2>3, <2>4
<1>2. PICK m \in S : \A p \in S : Cardinality(upTo(p)) <= Cardinality(upTo(m))
  <2> DEFINE f == [p \in S |-> Cardinality(upTo(p))]
  <2>1. Cardinality(S) \in Nat
    BY FS_CardinalityType
  <2>2. f \in [S -> 0 .. Cardinality(S)]
    <3> HIDE DEF upTo
    <3> QED BY <1>1
  <2> HIDE DEF f
  <2>3. \E n \in S : \A p \in S : f[p] <= f[n]
    BY <2>1, <2>2, GreatestValue
  <2> HIDE DEF upTo
  <2> QED BY <2>3 DEF f
<1>3. ASSUME NEW q \in S, ~(q <= m)
      PROVE  FALSE
  <2>0. /\ q \in Nat /\ m \in Nat /\ m < q
        /\ \A r \in S : r \in Nat /\ (r <= m => r <= q)
    BY <1>3
  <2>1. upTo(m) \cup {q} \in SUBSET upTo(q) /\ q \notin upTo(m)
    <3>1. q \in upTo(q) /\ q \notin upTo(m)
      BY <1>3, <2>0
    <3>2. \A r \in upTo(m) : r \in upTo(q)
      BY <2>0
    <3> QED BY <3>1, <3>2
  <2> HIDE DEF upTo
  <2>2. Cardinality(upTo(m) \cup {q}) = Cardinality(upTo(m)) + 1
    BY <1>1, <2>1, FS_AddElement
  <2>3. Cardinality(upTo(m) \cup {q}) <= Cardinality(upTo(q))
    BY <1>1, <2>1, FS_Subset
  <2> QED BY <1>1, <1>2, <2>2, <2>3
<1>4. \E n \in S : \A q \in S : q <= n
  BY <1>3
<1> QED BY <1>4 DEF Newest

\* A parent is another row that is tracked.
LEMMA ParentIsTracked ==
    ASSUME PullRequestsAssumption, NEW p \in PRs
    PROVE  Parent(p) \in (Tracked \ {p}) \cup {Nobody}
<1> DEFINE named == HeadsNamed(prs[p].base)
<1>1. named \subseteq Tracked /\ named \subseteq PRs
  BY DEF HeadsNamed, Tracked
<1>2. IsFiniteSet(named) /\ named \subseteq Nat
  BY <1>1, PRFacts, FS_Subset
<1> HIDE DEF named
<1>3. named # {} => Newest(named) \in Tracked
  BY <1>1, <1>2, NewestIsOne
<1>4. Parent(p) = IF named = {} THEN Nobody ELSE IF Newest(named) = p THEN Nobody ELSE Newest(named)
  BY DEF Parent, named
<1> QED BY <1>3, <1>4

\* Stacking writes one column of every row.
LEMMA StackingKeeps ==
    ASSUME PullRequestsAssumption, PRInv, NEW s \in Pollers, ResolveStacking(s)
    PROVE  PRInv'
<1>1. /\ prs' = [p \in PRs |-> IF p \in Tracked THEN [prs[p] EXCEPT !.stackedOn = StackedOn(p)]
                               ELSE prs[p]]
      /\ syncs' = [syncs EXCEPT ![s] = NoSync] /\ UNCHANGED <<hub, checkLog, moves>>
  BY DEF ResolveStacking
<1>2. prs \in [PRs -> PRRows] /\ \A p \in PRs : RowIs(prs[p], p, Tracked, moves)
  BY DEF PRInv, RowsHold
<1>3. ASSUME NEW p \in PRs
      PROVE  /\ RowIs(prs'[p], p, Tracked, moves)
             /\ prs'[p].tracked = prs[p].tracked /\ prs'[p].check = prs[p].check
  <2>1. CASE p \notin Tracked
    BY <1>1, <1>2, <2>1
  <2>2. CASE p \in Tracked
    <3> DEFINE on == StackedOn(p)
               row == [prs[p] EXCEPT !.stackedOn = on]
    <3>1. on \in (Tracked \ {p}) \cup {Nobody} /\ on \in PRs \cup {Nobody}
      BY ParentIsTracked DEF StackedOn, Tracked
    <3>2. prs'[p] = row
      BY <1>1, <2>2
    <3> HIDE DEF on
    <3>3. /\ row \in PRRows /\ row.tracked = prs[p].tracked /\ row.state = prs[p].state
          /\ row.stackedOn = on /\ row.announceCount = prs[p].announceCount
          /\ row.announced = prs[p].announced /\ row.check = prs[p].check
          /\ row.ended = prs[p].ended
      BY <1>2, <3>1 DEF PRRows
    <3> HIDE DEF row
    <3> QED BY <1>2, <3>1, <3>2, <3>3 DEF RowIs
  <2> QED BY <2>1, <2>2
<1>4. Tracked' = Tracked
  BY <1>3 DEF Tracked
<1>5. RowsHold'
  <2>1. prs' = [p \in PRs |-> prs'[p]]
    BY <1>1
  <2>2. \A p \in PRs : prs'[p] \in PRRows
    BY <1>3 DEF RowIs
  <2>3. prs' \in [PRs -> PRRows]
    BY <2>1, <2>2
  <2>4. \A p \in PRs : RowIs(prs'[p], p, Tracked', moves')
    BY <1>1, <1>3, <1>4
  <2> QED BY <2>3, <2>4 DEF RowsHold
<1>6. PollsHold'
  BY <1>1, <1>4, EmptySync, OnePoll
<1> QED BY <1>1, <1>3, <1>5, <1>6 DEF PRInv, LogKnowsWhatIsBroken, Untouched

LEMMA PRFirst ==
    ASSUME PullRequestsAssumption, PRInit
    PROVE  PRInv
<1>1. hub \in [PRs -> Dated]
  <2>1. [state : {"open", "closed"}, head : {1}, base : Branches, check : Checks, ended : {0, 1}]
           \subseteq Observations
    BY PRFacts DEF Observations, States
  <2>2. hub \in [PRs -> Observations]
    BY <2>1 DEF PRInit
  <2>3. \A p \in PRs : Ended(hub[p].state) => hub[p].ended > 0
    BY DEF PRInit
  <2> QED BY <2>2, <2>3 DEF Dated
<1>2. moves \in 0 .. MaxMoves /\ moves \in Nat
  BY PRFacts DEF PRInit
<1>3. RowsHold
  <2>1. \A p \in PRs : RowIs(NoPR, p, Tracked, moves) /\ NoPR \in PRRows
    BY <1>2, FreshRows DEF RowIs
  <2>2. prs = [p \in PRs |-> NoPR]
    BY DEF PRInit
  <2> QED BY <2>1, <2>2 DEF RowsHold
<1>4. PollsHold
  BY EmptySync DEF PRInit, PollsHold
<1>5. \A p \in PRs : prs[p].check = "none" /\ checkLog[p] = FALSE
  <2>1. NoPR.check = "none"
    BY DEF NoPR, NewPR
  <2> QED BY <2>1 DEF PRInit
<1>6. LogKnowsWhatIsBroken
  BY <1>5 DEF LogKnowsWhatIsBroken, IsBroken
<1>7. Untouched
  BY <1>5 DEF Untouched
<1>8. checkLog \in [PRs -> BOOLEAN]
  BY DEF PRInit
<1> QED BY <1>1, <1>2, <1>3, <1>4, <1>6, <1>7, <1>8 DEF PRInv

LEMMA PRKeeps ==
    ASSUME PullRequestsAssumption, PRInv, [PRNext]_prVars
    PROVE  PRInv'
<1>1. ASSUME NEW p \in PRs,
             \/ PushHead(p) \/ Reopen(p) \/ WindowPasses(p) \/ TrackPR(p)
             \/ \E base \in Branches : Retarget(p, base)
             \/ \E check \in Checks : Report(p, check)
             \/ \E state \in {"merged", "closed"} : End(p, state)
             \/ \E at \in 1..MaxMoves : Announce(p, at)
      PROVE  PRInv'
  BY <1>1, GitHubKeeps, CommandsKeep
<1>2. ASSUME NEW s \in Pollers,
             \/ PRsToPoll(s) \/ ListForOwners(s) \/ RecordOwners(s) \/ ResolveStacking(s) \/ SyncStops(s)
             \/ \E seen \in SUBSET Tracked : ReadPRs(s, seen)
             \/ \E p \in PRs : ApplyOne(s, p) \/ DeriveOwners(s, p) \/ OwnersUnreadable(s, p)
      PROVE  PRInv'
  BY <1>2, PollingKeeps, ApplyKeeps, RecordKeeps, StackingKeeps
<1>3. CASE UNCHANGED prVars
  <2>1. moves' \in moves .. MaxMoves
    BY <1>3, PRFacts DEF prVars, PRInv
  <2>2. RowsHold' /\ Tracked' = Tracked
    BY <1>3, <2>1, RowsStay DEF prVars
  <2>3. PollsHold'
    BY <1>3, <2>2, PollsStay DEF prVars
  <2> QED BY <1>3, <2>2, <2>3 DEF prVars, PRInv, LogKnowsWhatIsBroken, Untouched
<1> QED BY <1>1, <1>2, <1>3 DEF PRNext

LEMMA PRAlways ==
    ASSUME PullRequestsAssumption
    PROVE  PRSpec => []PRInv
<1>1. PRInit => PRInv
  BY PRFirst
<1>2. PRInv /\ [PRNext]_prVars => PRInv'
  BY PRKeeps
<1> QED BY <1>1, <1>2, PTL DEF PRSpec

(* What a row says is well formed, whatever two polls wrote over each      *)
(* other: an ended row has its date, an announcement its count, and a row  *)
(* is stacked on another that is tracked (ghsync.go, pr.go).               *)
THEOREM PRRowsAreWellFormed ==
    ASSUME PullRequestsAssumption
    PROVE  PRSpec => []PRTypeOK
<1>1. PRInv => PRTypeOK
  BY DEF PRInv, RowsHold, PollsHold, RowIs, SyncIs, PRRows, Dated, PRTypeOK
<1> QED BY <1>1, PRAlways, PTL

(* The log's last word on a check is the row's, whatever polls interleave  *)
(* (prcheck.go ApplyChecks).                                               *)
THEOREM TheLogKnowsWhatIsBroken ==
    ASSUME PullRequestsAssumption
    PROVE  PRSpec => []LogKnowsWhatIsBroken
<1>1. PRInv => LogKnowsWhatIsBroken
  BY DEF PRInv
<1> QED BY <1>1, PRAlways, PTL

----------------------------------------------------------------------------
(* The rows of issues *)

IssueRows == [status : {"none", "unread", "open", "closed"},
              closed : Ages, synced : Ages, asked : Ages]

\* What the columns of a row owe one another.
IssueRowIs(row) ==
    /\ row \in IssueRows
    /\ row.status \in {"open", "closed"} \/ row.closed # None => row.synced # None
    /\ row.synced # None => row.asked # None /\ row.asked <= row.synced

\* A poll's memory, and that it is about rows that are there.
Choice(at, keys, answer) == [at |-> at, keys |-> keys, answer |-> answer]

ChoiceIs(poll, known) ==
    /\ poll = Choice(poll.at, poll.keys, poll.answer)
    /\ poll.at \in {"idle", "chosen", "read"}
    /\ poll.keys \subseteq known
    /\ poll.at = "read" =>
            /\ DOMAIN poll.answer \subseteq poll.keys
            /\ \A k \in DOMAIN poll.answer : poll.answer[k] \in Answers

IssueRowsHold == /\ issues \in [IssueKeys -> IssueRows]
                 /\ \A k \in IssueKeys : IssueRowIs(issues[k])
ChoicesHold == /\ polls = [p \in IssuePollers |-> polls[p]]
               /\ \A p \in IssuePollers : ChoiceIs(polls[p], Known)
WaitsHold == /\ links \subseteq Known \X Sources
             /\ waitsOn \in [Waits -> [on : Known \cup {"nothing"}, done : BOOLEAN]]

IssuesInv ==
    /\ tracker \in [IssueKeys -> Answers]
    /\ IssueRowsHold
    /\ WaitsHold
    /\ ChoicesHold

LEMMA AgesFacts ==
    ASSUME IssuesAssumption
    PROVE  /\ None = -1 /\ MaxAge \in Nat /\ Ages = -1 .. MaxAge
           /\ None \in Ages /\ 0 \in Ages /\ MaxAge \in Ages
           /\ \A age \in Ages : age \in Int /\ (age # None => 0 <= age)
BY DEF IssuesAssumption, Ages, None

LEMMA AgesGrow ==
    ASSUME IssuesAssumption, NEW a \in Ages, NEW b \in Ages
    PROVE  /\ Older(a) \in Ages /\ (Older(a) = None <=> a = None)
           /\ a <= b => Older(a) <= Older(b)
<1>1. a \in -1 .. MaxAge /\ b \in -1 .. MaxAge /\ MaxAge \in Nat /\ None = -1
  BY AgesFacts
<1>2. Older(a) \in Ages
  BY <1>1, AgesFacts DEF Older
<1>3. Older(a) = None <=> a = None
  BY <1>1 DEF Older
<1>4. a <= b => Older(a) <= Older(b)
  BY <1>1 DEF Older
<1> QED BY <1>2, <1>3, <1>4

\* An observation is written, whatever it says: the row is there, asked for just now,
\* and dated if it says anything of a state or a closing.
LEMMA ObservedRow ==
    ASSUME IssuesAssumption, NEW row, IssueRowIs(row), NEW said \in Sayings
    PROVE  /\ IssueRowIs(ApplyTrackerObservation(row, said))
           /\ ApplyTrackerObservation(row, said).status # "none"
<1> DEFINE status == IF said.status # "unsaid" THEN said.status
                     ELSE IF row.status = "none" THEN "unread" ELSE row.status
           closed == IF said.closed = None THEN row.closed ELSE said.closed
           r1 == [row EXCEPT !.status = status]
           r2 == [r1 EXCEPT !.closed = closed]
           after == [r2 EXCEPT !.asked = 0]
           stated == [after EXCEPT !.synced = said.at]
           dated == [after EXCEPT !.synced = 0]
           now == ApplyTrackerObservation(row, said)
<1>1. /\ row \in IssueRows /\ row.closed \in Ages /\ row.synced \in Ages /\ None \in Ages /\ 0 \in Ages
      /\ said.closed \in Ages /\ said.at \in Ages /\ 0 # None
      /\ said.status \in {"unsaid", "open", "closed"} /\ said.news \in BOOLEAN
      /\ row.status \in {"none", "unread", "open", "closed"}
  BY AgesFacts DEF IssueRowIs, IssueRows, Sayings
<1>2. status \in {"unread", "open", "closed"} /\ closed \in Ages
  BY <1>1
<1>3. Assigned(row, said) = r2
  BY DEF Assigned
<1> HIDE DEF status, closed
<1>4. /\ r1 \in IssueRows /\ r1.status = status /\ r1.synced = row.synced
  BY <1>1, <1>2 DEF IssueRows
<1> HIDE DEF r1
<1>5. r2 \in IssueRows /\ r2.status = status /\ r2.closed = closed /\ r2.synced = row.synced
  BY <1>2, <1>4 DEF IssueRows
<1> HIDE DEF r2
<1>6. /\ after \in IssueRows /\ after.status = status /\ after.closed = closed
      /\ after.synced = row.synced /\ after.asked = 0
  BY <1>1, <1>5 DEF IssueRows
<1>7. now = IF said.at # None THEN stated
            ELSE IF r2 # row \/ said.news THEN dated ELSE after
  BY <1>3 DEF ApplyTrackerObservation
<1> HIDE DEF after, now
<1>8. /\ stated \in IssueRows /\ stated.status = status /\ stated.closed = closed
      /\ stated.synced = said.at /\ stated.asked = 0
      /\ dated \in IssueRows /\ dated.status = status /\ dated.closed = closed
      /\ dated.synced = 0 /\ dated.asked = 0
  BY <1>1, <1>6 DEF IssueRows
<1> HIDE DEF stated, dated
<1>9. /\ now \in IssueRows /\ now.status = status /\ now.closed = closed /\ now.asked = 0
      /\ now.synced \in Ages
  BY <1>1, <1>6, <1>7, <1>8
<1>10. now.status \in {"open", "closed"} \/ now.closed # None => now.synced # None
  <2>1. CASE said.at # None
    BY <1>1, <1>7, <1>8, <2>1
  <2>2. CASE said.at = None /\ (r2 # row \/ said.news)
    BY <1>1, <1>7, <1>8, <2>2
  <2>3. CASE said.at = None /\ ~(r2 # row \/ said.news)
    <3>1. now = after /\ row.status = status /\ row.closed = closed
      BY <1>5, <1>7, <2>3
    <3> QED BY <1>6, <3>1 DEF IssueRowIs
  <2> QED BY <2>1, <2>2, <2>3
<1>11. now.synced # None => now.asked # None /\ now.asked <= now.synced
  BY <1>1, <1>9, AgesFacts
<1>12. IssueRowIs(now) /\ now.status # "none"
  BY <1>2, <1>9, <1>10, <1>11 DEF IssueRowIs
<1> QED BY <1>12 DEF now

\* GitHub's word is an observation.
LEMMA AnswersSay ==
    ASSUME IssuesAssumption, NEW answer \in Answers, NEW news \in BOOLEAN
    PROVE  SaidBy(answer, news) \in Sayings
BY AgesFacts DEF SaidBy, Sayings, Answers

\* A tick makes every date of a row older, and changes nothing else.
LEMMA AgedRow ==
    ASSUME IssuesAssumption, NEW row, IssueRowIs(row)
    PROVE  /\ IssueRowIs([row EXCEPT !.closed = Older(@), !.synced = Older(@), !.asked = Older(@)])
           /\ [row EXCEPT !.closed = Older(@), !.synced = Older(@), !.asked = Older(@)].status = row.status
<1> DEFINE c == Older(row.closed)
           s == Older(row.synced)
           a == Older(row.asked)
           r1 == [row EXCEPT !.closed = c]
           r2 == [r1 EXCEPT !.synced = s]
           r3 == [r2 EXCEPT !.asked = a]
<1>1. row \in IssueRows /\ row.closed \in Ages /\ row.synced \in Ages /\ row.asked \in Ages
  BY DEF IssueRowIs, IssueRows
<1>2. /\ c \in Ages /\ s \in Ages /\ a \in Ages /\ (s = None <=> row.synced = None)
      /\ (c = None <=> row.closed = None)
      /\ s # None => a # None /\ a <= s
  BY <1>1, AgesGrow DEF IssueRowIs
<1>3. [row EXCEPT !.closed = Older(@), !.synced = Older(@), !.asked = Older(@)] = r3
  BY <1>1 DEF IssueRows
<1> HIDE DEF c, s, a
<1>4. r1 \in IssueRows /\ r1.status = row.status /\ r1.closed = c
  BY <1>1, <1>2 DEF IssueRows
<1> HIDE DEF r1
<1>5. r2 \in IssueRows /\ r2.status = r1.status /\ r2.closed = c /\ r2.synced = s
  BY <1>2, <1>4 DEF IssueRows
<1> HIDE DEF r2
<1>6. r3 \in IssueRows /\ r3.status = r2.status /\ r3.closed = c /\ r3.synced = s
      /\ r3.asked = a
  BY <1>2, <1>5 DEF IssueRows
<1> HIDE DEF r3
<1>7. IssueRowIs(r3) /\ r3.status = row.status
  BY <1>1, <1>2, <1>4, <1>5, <1>6 DEF IssueRowIs
<1> QED BY <1>3, <1>7

\* A key becomes a row, if it is not one.
LEMMA EnsuredRows ==
    ASSUME IssuesAssumption, IssueRowsHold, NEW k \in IssueKeys
    PROVE  /\ Ensured(issues, k) \in [IssueKeys -> IssueRows]
           /\ IssueRowIs(Ensured(issues, k)[k]) /\ Ensured(issues, k)[k].status # "none"
           /\ \A q \in IssueKeys \ {k} : Ensured(issues, k)[q] = issues[q]
<1> DEFINE row == [issues[k] EXCEPT !.status = "unread"]
<1>1. issues \in [IssueKeys -> IssueRows] /\ IssueRowIs(issues[k]) /\ issues[k] \in IssueRows
  BY DEF IssueRowsHold
<1>2. CASE issues[k].status # "none"
  BY <1>1, <1>2 DEF Ensured
<1>3. CASE issues[k].status = "none"
  <2>1. /\ row \in IssueRows /\ row.status = "unread" /\ row.synced = issues[k].synced
        /\ row.asked = issues[k].asked /\ row.closed = issues[k].closed
    BY <1>1 DEF IssueRows
  <2>2. Ensured(issues, k) = [issues EXCEPT ![k] = row]
    BY <1>1, <1>3 DEF Ensured
  <2> HIDE DEF row
  <2>3. IssueRowIs(row)
    BY <1>1, <1>3, <2>1 DEF IssueRowIs
  <2> QED BY <1>1, <2>1, <2>2, <2>3
<1> QED BY <1>2, <1>3

\* Whatever becomes of the rows, as long as none is forgotten, links and waits
\* and polls keep what they name.
LEMMA MoreRows ==
    ASSUME IssuesInv, NEW known, Known \subseteq known
    PROVE  /\ links \subseteq known \X Sources
           /\ waitsOn \in [Waits -> [on : known \cup {"nothing"}, done : BOOLEAN]]
           /\ \A p \in IssuePollers : ChoiceIs(polls[p], known)
<1>1. links \subseteq known \X Sources
  BY DEF IssuesInv, WaitsHold
<1>2. waitsOn \in [Waits -> [on : known \cup {"nothing"}, done : BOOLEAN]]
  <2>1. [on : Known \cup {"nothing"}, done : BOOLEAN] \subseteq [on : known \cup {"nothing"}, done : BOOLEAN]
    OBVIOUS
  <2> QED BY <2>1 DEF IssuesInv, WaitsHold
<1>3. \A p \in IssuePollers : ChoiceIs(polls[p], known)
  BY DEF IssuesInv, ChoicesHold, ChoiceIs
<1> QED BY <1>1, <1>2, <1>3

\* A step that writes rows, and forgets none.
LEMMA RowsKeep ==
    ASSUME IssuesInv, issues' \in [IssueKeys -> IssueRows],
           \A k \in IssueKeys : IssueRowIs(issues'[k]),
           \A k \in IssueKeys : issues[k].status # "none" => issues'[k].status # "none"
    PROVE  /\ IssueRowsHold' /\ Known \subseteq Known'
           /\ UNCHANGED <<links, waitsOn>> => WaitsHold'
           /\ UNCHANGED polls => ChoicesHold'
<1>1. Known \subseteq Known'
  BY DEF Known
<1>2. /\ links \subseteq Known' \X Sources
      /\ waitsOn \in [Waits -> [on : Known' \cup {"nothing"}, done : BOOLEAN]]
      /\ \A p \in IssuePollers : ChoiceIs(polls[p], Known')
  BY <1>1, MoreRows
<1>3. UNCHANGED <<links, waitsOn>> => WaitsHold'
  BY <1>2 DEF WaitsHold
<1>4. UNCHANGED polls => ChoicesHold'
  BY <1>2 DEF ChoicesHold, IssuesInv
<1> QED BY <1>1, <1>3, <1>4 DEF IssueRowsHold

\* One poll goes on.
LEMMA ChoiceKeeps ==
    ASSUME IssuesInv, Known \subseteq Known', NEW p \in IssuePollers, NEW poll,
           polls' = [polls EXCEPT ![p] = poll], ChoiceIs(poll, Known')
    PROVE  ChoicesHold'
<1>1. \A q \in IssuePollers : ChoiceIs(polls[q], Known')
  BY MoreRows
<1>2. polls' = [q \in IssuePollers |-> IF q = p THEN poll ELSE polls[q]]
  BY DEF IssuesInv, ChoicesHold
<1>3. polls' = [q \in IssuePollers |-> polls'[q]]
  BY <1>2
<1>4. \A q \in IssuePollers : ChoiceIs(polls'[q], Known')
  BY <1>1, <1>2
<1> QED BY <1>3, <1>4 DEF ChoicesHold

LEMMA NoChoice ==
    ASSUME NEW known
    PROVE  ChoiceIs(NoPoll, known)
<1>1. NoPoll = Choice(NoPoll.at, NoPoll.keys, NoPoll.answer) /\ NoPoll.at = "idle" /\ NoPoll.keys = {}
  BY DEF NoPoll, Choice
<1> QED BY <1>1 DEF ChoiceIs

LEMMA TicksKeep ==
    ASSUME IssuesAssumption, IssuesInv, TickAges
    PROVE  IssuesInv'
<1>1. tracker' \in [IssueKeys -> Answers]
  <2>1. \A k \in IssueKeys : Aged(tracker[k]) \in Answers
    <3>1. TAKE k \in IssueKeys
    <3>2. tracker[k] \in Answers /\ tracker[k].closed \in Ages
      BY DEF IssuesInv, Answers
    <3>3. Older(tracker[k].closed) \in Ages
      BY <3>2, AgesGrow
    <3> QED BY <3>2, <3>3 DEF Answers, Aged
  <2> QED BY <2>1 DEF TickAges
<1>2. \A k \in IssueKeys : IssueRowIs(issues'[k]) /\ issues'[k].status = issues[k].status
  <2>1. TAKE k \in IssueKeys
  <2>2. IssueRowIs(issues[k])
    BY DEF IssuesInv, IssueRowsHold
  <2>3. issues'[k] = [issues[k] EXCEPT !.closed = Older(@), !.synced = Older(@), !.asked = Older(@)]
    BY DEF TickAges
  <2> QED BY <2>2, <2>3, AgedRow
<1>3. issues' \in [IssueKeys -> IssueRows]
  <2>1. issues' = [k \in IssueKeys |-> issues'[k]]
    BY DEF TickAges
  <2>2. \A k \in IssueKeys : issues'[k] \in IssueRows
    BY <1>2 DEF IssueRowIs
  <2> QED BY <2>1, <2>2
<1>4. IssueRowsHold' /\ Known \subseteq Known' /\ WaitsHold'
  BY <1>2, <1>3, RowsKeep DEF TickAges
<1>5. \A p \in IssuePollers : ChoiceIs(polls'[p], Known')
  <2>1. TAKE p \in IssuePollers
  <2> DEFINE y == polls[p]
             aged == [k \in DOMAIN y.answer |-> Aged(y.answer[k])]
  <2>2. ChoiceIs(y, Known)
    BY DEF IssuesInv, ChoicesHold
  <2>3. polls'[p] = [y EXCEPT !.answer = aged]
    BY DEF TickAges
  <2>4. y = Choice(y.at, y.keys, y.answer)
    BY <2>2 DEF ChoiceIs
  <2>5. DOMAIN aged = DOMAIN y.answer
    OBVIOUS
  <2>6. y.at = "read" => \A k \in DOMAIN aged : aged[k] \in Answers
    <3>1. SUFFICES ASSUME y.at = "read", NEW k \in DOMAIN aged
                   PROVE  aged[k] \in Answers
      OBVIOUS
    <3>2. y.answer[k] \in Answers /\ y.answer[k].closed \in Ages
      BY <2>2, <2>5, <3>1 DEF ChoiceIs, Answers
    <3>3. Older(y.answer[k].closed) \in Ages
      BY <3>2, AgesGrow
    <3>4. aged[k] = Aged(y.answer[k])
      BY <3>1, <2>5
    <3> HIDE DEF aged, y
    <3> QED BY <3>2, <3>3, <3>4 DEF Answers, Aged
  <2> HIDE DEF aged, y
  <2>7. [y EXCEPT !.answer = aged] = Choice(y.at, y.keys, aged)
    BY <2>4 DEF Choice
  <2>8. ChoiceIs(Choice(y.at, y.keys, aged), Known')
    BY <1>4, <2>2, <2>5, <2>6 DEF ChoiceIs, Choice
  <2> QED BY <2>3, <2>7, <2>8
<1>6. ChoicesHold'
  <2>1. polls' = [p \in IssuePollers |-> polls'[p]]
    BY DEF TickAges
  <2> QED BY <1>5, <2>1 DEF ChoicesHold
<1> QED BY <1>1, <1>4, <1>6 DEF IssuesInv

\* A link, a wait or a closing reference needs a row, and gets one.
LEMMA EnsuredKeep ==
    ASSUME IssuesAssumption, IssuesInv, NEW k \in IssueKeys,
           \/ \E source \in ByHand : LinkIssue(k, source) \/ UnlinkIssue(k, source)
           \/ \E a \in Waits : WaitOnIssue(a, k)
    PROVE  IssuesInv'
<1>1. IssueRowsHold /\ issues \in [IssueKeys -> IssueRows] /\ \A q \in IssueKeys : IssueRowIs(issues[q])
  BY DEF IssuesInv, IssueRowsHold
<1>2. ASSUME issues' = Ensured(issues, k)
      PROVE  /\ IssueRowsHold' /\ Known \subseteq Known' /\ k \in Known'
             /\ UNCHANGED polls => ChoicesHold'
  <2>1. /\ issues' \in [IssueKeys -> IssueRows] /\ IssueRowIs(issues'[k]) /\ issues'[k].status # "none"
        /\ \A q \in IssueKeys \ {k} : issues'[q] = issues[q]
    BY <1>1, <1>2, EnsuredRows
  <2>2. \A q \in IssueKeys : IssueRowIs(issues'[q])
    BY <1>1, <2>1
  <2>3. \A q \in IssueKeys : issues[q].status # "none" => issues'[q].status # "none"
    BY <2>1
  <2>4. k \in Known'
    BY <2>1 DEF Known
  <2> QED BY <2>1, <2>2, <2>3, <2>4, RowsKeep
<1>3. ASSUME NEW source \in ByHand, LinkIssue(k, source)
      PROVE  IssuesInv'
  <2>1. /\ issues' = Ensured(issues, k) /\ links' = links \cup {<<k, source>>}
        /\ UNCHANGED <<tracker, waitsOn, polls>>
    BY <1>3 DEF LinkIssue
  <2>2. IssueRowsHold' /\ Known \subseteq Known' /\ k \in Known' /\ ChoicesHold'
    BY <1>2, <2>1
  <2>3. /\ links \subseteq Known' \X Sources
        /\ waitsOn \in [Waits -> [on : Known' \cup {"nothing"}, done : BOOLEAN]]
    BY <2>2, MoreRows
  <2>4. source \in Sources
    BY DEF Sources
  <2>5. WaitsHold'
    BY <2>1, <2>2, <2>3, <2>4 DEF WaitsHold
  <2> QED BY <2>1, <2>2, <2>5 DEF IssuesInv
<1>4. ASSUME NEW source \in ByHand, UnlinkIssue(k, source)
      PROVE  IssuesInv'
  <2>1. links' \subseteq links /\ UNCHANGED <<tracker, issues, waitsOn, polls>>
    BY <1>4 DEF UnlinkIssue
  <2>2. Known' = Known
    BY <2>1 DEF Known
  <2> QED BY <2>1, <2>2 DEF IssuesInv, IssueRowsHold, WaitsHold, ChoicesHold
<1>5. ASSUME NEW a \in Waits, WaitOnIssue(a, k)
      PROVE  IssuesInv'
  <2>1. /\ issues' = Ensured(issues, k) /\ waitsOn' = [waitsOn EXCEPT ![a].on = k]
        /\ UNCHANGED <<tracker, links, polls>>
    BY <1>5 DEF WaitOnIssue
  <2>2. IssueRowsHold' /\ Known \subseteq Known' /\ k \in Known' /\ ChoicesHold'
    BY <1>2, <2>1
  <2>3. /\ links \subseteq Known' \X Sources
        /\ waitsOn \in [Waits -> [on : Known' \cup {"nothing"}, done : BOOLEAN]]
    BY <2>2, MoreRows
  <2>4. [waitsOn[a] EXCEPT !.on = k] \in [on : Known' \cup {"nothing"}, done : BOOLEAN]
    BY <2>2, <2>3
  <2>5. WaitsHold'
    BY <2>1, <2>3, <2>4 DEF WaitsHold
  <2> QED BY <2>1, <2>2, <2>5 DEF IssuesInv
<1> QED BY <1>3, <1>4, <1>5

\* A poll of the pull request names the issues it closes.
LEMMA ReconcileKeeps ==
    ASSUME IssuesAssumption, IssuesInv, NEW wanted \in SUBSET IssueKeys,
           ReconcileClosingIssues(wanted)
    PROVE  IssuesInv'
<1>1. IssueRowsHold /\ issues \in [IssueKeys -> IssueRows] /\ \A q \in IssueKeys : IssueRowIs(issues[q])
  BY DEF IssuesInv, IssueRowsHold
<1>2. /\ issues' = [k \in IssueKeys |-> IF k \in wanted THEN Ensured(issues, k)[k] ELSE issues[k]]
      /\ links' = (links \ Dropped(wanted)) \cup (wanted \X {"github"})
      /\ UNCHANGED <<tracker, waitsOn, polls>>
  BY DEF ReconcileClosingIssues
<1>3. \A k \in IssueKeys : /\ IssueRowIs(issues'[k])
                           /\ issues[k].status # "none" => issues'[k].status # "none"
                           /\ k \in wanted => issues'[k].status # "none"
  <2>1. TAKE k \in IssueKeys
  <2>2. IssueRowIs(Ensured(issues, k)[k]) /\ Ensured(issues, k)[k].status # "none"
    BY <1>1, EnsuredRows
  <2>3. issues'[k] = IF k \in wanted THEN Ensured(issues, k)[k] ELSE issues[k]
    BY <1>2
  <2> QED BY <1>1, <2>2, <2>3
<1>4. issues' \in [IssueKeys -> IssueRows]
  <2>1. issues' = [k \in IssueKeys |-> issues'[k]]
    BY <1>2
  <2>2. \A k \in IssueKeys : issues'[k] \in IssueRows
    BY <1>3 DEF IssueRowIs
  <2> QED BY <2>1, <2>2
<1>5. IssueRowsHold' /\ Known \subseteq Known' /\ ChoicesHold'
  BY <1>2, <1>3, <1>4, RowsKeep
<1>6. wanted \subseteq Known'
  BY <1>3 DEF Known
<1>7. /\ links \subseteq Known' \X Sources
      /\ waitsOn \in [Waits -> [on : Known' \cup {"nothing"}, done : BOOLEAN]]
  BY <1>5, MoreRows
<1>8. WaitsHold'
  <2>1. wanted \X {"github"} \subseteq Known' \X Sources
    BY <1>6 DEF Sources
  <2> QED BY <1>2, <1>7, <2>1 DEF WaitsHold
<1> QED BY <1>2, <1>5, <1>8 DEF IssuesInv

\* One tracker's word on one issue, from somebody who read it.
LEMMA ObserveKeeps ==
    ASSUME IssuesAssumption, ToldAssumption, IssuesInv, NEW k \in IssueKeys, NEW said \in Told,
           ObserveIssue(k, said)
    PROVE  IssuesInv'
<1> DEFINE row == ApplyTrackerObservation(issues[k], said)
<1>1. issues \in [IssueKeys -> IssueRows] /\ \A q \in IssueKeys : IssueRowIs(issues[q])
  BY DEF IssuesInv, IssueRowsHold
<1>2. issues' = [issues EXCEPT ![k] = row] /\ UNCHANGED <<tracker, links, waitsOn, polls>>
  BY DEF ObserveIssue
<1>3. said \in Sayings
  BY DEF ToldAssumption
<1>4. IssueRowIs(row) /\ row.status # "none" /\ row \in IssueRows
  BY <1>1, <1>3, ObservedRow DEF IssueRowIs
<1> HIDE DEF row
<1>5. /\ issues' \in [IssueKeys -> IssueRows]
      /\ \A q \in IssueKeys : IssueRowIs(issues'[q])
      /\ \A q \in IssueKeys : issues[q].status # "none" => issues'[q].status # "none"
  BY <1>1, <1>2, <1>4
<1> QED BY <1>2, <1>5, RowsKeep DEF IssuesInv

LEMMA SettlesKeep ==
    ASSUME IssuesInv, NEW a \in Waits, SettleIssue(a)
    PROVE  IssuesInv'
<1>1. waitsOn' = [waitsOn EXCEPT ![a].done = TRUE] /\ UNCHANGED <<tracker, issues, links, polls>>
  BY DEF SettleIssue
<1>2. Known' = Known
  BY <1>1 DEF Known
<1>3. [waitsOn[a] EXCEPT !.done = TRUE] \in [on : Known \cup {"nothing"}, done : BOOLEAN]
  BY DEF IssuesInv, WaitsHold
<1> QED BY <1>1, <1>2, <1>3 DEF IssuesInv, IssueRowsHold, WaitsHold, ChoicesHold

\* A poll chooses, is answered, and applies or forgets the answer.
LEMMA PollsOfIssuesKeep ==
    ASSUME IssuesAssumption, IssuesInv, NEW p \in IssuePollers,
           IssuesToPoll(p) \/ ReadIssues(p) \/ ObserveAnswer(p) \/ PollFails(p)
    PROVE  IssuesInv'
<1> DEFINE y == polls[p]
<1>1. ChoiceIs(y, Known) /\ tracker \in [IssueKeys -> Answers]
  BY DEF IssuesInv, ChoicesHold
<1>2. ASSUME NEW poll, polls' = [polls EXCEPT ![p] = poll], ChoiceIs(poll, Known),
             UNCHANGED <<tracker, issues, links, waitsOn>>
      PROVE  IssuesInv'
  <2>1. Known' = Known
    BY <1>2 DEF Known
  <2>2. ChoicesHold'
    BY <1>2, <2>1, ChoiceKeeps
  <2> QED BY <1>2, <2>1, <2>2 DEF IssuesInv, IssueRowsHold, WaitsHold
<1>3. CASE PollFails(p)
  BY <1>2, <1>3, NoChoice DEF PollFails
<1>4. CASE IssuesToPoll(p)
  <2> DEFINE keys == {k \in Known : ToPollIssue(k)}
             idle == "idle"
             none == {}
             nothing == <<>>
             y1 == [NoPoll EXCEPT !.at = "chosen"]
             poll == [y1 EXCEPT !.keys = keys]
  <2>1. polls' = [polls EXCEPT ![p] = poll] /\ UNCHANGED <<tracker, issues, links, waitsOn>>
    BY <1>4 DEF IssuesToPoll
  <2>2. keys \subseteq Known
    OBVIOUS
  <2>3. NoPoll = Choice(idle, none, nothing)
    BY DEF NoPoll, Choice
  <2> HIDE DEF keys, idle, none, nothing
  <2>4. y1 = Choice("chosen", none, nothing)
    BY <2>3 DEF Choice
  <2> HIDE DEF y1
  <2>5. poll = Choice("chosen", keys, nothing)
    BY <2>4 DEF Choice
  <2> HIDE DEF poll
  <2>6. ChoiceIs(poll, Known)
    BY <2>2, <2>5 DEF ChoiceIs, Choice
  <2> QED BY <1>2, <2>1, <2>6
<1>5. CASE ReadIssues(p)
  <2>1. PICK seen \in SUBSET y.keys :
            polls' = [polls EXCEPT ![p] = [y EXCEPT !.at = "read", !.answer = [k \in seen |-> tracker[k]]]]
    BY <1>5 DEF ReadIssues, IssuesInv, ChoicesHold
  <2> DEFINE answer == [k \in seen |-> tracker[k]]
             y1 == [y EXCEPT !.at = "read"]
             poll == [y1 EXCEPT !.answer = answer]
  <2>2. polls' = [polls EXCEPT ![p] = poll]
    BY <2>1
  <2>3. /\ DOMAIN answer \subseteq y.keys /\ \A k \in DOMAIN answer : answer[k] \in Answers
        /\ y.keys \subseteq Known /\ y = Choice(y.at, y.keys, y.answer)
    BY <1>1 DEF ChoiceIs, Known
  <2> HIDE DEF answer, y
  <2>4. y1 = Choice("read", y.keys, y.answer)
    BY <2>3 DEF Choice
  <2> HIDE DEF y1
  <2>5. poll = Choice("read", y.keys, answer)
    BY <2>4 DEF Choice
  <2> HIDE DEF poll
  <2>6. ChoiceIs(poll, Known)
    BY <2>3, <2>5 DEF ChoiceIs, Choice
  <2> QED BY <1>2, <1>5, <2>2, <2>6 DEF ReadIssues
<1>6. ASSUME NEW retitled \in SUBSET IssueKeys, ObserveTrackerIssues(p, retitled)
      PROVE  IssuesInv'
  <2>1. /\ issues' = [k \in IssueKeys |->
                IF k \notin DOMAIN y.answer THEN issues[k]
                ELSE ApplyTrackerObservation(issues[k], SaidBy(y.answer[k], k \in retitled))]
        /\ polls' = [polls EXCEPT ![p] = NoPoll] /\ UNCHANGED <<tracker, links, waitsOn>>
        /\ y.at = "read"
    BY <1>6 DEF ObserveTrackerIssues
  <2>2. issues \in [IssueKeys -> IssueRows] /\ \A k \in IssueKeys : IssueRowIs(issues[k])
    BY DEF IssuesInv, IssueRowsHold
  <2>3. \A k \in DOMAIN y.answer : y.answer[k] \in Answers
    BY <1>1, <2>1 DEF ChoiceIs
  <2> HIDE DEF y
  <2>4. \A k \in IssueKeys : /\ IssueRowIs(issues'[k])
                             /\ issues[k].status # "none" => issues'[k].status # "none"
    <3>1. TAKE k \in IssueKeys
    <3>2. CASE k \notin DOMAIN y.answer
      BY <2>1, <2>2, <3>2
    <3>3. CASE k \in DOMAIN y.answer
      <4> DEFINE said == SaidBy(y.answer[k], k \in retitled)
      <4>1. issues'[k] = ApplyTrackerObservation(issues[k], said)
        BY <2>1, <3>3
      <4>2. IssueRowIs(issues[k]) /\ said \in Sayings
        <5>1. y.answer[k] \in Answers /\ (k \in retitled) \in BOOLEAN
          BY <2>3, <3>3
        <5> QED BY <2>2, <5>1, AnswersSay
      <4> HIDE DEF said
      <4> QED BY <4>1, <4>2, ObservedRow
    <3> QED BY <3>2, <3>3
  <2>5. issues' \in [IssueKeys -> IssueRows]
    <3>1. issues' = [k \in IssueKeys |-> issues'[k]]
      BY <2>1
    <3>2. \A k \in IssueKeys : issues'[k] \in IssueRows
      BY <2>4 DEF IssueRowIs
    <3> QED BY <3>1, <3>2
  <2>6. IssueRowsHold' /\ Known \subseteq Known' /\ WaitsHold'
    BY <2>1, <2>4, <2>5, RowsKeep
  <2>7. ChoicesHold'
    BY <2>1, <2>6, NoChoice, ChoiceKeeps
  <2> QED BY <2>1, <2>6, <2>7 DEF IssuesInv
<1> HIDE DEF y
<1> QED BY <1>3, <1>4, <1>5, <1>6 DEF ObserveAnswer

LEMMA IssuesFirst ==
    ASSUME IssuesAssumption, IssuesInit
    PROVE  IssuesInv
<1>1. tracker \in [IssueKeys -> Answers]
  <2>1. {[open |-> TRUE, closed |-> None], [open |-> FALSE, closed |-> MaxAge]} \subseteq Answers
    BY AgesFacts DEF Answers
  <2> QED BY <2>1 DEF IssuesInit
<1>2. IssueRowIs(NoIssue) /\ NoIssue \in IssueRows
  <2>1. NoIssue \in IssueRows
    BY AgesFacts DEF NoIssue, IssueRows
  <2>2. NoIssue.status = "none" /\ NoIssue.closed = None /\ NoIssue.synced = None
    BY DEF NoIssue
  <2> QED BY <2>1, <2>2 DEF IssueRowIs
<1>3. IssueRowsHold
  BY <1>2 DEF IssuesInit, IssueRowsHold
<1>4. WaitsHold
  BY DEF IssuesInit, WaitsHold
<1>5. ChoicesHold
  BY NoChoice DEF IssuesInit, ChoicesHold
<1> QED BY <1>1, <1>3, <1>4, <1>5 DEF IssuesInv

LEMMA IssuesKeep ==
    ASSUME IssuesAssumption, ToldAssumption, IssuesInv, [IssuesNext]_issueVars
    PROVE  IssuesInv'
<1>1. ASSUME NEW k \in IssueKeys, TrackerMoves(k)
      PROVE  IssuesInv'
  <2> DEFINE to == IF tracker[k].open THEN [open |-> FALSE, closed |-> 0]
                   ELSE [open |-> TRUE, closed |-> None]
  <2>1. tracker' = [tracker EXCEPT ![k] = to] /\ UNCHANGED <<issues, links, waitsOn, polls>>
    BY <1>1 DEF TrackerMoves
  <2>2. to \in Answers
    BY AgesFacts DEF Answers
  <2> HIDE DEF to
  <2>3. Known' = Known
    BY <2>1 DEF Known
  <2> QED BY <2>1, <2>2, <2>3 DEF IssuesInv, IssueRowsHold, WaitsHold, ChoicesHold
<1>2. CASE UNCHANGED issueVars
  <2>1. Known' = Known
    BY <1>2 DEF Known, issueVars
  <2> QED BY <1>2, <2>1 DEF issueVars, IssuesInv, IssueRowsHold, WaitsHold, ChoicesHold
<1> QED BY <1>1, <1>2, TicksKeep, EnsuredKeep, ReconcileKeeps, ObserveKeeps, SettlesKeep,
           PollsOfIssuesKeep DEF IssuesNext

LEMMA IssuesAlways ==
    ASSUME IssuesAssumption, ToldAssumption
    PROVE  IssuesSpec => []IssuesInv
<1>1. IssuesInit => IssuesInv
  BY IssuesFirst
<1>2. IssuesInv /\ [IssuesNext]_issueVars => IssuesInv'
  BY IssuesKeep
<1> QED BY <1>1, <1>2, PTL DEF IssuesSpec

(* Whatever is observed, by a poll or by hand and however little of it is  *)
(* said: a row that says anything of a state or a closing is dated, no row *)
(* is dated after it was last read, and links, waits and polls name rows   *)
(* that are there (tracker.go, issuepoll.go, cli/issueobserve.go).         *)
THEOREM IssueRowsAreWellFormed ==
    ASSUME IssuesAssumption, ToldAssumption
    PROVE  IssuesSpec => []IssuesTypeOK
<1>1. IssuesInv => IssuesTypeOK
  <2> SUFFICES ASSUME IssuesInv
               PROVE  IssuesTypeOK
    OBVIOUS
  <2>1. /\ issues \in [IssueKeys -> IssueRows] /\ tracker \in [IssueKeys -> Answers]
        /\ \A k \in IssueKeys : IssueRowIs(issues[k])
        /\ \A p \in IssuePollers : ChoiceIs(polls[p], Known)
        /\ links \subseteq Known \X Sources
        /\ waitsOn \in [Waits -> [on : Known \cup {"nothing"}, done : BOOLEAN]]
    BY DEF IssuesInv, IssueRowsHold, WaitsHold, ChoicesHold
  <2>2. \A k \in IssueKeys :
            /\ issues[k].status \in {"open", "closed"} \/ issues[k].closed # None => issues[k].synced # None
            /\ issues[k].synced # None => issues[k].asked \in 0 .. issues[k].synced
    <3>1. TAKE k \in IssueKeys
    <3>2. issues[k].asked \in Ages /\ issues[k].synced \in Ages /\ IssueRowIs(issues[k])
      BY <2>1 DEF IssueRows
    <3> QED BY <3>2, AgesFacts DEF IssueRowIs
  <2> QED BY <2>1, <2>2 DEF IssuesTypeOK, IssueRows, ChoiceIs
<1> QED BY <1>1, IssuesAlways, PTL

(* A poll of the pull request takes no link away that somebody made by     *)
(* hand (prissue.go ReconcileClosingIssues).                               *)
THEOREM LinksMadeByHandStay ==
    ASSUME IssuesAssumption, ToldAssumption
    PROVE  IssuesSpec => HandMadeLinksStay
<1>1. IssuesInv /\ [IssuesNext]_issueVars =>
        [\A l \in links \ links' : l[2] \in ByHand => links \ links' = {l}]_issueVars
  <2> SUFFICES ASSUME IssuesInv, [IssuesNext]_issueVars, NEW l \in links \ links', l[2] \in ByHand
               PROVE  links \ links' = {l}
    OBVIOUS
  <2>1. ASSUME NEW k \in IssueKeys, NEW source \in ByHand, UnlinkIssue(k, source)
        PROVE  links \ links' = {l}
    BY <2>1 DEF UnlinkIssue
  <2>2. ASSUME NEW wanted \in SUBSET IssueKeys, ReconcileClosingIssues(wanted)
        PROVE  FALSE
    <3>1. l \in Dropped(wanted)
      BY <2>2 DEF ReconcileClosingIssues
    <3>2. l[2] = "github"
      BY <3>1 DEF Dropped
    <3> QED BY <3>2 DEF ByHand
  <2>3. CASE links \subseteq links'
    BY <2>3
  <2>4. CASE TickAges
    BY <2>3, <2>4 DEF TickAges
  <2>5. ASSUME NEW k \in IssueKeys,
               \/ TrackerMoves(k)
               \/ \E source \in ByHand : LinkIssue(k, source)
               \/ \E said \in Told : ObserveIssue(k, said)
               \/ \E a \in Waits : WaitOnIssue(a, k)
        PROVE  links \subseteq links'
    BY <2>5 DEF TrackerMoves, LinkIssue, ObserveIssue, WaitOnIssue
  <2>6. ASSUME NEW a \in Waits, SettleIssue(a)
        PROVE  links \subseteq links'
    BY <2>6 DEF SettleIssue
  <2>7. ASSUME NEW p \in IssuePollers,
               IssuesToPoll(p) \/ ReadIssues(p) \/ ObserveAnswer(p) \/ PollFails(p)
        PROVE  links \subseteq links'
    BY <2>7 DEF IssuesToPoll, ReadIssues, ObserveAnswer, ObserveTrackerIssues, PollFails
  <2>8. CASE UNCHANGED issueVars
    BY <2>8 DEF issueVars
  <2> QED BY <2>1, <2>2, <2>3, <2>4, <2>5, <2>6, <2>7, <2>8 DEF IssuesNext
<1> QED BY <1>1, IssuesAlways, PTL DEF IssuesSpec, HandMadeLinksStay

----------------------------------------------------------------------------
(* The plan asks owners of the change *)

Haves == SUBSET (Teams \cup People)

QueueInv ==
    /\ pr \in [asking : BOOLEAN, unanswered : BOOLEAN, files : SUBSET Paths, teams : SUBSET Teams,
               users : SUBSET Others, assignees : SUBSET People, responders : SUBSET Others,
               approvers : SUBSET Others, changesBy : SUBSET Others, last : People]
    /\ pr.approvers \subseteq pr.responders
    /\ pr.changesBy \subseteq pr.responders

LEMMA FiniteChange ==
    ASSUME ReviewQueueAssumption, QueueInv
    PROVE  /\ Owners \subseteq Teams /\ IsFiniteSet(Owners)
           /\ \A have : /\ IsFiniteSet(Remaining(have))
                        /\ Cardinality(Remaining(have)) \in Nat
                        /\ Cardinality(Remaining(have)) <= Cardinality(Paths)
           /\ Cardinality(Paths) \in Nat
<1>1. pr.files \subseteq Paths
  BY DEF QueueInv
<1>2. Owners \subseteq Teams
  BY <1>1 DEF Owners, ReviewQueueAssumption
<1>3. IsFiniteSet(Owners)
  BY <1>2, FS_Subset DEF ReviewQueueAssumption
<1>4. \A have : Remaining(have) \subseteq Paths
  BY <1>1 DEF Remaining
<1>5. IsFiniteSet(Paths)
  BY DEF ReviewQueueAssumption
<1> QED BY <1>2, <1>3, <1>4, <1>5, FS_Subset, FS_CardinalityType

\* What an owner would settle is a number of the change's files.
LEMMA SettlesSome ==
    ASSUME ReviewQueueAssumption, QueueInv, NEW t, NEW have
    PROVE  Settles(t, have) \in 0 .. Cardinality(Paths)
<1> DEFINE P == {path \in Remaining(have) : OwnersOf[path] \cap ({t} \cup StandsFor(t)) # {}}
<1>1. P \subseteq Remaining(have) /\ IsFiniteSet(Remaining(have))
  BY FiniteChange
<1>2. IsFiniteSet(P) /\ Cardinality(P) \in Nat /\ Cardinality(P) <= Cardinality(Remaining(have))
  <2> HIDE DEF P
  <2> QED BY <1>1, FS_Subset, FS_CardinalityType
<1>3. Settles(t, have) = Cardinality(P)
  BY DEF Settles
<1> HIDE DEF P
<1> QED BY <1>2, <1>3, FiniteChange

\* While somebody would settle something, the next asked is one who would settle most.
LEMMA NextReaches ==
    ASSUME ReviewQueueAssumption, QueueInv, NEW have, Reach(have) # {}
    PROVE  NextAsked(have) \in Reach(have)
<1> DEFINE most == {t \in Reach(have) : \A o \in Reach(have) : Settles(o, have) <= Settles(t, have)}
<1>1. most # {}
  <2> DEFINE f == [t \in Reach(have) |-> Settles(t, have)]
  <2>1. f \in [Reach(have) -> 0 .. Cardinality(Paths)]
    BY SettlesSome
  <2>2. \A t \in Reach(have) : f[t] = Settles(t, have)
    OBVIOUS
  <2> HIDE DEF f
  <2>3. \E t \in Reach(have) : \A o \in Reach(have) : f[o] <= f[t]
    BY <2>1, FiniteChange, GreatestValue
  <2> QED BY <2>2, <2>3
<1>2. NextAsked(have) = IF most \cap pr.teams # {} THEN CHOOSE t \in most \cap pr.teams : TRUE
                        ELSE CHOOSE t \in most : TRUE
  BY DEF NextAsked
<1>3. most \subseteq Reach(have)
  OBVIOUS
<1> HIDE DEF most
<1>4. NextAsked(have) \in most
  BY <1>1, <1>2
<1> QED BY <1>3, <1>4

\* Asking brings in an owner that was not there.
LEMMA AskingAdds ==
    ASSUME ReviewQueueAssumption, QueueInv, NEW have \in Haves, Reach(have) # {}
    PROVE  /\ WithAsked(have) \in Haves
           /\ Cardinality(Owners \ WithAsked(have)) < Cardinality(Owners \ have)
<1>1. NextAsked(have) \in Owners /\ NextAsked(have) \notin have
  BY NextReaches DEF Reach
<1>2. StandsFor(NextAsked(have)) \subseteq Owners
  BY DEF StandsFor
<1>3. WithAsked(have) \in Haves
  BY <1>1, <1>2, FiniteChange DEF WithAsked, Haves
<1> DEFINE A == Owners \ WithAsked(have)
           B == Owners \ have
<1>4. A \subseteq B \ {NextAsked(have)} /\ NextAsked(have) \in B
  BY <1>1 DEF WithAsked
<1>5. IsFiniteSet(B)
  BY FiniteChange, FS_Subset
<1> HIDE DEF A, B
<1>6. IsFiniteSet(B \ {NextAsked(have)}) /\ Cardinality(B \ {NextAsked(have)}) = Cardinality(B) - 1
  BY <1>4, <1>5, FS_RemoveElement
<1>7. Cardinality(A) <= Cardinality(B) - 1 /\ Cardinality(A) \in Nat /\ Cardinality(B) \in Nat
  BY <1>4, <1>5, <1>6, FS_Subset, FS_CardinalityType
<1> QED BY <1>3, <1>7 DEF A, B

LEMMA PlanAsksOwners ==
    ASSUME ReviewQueueAssumption, QueueInv
    PROVE  \A have \in Haves : PlanFrom[have] \subseteq Owners
<1> DEFINE more  == [h \in Haves |-> Reach(h) # {}]
           next  == [h \in Haves |-> NextAsked(h)]
           after == [h \in Haves |-> IF Reach(h) # {} THEN WithAsked(h) ELSE h]
           rank  == [h \in Haves |-> Cardinality(Owners \ h)]
           N     == Cardinality(Owners)
           Plan(g) == [h \in Haves |-> IF Reach(h) = {} THEN {} ELSE {NextAsked(h)} \cup g[WithAsked(h)]]
<1>1. more \in [Haves -> BOOLEAN]
  OBVIOUS
<1>2. after \in [Haves -> Haves]
  BY AskingAdds
<1>3. N \in Nat /\ rank \in [Haves -> 0 .. N]
  <2>1. IsFiniteSet(Owners) /\ N \in Nat
    BY FiniteChange, FS_CardinalityType
  <2>2. \A h \in Haves : Owners \ h \subseteq Owners
    OBVIOUS
  <2>3. \A h \in Haves : Cardinality(Owners \ h) \in Nat /\ Cardinality(Owners \ h) <= N
    BY <2>1, <2>2, FS_Subset, FS_CardinalityType
  <2> QED BY <2>1, <2>3
<1>4. \A h \in Haves : more[h] => next[h] \in Owners /\ rank[after[h]] < rank[h]
  <2> SUFFICES ASSUME NEW h \in Haves, Reach(h) # {}
               PROVE  next[h] \in Owners /\ rank[after[h]] < rank[h]
    OBVIOUS
  <2>1. next[h] \in Owners
    BY NextReaches DEF Reach
  <2>2. after[h] = WithAsked(h) /\ WithAsked(h) \in Haves
    BY AskingAdds
  <2>3. rank[after[h]] = Cardinality(Owners \ WithAsked(h)) /\ rank[h] = Cardinality(Owners \ h)
    BY <2>2
  <2> HIDE DEF rank, after
  <2> QED BY <2>1, <2>3, AskingAdds
<1>5. \A g : Plan(g) = [h \in Haves |-> IF more[h] THEN {next[h]} \union g[after[h]] ELSE {}]
  OBVIOUS
<1> HIDE DEF more, next, after, rank, N
<1>6. Descends(Haves, Owners, N, more, next, after, rank)
  BY <1>1, <1>2, <1>3, <1>4 DEF Descends
<1>7. PICK g : Greedy(g, Haves, more, next, after)
  BY <1>6, GreedySolution
<1>8. g = Plan(g)
  BY <1>5, <1>7 DEF Greedy
<1>9. PlanFrom = Plan(PlanFrom)
  BY <1>8 DEF PlanFrom, Haves
<1>10. Greedy(PlanFrom, Haves, more, next, after)
  BY <1>5, <1>9 DEF Greedy
<1> QED BY <1>6, <1>10, GreedyTakes

----------------------------------------------------------------------------
(* The inductive invariant: nothing but the type of the pull request, and    *)
(* that whoever approved or asked for changes has responded                  *)

LEMMA QueueInvHolds ==
    ASSUME ReviewQueueAssumption
    PROVE  QueueSpec => []QueueInv
<1>1. QueueInit => QueueInv
  BY DEF QueueInit, QueueInv, ReviewQueueAssumption, Others
<1>2. QueueInv /\ [QueueNext]_pr => QueueInv'
  <2> SUFFICES ASSUME QueueInv, [QueueNext]_pr
               PROVE  QueueInv'
    OBVIOUS
  <2>1. CASE Reply \/ Asks
    BY <2>1 DEF QueueInv, Reply, Asks, ReviewQueueAssumption, Others
  <2>2. ASSUME NEW files \in SUBSET Paths, Push(files)
        PROVE  QueueInv'
    <3>1. UNION {OwnersOf[path] : path \in files} \subseteq Teams
      BY DEF ReviewQueueAssumption
    <3> QED BY <2>2, <3>1 DEF QueueInv, Push, ReviewQueueAssumption, Others
  <2>3. ASSUME NEW t \in Teams, RequestTeam(t)
        PROVE  QueueInv'
    BY <2>3 DEF QueueInv, RequestTeam
  <2>4. ASSUME NEW u \in Others, RequestUser(u) \/ Assign(u)
        PROVE  QueueInv'
    BY <2>4 DEF QueueInv, RequestUser, Assign, Others
  <2>5. ASSUME NEW u \in Others, NEW b \in BOOLEAN, Comment(u, b)
        PROVE  QueueInv'
    BY <2>5 DEF QueueInv, Comment, Others
  <2>6. ASSUME NEW u \in Others, NEW b \in BOOLEAN, Review(u, b)
        PROVE  QueueInv'
    BY <2>6 DEF QueueInv, Review, Others
  <2>7. CASE UNCHANGED pr
    BY <2>7 DEF QueueInv
  <2> QED BY <2>1, <2>2, <2>3, <2>4, <2>5, <2>6, <2>7 DEF QueueNext
<1> QED BY <1>1, <1>2, PTL DEF QueueSpec

----------------------------------------------------------------------------
(* Whose move it is *)

\* The outstanding reviewers are other people or teams: never the author, nor whoever had
\* the last word.
LEMMA ReviewersAreOthers ==
    ASSUME ReviewQueueAssumption, QueueInv
    PROVE  /\ OutstandingReviewers \subseteq Others \cup Teams
           /\ Author \notin OutstandingReviewers
           /\ pr.last # Author => pr.last \notin OutstandingReviewers
<1>1. Approval(pr.approvers) \in Haves
  BY DEF Approval, Haves, QueueInv, Others
<1>2. NeededOwners \subseteq Teams
  BY <1>1, PlanAsksOwners, FiniteChange DEF NeededOwners
<1>3. pr.teams \subseteq Teams /\ pr.users \subseteq Others /\ pr.last \in People
  BY DEF QueueInv
<1>4. /\ StillAwaited \subseteq Others
      /\ pr.last # Author => pr.last \notin StillAwaited
  BY <1>3 DEF StillAwaited
<1>5. OutstandingReviewers \subseteq StillAwaited \cup Teams
  BY <1>2, <1>3 DEF OutstandingReviewers
<1>6. Author \notin Others /\ Author \notin Teams /\ pr.last \notin Teams
  BY <1>3 DEF Others, ReviewQueueAssumption
<1> QED BY <1>4, <1>5, <1>6

\* The cases of whose move it is, as waitingOn has them.
LEMMA WaitingCases ==
    ASSUME ReviewQueueAssumption, QueueInv
    PROVE  \/ WaitingOn.on = {Author} /\ WaitingOn.why = "changes requested" /\ pr.changesBy # {}
           \/ WaitingOn.on = {Author} /\ WaitingOn.why = "unanswered"
           \/ /\ pr.changesBy = {} /\ pr.last = Author /\ WaitingOn.why = "updated since review"
              /\ WaitingOn.on # {} /\ WaitingOn.on \subseteq Pending \cup OutstandingReviewers
           \/ /\ pr.changesBy = {} /\ pr.last # Author /\ WaitingOn.why = "author's turn"
              /\ Author \in WaitingOn.on /\ WaitingOn.on \subseteq {Author} \cup OutstandingReviewers
           \/ /\ pr.changesBy = {} /\ WaitingOn.why = "review requested"
              /\ WaitingOn.on # {} /\ WaitingOn.on = OutstandingReviewers
           \/ WaitingOn.on = {Author} /\ WaitingOn.why = "no reviewer"
<1> DEFINE reviewers == OutstandingReviewers
<1>1. CASE pr.changesBy # {}
  BY <1>1 DEF WaitingOn
<1>2. CASE pr.changesBy = {} /\ pr.unanswered
  BY <1>2 DEF WaitingOn
<1> DEFINE asked   == pr.users # {} \/ pr.teams # {}
           counted == asked /\ (Team \in reviewers \/ EngagedOnly) /\ Engaged /\ Pending # {}
<1> HIDE DEF reviewers
<1>0. \A turn, R : \A P, w : turn = [on |-> P, why |-> w]
          => [turn EXCEPT !.on = @ \cup R] = [on |-> P \cup R, why |-> w]
  OBVIOUS
<1>3. CASE pr.changesBy = {} /\ ~pr.unanswered /\ counted
  <2>1. WaitingOn = [Turn(Pending) EXCEPT !.on = @ \cup (reviewers \ {Team})]
    BY <1>3 DEF WaitingOn, reviewers
  <2>2. CASE pr.last = Author
    <3>1. Turn(Pending) = [on |-> Pending, why |-> "updated since review"]
      BY <2>2 DEF Turn
    <3>2. WaitingOn = [on |-> Pending \cup (reviewers \ {Team}), why |-> "updated since review"]
      BY <1>0, <2>1, <3>1
    <3> QED BY <1>3, <2>2, <3>2 DEF reviewers
  <2>3. CASE pr.last # Author
    <3>1. Turn(Pending) = [on |-> {Author}, why |-> "author's turn"]
      BY <2>3 DEF Turn
    <3>2. WaitingOn = [on |-> {Author} \cup (reviewers \ {Team}), why |-> "author's turn"]
      BY <1>0, <2>1, <3>1
    <3> QED BY <1>3, <2>3, <3>2 DEF reviewers
  <2> QED BY <2>2, <2>3
<1>4. CASE pr.changesBy = {} /\ ~pr.unanswered /\ ~counted /\ asked /\ reviewers # {}
  <2>1. WaitingOn = [on |-> reviewers, why |-> "review requested"]
    BY <1>4 DEF WaitingOn, reviewers
  <2> QED BY <1>4, <2>1 DEF reviewers
<1>5. CASE pr.changesBy = {} /\ ~pr.unanswered /\ ~counted /\ ~(asked /\ reviewers # {})
  <2>1. CASE Pending = {}
    BY <1>5, <2>1 DEF WaitingOn, reviewers
  <2>2. CASE Pending # {}
    <3>1. WaitingOn = Turn(Pending)
      BY <1>5, <2>2 DEF WaitingOn, reviewers
    <3> QED BY <1>5, <2>2, <3>1 DEF Turn
  <2> QED BY <2>1, <2>2
<1>6. pr.unanswered \in BOOLEAN
  BY DEF QueueInv
<1> QED BY <1>1, <1>2, <1>3, <1>4, <1>5, <1>6

\* Those who responded and have not approved are others than the author.
LEMMA PendingAreOthers ==
    ASSUME QueueInv
    PROVE  Author \notin Pending
BY DEF QueueInv, Pending, Others

LEMMA SectionIsRight ==
    ASSUME ReviewQueueAssumption, QueueInv
    PROVE  SectionSaysWhoseMove
<1> SUFFICES /\ WaitingOn.on # {}
             /\ Section(WaitingOn) = "on author" => Author \in WaitingOn.on
             /\ Section(WaitingOn) = "on member" => WaitingOn.on \cap Members # {}
             /\ Section(WaitingOn) = "on others" => ~WaitsOnTeam(WaitingOn) /\ Author \notin WaitingOn.on
  BY DEF SectionSaysWhoseMove
<1> DEFINE waiting == WaitingOn
<1>1. waiting.on # {}
  BY WaitingCases
<1>2. Author \notin OutstandingReviewers /\ Author \notin Pending
  BY ReviewersAreOthers, PendingAreOthers
<1> HIDE DEF waiting
<1>3. Section(waiting) = "on author" => Author \in waiting.on
  <2> SUFFICES ASSUME Section(waiting) = "on author"
               PROVE  Author \in waiting.on
    OBVIOUS
  <2>1. pr.changesBy # {} \/ waiting.why \in {"author's turn", "unanswered"}
    BY DEF Section
  <2> QED BY <2>1, WaitingCases DEF waiting
<1>4. Section(waiting) = "on member" => waiting.on \cap Members # {}
  BY DEF Section
<1>5. Section(waiting) = "on others" => ~WaitsOnTeam(waiting) /\ Author \notin waiting.on
  <2> SUFFICES ASSUME Section(waiting) = "on others"
               PROVE  ~WaitsOnTeam(waiting) /\ Author \notin waiting.on
    OBVIOUS
  <2>1. /\ pr.changesBy = {} /\ waiting.why # "no reviewer"
        /\ waiting.why \notin {"author's turn", "unanswered"}
        /\ waiting.on \cap Members = {} /\ Team \notin waiting.on
    BY DEF Section
  <2>2. Author \notin waiting.on
    BY <1>2, <2>1, WaitingCases DEF waiting
  <2> QED BY <2>1, <2>2 DEF WaitsOnTeam
<1> QED BY <1>1, <1>3, <1>4, <1>5 DEF waiting

LEMMA LastWordIsRight ==
    ASSUME ReviewQueueAssumption, QueueInv
    PROVE  LastWordPassesTheMove
<1> SUFFICES ASSUME pr.last # Author
             PROVE  pr.last \notin WaitingOn.on
  BY DEF LastWordPassesTheMove
<1>1. pr.last \notin OutstandingReviewers
  BY ReviewersAreOthers
<1> QED BY <1>1, WaitingCases

LEMMA StaleRequestsAreTold ==
    ASSUME ReviewQueueAssumption, QueueInv
    PROVE  StaleRequestsAreSkipped
<1> SUFFICES ASSUME pr.asking, Team \in pr.teams, pr.users = {}, pr.assignees = {}, pr.responders = {},
                    \A path \in pr.files : Team \notin OwnersOf[path] \/ ~Narrow(path)
             PROVE  Skipped /\ ~Selected
  BY DEF StaleRequestsAreSkipped
<1>1. ~TeamOwns
  BY DEF TeamOwns, Claims
<1>2. ~MemberAsked
  BY DEF MemberAsked
<1>3. ~MemberEngaged
  BY DEF MemberEngaged
<1> QED BY <1>1, <1>2, <1>3 DEF Selected, Skipped

LEMMA AnswerIsRight ==
    ASSUME ReviewQueueAssumption, QueueInv, pr.last = Author, pr.changesBy = {}, ~pr.unanswered, Pending # {}
    PROVE  Author \notin WaitingOn.on
<1>1. Author \notin OutstandingReviewers /\ Author \notin Pending
  BY ReviewersAreOthers, PendingAreOthers
<1> DEFINE reviewers == OutstandingReviewers
           asked     == pr.users # {} \/ pr.teams # {}
           counted   == asked /\ (Team \in reviewers \/ EngagedOnly) /\ Engaged /\ Pending # {}
<1>2. Turn(Pending) = [on |-> Pending, why |-> "updated since review"]
  BY DEF Turn
<1>3. CASE counted
  <2>1. WaitingOn = [Turn(Pending) EXCEPT !.on = @ \cup (reviewers \ {Team})]
    BY <1>3 DEF WaitingOn
  <2> HIDE DEF reviewers
  <2>2. \A turn, R : \A P, w : turn = [on |-> P, why |-> w] => [turn EXCEPT !.on = @ \cup R].on = P \cup R
    OBVIOUS
  <2>3. WaitingOn.on = Pending \cup (reviewers \ {Team})
    BY <1>2, <2>1, <2>2
  <2> QED BY <1>1, <2>3 DEF reviewers
<1>4. CASE ~counted /\ asked /\ reviewers # {}
  <2>1. WaitingOn = [on |-> reviewers, why |-> "review requested"]
    BY <1>4 DEF WaitingOn
  <2> QED BY <1>1, <2>1
<1>5. CASE ~counted /\ ~(asked /\ reviewers # {})
  <2>1. WaitingOn = Turn(Pending)
    BY <1>5 DEF WaitingOn
  <2>2. WaitingOn = [on |-> Pending, why |-> "updated since review"]
    BY <1>2, <2>1, Zenon
  <2> QED BY <1>1, <2>2
<1> QED BY <1>3, <1>4, <1>5

----------------------------------------------------------------------------
(* The theorems *)

\* A pull request keeps its type (reviewqueue/reviewqueue.go, Candidate).
THEOREM QueueTypeCorrect ==
    ASSUME ReviewQueueAssumption
    PROVE  QueueSpec => []QueueTypeOK
<1>1. QueueInv => QueueTypeOK
  BY DEF QueueInv, QueueTypeOK
<1> QED BY <1>1, QueueInvHolds, PTL

\* Whatever happened to a pull request, somebody has the next move and the section says
\* who, the last word passes the move on, and a request left over from files no longer in
\* the change sends the team nowhere (reviewqueue/reviewqueue.go, WaitingOn, section, Select).
THEOREM QueueTellsWhoseMove ==
    ASSUME ReviewQueueAssumption
    PROVE  QueueSpec => []ShownToWhoseMoveItIs
<1>1. QueueInv => ShownToWhoseMoveItIs
  BY SectionIsRight, LastWordIsRight, StaleRequestsAreTold DEF ShownToWhoseMoveItIs
<1> QED BY <1>1, QueueInvHolds, PTL

\* After the author's answer the move is not the author's (reviewqueue/reviewqueue.go, turn).
THEOREM AnsweringPasses ==
    ASSUME ReviewQueueAssumption
    PROVE  QueueSpec => AnsweringPassesTheMove
<1> DEFINE Passed == pr.last = Author /\ pr.asking /\ Selected /\ pr.changesBy = {} /\ ~pr.unanswered
                         /\ pr.responders \ pr.approvers # {} => Author \notin WaitingOn.on
<1>1. QueueInv => Passed
  BY AnswerIsRight DEF Pending
<1>2. Passed' =>
          [pr'.last = Author /\ pr'.asking /\ Selected' /\ pr'.changesBy = {} /\ ~pr'.unanswered
            /\ pr'.responders \ pr'.approvers # {} => Author \notin WaitingOn'.on]_pr
  OBVIOUS
<1> HIDE DEF Passed
<1> QED BY <1>1, <1>2, QueueInvHolds, PTL DEF AnsweringPassesTheMove
=============================================================================
