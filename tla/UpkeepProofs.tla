---------------------------- MODULE UpkeepProofs ----------------------------
(***************************************************************************)
(* What runs by itself: what the overdue sweep keeps of the chases it      *)
(* raises, for any number of waits, any allowance and any calendar         *)
(* (Overdue); what inits, restores and commands that may be killed keep of *)
(* the database's files, for any builds (Database); and how the syncer     *)
(* keeps its pace, for any interval, budget and back-off (Syncer).         *)
(***************************************************************************)
EXTENDS Overdue, Database, Syncer, OrderFacts, FiniteSetTheorems, TLAPS

----------------------------------------------------------------------------
(* The overdue sweep: the inductive invariant *)

\* A sweep that is about to raise a chase has the wait in hand.
InHand(p) == sweep[p].pc \in {"raise", "insert"} => sweep[p].wait \in Waits

OverdueInv ==
    /\ TypeOK
    /\ ChasesRecorded
    /\ \A p \in Sweepers : InHand(p)

\* What CheckRaised found is still so when Raise inserts.
NoneRaised(p) == sweep[p].pc = "insert" => recorded[sweep[p].wait] = 0

OneChaseInv ==
    /\ OneChasePerWait
    /\ \A p \in Sweepers : NoneRaised(p)

\* One process sweeps: the server's loop, or `roz sync` without a server.
OneSweeper == \A p, q \in Sweepers : p = q

----------------------------------------------------------------------------
\* What a sweep has in memory has its type.
SweepType ==
    [pc : {"idle", "report", "raise", "insert", "clear"}, due : SUBSET Waits,
     wait : Waits \union {NoWait}, late : SUBSET Waits]

\* A phase that changes only what the sweep has in memory keeps the rest.
LEMMA MemoryKeeps ==
    ASSUME OverdueInv, NEW p \in Sweepers, NEW new \in SweepType,
           new.pc \in {"raise", "insert"} => new.wait \in Waits,
           sweep' = [sweep EXCEPT ![p] = new],
           UNCHANGED <<today, action, clocks, chases, recorded>>,
           reported' \in [Waits -> Days \union {NoDay}]
    PROVE  OverdueInv'
BY DEF OverdueInv, TypeOK, ChasesRecorded, InHand, SweepType, action, clocks

\* Each phase of a sweep keeps the types and the record of its chases.
LEMMA SweepKeeps ==
    ASSUME OverdueAssumption, OverdueInv, NEW p \in Sweepers, SweepStep(p) \/ Stop(p)
    PROVE  OverdueInv'
<1> USE DEF OverdueInv, TypeOK, ChasesRecorded, InHand, action, clocks
<1> DEFINE mine == sweep[p]
<1>0. mine \in SweepType /\ InHand(p)
  BY DEF SweepType
<1>1. CASE FindOverdue(p)
  <2> DEFINE new == [mine EXCEPT !.pc = "report", !.due = {w \in Late : Unreported(w)}]
  <2>1. sweep' = [sweep EXCEPT ![p] = new]
    BY <1>1 DEF FindOverdue
  <2>2. new \in SweepType /\ new.pc = "report"
    BY <1>0 DEF SweepType, Late
  <2> QED BY <1>1, <2>1, <2>2, MemoryKeeps DEF FindOverdue
<1>2. ASSUME NEW w \in Waits, Report(p, w)
      PROVE  OverdueInv'
  <2> DEFINE new == [mine EXCEPT !.due = @ \ {w},
                                 !.pc = IF w \in InQueue THEN "report" ELSE "raise",
                                 !.wait = IF w \in InQueue THEN NoWait ELSE w]
  <2>1. sweep' = [sweep EXCEPT ![p] = new]
    BY <1>2 DEF Report
  <2>2. new \in SweepType /\ (new.pc \in {"raise", "insert"} => new.wait \in Waits)
    BY <1>0, <1>2 DEF SweepType, Report
  <2>3. reported' \in [Waits -> Days \union {NoDay}]
    BY <1>2 DEF Report
  <2> QED BY <1>2, <2>1, <2>2, <2>3, MemoryKeeps DEF Report
<1>3. CASE CheckRaised(p)
  <2> DEFINE new == IF recorded[mine.wait] > 0
                    THEN [mine EXCEPT !.pc = "report", !.wait = NoWait]
                    ELSE [mine EXCEPT !.pc = "insert"]
  <2>1. sweep' = [sweep EXCEPT ![p] = new]
    <3>1. CASE recorded[mine.wait] > 0
      BY <1>3, <3>1 DEF CheckRaised
    <3>2. CASE ~(recorded[mine.wait] > 0)
      BY <1>3, <3>2 DEF CheckRaised
    <3> QED BY <3>1, <3>2
  <2>2. new \in SweepType /\ (new.pc \in {"raise", "insert"} => new.wait \in Waits)
    BY <1>0, <1>3 DEF SweepType, CheckRaised
  <2>3. UNCHANGED <<today, action, clocks, reported, chases, recorded>>
    BY <1>3 DEF CheckRaised
  <2> HIDE DEF new
  <2> QED BY <2>1, <2>2, <2>3, MemoryKeeps
<1>4. CASE Raise(p)
  <2>1. mine.wait \in Waits
    BY <1>0, <1>4 DEF Raise
  <2>2. /\ chases' = [chases EXCEPT ![mine.wait] = @ + 1]
        /\ recorded' = [recorded EXCEPT ![mine.wait] = @ + 1]
        /\ sweep' = [sweep EXCEPT ![p] = [mine EXCEPT !.pc = "report", !.wait = NoWait]]
        /\ UNCHANGED <<today, action, clocks, reported>>
    BY <1>4 DEF Raise
  <2> HIDE DEF mine
  <2>3. [mine EXCEPT !.pc = "report", !.wait = NoWait] \in SweepType
    BY <1>0 DEF SweepType
  <2> QED BY <2>1, <2>2, <2>3 DEF SweepType
<1>5. CASE ReadLate(p)
  BY <1>5 DEF ReadLate, Late
<1>6. CASE StandDownCleared(p)
  BY <1>6 DEF StandDownCleared, Idle
<1>7. CASE Stop(p)
  BY <1>7 DEF Stop, Idle
<1> QED BY <1>1, <1>2, <1>3, <1>4, <1>5, <1>6, <1>7 DEF SweepStep

\* So does what a command, the calendar or another sweep does to a wait.
LEMMA WaitKeeps ==
    ASSUME OverdueAssumption, OverdueInv,
           \/ \E w \in Waits :
                 \/ Close(w) \/ CloseChase(w) \/ Announce(w)
                 \/ Hide(w) \/ ComeOut(w) \/ Unhide(w) \/ TakeBack(w)
                 \/ \E d \in Days : PutOff(w, d) \/ Snooze(w, d)
           \/ WakeExpired
           \/ Tick
    PROVE  OverdueInv'
<1> USE DEF OverdueInv, TypeOK, ChasesRecorded, InHand, action, clocks
<1>1. ASSUME NEW w \in Waits, Close(w)
      PROVE  OverdueInv'
  BY <1>1 DEF Close
<1>2. ASSUME NEW w \in Waits, CloseChase(w)
      PROVE  OverdueInv'
  BY <1>2 DEF CloseChase
<1>3. ASSUME NEW w \in Waits, Announce(w) \/ Hide(w) \/ ComeOut(w) \/ Unhide(w) \/ TakeBack(w)
      PROVE  OverdueInv'
  BY <1>3 DEF Announce, Hide, ComeOut, Unhide, TakeBack
<1>4. ASSUME NEW w \in Waits, NEW d \in Days, PutOff(w, d) \/ Snooze(w, d)
      PROVE  OverdueInv'
  BY <1>4 DEF PutOff, Snooze
<1>5. CASE WakeExpired
  BY <1>5 DEF WakeExpired
<1>6. CASE Tick
  BY <1>6 DEF Tick, Days, OverdueAssumption
<1> QED BY <1>1, <1>2, <1>3, <1>4, <1>5, <1>6

LEMMA OverdueInvHolds ==
    ASSUME OverdueAssumption
    PROVE  Spec => []OverdueInv
<1>1. Init => OverdueInv
  BY DEF Init, OverdueAssumption, OverdueInv, TypeOK, ChasesRecorded, InHand, Idle, Days
<1>2. OverdueInv /\ [Next]_vars => OverdueInv'
  <2> SUFFICES ASSUME OverdueInv, [Next]_vars
               PROVE  OverdueInv'
    OBVIOUS
  <2>1. CASE Next
    BY <2>1, SweepKeeps, WaitKeeps DEF Next
  <2>2. CASE UNCHANGED vars
    BY <2>2 DEF vars, action, clocks, OverdueInv, TypeOK, ChasesRecorded, InHand
  <2> QED BY <2>1, <2>2
<1> QED BY <1>1, <1>2, PTL DEF Spec

\* The columns of a wait, and a sweep's memory, keep their types; a chase that is open
\* is one that a row remembers (store/raised.go), whatever sweeps run side by side
\* and wherever their processes end.
THEOREM OverdueTypeCorrect ==
    ASSUME OverdueAssumption
    PROVE  Spec => []TypeOK
<1>1. OverdueInv => TypeOK
  BY DEF OverdueInv
<1> QED BY <1>1, OverdueInvHolds, PTL

THEOREM ChasesAreRecorded ==
    ASSUME OverdueAssumption
    PROVE  Spec => []ChasesRecorded
<1>1. OverdueInv => ChasesRecorded
  BY DEF OverdueInv
<1> QED BY <1>1, OverdueInvHolds, PTL

----------------------------------------------------------------------------
(* One chase for a wait *)

\* Only the sweep that is about to insert could make what it found untrue.
LEMMA OneChaseKeeps ==
    ASSUME OverdueAssumption, OneSweeper, OverdueInv, OneChaseInv, [Next]_vars
    PROVE  OneChaseInv'
<1> USE DEF OverdueInv, OneChaseInv, TypeOK, ChasesRecorded, InHand, OneChasePerWait, NoneRaised
<1>1. ASSUME NEW p \in Sweepers, FindOverdue(p) \/ ReadLate(p) \/ Stop(p)
      PROVE  OneChaseInv'
  <2>1. UNCHANGED <<chases, recorded>>
    BY <1>1 DEF FindOverdue, ReadLate, Stop
  <2>2. \A q \in Sweepers : sweep'[q].pc = "insert" => q # p /\ sweep'[q] = sweep[q]
    BY <1>1 DEF FindOverdue, ReadLate, Stop, Idle
  <2> QED BY <2>1, <2>2
<1>2. ASSUME NEW p \in Sweepers, NEW w \in Waits, Report(p, w)
      PROVE  OneChaseInv'
  BY <1>2 DEF Report
<1>3. ASSUME NEW p \in Sweepers, CheckRaised(p)
      PROVE  OneChaseInv'
  BY <1>3 DEF CheckRaised
<1>4. ASSUME NEW p \in Sweepers, Raise(p)
      PROVE  OneChaseInv'
  <2>1. sweep[p].wait \in Waits /\ chases[sweep[p].wait] = 0
    BY <1>4 DEF Raise
  <2>2. OneChasePerWait'
    BY <1>4, <2>1 DEF Raise
  <2>3. \A q \in Sweepers : q = p /\ sweep'[q].pc = "report"
    BY <1>4, OneSweeper DEF Raise, OneSweeper
  <2> QED BY <2>2, <2>3
<1>5. ASSUME NEW p \in Sweepers, StandDownCleared(p)
      PROVE  OneChaseInv'
  <2>1. OneChasePerWait'
    BY <1>5 DEF StandDownCleared
  <2>2. \A q \in Sweepers : sweep'[q].pc = "idle"
    BY <1>5, OneSweeper DEF StandDownCleared, OneSweeper, Idle
  <2> QED BY <2>1, <2>2
<1>6. ASSUME NEW w \in Waits, Close(w) \/ CloseChase(w)
      PROVE  OneChaseInv'
  BY <1>6 DEF Close, CloseChase
<1>7. CASE UNCHANGED <<chases, recorded, sweep>>
  BY <1>7
<1> QED
  BY <1>1, <1>2, <1>3, <1>4, <1>5, <1>6, <1>7
     DEF Next, SweepStep, vars, Announce, Hide, ComeOut, Unhide, TakeBack, PutOff, Snooze,
         WakeExpired, Tick

\* "The queue keeps one item per outstanding condition" (store/raised.go:32), where one
\* process sweeps: with two, the check and the insert of RaiseAction are two
\* transactions, and the run overdue_two_sweeps shows the second chase.
THEOREM OneChaseForAWait ==
    ASSUME OverdueAssumption, OneSweeper
    PROVE  Spec => []OneChasePerWait
<1>1. Init => OneChaseInv
  BY DEF Init, OneChaseInv, OneChasePerWait, NoneRaised, Idle
<1>2. OverdueInv /\ OneChaseInv /\ [Next]_vars => OneChaseInv'
  BY OneChaseKeeps
<1>3. OneChaseInv => OneChasePerWait
  BY DEF OneChaseInv
<1> QED BY <1>1, <1>2, <1>3, OverdueInvHolds, PTL DEF Spec

----------------------------------------------------------------------------
(* The database: the inductive invariant *)

Earlier    == {v \in Versions : v <= LegacyStamp}
Nothing(f) == f.applied = {} => \A v \in Versions : ~(v <= f.stamp)
Using      == Connected \cup {"closing"}

\* What a process may rely on, at each step of it: the file is there while it is
\* connected; what it read of an unrecorded database is in the record or still true;
\* who restores has the backup at hand, and once the old file is aside, no file.
Relies(p) ==
    /\ proc[p].pc \in Using => There(db)
    /\ proc[p].pc = "backfill" => /\ proc[p].stamp = LegacyStamp /\ LegacyStamp > 0
                                  /\ Earlier \subseteq db.applied \/ (db.applied = {} /\ db.stamp = LegacyStamp)
    /\ proc[p].pc \in {"reading", "migrating"} => Nothing(db)
    /\ proc[p].pc \in {"opening", "open"} => proc[p].build \subseteq db.applied
    /\ proc[p].pc = "open" => db.seeded
    /\ proc[p].pc \in Restoring => staged = Backup
    /\ proc[p].pc \in {"sidecars", "place"} => ~There(db)

\* A file's record is true of it, and where there is none the stamp is the old one.
Holds(f) ==
    /\ \A v \in Versions : f.ran[v] = IF v \in f.applied \/ (f.applied = {} /\ v <= f.stamp) THEN 1 ELSE 0
    /\ f.applied = {} => f.stamp \in {0, LegacyStamp}

DatabaseInv ==
    /\ DatabaseTypeOK
    /\ db.data <= committed /\ wal.data <= committed
    /\ Holds(db)
    /\ \A p \in Processes : Relies(p)

----------------------------------------------------------------------------
(* The database: what a step of one process leaves the others *)

\* What a process may do to the file others are connected to.
Grows ==
    /\ staged' = staged /\ db'.of = db.of
    /\ db.applied \subseteq db'.applied /\ (db.seeded => db'.seeded)
    /\ db'.applied = db.applied => db'.stamp = db.stamp
    /\ db'.applied # db.applied => Nothing(db) \/ Earlier \subseteq db'.applied

\* The tables, and the process that stepped, after a step.
Sound(p, new) ==
    /\ new \in Memories /\ new.applied \subseteq new.build
    /\ proc' = [proc EXCEPT ![p] = new]
    /\ db' \in Files /\ staged' \in Files /\ (\A f \in asides' : f \in Files)
    /\ wal' \in [of : {"missing", "live"}, data : 0 .. MaxCommits]
    /\ committed' \in 0 .. MaxCommits /\ kills' \in 0 .. MaxKills /\ restores' \in 0 .. MaxRestores
    /\ db'.data <= committed' /\ wal'.data <= committed'
    /\ Holds(db')

LEMMA OthersRely ==
    ASSUME NEW p \in Processes, NEW new, proc' = [proc EXCEPT ![p] = new],
           NEW q \in Processes \ {p}, Relies(q), DatabaseTypeOK,
           proc[q].pc = "idle" \/ Grows
    PROVE  Relies(q)'
<1>1. proc'[q] = proc[q]
  BY DEF DatabaseTypeOK
<1>2. CASE proc[q].pc = "idle"
  BY <1>1, <1>2 DEF Relies, Using, Connected, Restoring
<1>3. CASE Grows
  <2>1. db.applied \subseteq Versions /\ db'.applied = {} => db.applied = {} /\ db'.stamp = db.stamp
    BY <1>3 DEF Grows
  <2>2. Nothing(db) => Nothing(db')
    BY <1>3 DEF Grows, Nothing
  <2>3. proc[q].pc = "backfill" =>
           Earlier \subseteq db'.applied \/ (db'.applied = {} /\ db'.stamp = LegacyStamp)
    <3>1. CASE db'.applied = db.applied
      BY <1>3, <3>1 DEF Grows, Relies
    <3>2. CASE db'.applied # db.applied /\ Nothing(db)
      <4>1. db.applied = {} /\ db.stamp = LegacyStamp => Earlier = {}
        BY <3>2 DEF Nothing, Earlier
      <4> QED BY <1>3, <4>1 DEF Grows, Relies
    <3> QED BY <1>3, <3>1, <3>2 DEF Grows
  <2>4. There(db') <=> There(db)
    BY <1>3 DEF Grows, There
  <2> QED BY <1>1, <1>3, <2>2, <2>3, <2>4 DEF Relies, Grows
<1> QED BY <1>2, <1>3

LEMMA StepKeeps ==
    ASSUME DatabaseInv, NEW p \in Processes, NEW new, Sound(p, new),
           \A q \in Processes \ {p} : \/ proc[q].pc = "idle"
                                      \/ Grows /\ {proc[q].pc, new.pc} \cap Restoring = {},
           Relies(p)'
    PROVE  DatabaseInv'
<1>1. \A q \in Processes \ {p} : Relies(q)'
  BY OthersRely DEF DatabaseInv, Sound
<1>2. proc' \in [Processes -> Memories] /\ proc'[p] = new
      /\ \A q \in Processes \ {p} : proc'[q] = proc[q]
  BY DEF DatabaseInv, DatabaseTypeOK, Sound
<1>3. \A q \in Processes : proc'[q].applied \subseteq proc'[q].build
  BY <1>2 DEF DatabaseInv, DatabaseTypeOK, Sound
<1>4. \A q \in Processes : proc'[q].pc \in Restoring
                              => Beside(q, Restoring \cup Connected \cup {"closing"})'
  <2> SUFFICES ASSUME NEW q \in Processes, NEW r \in Processes \ {q}, proc'[q].pc \in Restoring
               PROVE  proc'[r].pc \notin Restoring \cup Connected \cup {"closing"}
    BY DEF Beside
  <2>1. proc[q].pc \in Restoring => proc[r].pc = "idle"
    BY DEF DatabaseInv, DatabaseTypeOK, Beside, Memories
  <2>2. "idle" \notin Restoring \cup Connected \cup {"closing"}
    BY DEF Restoring, Connected
  <2>3. CASE q = p
    BY <1>2, <2>2, <2>3
  <2>4. CASE r = p
    BY <1>2, <2>1, <2>2, <2>4
  <2>5. CASE q # p /\ r # p
    BY <1>2, <2>1, <2>2, <2>5
  <2> QED BY <2>3, <2>4, <2>5
<1> QED BY <1>1, <1>2, <1>3, <1>4 DEF DatabaseInv, DatabaseTypeOK, Sound

\* A process that is at something and another that restores do not run together.
LEMMA RestoresAlone ==
    ASSUME DatabaseInv, NEW p \in Processes
    PROVE  /\ proc[p].pc # "idle" => \A q \in Processes \ {p} : proc[q].pc \notin Restoring
           /\ proc[p].pc \in Restoring => \A q \in Processes \ {p} : proc[q].pc = "idle"
<1>1. \A q \in Processes : proc[q].pc \in {"idle", "closing"} \cup Restoring \cup Connected
  BY DEF DatabaseInv, DatabaseTypeOK, Memories
<1> QED BY <1>1 DEF DatabaseInv, DatabaseTypeOK, Beside

\* Only the commits in a file change when a log is copied into it.
LEMMA CopyKeeps ==
    ASSUME DatabaseInv, db' = db \/ db' = [db EXCEPT !.data = wal.data], staged' = staged
    PROVE  Grows /\ Holds(db') /\ db' \in Files /\ db'.data <= committed /\ db'.of = db.of
           /\ db'.applied = db.applied /\ db'.seeded = db.seeded /\ db'.stamp = db.stamp
<1>1. db \in Files /\ wal.data \in 0 .. MaxCommits
  BY DEF DatabaseInv, DatabaseTypeOK
<1>2. /\ db' \in Files /\ db'.of = db.of /\ db'.applied = db.applied /\ db'.stamp = db.stamp
      /\ db'.seeded = db.seeded /\ db'.ran = db.ran
      /\ db'.data = db.data \/ db'.data = wal.data
  BY <1>1 DEF Files
<1> QED BY <1>2 DEF Grows, DatabaseInv, Holds

LEMMA ClosingKeeps ==
    ASSUME DatabaseAssumption, DatabaseInv, NEW p \in Processes, CloseDb(p), Same, proc[p].pc \in Using
    PROVE  DatabaseInv'
<1> DEFINE new == [proc[p] EXCEPT !.pc = "idle"]
<1>1. /\ proc[p] \in Memories /\ proc[p].applied \subseteq proc[p].build
      /\ wal \in [of : {"missing", "live"}, data : 0 .. MaxCommits]
  BY DEF DatabaseInv, DatabaseTypeOK
<1>2. /\ new \in Memories /\ new.applied \subseteq new.build /\ new.pc = "idle"
      /\ proc' = [proc EXCEPT ![p] = new]
  BY <1>1 DEF Memories, CloseDb, GoTo
<1>3. (db' = db \/ db' = [db EXCEPT !.data = wal.data]) /\ staged' = staged /\ asides' = asides
      /\ (wal' = wal \/ wal' = NoWal) /\ UNCHANGED <<committed, kills, restores>>
  BY DEF CloseDb, Same, dbBounds
<1> HIDE DEF new
<1>4. Grows /\ Holds(db') /\ db' \in Files /\ db'.data <= committed
  BY <1>3, CopyKeeps
<1>5. wal' \in [of : {"missing", "live"}, data : 0 .. MaxCommits] /\ wal'.data <= committed
  <2>1. MaxCommits \in Nat /\ committed \in 0 .. MaxCommits
    BY DEF DatabaseAssumption, DatabaseInv, DatabaseTypeOK
  <2>2. NoWal \in [of : {"missing", "live"}, data : 0 .. MaxCommits] /\ NoWal.data <= committed
    BY <2>1 DEF NoWal
  <2> QED BY <1>1, <1>3, <2>2 DEF DatabaseInv
<1>6. Sound(p, new)
  BY <1>2, <1>3, <1>4, <1>5 DEF Sound, DatabaseInv, DatabaseTypeOK
<1>7. "idle" \notin Using \cup Restoring
  BY DEF Using, Connected, Restoring
<1>8. proc[p].pc # "idle"
  BY <1>7
<1>9. Relies(p)'
  <2>1. proc'[p].pc = "idle"
    BY <1>2 DEF DatabaseInv, DatabaseTypeOK
  <2> QED BY <1>7, <2>1 DEF Relies, Using
<1> QED BY <1>2, <1>4, <1>6, <1>7, <1>8, <1>9, RestoresAlone, StepKeeps

\* A step that moves one process on and leaves the files as they are.
LEMMA MovingOnKeeps ==
    ASSUME DatabaseInv, NEW p \in Processes, NEW new \in Memories, new.applied \subseteq new.build,
           proc' = [proc EXCEPT ![p] = new], new.pc \notin Restoring, proc[p].pc # "idle",
           UNCHANGED <<dbFiles, committed>>, UNCHANGED restores, kills' \in 0 .. MaxKills, Relies(p)'
    PROVE  DatabaseInv'
<1>1. Grows /\ Holds(db')
  BY DEF DatabaseInv, dbFiles, Grows, Holds
<1>2. Sound(p, new)
  BY <1>1 DEF Sound, DatabaseInv, DatabaseTypeOK, dbFiles
<1> QED BY <1>1, <1>2, RestoresAlone, StepKeeps

----------------------------------------------------------------------------
(* The database: init *)

\* The newest build is one of them.
LEMMA NewestIsABuild ==
    ASSUME DatabaseAssumption
    PROVE  Newest \in Builds
<1> DEFINE C == Cardinality(Versions)
           size == [b \in Builds |-> Cardinality(b)]
<1>1. C \in Nat
  BY FS_CardinalityType DEF DatabaseAssumption
<1>2. \A b \in Builds : Cardinality(b) \in 0 .. C
  <2> SUFFICES ASSUME NEW b \in Builds
               PROVE  Cardinality(b) \in 0 .. C
    OBVIOUS
  <2>1. b \subseteq Versions /\ IsFiniteSet(Versions)
    BY DEF Versions, DatabaseAssumption
  <2>2. IsFiniteSet(b) /\ Cardinality(b) <= C /\ Cardinality(b) \in Nat
    BY <2>1, FS_Subset, FS_CardinalityType
  <2> QED BY <1>1, <2>2
<1> HIDE DEF C
<1>3. size \in [Builds -> 0 .. C]
  BY <1>2
<1>4. \E b \in Builds : \A c \in Builds : size[c] <= size[b]
  <2>1. Builds # {}
    BY DEF DatabaseAssumption
  <2> HIDE DEF size
  <2> QED BY <1>1, <1>3, <2>1, GreatestValue
<1>5. \E b \in Builds : \A c \in Builds : Cardinality(c) <= Cardinality(b)
  BY <1>4
<1> QED BY <1>5 DEF Newest

\* A file that has only what a build gives it is sound.
LEMMA FilesAreSound ==
    ASSUME DatabaseAssumption
    PROVE  /\ Missing \in Files /\ Holds(Missing) /\ Missing.data = 0 /\ ~There(Missing)
           /\ Backup \in Files /\ Holds(Backup) /\ Backup.data = 0 /\ There(Backup)
           /\ Legacy \in Files /\ Holds(Legacy) /\ Legacy.data = 0 /\ There(Legacy)
           /\ \A of \in {"live", "again"} :
                 LET new == File(of, {}, 0, {})
                 IN  new \in Files /\ Holds(new) /\ new.data = 0 /\ new.applied = {} /\ new.stamp = 0
                     /\ There(new) /\ new.of = of
<1> DEFINE Made(f, of, applied, stamp, ran) ==
               /\ f \in Files /\ f.data = 0 /\ f.of = of /\ f.applied = applied /\ f.stamp = stamp
               /\ \A v \in Versions : f.ran[v] = IF v \in ran THEN 1 ELSE 0
<1>1. /\ Newest \subseteq Versions /\ Newest # {} /\ LegacyStamp \in Nat /\ MaxCommits \in Nat
      /\ \A v \in Versions : v \in Nat /\ v > 0
  <2>1. Newest \subseteq Versions /\ Newest # {}
    BY NewestIsABuild DEF DatabaseAssumption, Versions
  <2>2. \A v \in Versions : v \in Nat /\ v > 0
    BY DEF DatabaseAssumption, Versions
  <2>3. LegacyStamp \in Nat /\ MaxCommits \in Nat
    BY DEF DatabaseAssumption
  <2> QED BY <2>1, <2>2, <2>3
<1>2. ASSUME NEW of \in {"missing", "live", "again", "backup"}, NEW applied \in SUBSET Versions,
             NEW stamp \in Nat, NEW ran
      PROVE  /\ Made(File(of, applied, stamp, ran), of, applied, stamp, ran)
             /\ Made(Seeded(File(of, applied, stamp, ran)), of, applied, stamp, ran)
  <2> DEFINE r == [v \in Versions |-> IF v \in ran THEN 1 ELSE 0]
             f == File(of, applied, stamp, ran)
  <2>1. r \in [Versions -> Nat] /\ \A v \in Versions : r[v] = IF v \in ran THEN 1 ELSE 0
    OBVIOUS
  <2>2. f = [of |-> of, applied |-> applied, stamp |-> stamp, seeded |-> FALSE, data |-> 0, ran |-> r]
    BY DEF File
  <2> HIDE DEF f, r
  <2>3. f \in Files /\ f.data = 0 /\ f.of = of /\ f.applied = applied /\ f.stamp = stamp /\ f.ran = r
    BY <1>1, <2>1, <2>2 DEF Files
  <2>4. Seeded(f) \in Files /\ Seeded(f).data = f.data /\ Seeded(f).of = f.of
        /\ Seeded(f).applied = f.applied /\ Seeded(f).stamp = f.stamp /\ Seeded(f).ran = f.ran
    BY <2>3 DEF Files, Seeded
  <2>5. Made(f, of, applied, stamp, ran) /\ Made(Seeded(f), of, applied, stamp, ran)
    BY <2>1, <2>3, <2>4
  <2> QED BY <2>5 DEF f
<1>3. \A of \in {"missing", "live", "again"} : Made(File(of, {}, 0, {}), of, {}, 0, {})
  <2> HIDE DEF Made
  <2>1. {} \in SUBSET Versions /\ 0 \in Nat
    OBVIOUS
  <2> QED BY <1>2, <2>1
<1>4. Made(Backup, "backup", Newest, 0, Newest)
  <2> HIDE DEF Made
  <2>1. Newest \in SUBSET Versions /\ 0 \in Nat
    BY <1>1
  <2> QED BY <1>1, <1>2, <2>1 DEF Backup
<1>5. Made(Legacy, "live", {}, LegacyStamp, 1 .. LegacyStamp)
  <2> HIDE DEF Made
  <2>1. {} \in SUBSET Versions
    BY <1>1
  <2> QED BY <1>1, <1>2, <2>1 DEF Legacy
<1>6. \A v \in Versions : ~(v <= 0)
  BY <1>1
<1>7. ASSUME NEW of \in {"live", "again"}
      PROVE  LET new == File(of, {}, 0, {})
             IN  new \in Files /\ Holds(new) /\ new.data = 0 /\ new.applied = {} /\ new.stamp = 0
                 /\ There(new) /\ new.of = of
  BY <1>3, <1>6 DEF Holds, There
<1>8. Missing \in Files /\ Holds(Missing) /\ Missing.data = 0 /\ ~There(Missing)
  BY <1>3, <1>6 DEF Holds, There, Missing
<1>9. Backup \in Files /\ Holds(Backup) /\ Backup.data = 0 /\ There(Backup)
  BY <1>1, <1>4 DEF Holds, There
<1>10. Legacy \in Files /\ Holds(Legacy) /\ Legacy.data = 0 /\ There(Legacy)
  <2>1. \A v \in Versions : v \in 1 .. LegacyStamp <=> v <= LegacyStamp
    BY <1>1
  <2> QED BY <1>1, <1>5, <2>1 DEF Holds, There
<1> QED BY <1>7, <1>8, <1>9, <1>10

LEMMA InitMovesOn ==
    ASSUME DatabaseAssumption, DatabaseInv, NEW p \in Processes,
           EnsureBookkeeping(p) \/ ReadApplied(p) \/ Migrated(p) \/ InitFails(p)
    PROVE  DatabaseInv'
<1> DEFINE mine == proc[p]
<1>1. /\ mine \in Memories /\ mine.applied \subseteq mine.build /\ Relies(p) /\ Holds(db)
      /\ db \in Files /\ kills \in 0 .. MaxKills
  BY DEF DatabaseInv, DatabaseTypeOK
<1>2. ASSUME NEW new \in Memories, proc' = [proc EXCEPT ![p] = new]
      PROVE  proc'[p] = new
  BY <1>2 DEF DatabaseInv, DatabaseTypeOK
<1>3. CASE EnsureBookkeeping(p)
  <2> DEFINE pc  == IF db.applied = {} /\ db.stamp > 0 THEN "backfill" ELSE "reading"
             new == [mine EXCEPT !.pc = pc, !.stamp = db.stamp]
  <2>1. new \in Memories /\ new.pc = pc /\ new.stamp = db.stamp /\ new.build = mine.build
        /\ new.applied = mine.applied
    BY <1>1 DEF Memories, Files, Connected
  <2>2. proc' = [proc EXCEPT ![p] = new] /\ UNCHANGED <<dbFiles, committed, kills, restores>>
        /\ mine.pc = "bookkeeping" /\ db' = db /\ staged' = staged
    BY <1>3 DEF EnsureBookkeeping, Same, dbBounds, dbFiles
  <2> HIDE DEF new
  <2>3. There(db)
    BY <1>1, <2>2 DEF Relies, Using, Connected
  <2>4. pc = "reading" => Nothing(db)
    <3>1. \A v \in Versions : v \in Nat \ {0}
      BY DEF DatabaseAssumption, Versions
    <3> QED BY <1>1, <3>1 DEF Nothing, Files
  <2>5. pc = "backfill" => db.applied = {} /\ db.stamp = LegacyStamp /\ LegacyStamp > 0
    BY <1>1 DEF Holds
  <2>6. Relies(p)'
    <3>1. proc'[p] = new
      BY <1>2, <2>1, <2>2
    <3> QED BY <2>1, <2>2, <2>3, <2>4, <2>5, <3>1 DEF Relies, Restoring
  <2> QED BY <1>1, <2>1, <2>2, <2>6, MovingOnKeeps DEF Restoring
<1>4. CASE ReadApplied(p)
  <2> DEFINE new == [mine EXCEPT !.pc = "migrating", !.applied = db.applied]
  <2>1. new \in Memories /\ new.pc = "migrating" /\ new.applied = db.applied /\ new.build = mine.build
    BY <1>1 DEF Memories, Files, Connected
  <2>2. proc' = [proc EXCEPT ![p] = new] /\ UNCHANGED <<dbFiles, committed, kills, restores>>
        /\ mine.pc = "reading" /\ db' = db /\ staged' = staged /\ db.applied \subseteq mine.build
    BY <1>4 DEF ReadApplied, Unknown, Same, dbBounds, dbFiles
  <2> HIDE DEF new
  <2>3. Relies(p)'
    <3>1. proc'[p] = new
      BY <1>2, <2>1, <2>2
    <3> QED BY <1>1, <2>1, <2>2, <3>1 DEF Relies, Restoring, Using, Connected
  <2> QED BY <1>1, <2>1, <2>2, <2>3, MovingOnKeeps DEF Restoring
<1>5. CASE Migrated(p) /\ ~db.seeded
  <2> DEFINE new == [mine EXCEPT !.pc = "seeding"]
  <2>1. new \in Memories /\ new.pc = "seeding" /\ new.applied = mine.applied /\ new.build = mine.build
    BY <1>1 DEF Memories, Connected
  <2>2. proc' = [proc EXCEPT ![p] = new] /\ UNCHANGED <<dbFiles, committed, kills, restores>>
        /\ mine.pc = "migrating" /\ db' = db /\ staged' = staged
    BY <1>5 DEF Migrated, GoTo, Same, dbBounds, dbFiles
  <2> HIDE DEF new
  <2>3. Relies(p)'
    <3>1. proc'[p] = new
      BY <1>2, <2>1, <2>2
    <3> QED BY <1>1, <2>1, <2>2, <3>1 DEF Relies, Restoring, Using, Connected
  <2> QED BY <1>1, <2>1, <2>2, <2>3, MovingOnKeeps DEF Restoring
<1>6. CASE (Migrated(p) /\ db.seeded) \/ InitFails(p)
  <2>1. CloseDb(p) /\ Same /\ mine.pc \in Using
    BY <1>6 DEF Migrated, InitFails, Using, Connected
  <2> QED BY <2>1, ClosingKeeps
<1> QED BY <1>3, <1>4, <1>5, <1>6

\* What a build would fill the record in with is what ran before there was one.
LEMMA BackfillKeeps ==
    ASSUME DatabaseAssumption, DatabaseInv, NEW p \in Processes, Backfill(p)
    PROVE  DatabaseInv'
<1> DEFINE mine == proc[p]
           new == [mine EXCEPT !.pc = "reading"]
<1>1. /\ mine \in Memories /\ mine.applied \subseteq mine.build /\ Relies(p) /\ Holds(db)
      /\ db \in Files /\ mine.pc = "backfill"
  BY DEF DatabaseInv, DatabaseTypeOK, Backfill
<1>2. new \in Memories /\ new.pc = "reading" /\ new.applied = mine.applied /\ new.build = mine.build
  BY <1>1 DEF Memories, Connected
<1>3. /\ proc' = [proc EXCEPT ![p] = new] /\ db' = [db EXCEPT !.applied = @ \cup Before(p)]
      /\ UNCHANGED <<wal, asides, staged, committed, kills, restores>>
      /\ Before(p) \cap db.applied = {}
  BY DEF Backfill, GoTo, Same, dbBounds
<1> HIDE DEF new
<1>4. Before(p) = Earlier
  <2>1. mine.stamp = LegacyStamp /\ mine.build \in Builds
    BY <1>1 DEF Relies, Memories
  <2> QED BY <2>1 DEF Before, Earlier, DatabaseAssumption, Versions
<1>5. Earlier = {} \/ (db.applied = {} /\ db.stamp = LegacyStamp)
  BY <1>1, <1>3, <1>4 DEF Relies
<1>6. /\ db' \in Files /\ db'.applied = db.applied \cup Earlier /\ db'.stamp = db.stamp
      /\ db'.of = db.of /\ db'.seeded = db.seeded /\ db'.data = db.data /\ db'.ran = db.ran
  BY <1>1, <1>3, <1>4 DEF Files, Earlier
<1>7. Grows
  BY <1>3, <1>6 DEF Grows
<1>8. Holds(db')
  <2>1. CASE Earlier = {}
    <3>1. db'.applied = db.applied
      BY <1>6, <2>1
    <3> QED BY <1>1, <1>6, <3>1 DEF Holds
  <2>2. CASE Earlier # {}
    <3>1. db.applied = {} /\ db.stamp = LegacyStamp /\ db'.applied = Earlier
      BY <1>5, <1>6, <2>2
    <3>2. \A v \in Versions : v \in Earlier <=> v <= LegacyStamp
      BY DEF Earlier
    <3> QED BY <1>1, <1>6, <2>2, <3>1, <3>2 DEF Holds
  <2> QED BY <2>1, <2>2
<1>9. Relies(p)'
  <2>1. There(db')
    BY <1>1, <1>6 DEF Relies, Using, Connected, There
  <2>2. Nothing(db')
    <3>1. db'.applied = {} => db.applied = {} /\ Earlier = {}
      BY <1>6
    <3>2. Earlier = {} => \A v \in Versions : ~(v <= LegacyStamp)
      BY DEF Earlier
    <3>3. db.applied = {} => db.stamp = LegacyStamp \/ db.stamp = 0
      BY <1>1 DEF Holds
    <3>4. \A v \in Versions : ~(v <= 0)
      BY DEF DatabaseAssumption, Versions
    <3> QED BY <1>6, <3>1, <3>2, <3>3, <3>4 DEF Nothing
  <2>3. proc'[p] = new
    BY <1>3 DEF DatabaseInv, DatabaseTypeOK
  <2> QED BY <1>2, <2>1, <2>2, <2>3 DEF Relies, Restoring
<1>10. Sound(p, new)
  BY <1>1, <1>2, <1>3, <1>6, <1>8 DEF Sound, DatabaseInv, DatabaseTypeOK
<1> QED BY <1>1, <1>2, <1>7, <1>9, <1>10, RestoresAlone, StepKeeps DEF Restoring

LEMMA ApplyKeeps ==
    ASSUME DatabaseAssumption, DatabaseInv, NEW p \in Processes, ApplyMigration(p)
    PROVE  DatabaseInv'
<1> DEFINE mine == proc[p]
           v == NextToApply(p)
           new == [mine EXCEPT !.applied = @ \cup {v}]
<1>1. /\ mine \in Memories /\ mine.applied \subseteq mine.build /\ Relies(p) /\ Holds(db)
      /\ db \in Files /\ mine.pc = "migrating" /\ mine.build \in Builds
  BY DEF DatabaseInv, DatabaseTypeOK, ApplyMigration, Memories
<1>2. v \in mine.build /\ v \in Versions /\ v \in Nat
  <2>1. ToApply(p) # {} /\ ToApply(p) \subseteq mine.build
    BY DEF ApplyMigration, ToApply
  <2>2. mine.build \subseteq Versions /\ Versions \subseteq Nat
    BY <1>1 DEF DatabaseAssumption, Versions
  <2>3. \E w \in ToApply(p) : \A u \in ToApply(p) : w <= u
    <3>1. ToApply(p) \subseteq Nat
      BY <2>1, <2>2
    <3> QED BY <2>1, <3>1, LeastNatural
  <2>4. v \in ToApply(p)
    BY <2>3 DEF NextToApply
  <2> QED BY <2>1, <2>2, <2>4
<1>3. /\ proc' = [proc EXCEPT ![p] = new]
      /\ db' = [db EXCEPT !.applied = @ \cup {v}, !.stamp = v, !.ran[v] = @ + 1] /\ v \notin db.applied
      /\ UNCHANGED <<wal, asides, staged, committed, kills, restores>>
  BY DEF ApplyMigration, dbBounds
<1> HIDE DEF v
<1>4. new \in Memories /\ new.pc = "migrating" /\ new.applied \subseteq new.build
  BY <1>1, <1>2 DEF Memories
<1> HIDE DEF new
<1>5. /\ db' \in Files /\ db'.applied = db.applied \cup {v} /\ db'.stamp = v
      /\ db'.of = db.of /\ db'.seeded = db.seeded /\ db'.data = db.data
      /\ db'.ran = [db.ran EXCEPT ![v] = @ + 1]
  <2> DEFINE ran == [db.ran EXCEPT ![v] = @ + 1]
  <2>1. ran \in [Versions -> Nat]
    BY <1>1, <1>2 DEF Files
  <2>2. db' = [db EXCEPT !.applied = @ \cup {v}, !.stamp = v, !.ran = ran]
    BY <1>1, <1>3 DEF Files
  <2> HIDE DEF ran
  <2>3. /\ db' \in Files /\ db'.applied = db.applied \cup {v} /\ db'.stamp = v
        /\ db'.of = db.of /\ db'.seeded = db.seeded /\ db'.data = db.data /\ db'.ran = ran
    BY <1>1, <1>2, <2>1, <2>2 DEF Files
  <2> QED BY <2>3 DEF ran
<1>6. Nothing(db) /\ There(db)
  BY <1>1 DEF Relies, Using, Connected
<1>7. Grows
  BY <1>3, <1>5, <1>6 DEF Grows
<1>8. Holds(db')
  <2>1. db.ran \in [Versions -> Nat]
    BY <1>1 DEF Files
  <2>2. \A w \in Versions : db.ran[w] = IF w \in db.applied THEN 1 ELSE 0
    BY <1>1, <1>6 DEF Holds, Nothing
  <2>3. db'.ran[v] = 1 /\ \A w \in Versions \ {v} : db'.ran[w] = db.ran[w]
    BY <1>2, <1>3, <1>5, <2>1, <2>2
  <2>4. \A w \in Versions : db'.ran[w] = IF w \in db'.applied THEN 1 ELSE 0
    BY <1>5, <2>2, <2>3
  <2>5. db'.applied # {}
    BY <1>5
  <2> QED BY <2>4, <2>5 DEF Holds
<1>9. Relies(p)'
  <2>1. There(db') /\ Nothing(db')
    BY <1>5, <1>6 DEF There, Nothing
  <2>2. proc'[p] = new
    BY <1>3 DEF DatabaseInv, DatabaseTypeOK
  <2> QED BY <1>4, <2>1, <2>2 DEF Relies, Restoring
<1>10. Sound(p, new)
  BY <1>1, <1>3, <1>4, <1>5, <1>8 DEF Sound, DatabaseInv, DatabaseTypeOK
<1> QED BY <1>1, <1>4, <1>7, <1>9, <1>10, RestoresAlone, StepKeeps DEF Restoring

LEMMA SeedKeeps ==
    ASSUME DatabaseAssumption, DatabaseInv, NEW p \in Processes, Seed(p)
    PROVE  DatabaseInv'
<1> DEFINE new == [proc[p] EXCEPT !.pc = "closing"]
<1>1. /\ proc[p] \in Memories /\ proc[p].applied \subseteq proc[p].build /\ Relies(p) /\ Holds(db)
      /\ db \in Files /\ proc[p].pc = "seeding"
  BY DEF DatabaseInv, DatabaseTypeOK, Seed
<1>2. new \in Memories /\ new.pc = "closing" /\ new.applied \subseteq new.build
  BY <1>1 DEF Memories
<1>3. /\ proc' = [proc EXCEPT ![p] = new] /\ db' = Seeded(db)
      /\ UNCHANGED <<wal, asides, staged, committed, kills, restores>>
  BY DEF Seed, GoTo, Same, dbBounds
<1> HIDE DEF new
<1>4. /\ db' \in Files /\ db'.applied = db.applied /\ db'.stamp = db.stamp /\ db'.of = db.of
      /\ db'.seeded /\ db'.data = db.data /\ db'.ran = db.ran
  BY <1>1, <1>3 DEF Files, Seeded
<1>5. Grows /\ Holds(db') /\ There(db')
  BY <1>1, <1>3, <1>4 DEF Grows, Holds, There, Relies, Using, Connected
<1>6. proc'[p] = new
  BY <1>3 DEF DatabaseInv, DatabaseTypeOK
<1>7. Relies(p)'
  BY <1>2, <1>5, <1>6 DEF Relies, Restoring
<1>8. Sound(p, new)
  BY <1>2, <1>3, <1>4, <1>5 DEF Sound, DatabaseInv, DatabaseTypeOK
<1> QED BY <1>1, <1>2, <1>5, <1>7, <1>8, RestoresAlone, StepKeeps DEF Restoring

\* A run of init begins: where there is no file it makes one.
LEMMA BeginInitKeeps ==
    ASSUME DatabaseAssumption, DatabaseInv, NEW p \in Processes, NEW build \in Builds,
           BeginInit(p, build)
    PROVE  DatabaseInv'
<1> DEFINE new  == [AtRest EXCEPT !.pc = "bookkeeping", !.build = build]
           made == File(FirstOr("again"), {}, 0, {})
<1>1. /\ Holds(db) /\ db \in Files /\ proc[p].pc = "idle"
      /\ \A q \in Processes \ {p} : proc[q].pc \notin Restoring
  BY DEF DatabaseInv, DatabaseTypeOK, BeginInit, Beside
<1>2. new \in Memories /\ new.pc = "bookkeeping" /\ new.applied \subseteq new.build
  BY NewestIsABuild DEF AtRest, Memories, Connected
<1>3. /\ proc' = [proc EXCEPT ![p] = new]
      /\ db' = (IF There(db) THEN db ELSE made)
      /\ wal' = (IF There(db) THEN wal ELSE NoWal)
      /\ UNCHANGED <<asides, staged, committed, kills, restores>>
  BY DEF BeginInit, Same, dbBounds
<1> HIDE DEF new
<1>4. made \in Files /\ Holds(made) /\ made.data = 0 /\ There(made)
  <2>1. FirstOr("again") \in {"live", "again"}
    BY DEF FirstOr
  <2> QED BY <2>1, FilesAreSound
<1> HIDE DEF made
<1>5. MaxCommits \in Nat /\ committed \in 0 .. MaxCommits
      /\ NoWal \in [of : {"missing", "live"}, data : 0 .. MaxCommits] /\ NoWal.data = 0
  BY DEF DatabaseAssumption, DatabaseInv, DatabaseTypeOK, NoWal
<1>6. /\ db' \in Files /\ Holds(db') /\ db'.data <= committed /\ There(db')
      /\ wal' \in [of : {"missing", "live"}, data : 0 .. MaxCommits] /\ wal'.data <= committed
  <2>1. CASE There(db)
    BY <1>1, <1>3, <2>1 DEF DatabaseInv, DatabaseTypeOK
  <2>2. CASE ~There(db)
    BY <1>3, <1>4, <1>5, <2>2
  <2> QED BY <2>1, <2>2
<1>7. Sound(p, new)
  BY <1>2, <1>3, <1>6 DEF Sound, DatabaseInv, DatabaseTypeOK
<1>8. Relies(p)'
  <2>1. proc'[p] = new
    BY <1>3 DEF DatabaseInv, DatabaseTypeOK
  <2> QED BY <1>2, <1>6, <2>1 DEF Relies, Restoring
<1>9. \A q \in Processes \ {p} : proc[q].pc = "idle" \/ Grows
  <2>1. CASE There(db)
    BY <1>3, <2>1 DEF Grows
  <2>2. CASE ~There(db)
    <3>1. \A q \in Processes : proc[q].pc \notin Using
      BY <2>2 DEF DatabaseInv, Relies
    <3>2. \A q \in Processes : proc[q].pc \in {"idle", "closing"} \cup Restoring \cup Connected
      BY DEF DatabaseInv, DatabaseTypeOK, Memories
    <3> QED BY <1>1, <3>1, <3>2 DEF Using
  <2> QED BY <2>1, <2>2
<1>10. {"bookkeeping"} \cap Restoring = {}
  BY DEF Restoring
<1> QED BY <1>1, <1>2, <1>7, <1>8, <1>9, <1>10, StepKeeps

----------------------------------------------------------------------------
(* The database: commands, restores and kills *)

LEMMA OpenKeeps ==
    ASSUME DatabaseAssumption, DatabaseInv, NEW p \in Processes, NEW build \in Builds,
           OpenStore(p, build)
    PROVE  DatabaseInv'
<1> DEFINE new == [AtRest EXCEPT !.pc = "opening", !.build = build]
<1>1. new \in Memories /\ new.pc = "opening" /\ new.applied \subseteq new.build /\ new.build = build
  BY NewestIsABuild DEF AtRest, Memories, Connected
<1>2. /\ proc' = [proc EXCEPT ![p] = new] /\ (db' = db \/ db' = [db EXCEPT !.data = wal.data])
      /\ UNCHANGED <<wal, asides, staged, committed, kills, restores>>
      /\ There(db) /\ db.applied = build /\ proc[p].pc = "idle"
      /\ \A q \in Processes \ {p} : proc[q].pc \notin Restoring
  BY DEF OpenStore, UpToDate, Same, dbBounds, Beside
<1> HIDE DEF new
<1>3. /\ Grows /\ Holds(db') /\ db' \in Files /\ db'.data <= committed /\ db'.of = db.of
      /\ db'.applied = db.applied
  BY <1>2, CopyKeeps
<1>4. Sound(p, new)
  BY <1>1, <1>2, <1>3 DEF Sound, DatabaseInv, DatabaseTypeOK
<1>5. proc'[p] = new
  BY <1>2 DEF DatabaseInv, DatabaseTypeOK
<1>6. Relies(p)'
  BY <1>1, <1>2, <1>3, <1>5 DEF Relies, Restoring, There
<1>7. {"opening"} \cap Restoring = {}
  BY DEF Restoring
<1> QED BY <1>1, <1>2, <1>3, <1>4, <1>6, <1>7, StepKeeps

LEMMA CommandKeeps ==
    ASSUME DatabaseAssumption, DatabaseInv, NEW p \in Processes,
           LoadPrefixes(p) \/ Work(p) \/ Leave(p) \/ Kill(p)
    PROVE  DatabaseInv'
<1> DEFINE mine == proc[p]
<1>1. /\ mine \in Memories /\ mine.applied \subseteq mine.build /\ Relies(p) /\ Holds(db)
      /\ db \in Files /\ kills \in 0 .. MaxKills /\ restores \in 0 .. MaxRestores
      /\ MaxKills \in Nat /\ MaxCommits \in Nat /\ committed \in 0 .. MaxCommits
  BY DEF DatabaseInv, DatabaseTypeOK, DatabaseAssumption
<1>2. CASE LoadPrefixes(p) /\ db.seeded
  <2> DEFINE new == [mine EXCEPT !.pc = "open"]
  <2>1. new \in Memories /\ new.pc = "open" /\ new.applied = mine.applied /\ new.build = mine.build
    BY <1>1 DEF Memories, Connected
  <2>2. proc' = [proc EXCEPT ![p] = new] /\ UNCHANGED <<dbFiles, committed, kills, restores>>
        /\ mine.pc = "opening" /\ db' = db /\ staged' = staged
    BY <1>2 DEF LoadPrefixes, PrefixesThere, GoTo, Same, dbBounds, dbFiles
  <2> HIDE DEF new
  <2>3. proc'[p] = new
    BY <2>2 DEF DatabaseInv, DatabaseTypeOK
  <2>4. Relies(p)'
    BY <1>1, <1>2, <2>1, <2>2, <2>3 DEF Relies, Restoring, Using, Connected
  <2> QED BY <1>1, <2>1, <2>2, <2>4, MovingOnKeeps DEF Restoring
<1>3. CASE (LoadPrefixes(p) /\ ~db.seeded) \/ Leave(p)
  <2>1. CloseDb(p) /\ Same /\ mine.pc \in Using
    BY <1>3 DEF LoadPrefixes, PrefixesThere, Leave, Using, Connected
  <2> QED BY <2>1, ClosingKeeps
<1>4. CASE Work(p)
  <2> DEFINE data == (IF There(wal) THEN wal.data ELSE db.data) + 1
  <2>1. /\ committed' = committed + 1 /\ committed < MaxCommits /\ mine.pc = "open"
        /\ wal' = [of |-> db.of, data |-> data] /\ db.of = "live"
        /\ UNCHANGED <<db, asides, staged, proc, kills, restores>>
    BY <1>4 DEF Work, dbBounds
  <2>2. data \in 0 .. MaxCommits /\ data <= committed + 1
    BY <1>1, <2>1 DEF DatabaseInv, DatabaseTypeOK, Files
  <2> HIDE DEF data
  <2>3. /\ wal' \in [of : {"missing", "live"}, data : 0 .. MaxCommits] /\ wal'.data <= committed'
        /\ committed' \in 0 .. MaxCommits /\ db'.data <= committed'
    BY <1>1, <2>1, <2>2 DEF DatabaseInv, DatabaseTypeOK, Files
  <2>4. \A q \in Processes : Relies(q)'
    BY <2>1 DEF DatabaseInv, Relies
  <2>5. \A q \in Processes : Beside(q, Restoring \cup Connected \cup {"closing"})
                                = Beside(q, Restoring \cup Connected \cup {"closing"})'
    BY <2>1 DEF Beside
  <2> QED BY <1>1, <2>1, <2>3, <2>4, <2>5 DEF DatabaseInv, DatabaseTypeOK
<1>5. CASE Kill(p)
  <2> DEFINE new == [mine EXCEPT !.pc = "idle"]
  <2>1. new \in Memories /\ new.pc = "idle" /\ new.applied = mine.applied /\ new.build = mine.build
    BY <1>1 DEF Memories
  <2>2. proc' = [proc EXCEPT ![p] = new] /\ UNCHANGED <<dbFiles, committed>> /\ UNCHANGED restores
        /\ mine.pc # "idle" /\ kills' \in 0 .. MaxKills
    BY <1>1, <1>5 DEF Kill, GoTo
  <2> HIDE DEF new
  <2>3. proc'[p] = new
    BY <2>2 DEF DatabaseInv, DatabaseTypeOK
  <2>4. Relies(p)'
    BY <2>1, <2>3 DEF Relies, Restoring, Using, Connected
  <2> QED BY <1>1, <2>1, <2>2, <2>4, MovingOnKeeps DEF Restoring
<1> QED BY <1>2, <1>3, <1>4, <1>5

LEMMA RestoreKeeps ==
    ASSUME DatabaseAssumption, DatabaseInv, NEW p \in Processes,
           RestoreStep(p) \/ \E replace \in BOOLEAN : BeginRestore(p, replace)
    PROVE  DatabaseInv'
<1> DEFINE mine == proc[p]
           To(pc) == [mine EXCEPT !.pc = pc]
<1>1. /\ mine \in Memories /\ mine.applied \subseteq mine.build /\ Relies(p) /\ Holds(db)
      /\ db \in Files /\ restores \in 0 .. MaxRestores /\ MaxRestores \in Nat
      /\ wal \in [of : {"missing", "live"}, data : 0 .. MaxCommits]
      /\ MaxCommits \in Nat /\ committed \in 0 .. MaxCommits
  BY DEF DatabaseInv, DatabaseTypeOK, DatabaseAssumption
<1>2. \A pc \in {"idle", "aside", "sidecars", "place"} :
         To(pc) \in Memories /\ To(pc).pc = pc /\ To(pc).applied \subseteq To(pc).build
  BY <1>1 DEF Memories, Restoring
<1>3. ASSUME NEW pc, GoTo(p, pc)
      PROVE  proc' = [proc EXCEPT ![p] = To(pc)] /\ proc'[p] = To(pc)
  BY <1>3 DEF GoTo, DatabaseInv, DatabaseTypeOK
<1>4. /\ Missing \in Files /\ Holds(Missing) /\ Missing.data = 0 /\ ~There(Missing)
      /\ Backup \in Files /\ Holds(Backup) /\ Backup.data = 0 /\ There(Backup)
  BY FilesAreSound
<1> HIDE DEF To
<1>5. ASSUME NEW pc \in {"idle", "aside", "sidecars", "place"}, GoTo(p, pc),
             mine.pc \in Restoring \/ \A q \in Processes : proc[q].pc = "idle",
             db' \in {db, Missing, Backup}, staged' \in {staged, Missing, Backup},
             asides' \subseteq asides \cup {db}, wal' \in {wal, NoWal},
             UNCHANGED committed, UNCHANGED kills, restores' \in 0 .. MaxRestores,
             pc # "idle" => staged' = Backup,
             pc \in {"sidecars", "place"} => ~There(db')
      PROVE  DatabaseInv'
  <2> DEFINE new == To(pc)
  <2>1. /\ new \in Memories /\ new.pc = pc /\ new.applied \subseteq new.build
        /\ proc' = [proc EXCEPT ![p] = new] /\ proc'[p] = new
    BY <1>2, <1>3, <1>5
  <2>2. NoWal \in [of : {"missing", "live"}, data : 0 .. MaxCommits] /\ NoWal.data = 0
    BY <1>1 DEF NoWal
  <2>3. /\ db' \in Files /\ Holds(db') /\ db'.data <= committed
        /\ wal' \in [of : {"missing", "live"}, data : 0 .. MaxCommits] /\ wal'.data <= committed
    BY <1>1, <1>4, <1>5, <2>2 DEF DatabaseInv
  <2>4. staged' \in Files /\ \A f \in asides' : f \in Files
    BY <1>1, <1>4, <1>5 DEF DatabaseInv, DatabaseTypeOK
  <2> HIDE DEF new
  <2>5. Sound(p, new)
    BY <1>1, <1>5, <2>1, <2>3, <2>4 DEF Sound, DatabaseInv, DatabaseTypeOK
  <2>6. Relies(p)'
    BY <1>5, <2>1 DEF Relies, Using, Connected, Restoring
  <2>7. \A q \in Processes \ {p} : proc[q].pc = "idle"
    BY <1>5, RestoresAlone
  <2> QED BY <2>5, <2>6, <2>7, StepKeeps
<1>6. ASSUME NEW replace \in BOOLEAN, BeginRestore(p, replace)
      PROVE  DatabaseInv'
  <2> DEFINE pc == IF There(db) THEN "aside" ELSE "place"
  <2>1. /\ GoTo(p, pc) /\ (\A q \in Processes : proc[q].pc = "idle") /\ staged' = Backup
        /\ db' = db /\ asides' = asides /\ wal' = wal /\ UNCHANGED committed /\ UNCHANGED kills
        /\ restores < MaxRestores /\ restores' = restores + 1
    BY <1>6 DEF BeginRestore
  <2>2. restores' \in 0 .. MaxRestores /\ pc \in {"idle", "aside", "sidecars", "place"}
        /\ (pc \in {"sidecars", "place"} => ~There(db'))
    BY <1>1, <2>1
  <2> HIDE DEF pc
  <2> QED BY <1>5, <2>1, <2>2
<1>7. CASE MoveAside(p)
  <2>1. /\ GoTo(p, "sidecars") /\ mine.pc = "aside" /\ db' = Missing /\ asides' = asides \cup {db}
        /\ UNCHANGED <<wal, staged, committed, kills, restores>>
    BY <1>7 DEF MoveAside, Same, dbBounds
  <2>2. mine.pc \in Restoring /\ staged = Backup
    BY <1>1, <2>1 DEF Relies, Restoring
  <2> QED BY <1>1, <1>4, <1>5, <2>1, <2>2
<1>8. CASE RemoveSidecars(p)
  <2>1. /\ GoTo(p, "place") /\ mine.pc = "sidecars" /\ wal' = NoWal
        /\ UNCHANGED <<db, asides, staged, committed, kills, restores>>
    BY <1>8 DEF RemoveSidecars, Same, dbBounds
  <2>2. mine.pc \in Restoring /\ staged = Backup /\ ~There(db)
    BY <1>1, <2>1 DEF Relies, Restoring
  <2> QED BY <1>1, <1>5, <2>1, <2>2
<1>9. CASE PutInPlace(p)
  <2>1. /\ GoTo(p, "idle") /\ mine.pc = "place" /\ db' = staged /\ staged' = Missing
        /\ UNCHANGED <<wal, asides, committed, kills, restores>>
    BY <1>9 DEF PutInPlace, Same, dbBounds
  <2>2. mine.pc \in Restoring /\ staged = Backup
    BY <1>1, <2>1 DEF Relies, Restoring
  <2> QED BY <1>1, <1>5, <2>1, <2>2
<1> QED BY <1>6, <1>7, <1>8, <1>9 DEF RestoreStep

LEMMA DatabaseInvHolds ==
    ASSUME DatabaseAssumption
    PROVE  DatabaseSpec => []DatabaseInv
<1>1. DatabaseInit => DatabaseInv
  <2> SUFFICES ASSUME DatabaseInit
               PROVE  DatabaseInv
    OBVIOUS
  <2>1. db \in Files /\ Holds(db) /\ db.data = 0
    BY FilesAreSound DEF DatabaseInit
  <2>2. staged \in Files /\ asides = {}
    BY FilesAreSound DEF DatabaseInit
  <2>3. /\ 0 \in 0 .. MaxCommits /\ 0 \in 0 .. MaxKills /\ 0 \in 0 .. MaxRestores
    BY DEF DatabaseAssumption
  <2>4. NoWal \in [of : {"missing", "live"}, data : 0 .. MaxCommits] /\ NoWal.data = 0
    BY <2>3 DEF NoWal
  <2>5. AtRest \in Memories /\ AtRest.pc = "idle" /\ AtRest.applied \subseteq AtRest.build
    BY NewestIsABuild DEF AtRest, Memories
  <2>6. proc \in [Processes -> Memories] /\ \A p \in Processes : proc[p] = AtRest
    BY <2>5 DEF DatabaseInit
  <2>7. \A p \in Processes : proc[p].pc \notin Restoring \cup Using
    BY <2>5, <2>6 DEF Restoring, Using, Connected
  <2>8. \A p \in Processes : Relies(p)
    BY <2>5, <2>6, <2>7 DEF Relies, Using, Connected, Restoring
  <2> QED BY <2>1, <2>2, <2>3, <2>4, <2>5, <2>6, <2>7, <2>8 DEF DatabaseInit, DatabaseInv, DatabaseTypeOK
<1>2. DatabaseInv /\ [DatabaseNext]_dbVars => DatabaseInv'
  <2> SUFFICES ASSUME DatabaseInv, [DatabaseNext]_dbVars
               PROVE  DatabaseInv'
    OBVIOUS
  <2>1. CASE UNCHANGED dbVars
    BY <2>1 DEF dbVars, dbFiles, dbBounds, DatabaseInv, DatabaseTypeOK, Relies, Holds, Nothing, Beside
  <2> QED BY <2>1, BeginInitKeeps, OpenKeeps, InitMovesOn, BackfillKeeps, ApplyKeeps, SeedKeeps,
             CommandKeeps, RestoreKeeps DEF DatabaseNext, InitStep
<1> QED BY <1>1, <1>2, PTL DEF DatabaseSpec

\* The files and the memories of processes keep their types, and nothing runs beside a
\* restore, whatever is killed (store/migrate.go, store/backup.go).
THEOREM DatabaseTypeCorrect ==
    ASSUME DatabaseAssumption
    PROVE  DatabaseSpec => []DatabaseTypeOK
<1>1. DatabaseInv => DatabaseTypeOK
  BY DEF DatabaseInv
<1> QED BY <1>1, DatabaseInvHolds, PTL

\* A command that OpenStore and LoadPrefixes let through has the whole schema of its build
\* and a prefix for every entity, whatever inits of other builds run beside it.
THEOREM OpenedIsWhole ==
    ASSUME DatabaseAssumption
    PROVE  DatabaseSpec => []OpenIsWhole
<1>1. DatabaseInv => OpenIsWhole
  BY DEF DatabaseInv, Relies, OpenIsWhole, Using, Connected
<1> QED BY <1>1, DatabaseInvHolds, PTL

\* applied_migration is the truth: what it says ran, ran once, and what it does not never,
\* with any number of inits at once, killed anywhere, and through the backfill of a
\* database from before the record (store/migrate.go:109).
THEOREM RecordStaysTrue ==
    ASSUME DatabaseAssumption
    PROVE  DatabaseSpec => []RecordIsTrue
<1>1. DatabaseInv => RecordIsTrue
  BY DEF DatabaseInv, Holds, RecordIsTrue, Ran
<1> QED BY <1>1, DatabaseInvHolds, PTL

\* Restoring over a database, finished or killed, keeps the file that was there: it is
\* moved aside before anything else takes its place (store/backup.go).
THEOREM OldFileIsKept ==
    ASSUME DatabaseAssumption
    PROVE  DatabaseSpec => OldFileKept
<1>1. DatabaseInv /\ [DatabaseNext]_dbVars => (LiveThere => LiveThere')
  <2> SUFFICES ASSUME DatabaseInv, [DatabaseNext]_dbVars, LiveThere
               PROVE  LiveThere'
    OBVIOUS
  <2>1. ASSUME asides \subseteq asides', db'.of = db.of \/ ~There(db) \/ db \in asides'
        PROVE  LiveThere'
    <3>1. PICK f \in asides \cup {db} : f.of = "live"
      BY DEF LiveThere
    <3>2. CASE f \in asides
      BY <2>1, <3>1, <3>2 DEF LiveThere
    <3>3. CASE f = db
      BY <2>1, <3>1, <3>3 DEF LiveThere, There
    <3> QED BY <3>2, <3>3
  <2>2. ASSUME NEW p \in Processes, CloseDb(p)
        PROVE  LiveThere'
    BY <2>1, <2>2, CopyKeeps DEF CloseDb
  <2>3. ASSUME NEW p \in Processes, NEW build \in Builds, BeginInit(p, build)
        PROVE  LiveThere'
    BY <2>1, <2>3 DEF BeginInit
  <2>4. ASSUME NEW p \in Processes, NEW build \in Builds, OpenStore(p, build)
        PROVE  LiveThere'
    BY <2>1, <2>4, CopyKeeps DEF OpenStore
  <2>5. db \in Files
    BY DEF DatabaseInv, DatabaseTypeOK
  <2>6. ASSUME NEW p \in Processes, Backfill(p) \/ ApplyMigration(p) \/ Seed(p)
        PROVE  LiveThere'
    <3>1. db'.of = db.of /\ asides' = asides
      BY <2>5, <2>6 DEF Backfill, ApplyMigration, Seed, Seeded, Files
    <3> QED BY <2>1, <3>1
  <2>7. ASSUME NEW p \in Processes, MoveAside(p)
        PROVE  LiveThere'
    BY <2>1, <2>7 DEF MoveAside
  <2>8. ASSUME NEW p \in Processes, PutInPlace(p)
        PROVE  LiveThere'
    <3>1. ~There(db)
      BY <2>8 DEF PutInPlace, DatabaseInv, Relies
    <3> QED BY <2>1, <2>8, <3>1 DEF PutInPlace
  <2>9. CASE UNCHANGED <<db, asides>>
    BY <2>1, <2>9
  <2> QED BY <2>2, <2>3, <2>4, <2>6, <2>7, <2>8, <2>9
          DEF DatabaseNext, InitStep, RestoreStep, EnsureBookkeeping, ReadApplied, Migrated, InitFails,
              LoadPrefixes, Work, Leave, BeginRestore, RemoveSidecars, Kill, dbVars, dbFiles
<1> QED BY <1>1, DatabaseInvHolds, PTL DEF DatabaseSpec, OldFileKept

\* All of it: what inits, restores, commands and kills leave is a database that opens
\* whole, remembers what ran on it, and was put aside before it was replaced
\* (store/migrate.go, store/store.go, store/backup.go).
THEOREM TheDatabaseStaysWhole ==
    ASSUME DatabaseAssumption
    PROVE  DatabaseSpec => DatabaseIsWhole
<1>1. DatabaseSpec => []OpenIsWhole
  BY OpenedIsWhole
<1>2. DatabaseSpec => []RecordIsTrue
  BY RecordStaysTrue
<1>3. DatabaseSpec => OldFileKept
  BY OldFileIsKept
<1> QED BY <1>1, <1>2, <1>3, PTL DEF DatabaseIsWhole

----------------------------------------------------------------------------
(* The syncer: how long it waits *)

\* What the defaults leave room for: a request costs no more than the floor, nor than a
\* whole budget.
RoomForAPoll == \A told \in Costs : told <= Floor /\ told <= Limit

LEMMA LongestOfThree ==
    ASSUME SyncerAssumption
    PROVE  Longest \in Nat /\ Interval <= Longest /\ MaxBackoff <= Longest /\ Window <= Longest
<1>1. Interval \in Nat /\ MaxBackoff \in Nat /\ Window \in Nat
  BY DEF SyncerAssumption
<1> DEFINE L == {Interval, MaxBackoff, Window}
<1>2. \E t \in L : \A u \in L : u <= t
  BY <1>1
<1>3. Longest \in L /\ \A u \in L : u <= Longest
  BY <1>2 DEF Longest
<1> QED BY <1>1, <1>3

\* The pace is at least the interval, or until the budget is whole; and it is until then
\* wherever what is left does not pay for another such request.
LEMMA PaceWaits ==
    ASSUME SyncerAssumption, NEW left \in 0 .. Limit, NEW told \in Nat, NEW window \in 1 .. Window
    PROVE  /\ Pace(left, told, window) \in 0 .. Longest
           /\ Pace(left, told, window) >= Interval \/ Pace(left, told, window) = window
           /\ told <= Floor /\ left < told => Pace(left, told, window) = window
<1>1. /\ Interval \in Nat \ {0} /\ Floor \in Nat /\ Window \in Nat /\ Limit \in Nat
      /\ left \in Nat /\ window \in Nat /\ window <= Window
      /\ Longest \in Nat /\ Interval <= Longest /\ Window <= Longest
  BY LongestOfThree DEF SyncerAssumption
<1> DEFINE affordable == IF told > 0 THEN left \div told ELSE left
           spaced     == window \div affordable
<1>2. affordable \in Nat /\ (left < told => affordable = 0)
  BY <1>1
<1>3. affordable > 0 => spaced \in Nat /\ spaced <= window
  <2> HIDE DEF affordable
  <2> QED BY <1>1, <1>2
<1>4. Pace(left, told, window) = CASE left >= Floor   -> Interval
                                   [] left < Floor /\ affordable = 0 -> window
                                   [] left < Floor /\ affordable > 0 /\ spaced <= Interval -> Interval
                                   [] OTHER -> spaced
  BY DEF Pace
<1> HIDE DEF affordable, spaced
<1>5. CASE left >= Floor
  <2>1. Pace(left, told, window) = Interval
    BY <1>1, <1>4, <1>5
  <2> QED BY <1>1, <1>5, <2>1
<1>6. CASE left < Floor /\ affordable = 0
  <2>1. Pace(left, told, window) = window
    BY <1>1, <1>4, <1>6
  <2> QED BY <1>1, <2>1
<1>7. CASE left < Floor /\ affordable > 0 /\ spaced <= Interval
  <2>1. Pace(left, told, window) = Interval
    BY <1>1, <1>4, <1>7
  <2> QED BY <1>1, <1>2, <1>7, <2>1
<1>8. CASE left < Floor /\ affordable > 0 /\ ~(spaced <= Interval)
  <2>1. Pace(left, told, window) = spaced
    BY <1>1, <1>4, <1>8
  <2> QED BY <1>1, <1>2, <1>3, <1>8, <2>1
<1> QED BY <1>1, <1>2, <1>5, <1>6, <1>7, <1>8

LEMMA BackoffWaits ==
    ASSUME SyncerAssumption, NEW n \in Nat \ {0}
    PROVE  /\ Backoff(n) \in 0 .. Longest
           /\ MaxBackoff >= Interval => Backoff(n) >= Interval
<1>1. Interval \in Nat \ {0} /\ MaxBackoff \in Nat \ {0} /\ Longest \in Nat /\ MaxBackoff <= Longest
  BY LongestOfThree DEF SyncerAssumption
<1>2. Smaller(n, 6) \in 1 .. 6
  BY DEF Smaller
<1> DEFINE times == Doubled[Smaller(n, 6)]
<1>3. times \in {2, 4, 8, 16, 32, 64}
  BY <1>2 DEF Doubled
<1> HIDE DEF times
<1>4. Interval * times \in Nat /\ Interval * times >= Interval
  BY <1>1, <1>3
<1>5. Backoff(n) = IF Interval * times < MaxBackoff THEN Interval * times ELSE MaxBackoff
  BY DEF Backoff, Smaller, times
<1> HIDE DEF Doubled
<1> QED BY <1>1, <1>4, <1>5

----------------------------------------------------------------------------
(* The syncer: the inductive invariants *)

\* The failures it counts are the cycles since one got something.
SyncerInv ==
    /\ SyncerTypeOK
    /\ failures = fruitless
    /\ GivesUpOnFailures

\* The interval will have passed by the next poll, or it comes as the budget is whole.
OnTimeInv ==
    Running => \/ elapsed + delay >= Interval
               \/ delay = resetsIn
               \/ delay = 0 /\ resetsIn = Window
               \/ MaxBackoff < Interval

\* What is left pays for what was last told, or the budget is whole by the next poll.
BudgetInv == Running => unforeseen \/ remaining >= cost \/ delay >= resetsIn

PaceInv == OnTimeInv /\ (RoomForAPoll => BudgetInv)

LEMMA SyncerTyped ==
    ASSUME SyncerAssumption, SyncerInv
    PROVE  /\ Interval \in Nat \ {0} /\ CheckInterval \in Nat \ {0} /\ Limit \in Nat /\ Window \in Nat \ {0}
           /\ Longest \in Nat /\ Most \in Nat
           /\ delay \in 0 .. Longest /\ elapsed \in 0 .. Interval /\ remaining \in 0 .. Limit
           /\ resetsIn \in 1 .. Window /\ checkIn \in 0 .. CheckInterval
           /\ cost \in {0} \union Costs /\ cost \in Nat /\ unforeseen \in BOOLEAN
           /\ failures \in Nat /\ fruitless = failures
<1>1. /\ Interval \in Nat \ {0} /\ CheckInterval \in Nat \ {0} /\ Limit \in Nat /\ Window \in Nat \ {0}
      /\ Longest \in Nat /\ Most \in Nat
  BY LongestOfThree DEF SyncerAssumption
<1>2. Costs \subseteq Nat
  BY DEF SyncerAssumption
<1>3. /\ delay \in 0 .. Longest /\ elapsed \in 0 .. Interval /\ remaining \in 0 .. Limit
      /\ resetsIn \in 1 .. Window /\ checkIn \in 0 .. CheckInterval
      /\ cost \in {0} \union Costs /\ unforeseen \in BOOLEAN
      /\ failures \in Nat /\ fruitless = failures
  BY DEF SyncerInv, SyncerTypeOK
<1> QED BY <1>1, <1>2, <1>3

\* What every cycle does, and what holds as one begins.
LEMMA PollBegins ==
    ASSUME SyncerAssumption, SyncerInv, PaceInv, Poll
    PROVE  /\ Running /\ delay = 0 /\ elapsed' = 0 /\ UNCHANGED <<resetsIn, schema, checkIn>>
           /\ resetsIn \in 1 .. Window
           /\ remaining \in 0 .. Limit /\ cost \in Nat /\ unforeseen \in BOOLEAN
           /\ failures \in Nat /\ fruitless = failures
           /\ RoomForAPoll => unforeseen \/ remaining >= cost
<1>1. /\ remaining \in 0 .. Limit /\ cost \in Nat /\ unforeseen \in BOOLEAN /\ resetsIn \in 1 .. Window
      /\ failures \in Nat /\ fruitless = failures
  BY SyncerTyped
<1>2. Running /\ delay = 0 /\ elapsed' = 0 /\ UNCHANGED <<resetsIn, schema, checkIn>>
  BY DEF Poll
<1>3. RoomForAPoll => unforeseen \/ remaining >= cost
  <2>1. ~(0 >= resetsIn)
    BY <1>1 DEF SyncerAssumption
  <2> QED BY <1>2, <2>1 DEF PaceInv, BudgetInv
<1> QED BY <1>1, <1>2, <1>3

\* A poll that leaves the loop waiting keeps the types, if what it set has its own.
LEMMA PollTyped ==
    ASSUME SyncerAssumption, SyncerInv, PaceInv, Poll,
           delay' \in 0 .. Longest, loop' = loop, failures' = fruitless', failures' \in Nat,
           remaining' \in 0 .. Limit, cost' \in {0} \union Costs, unforeseen' \in BOOLEAN
    PROVE  SyncerInv'
<1>1. Running /\ elapsed' = 0 /\ UNCHANGED <<resetsIn, schema, checkIn>>
  BY DEF Poll
<1>2. elapsed' \in 0 .. Interval
  BY <1>1 DEF SyncerAssumption
<1> QED BY <1>1, <1>2 DEF SyncerInv, SyncerTypeOK, GivesUpOnFailures, Running

\* A poll with no news of the budget keeps the invariants, if it waits for the interval
\* or for a back-off.
LEMMA UntoldKeeps ==
    ASSUME SyncerAssumption, SyncerInv, PaceInv, Poll, NEW spent \in Nat, SpendsUntold(spent),
           NEW wait \in 0 .. Longest, MaxBackoff >= Interval => wait >= Interval, delay' = wait,
           loop' = loop, failures' = fruitless', failures' \in Nat
    PROVE  SyncerInv' /\ PaceInv'
<1>1. /\ remaining' = remaining - spent /\ spent <= remaining /\ cost' = cost
      /\ unforeseen' = (unforeseen \/ spent > 0)
  BY DEF SpendsUntold, Spends
<1>2. /\ elapsed' = 0 /\ remaining \in 0 .. Limit /\ cost \in Nat
      /\ RoomForAPoll => unforeseen \/ remaining >= cost
  BY PollBegins
<1>3. remaining' \in 0 .. Limit
  BY <1>1, <1>2 DEF SyncerAssumption
<1>4. SyncerInv'
  BY <1>1, <1>3, PollTyped DEF SyncerInv, SyncerTypeOK
<1>5. OnTimeInv'
  <2>1. CASE MaxBackoff < Interval
    BY <2>1 DEF OnTimeInv
  <2>2. CASE ~(MaxBackoff < Interval)
    <3>1. elapsed' + delay' >= Interval
      BY <1>2, <2>2 DEF SyncerAssumption
    <3> QED BY <3>1 DEF OnTimeInv
  <2> QED BY <2>1, <2>2
<1>6. RoomForAPoll => BudgetInv'
  <2>1. CASE spent > 0
    BY <1>1, <2>1 DEF BudgetInv
  <2>2. CASE ~(spent > 0)
    <3>1. remaining' = remaining
      BY <1>1, <1>2, <2>2
    <3>2. unforeseen => unforeseen'
      BY <1>1
    <3> QED BY <1>1, <1>2, <3>1, <3>2 DEF BudgetInv
  <2> QED BY <2>1, <2>2
<1> QED BY <1>4, <1>5, <1>6 DEF PaceInv, RoomForAPoll

LEMMA FailedKeeps ==
    ASSUME SyncerAssumption, SyncerInv, PaceInv, Poll, NEW spent \in Nat,
           NEW wait \in 0 .. Longest, MaxBackoff >= Interval => wait >= Interval, Failed(spent, wait)
    PROVE  SyncerInv' /\ PaceInv'
<1>1. /\ SpendsUntold(spent) /\ failures' = failures + 1 /\ fruitless' = fruitless + 1
      /\ failures \in Nat /\ fruitless = failures
  BY PollBegins DEF Failed
<1>2. CASE MaxFailures > 0 /\ failures' >= MaxFailures
  <2>1. loop' = "gave up" /\ delay' = delay
    BY <1>2 DEF Failed
  <2>2. remaining' \in 0 .. Limit /\ unforeseen' \in BOOLEAN /\ cost' = cost
    <3>1. remaining' = remaining - spent /\ spent <= remaining /\ unforeseen' = (unforeseen \/ spent > 0)
          /\ cost' = cost
      BY <1>1 DEF SpendsUntold, Spends
    <3> QED BY <3>1, PollBegins DEF SyncerAssumption
  <2>3. elapsed' \in 0 .. Interval /\ UNCHANGED <<resetsIn, schema, checkIn>>
    BY PollBegins DEF SyncerAssumption
  <2>4. failures' \in Nat /\ fruitless' = failures' /\ failures' >= MaxFailures
    BY <1>1, <1>2
  <2>5. SyncerInv'
    BY <1>2, <2>1, <2>2, <2>3, <2>4 DEF SyncerInv, SyncerTypeOK, GivesUpOnFailures
  <2> QED BY <2>1, <2>5 DEF PaceInv, OnTimeInv, BudgetInv, RoomForAPoll, Running
<1>3. CASE ~(MaxFailures > 0 /\ failures' >= MaxFailures)
  <2>1. loop' = loop /\ delay' = wait
    BY <1>3 DEF Failed
  <2>2. failures' = fruitless' /\ failures' \in Nat
    BY <1>1
  <2> QED BY <1>1, <2>1, <2>2, UntoldKeeps
<1> QED BY <1>2, <1>3

LEMMA WorkedKeeps ==
    ASSUME SyncerAssumption, SyncerInv, PaceInv,
           NEW spent \in Nat, NEW told \in Costs, NEW rest \in Nat, Worked(spent, told, rest)
    PROVE  SyncerInv' /\ PaceInv'
<1>1. /\ Poll /\ spent + rest <= remaining /\ remaining' = remaining - (spent + rest)
      /\ cost' = told /\ unforeseen' = (rest > 0) /\ failures' = 0 /\ fruitless' = 0
      /\ delay' = Pace(remaining - spent, told, resetsIn) /\ loop' = loop
  BY DEF Worked, Spends
<1>2. /\ elapsed' = 0 /\ remaining \in 0 .. Limit /\ resetsIn \in 1 .. Window /\ resetsIn' = resetsIn
  BY <1>1, PollBegins
<1>3. told \in Nat /\ Interval \in Nat /\ Limit \in Nat
  BY DEF SyncerAssumption
<1>4. remaining - spent \in 0 .. Limit /\ remaining' \in 0 .. Limit
  BY <1>1, <1>2, <1>3
<1>5. /\ delay' \in 0 .. Longest
      /\ delay' >= Interval \/ delay' = resetsIn
      /\ told <= Floor /\ remaining - spent < told => delay' = resetsIn
  BY <1>1, <1>2, <1>3, <1>4, PaceWaits
<1>6. SyncerInv'
  BY <1>1, <1>4, <1>5, PollTyped
<1>7. OnTimeInv'
  <2>1. CASE delay' >= Interval
    <3>1. delay' \in Nat
      BY <1>5, LongestOfThree
    <3>2. elapsed' + delay' >= Interval
      <4>1. \A d, i \in Nat : d >= i => 0 + d >= i
        OBVIOUS
      <4> QED BY <1>2, <1>3, <2>1, <3>1, <4>1
    <3> QED BY <3>2 DEF OnTimeInv
  <2>2. CASE delay' = resetsIn
    BY <1>2, <2>2 DEF OnTimeInv
  <2> QED BY <1>5, <2>1, <2>2
<1>8. ASSUME RoomForAPoll
      PROVE  BudgetInv'
  <2>1. told <= Floor
    BY <1>8 DEF RoomForAPoll
  <2>2. CASE rest > 0
    BY <1>1, <2>2 DEF BudgetInv
  <2>3. CASE remaining - spent < told
    <3>1. delay' = resetsIn' /\ resetsIn' \in Nat
      BY <1>2, <1>5, <2>1, <2>3
    <3> QED BY <3>1 DEF BudgetInv
  <2>4. CASE ~(rest > 0) /\ ~(remaining - spent < told)
    <3>1. remaining' >= cost'
      BY <1>1, <1>2, <1>3, <1>4, <2>4
    <3> QED BY <3>1 DEF BudgetInv
  <2> QED BY <2>2, <2>3, <2>4
<1> QED BY <1>6, <1>7, <1>8 DEF PaceInv, RoomForAPoll

LEMMA CycleKeeps ==
    ASSUME SyncerAssumption, SyncerInv, PaceInv, Cycle
    PROVE  SyncerInv' /\ PaceInv'
<1>1. PICK spent \in 0 .. Most :
          \/ \E told \in Costs, rest \in 0 .. Most : Worked(spent, told, rest)
          \/ Untold(spent) \/ Fault(spent) \/ Limited(spent)
  BY DEF Cycle
<1>2. spent \in Nat /\ Interval \in 0 .. Longest /\ MaxBackoff \in 0 .. Longest /\ 0 .. Most \subseteq Nat
  BY LongestOfThree DEF SyncerAssumption
<1>3. CASE \E told \in Costs, rest \in 0 .. Most : Worked(spent, told, rest)
  BY <1>2, <1>3, WorkedKeeps
<1>4. CASE Untold(spent)
  <2>1. /\ Poll /\ SpendsUntold(spent) /\ failures' = fruitless' /\ failures' \in Nat
        /\ delay' = Interval /\ loop' = loop
    BY <1>4 DEF Untold
  <2>2. Interval >= Interval
    BY DEF SyncerAssumption
  <2> QED BY <1>2, <2>1, <2>2, UntoldKeeps
<1>5. CASE Fault(spent)
  <2>1. Poll /\ Failed(spent, Backoff(failures + 1))
    BY <1>5 DEF Fault
  <2>2. failures + 1 \in Nat \ {0}
    BY <2>1, PollBegins
  <2> QED BY <1>2, <2>1, <2>2, BackoffWaits, FailedKeeps
<1>6. CASE Limited(spent)
  BY <1>2, <1>6, FailedKeeps DEF Limited
<1> QED BY <1>1, <1>3, <1>4, <1>5, <1>6

LEMMA OthersKeep ==
    ASSUME SyncerAssumption, SyncerInv, PaceInv, NEW n \in 1 .. Most, OthersSpend(n)
    PROVE  SyncerInv' /\ PaceInv'
<1>1. /\ n <= remaining /\ remaining' = remaining - n /\ cost' = cost /\ unforeseen' = (unforeseen \/ n > 0)
      /\ UNCHANGED <<loop, failures, delay, elapsed, resetsIn, schema, checkIn, fruitless>>
  BY DEF OthersSpend, SpendsUntold, Spends
<1>2. remaining \in 0 .. Limit /\ Limit \in Nat /\ Most \in Nat
  BY SyncerTyped
<1>3. n \in Nat /\ n > 0
  BY <1>2
<1>4. remaining' \in 0 .. Limit
  BY <1>1, <1>2, <1>3
<1>5. unforeseen' = TRUE
  BY <1>1, <1>3
<1> QED BY <1>1, <1>4, <1>5 DEF SyncerInv, SyncerTypeOK, GivesUpOnFailures, PaceInv, OnTimeInv, BudgetInv,
                          RoomForAPoll, Running

LEMMA TimePassesKeeps ==
    ASSUME SyncerAssumption, SyncerInv, PaceInv, TimePasses
    PROVE  SyncerInv' /\ PaceInv'
<1>1. /\ Interval \in Nat \ {0} /\ CheckInterval \in Nat \ {0} /\ Limit \in Nat /\ Window \in Nat \ {0}
      /\ Longest \in Nat
  BY LongestOfThree DEF SyncerAssumption
<1>2. /\ delay \in 0 .. Longest /\ elapsed \in 0 .. Interval /\ remaining \in 0 .. Limit /\ cost \in Nat
      /\ resetsIn \in 1 .. Window /\ checkIn \in 0 .. CheckInterval /\ unforeseen \in BOOLEAN
      /\ cost \in {0} \union Costs
  BY SyncerTyped
<1>3. /\ delay > 0 /\ checkIn > 0 /\ delay' = delay - 1 /\ checkIn' = checkIn - 1
      /\ elapsed' = (IF elapsed + 1 < Interval THEN elapsed + 1 ELSE Interval)
      /\ resetsIn' = (IF resetsIn = 1 THEN Window ELSE resetsIn - 1)
      /\ remaining' = (IF resetsIn = 1 THEN Limit ELSE remaining)
      /\ unforeseen' = (unforeseen /\ resetsIn # 1)
      /\ Running /\ UNCHANGED <<loop, failures, cost, schema, fruitless>>
  BY DEF TimePasses, Smaller
<1>4. /\ delay' \in 0 .. Longest /\ elapsed' \in 0 .. Interval /\ remaining' \in 0 .. Limit
      /\ resetsIn' \in 1 .. Window /\ checkIn' \in 0 .. CheckInterval
  BY <1>1, <1>2, <1>3
<1>5. SyncerInv'
  BY <1>3, <1>4 DEF SyncerInv, SyncerTypeOK, GivesUpOnFailures
<1>6. OnTimeInv'
  <2>1. CASE elapsed + delay >= Interval
    <3>1. elapsed' + delay' >= Interval
      BY <1>1, <1>2, <1>3, <2>1
    <3> QED BY <3>1 DEF OnTimeInv
  <2>2. CASE delay = resetsIn
    <3>1. delay' = resetsIn' \/ (delay' = 0 /\ resetsIn' = Window)
      BY <1>2, <1>3, <2>2
    <3> QED BY <3>1 DEF OnTimeInv
  <2>3. CASE MaxBackoff < Interval
    BY <2>3 DEF OnTimeInv
  <2>4. delay # 0
    BY <1>2, <1>3
  <2> QED BY <1>3, <2>1, <2>2, <2>3, <2>4 DEF PaceInv, OnTimeInv
<1>7. ASSUME RoomForAPoll
      PROVE  BudgetInv'
  <2>1. CASE resetsIn = 1
    <3>1. remaining' >= cost'
      BY <1>1, <1>2, <1>3, <1>7, <2>1 DEF RoomForAPoll
    <3> QED BY <3>1 DEF BudgetInv
  <2>2. CASE resetsIn # 1
    <3>1. unforeseen \/ remaining >= cost \/ delay >= resetsIn
      BY <1>3, <1>7 DEF PaceInv, BudgetInv
    <3>2. /\ unforeseen' = unforeseen /\ remaining' = remaining /\ cost' = cost
          /\ delay >= resetsIn => delay' >= resetsIn'
      BY <1>1, <1>2, <1>3, <2>2
    <3> QED BY <3>1, <3>2 DEF BudgetInv
  <2> QED BY <2>1, <2>2
<1> QED BY <1>5, <1>6, <1>7 DEF PaceInv, RoomForAPoll

LEMMA SyncerKeeps ==
    ASSUME SyncerAssumption, SyncerInv, PaceInv, [SyncerNext]_syncerVars
    PROVE  SyncerInv' /\ PaceInv'
<1> USE DEF SyncerInv, SyncerTypeOK, GivesUpOnFailures, PaceInv, OnTimeInv, BudgetInv, RoomForAPoll, Running
<1>1. CASE Cycle
  BY <1>1, CycleKeeps
<1>2. CASE \E n \in 1 .. Most : OthersSpend(n)
  BY <1>2, OthersKeep
<1>3. CASE Cancel
  BY <1>3 DEF Cancel, budgetVars
<1>4. CASE SchemaMoves
  BY <1>4 DEF SchemaMoves, budgetVars
<1>5. ASSUME NEW answered \in BOOLEAN, CheckSchema(answered)
      PROVE  SyncerInv' /\ PaceInv'
  <2>1. /\ loop' = loop \/ loop' = "stopped"
        /\ UNCHANGED <<failures, delay, elapsed, budgetVars, resetsIn, schema, fruitless>>
    BY <1>5 DEF CheckSchema
  <2>2. checkIn' \in 0 .. CheckInterval
    <3>1. checkIn' = CheckInterval
      BY <1>5 DEF CheckSchema
    <3>2. CheckInterval \in Nat
      BY DEF SyncerAssumption
    <3> HIDE DEF SyncerInv, PaceInv
    <3> QED BY <3>1, <3>2
  <2> QED BY <2>1, <2>2 DEF budgetVars
<1>6. CASE TimePasses
  BY <1>6, TimePassesKeeps
<1>7. CASE UNCHANGED syncerVars
  BY <1>7 DEF syncerVars, budgetVars
<1> QED BY <1>1, <1>2, <1>3, <1>4, <1>5, <1>6, <1>7 DEF SyncerNext

LEMMA PaceInvHolds ==
    ASSUME SyncerAssumption
    PROVE  SyncerSpec => [](SyncerInv /\ PaceInv)
<1>1. SyncerInit => SyncerInv /\ PaceInv
  <2> SUFFICES ASSUME SyncerInit
               PROVE  SyncerInv /\ PaceInv
    OBVIOUS
  <2>1. /\ Interval \in Nat /\ CheckInterval \in Nat /\ Limit \in Nat /\ Longest \in Nat /\ Window \in Nat
    BY LongestOfThree DEF SyncerAssumption
  <2>2. /\ delay = 0 /\ elapsed = Interval /\ remaining = Limit /\ checkIn = CheckInterval
        /\ resetsIn \in 1 .. Window /\ failures = 0 /\ fruitless = 0 /\ cost = 0 /\ unforeseen = FALSE
    BY DEF SyncerInit
  <2>3. /\ delay \in 0 .. Longest /\ elapsed \in 0 .. Interval /\ remaining \in 0 .. Limit
        /\ checkIn \in 0 .. CheckInterval /\ {failures, fruitless} \subseteq Nat
    BY <2>1, <2>2
  <2>4. SyncerInv
    BY <2>2, <2>3 DEF SyncerInit, SyncerInv, SyncerTypeOK, GivesUpOnFailures
  <2>5. elapsed + delay >= Interval /\ remaining >= cost
    BY <2>1, <2>2
  <2> QED BY <2>4, <2>5 DEF PaceInv, OnTimeInv, BudgetInv
<1>2. SyncerInv /\ PaceInv /\ [SyncerNext]_syncerVars => SyncerInv' /\ PaceInv'
  BY SyncerKeeps
<1> QED BY <1>1, <1>2, PTL DEF SyncerSpec

\* The loop's memory keeps its types, and no wait is longer than the longest of the
\* interval, the back-off and the budget's window (ghsync/syncer.go).
THEOREM SyncerTypeCorrect ==
    ASSUME SyncerAssumption
    PROVE  SyncerSpec => []SyncerTypeOK
<1>1. SyncerInv => SyncerTypeOK
  BY DEF SyncerInv
<1> QED BY <1>1, PaceInvHolds, PTL

\* The syncer gives up only on as many failures in a row as it tolerates, and never where
\* it was told to keep trying (ghsync/syncer.go:80).
THEOREM GivesUpOnFailuresOnly ==
    ASSUME SyncerAssumption
    PROVE  SyncerSpec => []GivesUpOnFailures
<1>1. SyncerInv => GivesUpOnFailures
  BY DEF SyncerInv
<1> QED BY <1>1, PaceInvHolds, PTL

\* No poll finds less left than the last answer said its request cost, where none costs
\* more than the floor, unless something was spent since that no answer told of: the rest
\* of the cycle, a cycle that told of nothing, or the user (ghsync/syncer.go:142).
THEOREM TheBudgetLastsAsForetold ==
    ASSUME SyncerAssumption, RoomForAPoll
    PROVE  SyncerSpec => []LastsAsForetold
<1>1. SyncerInv /\ PaceInv => LastsAsForetold
  <2> SUFFICES ASSUME SyncerInv, PaceInv, Running, delay = 0
               PROVE  unforeseen \/ remaining >= cost
    BY DEF LastsAsForetold
  <2>1. ~(delay >= resetsIn)
    <3>1. resetsIn \in 1 .. Window /\ Window \in Nat
      BY SyncerTyped
    <3> QED BY <3>1
  <2> QED BY <2>1 DEF PaceInv, BudgetInv
<1> QED BY <1>1, PaceInvHolds, PTL

\* No poll comes sooner than asked but at the moment the budget is whole again, for any
\* interval, floor, budget and window, where the longest back-off is not shorter than the
\* interval (ghsync/syncer.go:143).
THEOREM NoSoonerButAtAReset ==
    ASSUME SyncerAssumption
    PROVE  SyncerSpec => []SoonerOnlyAtAReset
<1>1. SyncerInv /\ PaceInv => SoonerOnlyAtAReset
  <2> SUFFICES ASSUME SyncerInv, PaceInv, Running, delay = 0, elapsed < Interval
               PROVE  resetsIn = Window \/ MaxBackoff < Interval
    BY DEF SoonerOnlyAtAReset
  <2>1. ~(elapsed + delay >= Interval) /\ delay # resetsIn
    <3>1. resetsIn \in 1 .. Window /\ Window \in Nat /\ elapsed \in 0 .. Interval /\ Interval \in Nat
      BY SyncerTyped
    <3> QED BY <3>1
  <2> QED BY <2>1 DEF PaceInv, OnTimeInv
<1> QED BY <1>1, PaceInvHolds, PTL

\* All of it: the loop ends on failures only, and slows as far as its budget was foretold
\* and no sooner than asked but at a reset (ghsync/syncer.go).
THEOREM TheLoopKeepsItsPace ==
    ASSUME SyncerAssumption, RoomForAPoll
    PROVE  SyncerSpec => []SyncerKeepsPace
<1>1. SyncerSpec => []GivesUpOnFailures
  BY GivesUpOnFailuresOnly
<1>2. SyncerSpec => []LastsAsForetold
  BY TheBudgetLastsAsForetold
<1>3. SyncerSpec => []SoonerOnlyAtAReset
  BY NoSoonerButAtAReset
<1> QED BY <1>1, <1>2, <1>3, PTL DEF SyncerKeepsPace
=============================================================================
