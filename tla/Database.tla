------------------------------ MODULE Database ------------------------------
(***************************************************************************)
(* The database as files: roz init migrates and seeds it, a command opens  *)
(* it and commits to the write-ahead log beside it, roz db restore puts a  *)
(* backup in its place, and any of them may be killed between two steps.   *)
(*                                                                         *)
(* Builds differ in the migrations they embed.  Processes run together,    *)
(* but for a restore, which nothing may run beside.                        *)
(***************************************************************************)
EXTENDS Naturals, FiniteSets

CONSTANTS
    Processes,
    Builds,      \* sets of migration versions, a binary's own
    LegacyStamp, \* user_version of a database that predates the record; 0: none
    MaxCommits, MaxKills, MaxRestores \* bounds

Versions == UNION Builds

\* A build that keeps a record has every migration from before there was one.
DatabaseAssumption ==
    /\ Builds \subseteq SUBSET (Nat \ {0})
    /\ Builds # {} /\ {} \notin Builds /\ IsFiniteSet(Versions)
    /\ LegacyStamp \in Nat
    /\ \A v \in Versions : v <= LegacyStamp => \A build \in Builds : v \in build
    /\ {MaxCommits, MaxKills, MaxRestores} \subseteq Nat

VARIABLES
    db,        \* the file at the path, or Missing
    wal,       \* what lies beside it that is not in it yet, or NoWal
    asides,    \* the files moved aside by restores
    staged,    \* the file a restore has written beside the path, or Missing
    proc,      \* each process
    committed, \* how many commits were made to the first database made here
    kills, restores

dbFiles  == <<db, wal, asides, staged>>
dbBounds == <<kills, restores>>
dbVars   == <<dbFiles, proc, committed, dbBounds>>

\* A file: whose contents it holds, what its record and its stamp say of the
\* migrations, how often the statements of each ran on it, whether identifiers
\* are seeded, and the commits in it.
File(of, applied, stamp, ran) ==
    [of |-> of, applied |-> applied, stamp |-> stamp, seeded |-> FALSE, data |-> 0,
     ran |-> [v \in Versions |-> IF v \in ran THEN 1 ELSE 0]]
Seeded(file) == [file EXCEPT !.seeded = TRUE]

Missing == File("missing", {}, 0, {})
NoWal   == [of |-> "missing", data |-> 0]
Newest  == CHOOSE b \in Builds : \A c \in Builds : Cardinality(c) <= Cardinality(b)
Backup  == Seeded(File("backup", Newest, 0, Newest))
AtRest  == [pc |-> "idle", build |-> Newest, applied |-> {}, stamp |-> 0]

There(file)     == file.of # "missing"
HighestOf(S)    == IF S = {} THEN 0 ELSE CHOOSE v \in S : \A w \in S : w <= v
Beside(p, busy) == \A q \in Processes \ {p} : proc[q].pc \notin busy

Restoring == {"aside", "sidecars", "place"}
Connected == {"bookkeeping", "backfill", "reading", "migrating", "seeding", "opening", "open"}
OthersConnected(p) == \E q \in Processes \ {p} : proc[q].pc \in Connected

GoTo(p, pc) == proc' = [proc EXCEPT ![p].pc = pc]

\* The last connection to close copies the log into the file and removes it.
CloseDb(p) ==
    /\ GoTo(p, "idle")
    /\ IF OthersConnected(p) THEN UNCHANGED <<db, wal>>
       ELSE /\ wal' = NoWal
            /\ db' = IF There(wal) THEN [db EXCEPT !.data = wal.data] ELSE db
    /\ UNCHANGED <<asides, staged>>

Same == UNCHANGED <<committed, dbBounds>>

----------------------------------------------------------------------------
(* roz init *)

FirstOr(other) == IF \E f \in asides : f.of = "live" THEN other ELSE "live"

\* Open creates the file, and SQLite drops a log that lies beside an empty one;
\* the record's table is created where it is not.
BeginInit(p, build) ==
    /\ proc[p].pc = "idle"
    /\ Beside(p, Restoring)
    /\ db' = IF There(db) THEN db ELSE File(FirstOr("again"), {}, 0, {})
    /\ wal' = IF There(db) THEN wal ELSE NoWal
    /\ proc' = [proc EXCEPT ![p] = [AtRest EXCEPT !.pc = "bookkeeping", !.build = build]]
    /\ UNCHANGED <<asides, staged>> /\ Same

\* An empty record is filled in only where the stamp says that migrations ran.
EnsureBookkeeping(p) ==
    /\ proc[p].pc = "bookkeeping"
    /\ proc' = [proc EXCEPT ![p].pc = IF db.applied = {} /\ db.stamp > 0 THEN "backfill" ELSE "reading",
                            ![p].stamp = db.stamp]
    /\ UNCHANGED dbFiles /\ Same

Before(p) == {v \in proc[p].build : v <= proc[p].stamp}

\* One transaction; a version recorded since makes it fail.
Backfill(p) ==
    /\ proc[p].pc = "backfill"
    /\ Before(p) \cap db.applied = {}
    /\ db' = [db EXCEPT !.applied = @ \cup Before(p)]
    /\ GoTo(p, "reading")
    /\ UNCHANGED <<wal, asides, staged>> /\ Same

\* Mutant: a database ahead of the build is migrated all the same.
UnknownMigrated(p, applied) == {}

\* Versions this build does not have were written by a newer one.
Unknown(p, applied) == applied \ proc[p].build

ReadApplied(p) ==
    /\ proc[p].pc = "reading"
    /\ Unknown(p, db.applied) = {}
    /\ proc' = [proc EXCEPT ![p].pc = "migrating", ![p].applied = db.applied]
    /\ UNCHANGED dbFiles /\ Same

\* Mutant: what is above the highest that ran, as user_version was once read.
ToApplyAbove(p) == {v \in proc[p].build : v > HighestOf(proc[p].applied)}

ToApply(p) == proc[p].build \ proc[p].applied
NextToApply(p) == CHOOSE v \in ToApply(p) : \A w \in ToApply(p) : v <= w

\* Mutant: the version is recorded by another transaction.
ApplyUnrecorded(p) ==
    /\ proc[p].pc = "migrating" /\ ToApply(p) # {}
    /\ \E recorded \in {{}, {NextToApply(p)}} :
          db' = [db EXCEPT !.applied = @ \cup recorded, !.ran[NextToApply(p)] = @ + 1]
    /\ proc' = [proc EXCEPT ![p].applied = @ \cup {NextToApply(p)}]
    /\ UNCHANGED <<wal, asides, staged, committed, dbBounds>>

\* The next migration and its row, in one transaction: the row's key, and the
\* statements themselves, fail where another process applied it meanwhile.
ApplyMigration(p) ==
    /\ proc[p].pc = "migrating"
    /\ ToApply(p) # {}
    /\ LET v == NextToApply(p)
       IN /\ v \notin db.applied
          /\ db' = [db EXCEPT !.applied = @ \cup {v}, !.stamp = v, !.ran[v] = @ + 1]
          /\ proc' = [proc EXCEPT ![p].applied = @ \cup {v}]
    /\ UNCHANGED <<wal, asides, staged, committed, dbBounds>>

\* Seeded already: the prefixes there are the ones that count.
Migrated(p) ==
    /\ proc[p].pc = "migrating"
    /\ ToApply(p) = {}
    /\ IF db.seeded THEN CloseDb(p) ELSE GoTo(p, "seeding") /\ UNCHANGED dbFiles
    /\ Same

Seed(p) ==
    /\ proc[p].pc = "seeding"
    /\ ~db.seeded
    /\ db' = Seeded(db)
    /\ GoTo(p, "closing")
    /\ UNCHANGED <<wal, asides, staged>> /\ Same

\* init fails: on another's version or row, at any of its writes.
InitFails(p) ==
    /\ \/ proc[p].pc = "backfill" /\ Before(p) \cap db.applied # {}
       \/ proc[p].pc = "reading" /\ Unknown(p, db.applied) # {}
       \/ proc[p].pc = "migrating" /\ ToApply(p) # {} /\ NextToApply(p) \in db.applied
       \/ proc[p].pc = "seeding" /\ db.seeded
    /\ CloseDb(p)
    /\ Same

----------------------------------------------------------------------------
(* A command *)

\* checkSchemaUpToDate: no migration pending and none unknown.
UpToDate(build) == There(db) /\ db.applied # {} /\ db.applied = build

\* Opening recovers the log that lies beside the file, whosever it is.
OpenStore(p, build) ==
    /\ proc[p].pc = "idle"
    /\ Beside(p, Restoring)
    /\ UpToDate(build)
    /\ proc' = [proc EXCEPT ![p] = [AtRest EXCEPT !.pc = "opening", !.build = build]]
    /\ db' = IF There(wal) /\ ~OthersConnected(p) THEN [db EXCEPT !.data = wal.data] ELSE db
    /\ UNCHANGED <<wal, asides, staged>> /\ Same

\* Mutant: the prefixes are not asked for.
PrefixesAssumed == TRUE

\* New needs a prefix for every entity.
PrefixesThere == db.seeded

LoadPrefixes(p) ==
    /\ proc[p].pc = "opening"
    /\ IF PrefixesThere THEN GoTo(p, "open") /\ UNCHANGED dbFiles ELSE CloseDb(p)
    /\ Same

Work(p) ==
    /\ proc[p].pc = "open"
    /\ committed < MaxCommits
    /\ db.of = "live"
    /\ committed' = committed + 1
    /\ wal' = [of |-> db.of, data |-> (IF There(wal) THEN wal.data ELSE db.data) + 1]
    /\ UNCHANGED <<db, asides, staged, proc, dbBounds>>

Leave(p) ==
    /\ proc[p].pc \in {"open", "closing"}
    /\ CloseDb(p)
    /\ Same

----------------------------------------------------------------------------
(* roz db restore *)

\* The source has been opened and checked; nothing has the database open.
BeginRestore(p, replace) ==
    /\ restores < MaxRestores /\ restores' = restores + 1
    /\ \A q \in Processes : proc[q].pc = "idle"
    /\ There(db) => replace
    /\ staged' = Backup
    /\ GoTo(p, IF There(db) THEN "aside" ELSE "place")
    /\ UNCHANGED <<db, wal, asides, committed, kills>>

\* Mutant: the rename into place takes the old file with it.
MoveOver(p) ==
    /\ proc[p].pc = "aside"
    /\ GoTo(p, "sidecars")
    /\ UNCHANGED dbFiles /\ Same

MoveAside(p) ==
    /\ proc[p].pc = "aside"
    /\ asides' = asides \cup {db}
    /\ db' = Missing
    /\ GoTo(p, "sidecars")
    /\ UNCHANGED <<wal, staged>> /\ Same

RemoveSidecars(p) ==
    /\ proc[p].pc = "sidecars"
    /\ wal' = NoWal
    /\ GoTo(p, "place")
    /\ UNCHANGED <<db, asides, staged>> /\ Same

PutInPlace(p) ==
    /\ proc[p].pc = "place"
    /\ db' = staged
    /\ staged' = Missing
    /\ GoTo(p, "idle")
    /\ UNCHANGED <<wal, asides>> /\ Same

----------------------------------------------------------------------------
\* The process is gone, with nothing of what it deferred.
Kill(p) ==
    /\ proc[p].pc # "idle"
    /\ kills < MaxKills /\ kills' = kills + 1
    /\ GoTo(p, "idle")
    /\ UNCHANGED <<dbFiles, committed, restores>>

Legacy == Seeded(File("live", {}, LegacyStamp, 1 .. LegacyStamp))

DatabaseInit ==
    /\ db \in {Missing} \cup (IF LegacyStamp > 0 THEN {Legacy} ELSE {})
    /\ wal = NoWal /\ asides = {} /\ staged = Missing
    /\ proc = [p \in Processes |-> AtRest]
    /\ committed = 0 /\ kills = 0 /\ restores = 0

InitStep(p) ==
    \/ EnsureBookkeeping(p) \/ Backfill(p) \/ ReadApplied(p) \/ ApplyMigration(p)
    \/ Migrated(p) \/ Seed(p) \/ InitFails(p)

RestoreStep(p) == MoveAside(p) \/ RemoveSidecars(p) \/ PutInPlace(p)

DatabaseNext == \E p \in Processes :
    \/ \E build \in Builds : BeginInit(p, build) \/ OpenStore(p, build)
    \/ InitStep(p) \/ RestoreStep(p)
    \/ LoadPrefixes(p) \/ Work(p) \/ Leave(p)
    \/ \E replace \in BOOLEAN : BeginRestore(p, replace)
    \/ Kill(p)

DatabaseSpec == DatabaseInit /\ [][DatabaseNext]_dbVars

(* A process that has begun goes on, and init is run again, by the newest     *)
(* build there is.                                                            *)
FairDatabase ==
    /\ DatabaseSpec
    /\ \A p \in Processes : /\ WF_dbVars(InitStep(p) \/ RestoreStep(p) \/ LoadPrefixes(p) \/ Leave(p))
                            /\ SF_dbVars(BeginInit(p, Newest))

----------------------------------------------------------------------------
Files == [of : {"missing", "live", "again", "backup"}, applied : SUBSET Versions,
          stamp : Nat, seeded : BOOLEAN, data : 0 .. MaxCommits, ran : [Versions -> Nat]]
Memories == [pc : {"idle", "closing"} \cup Restoring \cup Connected, build : Builds,
             applied : SUBSET Versions, stamp : Nat]

(* The type of the state; nothing runs beside a restore.                      *)
DatabaseTypeOK ==
    /\ db \in Files /\ staged \in Files /\ \A f \in asides : f \in Files
    /\ wal \in [of : {"missing", "live"}, data : 0 .. MaxCommits]
    /\ proc \in [Processes -> Memories]
    /\ committed \in 0 .. MaxCommits /\ kills \in 0 .. MaxKills /\ restores \in 0 .. MaxRestores
    /\ \A p \in Processes : proc[p].applied \subseteq proc[p].build
    /\ \A p \in Processes : proc[p].pc \in Restoring => Beside(p, Restoring \cup Connected \cup {"closing"})

(* A command that got as far as a store has the whole schema of its build and *)
(* a prefix for every entity, whatever other processes migrate meanwhile.     *)
OpenIsWhole ==
    \A p \in Processes : proc[p].pc = "open" => There(db) /\ proc[p].build \subseteq db.applied /\ db.seeded

(* The record is the truth: a migration's statements ran once where it says   *)
(* that the migration ran and never where it does not, through two inits at   *)
(* once, kills between any two steps and the backfill of an old database.     *)
Ran(v) == v \in db.applied \/ (db.applied = {} /\ v <= db.stamp)
RecordIsTrue == \A v \in Versions : db.ran[v] = IF Ran(v) THEN 1 ELSE 0

(* A database half migrated or half replaced by whatever was killed ends up   *)
(* whole once init is run again.                                              *)
InitCompletes == <>[](db.applied = Newest /\ db.seeded)

(* Replacing a database keeps the file that was there.                        *)
LiveThere   == \E f \in asides \cup {db} : f.of = "live"
OldFileKept == [][LiveThere => LiveThere']_dbVars

(* Whatever is migrated, restored or killed, a store that opened is whole, the *)
(* record is true and the old file is kept.                                   *)
DatabaseIsWhole == [](/\ OpenIsWhole
                      /\ RecordIsTrue)
                   /\ OldFileKept

(* backup.go says of the sidecars that left behind "they would be read as     *)
(* belonging to the restored one, which is how a good backup turns into a     *)
(* corrupt database".                                                         *)
RestoredIsAlone == There(db) /\ There(wal) => db.of = wal.of

(* The help of db restore: an existing database "is renamed aside rather than *)
(* deleted".                                                                  *)
NothingCommittedIsLost ==
    LET kept == {f.data : f \in {g \in asides \cup {db} : g.of = "live"}}
                    \cup (IF wal.of = "live" THEN {wal.data} ELSE {})
    IN committed \in kept \cup {0}
=============================================================================
