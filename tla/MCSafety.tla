------------------------------ MODULE MCSafety ------------------------------
(***************************************************************************)
(* Small instances of the parts whose properties are about what may never  *)
(* happen, in one state space: a behaviour is a behaviour of one of them,  *)
(* and the others rest in an initial state, the filter's with no filter.   *)
(***************************************************************************)
EXTENDS Overdue, EventLog, Watch, Vocabulary, Codeowners, MCFilter, TLC

VARIABLE part \* which part is on

-----------------------------------------------------------------------------
(* The instances *)

\* Asked for nothing, for lines, and for what is so old.
MCBacklogs == {[lines |-> 0, since |-> 0], [lines |-> 1, since |-> 0],
               [lines |-> 2, since |-> 0], [lines |-> 0, since |-> 2],
               [lines |-> 0, since |-> 5]}

\* Two builds, the newer with a predicate more.
MCRegisters == [old |-> {"merged"}, new |-> {"merged", "approved_by"}]
MCDefinitions == {[closes |-> "human", takes |-> {}],
                  [closes |-> "merged", takes |-> {"issue"}],
                  [closes |-> "approved_by", takes |-> {"owner", "ref"}]}

\* A rule for everything and a rule for one file, each with up to two owners,
\* and teams that may have any members, or have none anybody could read.
MCNames == <<"a", "b", "x", "y">>
Pairs == {s \in SUBSET Range(MCNames) : Cardinality(s) <= 2}
MCCodeFiles == {<<[paths |-> {1, 2}, owners |-> s], [paths |-> {2}, owners |-> t]>> :
                    s \in Pairs, t \in Pairs}
MCHintLists == {<<>>} \union {<<o>> : o \in Range(MCNames)}

ASSUME OverdueAssumption
ASSUME LogAssumption
ASSUME WatchAssumption
ASSUME VocabularyAssumption
ASSUME CodeownersAssumption
ASSUME FilterAssumption

-----------------------------------------------------------------------------
(* One part is on, the others rest *)

\* What is related to another row is read only where related rows are asked a
\* disjunction, and of the row only the columns the filter names.
Named == UNION {{o.name : o \in UNION {{a.left, a.right} : a \in filter[i].test}} : i \in DOMAIN filter}
OnlyWhatIsRead ==
    /\ AsksOr(filter) \/ others = {}
    /\ \A name \in DOMAIN Cols \ Named : row[name] = [kind |-> Cols[name].kind, at |-> 0]

Parts == {"overdue", "log", "watch", "vocabulary", "owners", "filter"}

SafetyInit ==
    /\ part \in Parts
    /\ Init
    /\ LogInit /\ (part = "log" \/ record = Absent)
    /\ WatchInit
    /\ VocabularyInit
    /\ OwnersInit
    /\ part = "owners" \/ (Owners = {} /\ hints = <<>> /\ members = [t \in Teams |-> {}])
    /\ IF part = "filter" THEN FilterInit /\ OnlyWhatIsRead
       ELSE filter = <<>> /\ row = <<>> /\ far = {} /\ others = {} /\ listing = NoListing

\* The parts that are off stay as they are.
Frozen ==
    /\ UNCHANGED part
    /\ IF part = "overdue" THEN TRUE ELSE UNCHANGED vars
    /\ IF part = "log" THEN TRUE ELSE UNCHANGED logVars
    /\ IF part = "watch" THEN TRUE ELSE UNCHANGED watchVars
    /\ IF part = "vocabulary" THEN TRUE ELSE UNCHANGED vocabularyVars
    /\ IF part = "owners" THEN TRUE ELSE UNCHANGED ownersVars
    /\ IF part = "filter" THEN TRUE ELSE UNCHANGED filterVars

SafetyNext ==
    \/ part = "overdue" /\ Next /\ Frozen
    \/ part = "log" /\ LogNext /\ Frozen
    \/ part = "watch" /\ WatchNext /\ Frozen
    \/ part = "vocabulary" /\ VocabularyNext /\ Frozen
    \/ part = "owners" /\ OwnersNext /\ Frozen
    \/ part = "filter" /\ FilterNext /\ Frozen

safetyVars == <<part, vars, logVars, watchVars, vocabularyVars, ownersVars, filterVars>>

SafetySpec == SafetyInit /\ [][SafetyNext]_safetyVars

\* Writers differ only in their name.
Symmetry == Permutations(Writers)

\* What is checked of each is stated in its module: TypeOK, OneChasePerWait and
\* ChasesRecorded in Overdue, LogTellsTheRow in EventLog, WatchPassesOver in Watch,
\* ChainsAreAsAsked in Vocabulary, AskedSuffice in Codeowners, ListsAsCelSays in Filter.
=============================================================================
