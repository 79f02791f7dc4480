------------------------------ MODULE Patterns ------------------------------
(***************************************************************************)
(* Path patterns: codeowners/pattern.go, which CODEOWNERS rules and        *)
(* .gitattributes lines share.  A pattern is segments of which "**" may    *)
(* take any number and another one matches by name; a segment's name is    *)
(* matched by a loop that backs up to the last star it saw.  Both are the  *)
(* loops of the code, step by step, against what the package says a        *)
(* pattern means.                                                          *)
(*                                                                         *)
(* Segments of a path are names; a segment of a pattern is a name, "*" for *)
(* one that matches every name, or "**".                                   *)
(***************************************************************************)
EXTENDS Integers, Sequences, SequencesExt

CONSTANTS
    SegmentNames,  \* names a segment of a path may have
    MaxSegments,   \* longest path and longest pattern, in segments
    Letters,       \* letters of a name
    MaxLetters     \* longest name and longest glob, in letters

PatternsAssumption == MaxSegments \in Nat \ {0} /\ MaxLetters \in Nat \ {0}

VARIABLES
    search, \* [at, pattern, path, whole, start, answer]: Match or MatchWhole
    glob    \* [at, pattern, name, p, n, star, mark]: globSegment

patternVars == <<search, glob>>

UpTo(set, n) == UNION {[1..k -> set] : k \in 1..n}
Paths == UpTo(SegmentNames, MaxSegments)

(* ParsePattern: a pattern of several segments is anchored, and so is one  *)
(* written with a leading slash.                                           *)
Parsed ==
    {[segments |-> s, anchored |-> a, dirOnly |-> d] :
        s \in UpTo(SegmentNames \cup {"*", "**"}, MaxSegments), a \in BOOLEAN, d \in BOOLEAN}
PatternsWritten == {p \in Parsed : Len(p.segments) > 1 => p.anchored}

-----------------------------------------------------------------------------
(* Segments: walkTo, from pattern[i] and path[j].                          *)

MatchSegment(segment, name) == segment \in {"*", name}

WalkAnyLevel(pattern, path, whole) ==
    LET match[i \in 1..(Len(pattern) + 1), j \in 1..(Len(path) + 1)] ==
            IF i > Len(pattern) THEN ~whole \/ j > Len(path)
            ELSE IF pattern[i] = "**"
                 THEN \E skip \in j..(Len(path) + 1) : match[i + 1, skip]
                 ELSE j <= Len(path) /\ MatchSegment(pattern[i], path[j]) /\ match[i + 1, j + 1]
    IN match[1, 1]

WalkTo(pattern, path, whole) ==
    LET match[i \in 1..(Len(pattern) + 1), j \in 1..(Len(path) + 1)] ==
            IF i > Len(pattern) THEN ~whole \/ j > Len(path)
            ELSE IF pattern[i] = "**"
                 THEN IF i = Len(pattern) THEN j <= Len(path)
                      ELSE \E skip \in j..(Len(path) + 1) : match[i + 1, skip]
                 ELSE j <= Len(path) /\ MatchSegment(pattern[i], path[j]) /\ match[i + 1, j + 1]
    IN match[1, 1]

(* consumedPrefix: whether anything is left to be inside.                  *)
ConsumedPrefix(pattern, path) == Last(pattern) = "**" \/ Len(path) > Len(pattern)

(* matchFrom, and what MatchWhole asks of a start instead.                 *)
MatchFrom(p, rest, whole) ==
    IF whole THEN ~p.dirOnly /\ WalkTo(p.segments, rest, TRUE)
    ELSE WalkTo(p.segments, rest, FALSE) /\ (p.dirOnly => ConsumedPrefix(p.segments, rest))

(* Match, MatchWhole: one start, or the next.                              *)
TryStart ==
    /\ search.at = "trying"
    /\ LET rest  == SubSeq(search.path, search.start, Len(search.path))
           found == MatchFrom(search.pattern, rest, search.whole)
           more  == ~search.pattern.anchored /\ search.start < Len(search.path)
       IN IF ~found /\ more THEN search' = [search EXCEPT !.start = @ + 1]
          ELSE search' = [search EXCEPT !.at = "done", !.answer = found]
    /\ UNCHANGED glob

-----------------------------------------------------------------------------
(* Letters: globSegment.                                                   *)

FinishedAtEnd(g) == g.p > Len(g.pattern)
Finished(g) == {i \in g.p..Len(g.pattern) : g.pattern[i] # "*"} = {}

StarStays(g) == [g EXCEPT !.star = g.p, !.mark = g.n]
StarAt(g) == [g EXCEPT !.star = g.p, !.mark = g.n, !.p = @ + 1]
BackUpOnce(g) == [g EXCEPT !.p = g.star + 1, !.n = g.mark + 1]
BackUp(g) == [g EXCEPT !.p = g.star + 1, !.mark = @ + 1, !.n = g.mark + 1]

GlobStep ==
    /\ glob.at = "trying" /\ glob.n <= Len(glob.name)
    /\ glob' =
        IF glob.p <= Len(glob.pattern) /\ glob.pattern[glob.p] \in {"?", glob.name[glob.n]}
        THEN [glob EXCEPT !.p = @ + 1, !.n = @ + 1]
        ELSE IF glob.p <= Len(glob.pattern) /\ glob.pattern[glob.p] = "*" THEN StarAt(glob)
        ELSE IF glob.star > 0 THEN BackUp(glob)
        ELSE [glob EXCEPT !.at = "no"]
    /\ UNCHANGED search

GlobEnd ==
    /\ glob.at = "trying" /\ glob.n > Len(glob.name)
    /\ glob' = [glob EXCEPT !.at = IF Finished(glob) THEN "yes" ELSE "no"]
    /\ UNCHANGED search

-----------------------------------------------------------------------------

NoSearch == [at |-> "none", pattern |-> [segments |-> <<>>, anchored |-> TRUE, dirOnly |-> FALSE],
             path |-> <<>>, whole |-> FALSE, start |-> 1, answer |-> FALSE]
NoGlob == [at |-> "none", pattern |-> <<>>, name |-> <<>>, p |-> 1, n |-> 1, star |-> 0, mark |-> 0]

PatternsInit ==
    \/ /\ glob = NoGlob
       /\ \E p \in PatternsWritten, path \in Paths, whole \in BOOLEAN :
            search = [NoSearch EXCEPT !.at = "trying", !.pattern = p, !.path = path, !.whole = whole]
    \/ /\ search = NoSearch
       /\ \E g \in UpTo(Letters \cup {"*", "?"}, MaxLetters), name \in UpTo(Letters, MaxLetters) :
            glob = [NoGlob EXCEPT !.at = "trying", !.pattern = g, !.name = name]

PatternsNext == TryStart \/ GlobStep \/ GlobEnd

PatternsSpec == PatternsInit /\ [][PatternsNext]_patternVars
FairPatterns == PatternsSpec /\ WF_patternVars(PatternsNext)

-----------------------------------------------------------------------------
(* What a pattern means.                                                   *)

(* The entries a pattern names: "**" stands for any number of directories, *)
(* but ends in something inside.                                           *)
Names(pattern, entry) ==
    LET names[i \in 1..(Len(pattern) + 1), j \in 1..(Len(entry) + 1)] ==
            IF i > Len(pattern) THEN j > Len(entry)
            ELSE \E k \in j..(Len(entry) + 1) :
                    /\ IF pattern[i] = "**" THEN (i = Len(pattern) => k > j)
                       ELSE k = j + 1 /\ pattern[i] \in {"*", entry[j]}
                    /\ names[i + 1, k]
    IN names[1, 1]

Starts(p, path) == IF p.anchored THEN {1} ELSE 1..Len(path)
Entry(path, from, to) == SubSeq(path, from, to)

(* Owning an entry owns everything beneath it; a directory pattern names   *)
(* directories, and a path ends in a file.                                 *)
Covers(p, path) ==
    \E from \in Starts(p, path) :
        \E to \in from..(IF p.dirOnly THEN Len(path) - 1 ELSE Len(path)) :
            Names(p.segments, Entry(path, from, to))
NamesFile(p, path) ==
    ~p.dirOnly /\ \E from \in Starts(p, path) : Names(p.segments, Entry(path, from, Len(path)))

AnyLevelInside(p) == \E i \in 1..Len(p.segments) : p.segments[i] = "**"

-----------------------------------------------------------------------------
(* Properties.                                                             *)

(* Types; the loop over starts stays on the path, and the loop over        *)
(* letters never reads past either string nor backs up past its star.      *)
PatternsTypeOK ==
    /\ search.at # "none" => search.start \in 1..Len(search.path)
    /\ glob.p \in 1..(Len(glob.pattern) + 1)
    /\ glob.n \in 1..(Len(glob.name) + 1)
    /\ glob.star < glob.p /\ glob.mark <= glob.n
    /\ glob.star > 0 => glob.pattern[glob.star] = "*"

(* A pattern covers what it says: the entries it names and all beneath     *)
(* them, and for .gitattributes the files it names and no more.  (A        *)
(* directory pattern with "**" is left to the property below.)             *)
CoversAsWritten ==
    search.at = "done" /\ ~(search.pattern.dirOnly /\ AnyLevelInside(search.pattern)) =>
        search.answer = IF search.whole THEN NamesFile(search.pattern, search.path)
                        ELSE Covers(search.pattern, search.path)

(* The backtracking loop finds a way to read the glob if there is one.     *)
Reads(pattern, name) ==
    LET reads[i \in 1..(Len(pattern) + 1), j \in 1..(Len(name) + 1)] ==
            IF i > Len(pattern) THEN j > Len(name)
            ELSE IF pattern[i] = "*" THEN \E k \in j..(Len(name) + 1) : reads[i + 1, k]
            ELSE j <= Len(name) /\ pattern[i] \in {"?", name[j]} /\ reads[i + 1, j + 1]
    IN reads[1, 1]
GlobIsRight ==
    glob.at \in {"yes", "no"} => (glob.at = "yes" <=> Reads(glob.pattern, glob.name))

(* Matching ends, whatever the pattern.                                    *)
GlobEnds == <>(glob.at \in {"none", "yes", "no"})

(* pattern.go, of dirOnly: "the pattern names a directory, so it can only  *)
(* match a proper prefix of a file's path, never the file itself", and "a  *)
(* pattern that matches a *prefix* of a file's path therefore matches the  *)
(* file".                                                                  *)
DirectoriesOnly ==
    search.at = "done" /\ search.pattern.dirOnly /\ ~search.whole
        /\ Last(search.pattern.segments) # "**" =>
            search.answer = Covers(search.pattern, search.path)

=============================================================================
