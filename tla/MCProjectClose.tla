--------------------------- MODULE MCProjectClose ---------------------------
(* The action table for TLC: with states written by hand, with projects     *)
(* that close, or with dates.  Three rows of everything are too many for    *)
(* one state space, so each kind of history leaves something out.           *)
EXTENDS ProjectClose

VARIABLE history

Undated     == snooze_until' = snooze_until /\ today' = today
TwoRows     == Cardinality(Rows') <= 2
ProjectsStay == UNCHANGED <<project, over>>

TableInit == ProjectInit /\ history \in {"by hand", "projects", "dates"}

\* Two rows show a dated row that closes, also as a chase of the other, and is
\* then found by the sweep or written by hand.
TableNext ==
    /\ \/ history = "by hand" /\ Next /\ ProjectsStay /\ Undated
       \/ history = "projects" /\ (ActionStep \/ ProjectStep) /\ Undated
       \/ history = "dates" /\ Next /\ ProjectsStay /\ TwoRows
       \/ history = "dates" /\ ProjectStep
    /\ UNCHANGED history

TableSpec == TableInit /\ [][TableNext]_<<closeVars, history>>

\* Actions differ only in their name, and no property names one.
Symmetry == Permutations(Actions)
=============================================================================
