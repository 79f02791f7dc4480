------------------------------ MODULE MCFilter ------------------------------
EXTENDS Filter

Num(i) == [kind |-> "integer", at |-> i]
Text(i) == [kind |-> "text", at |-> i]
Bool(i) == [kind |-> "boolean", at |-> i]

Cols == [n |-> [kind |-> "integer", nullable |-> TRUE], m |-> [kind |-> "integer", nullable |-> TRUE],
         t |-> [kind |-> "text", nullable |-> FALSE], b |-> [kind |-> "boolean", nullable |-> FALSE]]
FarCols == [n |-> [kind |-> "integer", nullable |-> TRUE], t |-> [kind |-> "text", nullable |-> FALSE]]

Atom(l, op, r) == [op |-> op, left |-> l, right |-> r]
Not(l) == Atom(l, "!", l)
Ops == {"==", "!=", "<"}

(* Comparisons of the listed row: with literals of its type, of another,   *)
(* and null, either way round, and of columns with each other.             *)
RowAtoms ==
    {Atom(Column("bare", "n"), op, Literal(v)) : op \in Ops, v \in {Num(0), Num(1), Text(0), Null}}
    \cup {Atom(Literal(v), op, Column("bare", "t")) : op \in Ops, v \in {Text(0), Num(0), Null}}
    \cup {Atom(Column("bare", "n"), op, Column("bare", c)) : op \in Ops, c \in {"n", "m", "t"}}
    \cup {Not(Column("bare", c)) : c \in {"n", "t", "b"}}

FarAtoms ==
    {Atom(Column("far", "n"), op, Literal(v)) : op \in {"==", "<"}, v \in {Num(0), Num(1), Text(0)}}
    \cup {Atom(Column("far", "t"), op, Literal(v)) : op \in Ops, v \in {Text(0), Num(0)}}
    \cup {Atom(Column("far", "n"), op, Column(of, "n")) : op \in {"<"}, of \in {"base", "bare"}}
    \cup {Atom(Column("far", "t"), op, Column(of, "t")) : op \in Ops, of \in {"base", "bare"}}

Term(walk, test) == [walk |-> walk, test |-> test, also |-> {}]
Or(walk, first, also) == [walk |-> walk, test |-> {first} \cup also, also |-> also]
One(a) == <<Term("row", {a})>>

Lit == Atom(Column("bare", "n"), "!=", Literal(Num(0)))
Same == Atom(Column("bare", "t"), "==", Literal(Text(0)))

MCFilters ==
    {One(a) : a \in RowAtoms}
    \cup {<<Term("row", {a, Same})>> : a \in RowAtoms}
    \cup {<<Term("row", {Same}), Term(w, {a})>> : w \in {"some", "one"}, a \in FarAtoms}
    \cup {<<Term("some", {a}), Term("row", {Lit})>> : a \in FarAtoms}
    \cup {<<Or("some", Atom(Column("far", "n"), "<", Literal(Num(1))), {a})>> : a \in FarAtoms}
    \cup {<<Or("one", Atom(Column("far", "t"), "==", Literal(Text(0))), {a})>> : a \in FarAtoms}

(* None of the related rows may be so.                                     *)
NegatedFilters == {<<Term("none", {a})>> : a \in FarAtoms}

(* A comparison through a to-one relation, or one of the row itself.       *)
OrFilters ==
    {<<Or("one", Atom(Column("far", "t"), "==", Literal(Text(0))),
                 {Atom(Column("base", "t"), "==", Literal(Text(1)))})>>}
=============================================================================
