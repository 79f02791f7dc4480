------------------------------- MODULE Filter -------------------------------
(***************************************************************************)
(* The filter of a listing: the package filter.  An expression in CEL is   *)
(* split at its conjunctions;  a term the query can answer as CEL would is *)
(* pushed into it, the rest is evaluated in Go over the rows read.  The    *)
(* split is one behaviour over one row: every term is compiled, the row is *)
(* read, and the row is kept or not.                                       *)
(*                                                                         *)
(* A term asks about the row, about some or none of the rows of a to-many  *)
(* relation, or about the row of a to-one.  What it asks is a disjunction  *)
(* of comparisons, those after the first also by themselves: the SQL of a  *)
(* relation binds only the first to the link.  CEL is two-valued with      *)
(* errors, SQL three-valued with NULL;  the operators Cel... and Sql...    *)
(* say how each answers.                                                   *)
(***************************************************************************)
EXTENDS Integers, FiniteSets, Sequences

CONSTANTS
    Columns,     \* name -> [kind, nullable], of the row being listed
    FarColumns,  \* the same of the far side of the relation
    Filters      \* sequences of terms [walk, test, also]

VARIABLES
    filter,  \* the expression: its conjuncts
    row,     \* a row of the listing
    far,     \* the rows of the relation
    others,  \* the rows of its table that are related to another row
    listing  \* [at, where, residual, taken, kept]

filterVars == <<filter, row, far, others, listing>>

Null  == [kind |-> "null", at |-> 0]
Error == [kind |-> "error", at |-> 0]
Of(kind) == {[kind |-> kind, at |-> i] : i \in 0..1}
ValuesOf(c) == Of(c.kind) \cup (IF c.nullable THEN {Null} ELSE {})
RowsOf(columns) ==
    {r \in [DOMAIN columns -> UNION {ValuesOf(columns[name]) : name \in DOMAIN columns}] :
        \A name \in DOMAIN columns : r[name] \in ValuesOf(columns[name])}

(* Operands: a literal, or a column: named bare, of the listed row by its  *)
(* table's name, or of the far row by the name the traversal gave it.      *)
Literal(v) == [of |-> "literal", name |-> "", value |-> v]
Column(of, name) == [of |-> of, name |-> name, value |-> Null]

Kinds == {"integer", "text", "boolean"}
CellValues == {Null} \cup UNION {Of(kind) : kind \in Kinds}
Operands == {Literal(v) : v \in CellValues}
            \cup {Column(of, name) : of \in {"bare", "base"}, name \in DOMAIN Columns}
            \cup {Column("far", name) : name \in DOMAIN FarColumns}
Atoms == {a \in [op : {"==", "!=", "<", "!"}, left : Operands, right : Operands] :
             a.op = "!" => a.right = a.left}
Terms == {t \in [walk : {"row", "some", "none", "one"}, test : SUBSET Atoms, also : SUBSET Atoms] :
              t.also \subseteq t.test}

FilterAssumption ==
    /\ \A columns \in {Columns, FarColumns} : \A name \in DOMAIN columns :
          columns[name] \in [kind : Kinds, nullable : BOOLEAN]
    /\ IsFiniteSet(DOMAIN Columns)
    /\ Filters \subseteq Seq(Terms)

-----------------------------------------------------------------------------
(* CEL.                                                                    *)

CelValue(o, r, f) ==
    CASE o.of = "literal" -> o.value
      [] o.of = "far" -> f[o.name]
      [] OTHER -> r[o.name]

Truth(b) == IF b THEN "true" ELSE "false"
Negated(answer) == CASE answer = "true" -> "false" [] answer = "false" -> "true" [] OTHER -> answer

CelAtom(a, r, f) ==
    LET x == CelValue(a.left, r, f)
        y == CelValue(a.right, r, f)
        typed == x.kind = y.kind /\ x.kind # "null"
    IN IF Error \in {x, y} THEN "error"
       ELSE CASE a.op = "==" -> Truth(x = y)
              [] a.op = "!=" -> Truth(x # y)
              [] a.op = "<" -> IF typed THEN Truth(x.at < y.at) ELSE "error"
              [] a.op = "!" -> IF x.kind = "boolean" THEN Truth(x.at = 0) ELSE "error"

(* An or, and an exists, is true if anything is, whatever fails beside it. *)
AnyOf(answers) ==
    IF "true" \in answers THEN "true" ELSE IF "error" \in answers THEN "error" ELSE "false"
CelTest(test, r, f) == AnyOf({CelAtom(a, r, f) : a \in test})

NoRow == [name \in DOMAIN FarColumns |-> Error]
CelTerm(term, r, fs) ==
    CASE term.walk = "row"  -> CelTest(term.test, r, NoRow)
      [] term.walk = "some" -> AnyOf({CelTest(term.test, r, f) : f \in fs})
      [] term.walk = "none" -> Negated(AnyOf({CelTest(term.test, r, f) : f \in fs}))
      [] term.walk = "one"  -> CelTest(term.test, r, IF fs = {} THEN NoRow ELSE CHOOSE f \in fs : TRUE)

(* celAnswer, Keep: a row CEL has no answer for does not match.            *)
Matches(terms, r, fs) == \A i \in DOMAIN terms : CelTerm(terms[i], r, fs) = "true"

(* ReadRelated: a far row is read without its columns that are NULL.       *)
AsRead(f) == [name \in DOMAIN f |-> IF f[name] = Null THEN Error ELSE f[name]]

-----------------------------------------------------------------------------
(* SQL: toSQL, subquery, toOne.  Inside a subquery a bare name binds to    *)
(* the inner table if that has it.                                         *)

SqlValue(o, r, f, walk) ==
    CASE o.of = "literal" -> o.value
      [] o.of = "far" -> f[o.name]
      [] o.of = "bare" /\ walk # "row" /\ o.name \in DOMAIN f -> f[o.name]
      [] OTHER -> r[o.name]

ComparesNull(a) == Literal(Null) \in {a.left, a.right}
Before(x, y) == IF x.kind = y.kind THEN x.at < y.at ELSE y.kind = "text"

SqlAtom(a, r, f, walk) ==
    LET x == SqlValue(a.left, r, f, walk)
        y == SqlValue(a.right, r, f, walk)
    IN IF Null \in {x, y} /\ ~(ComparesNull(a) /\ a.op \in {"==", "!="}) THEN "null"
       ELSE CASE a.op = "==" -> Truth(x = y)
              [] a.op = "!=" -> Truth(x # y)
              [] a.op = "<" -> Truth(Before(x, y))
              [] a.op = "!" -> Truth(x.kind = "text" \/ x.at = 0)

SqlTest(test, r, f, walk) == \E a \in test : SqlAtom(a, r, f, walk) = "true"

(* link AND p OR q, without brackets: what is asked after the first may be *)
(* answered by a row that is related to another.                           *)
SqlRelated(term, r, fs, gs) ==
    \/ \E f \in fs : SqlTest(term.test, r, f, term.walk)
    \/ \E g \in gs : SqlTest(term.also, r, g, term.walk)

SqlTerm(term, r, fs, gs) ==
    CASE term.walk = "row"  -> SqlTest(term.test, r, NoRow, "row")
      [] term.walk = "none" -> ~SqlRelated(term, r, fs, gs)
      [] OTHER -> SqlRelated(term, r, fs, gs)

-----------------------------------------------------------------------------
(* What may be pushed down: pushableShape, the shapes known to mean the    *)
(* same in both.                                                           *)

NoColumn == [kind |-> "none", nullable |-> FALSE]
ResolveBare(o, walk) ==
    IF o.of \in {"bare", "base"} THEN Columns[o.name]
    ELSE IF o.of = "far" THEN FarColumns[o.name] ELSE NoColumn
Resolve(o, walk) ==
    IF walk = "row" THEN (IF o.of = "bare" THEN Columns[o.name] ELSE NoColumn)
    ELSE IF o.of = "base" THEN Columns[o.name]
    ELSE IF o.of = "far" THEN FarColumns[o.name] ELSE NoColumn

EqualsRule(c, literal) == literal \in {"null", c.kind}
NotEqualsRule(c, literal) == literal = "null" \/ (literal = c.kind /\ ~c.nullable)
OrderedRule(c, literal) == literal = c.kind

ComparesToLiteral(a, walk) ==
    \E l, r \in {a.left, a.right} :
        LET c == Resolve(l, walk)
        IN /\ c # NoColumn /\ r.of = "literal"
           /\ \/ a.op = "==" /\ EqualsRule(c, r.value.kind)
              \/ a.op = "!=" /\ NotEqualsRule(c, r.value.kind)
              \/ a.op = "<" /\ OrderedRule(c, r.value.kind)

ComparesColumns(a, walk) ==
    LET l == Resolve(a.left, walk)
        r == Resolve(a.right, walk)
    IN /\ NoColumn \notin {l, r} /\ l.kind = r.kind
       /\ a.op = "!=" => ~l.nullable /\ ~r.nullable

NotAllowed(c) == c.kind = "boolean" /\ ~c.nullable

PushableShape(a, walk) ==
    \/ a.op # "!" /\ (ComparesToLiteral(a, walk) \/ ComparesColumns(a, walk))
    \/ a.op = "!" /\ NotAllowed(Resolve(a.left, walk))

(* nullProbe: the first sample of every column that is never NULL, and     *)
(* every sample of the columns the term names, one at a time.              *)
NamedIn(test) ==
    {name \in DOMAIN Columns : \E a \in test : Column("bare", name) \in {a.left, a.right}}
BaseRow ==
    [name \in DOMAIN Columns |->
        IF Columns[name].nullable THEN Null ELSE [kind |-> Columns[name].kind, at |-> 0]]
Samples(test) ==
    {BaseRow} \cup UNION {{[BaseRow EXCEPT ![name] = v] : v \in Of(Columns[name].kind)} : name \in NamedIn(test)}

Agrees(test) ==
    \A r \in Samples(test) :
        SqlTest(test, r, NoRow, "row") <=> CelTest(test, r, NoRow) = "true"

(* pushable: by shape, over at most one column that may be absent, and as  *)
(* the probe says.  A traversal is pushed down by its shape alone.         *)
Pushable(term) ==
    /\ \A a \in term.test : PushableShape(a, term.walk)
    /\ term.walk = "row" =>
        /\ Cardinality({name \in NamedIn(term.test) : Columns[name].nullable}) <= 1
        /\ Agrees(term.test)

-----------------------------------------------------------------------------

Compiled == Len(listing.where) + Len(listing.residual)

(* Compile: the next conjunct.                                             *)
Compile ==
    /\ listing.at = "compile" /\ Compiled < Len(filter)
    /\ LET term == filter[Compiled + 1]
       IN IF Pushable(term)
          THEN listing' = [listing EXCEPT !.where = Append(@, term)]
          ELSE listing' = [listing EXCEPT !.residual = Append(@, term)]
    /\ UNCHANGED <<filter, row, far, others>>

(* Take, and the query: a listing either puts the SQL in its query or      *)
(* reads every row.                                                        *)
Take(takes) ==
    /\ listing.at = "compile" /\ Compiled = Len(filter)
    /\ LET read == takes => \A i \in DOMAIN listing.where : SqlTerm(listing.where[i], row, far, others)
       IN listing' = [listing EXCEPT !.taken = takes, !.at = IF read THEN "read" ELSE "done"]
    /\ UNCHANGED <<filter, row, far, others>>

RemainsWhole == filter
Remains == IF listing.taken THEN listing.residual ELSE filter

(* Keep: what the query did not answer.  A filter that follows a relation  *)
(* fails the listing where there is nothing to read it with.               *)
Keep(loader) ==
    /\ listing.at = "read"
    /\ LET needs == \E i \in DOMAIN Remains : Remains[i].walk # "row"
           kept  == Matches(Remains, row, {AsRead(f) : f \in far})
       IN listing' = [listing EXCEPT !.at = IF needs /\ ~loader THEN "refused" ELSE "done",
                                     !.kept = kept /\ (needs => loader)]
    /\ UNCHANGED <<filter, row, far, others>>

NoListing == [at |-> "compile", where |-> <<>>, residual |-> <<>>, taken |-> FALSE, kept |-> FALSE]

FilterInit ==
    /\ filter \in Filters
    /\ row \in RowsOf(Columns)
    /\ far \in {{}} \cup {{f, g} : f, g \in RowsOf(FarColumns)}
    /\ others \in {{}} \cup {{f} : f \in RowsOf(FarColumns)}
    /\ (\E i \in DOMAIN filter : filter[i].walk = "one") => \A f, g \in far : f = g
    /\ listing = NoListing

FilterNext == Compile \/ \E b \in BOOLEAN : Take(b) \/ Keep(b)

FilterSpec == FilterInit /\ [][FilterNext]_filterVars

-----------------------------------------------------------------------------
(* Properties.                                                             *)

(* Types; and a filter whose SQL was taken, and that went to the query     *)
(* whole, is never refused.                                                *)
FilterTypeOK ==
    /\ listing.at \in {"compile", "read", "done", "refused"}
    /\ listing.taken \in BOOLEAN /\ listing.kept \in BOOLEAN
    /\ Compiled <= Len(filter)
    /\ listing.at = "refused" => ~listing.kept /\ Remains # <<>>
    /\ listing.taken /\ listing.residual = <<>> => listing.at # "refused"

(* What is asked so that a NULL read in one way is not lost in the other.  *)
(* Of a relation: that no row is such is not asked; a far column that may  *)
(* be NULL is not compared with what may be NULL too, nor said to differ;  *)
(* and a to-one is asked about nothing but its row.  Of the listed row:    *)
(* a column that may be NULL is compared with itself in no disjunction.    *)
MayBeNull(o) ==
    \/ o = Literal(Null)
    \/ o.of = "far" /\ FarColumns[o.name].nullable
    \/ o.of \in {"bare", "base"} /\ Columns[o.name].nullable

AskedPlainly(term) ==
    /\ term.walk # "none"
    /\ \A a \in term.test :
          LET ends == {a.left, a.right}
          IN IF term.walk = "row"
             THEN a.op = "==" /\ a.left = a.right /\ MayBeNull(a.left) => term.test = {a}
             ELSE /\ a.op = "==" /\ (\A o \in ends : MayBeNull(o)) =>
                         Literal(Null) \in ends /\ \A o \in ends : o.of # "far"
                  /\ a.op = "!=" => \A o \in ends : ~(o.of = "far" /\ MayBeNull(o))
                  /\ term.walk = "one" => \E o \in ends : o.of = "far"

(* A disjunction about related rows, in a query: the brackets it lacks let *)
(* in rows that CEL would not.                                             *)
AsksOr(terms) == \E i \in DOMAIN terms : terms[i].walk # "row" /\ terms[i].also # {}

(* null.go: "CEL's semantics are the answer, and pushdown is an            *)
(* optimisation that may not change one."  A row is listed exactly when    *)
(* CEL, with a null for what is absent, says of the whole expression that  *)
(* it matches;  but where a query asks a disjunction of related rows, it   *)
(* lists every row that matches, and may list others.                      *)
ListedAsCelSays ==
    listing.at = "done" =>
        /\ Matches(filter, row, far) => listing.kept
        /\ listing.kept => \/ Matches(filter, row, far)
                           \/ listing.taken /\ AsksOr(filter)

(* Both: what a listing promises of a filter.                              *)
ListsAsCelSays == FilterTypeOK /\ ListedAsCelSays
=============================================================================
