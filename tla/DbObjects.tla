------------------------------- MODULE DbObjects -------------------------------
(***************************************************************************)
(* From JSON objects to SQL and back (database.hpp 116-482): the values of *)
(* parameters as literals, their places in the query, rows as objects.     *)
(* The handlers are those of test/DBTest.cpp, over its table db_test; the  *)
(* database itself is external.  A query is a sequence of tokens.          *)
(***************************************************************************)
EXTENDS Naturals, Sequences, FiniteSets, Functions

CONSTANTS Names, Emails, Codes, \* the values of items
          MaxRows,              \* bound on the table
          MaxTokens, MaxParams  \* bounds on the queries of other programs

VARIABLES table,  \* the rows of db_test
          call,   \* an exec of any program: [template, params, query]
          answer, \* of the last handler
          stored  \* the item each name was last given, as the client sent it

vars == <<table, call, answer, stored>>

Null == [kind |-> "null"]
True == [kind |-> "true"]
False == [kind |-> "false"]
Number(n) == [kind |-> "int", is |-> n]
String(s) == [kind |-> "string", is |-> s]
Object == [kind |-> "object"]
Vector(s) == [kind |-> "vector", is |-> s]  \* of strings
Says(what) == [says |-> what]  \* anything that is no object
Failed == Says("failed")
Char(c) == [char |-> c]        \* a character of a template
Ask == Char("?")
Bare(s) == [form |-> "bare", text |-> s]      \* a literal without quotes around it
Quoted(s) == [form |-> "quoted", text |-> s]

-----------------------------------------------------------------------------
\* db_value<json::value>: what it is in the query.  An object or array throws.
Scalar(v) == CASE v.kind \in {"null", "true", "false"} -> Bare(v.kind)
               [] v.kind = "int" -> Bare(v.is)
               [] v.kind = "string" -> Quoted(v.is)
               [] OTHER -> Failed

\* An optional is its value or null; a vector is ARRAY[...].
Literal(v) == IF v.kind = "vector" THEN [array |-> [i \in DOMAIN v.is |-> Scalar(v.is[i])]]
                                   ELSE Scalar(v)

\* A '?' that is there twice stays so.
TurnKeepsBoth(template, params, s) ==
  IF s.i > Len(template) THEN s
  ELSE IF template[s.i] # Ask \/ (s.i < Len(template) /\ template[s.i + 1] = Ask)
       THEN [query |-> Append(s.query, template[s.i]), i |-> s.i + 1, idx |-> s.idx]
  ELSE IF s.idx < Len(params) THEN [query |-> Append(s.query, Literal(params[s.idx + 1])), i |-> s.i + 1, idx |-> s.idx + 1]
  ELSE [query |-> <<Failed>>, i |-> Len(template) + 1, idx |-> s.idx]

\* A turn of the loop of exec.  "??" is a '?', any other '?' the next parameter, whose
\* text is not looked at again; without one it throws, and the query is Failed.
Turn(template, params, s) ==
  IF s.i > Len(template) THEN s
  ELSE IF template[s.i] # Ask THEN [query |-> Append(s.query, template[s.i]), i |-> s.i + 1, idx |-> s.idx]
  ELSE IF s.i < Len(template) /\ template[s.i + 1] = Ask THEN [query |-> Append(s.query, Ask), i |-> s.i + 2, idx |-> s.idx]
  ELSE IF s.idx < Len(params) THEN [query |-> Append(s.query, Literal(params[s.idx + 1])), i |-> s.i + 1, idx |-> s.idx + 1]
  ELSE [query |-> <<Failed>>, i |-> Len(template) + 1, idx |-> s.idx]

\* As many turns as the template has characters at most, then no parameter is left.
exec(template, params) ==
  LET turn[k \in 0..Len(template)] == IF k = 0 THEN [query |-> <<>>, i |-> 1, idx |-> 0]
                                      ELSE Turn(template, params, turn[k - 1])
      last == turn[Len(template)]
  IN IF last.idx # Len(params) THEN <<Failed>> ELSE last.query

Call(template, params) == [template |-> template, params |-> params, query |-> exec(template, params)]
NoCall == Call(<<>>, <<>>)
Throws(c) == Failed \in Range(c.query) \/ \E n \in DOMAIN c.params : Literal(c.params[n]) = Failed

-----------------------------------------------------------------------------
\* The database.  A literal as a cell of a column.
Text(s) == [kind |-> "text", is |-> s]
Cell(lit) == IF lit = Bare("null") THEN Null ELSE Text(lit.text)

\* A null as the text of the cell.
FieldNotOptional(column, cell) ==
  CASE column \in {"name", "email"} -> String(IF cell = Null THEN "" ELSE cell.is)
    [] column = "active" -> IF cell.is = "true" THEN True ELSE False
    [] column = "code" -> IF cell = Null THEN Null ELSE Number(cell.is)

\* db_field: json of a cell.  The text of a null is empty.
Field(column, cell) ==
  CASE column = "name" -> String(IF cell = Null THEN "" ELSE cell.is)
    [] column = "active" -> IF cell.is = "true" THEN True ELSE False
    [] column = "email" -> IF cell = Null THEN Null ELSE String(cell.is)
    [] column = "code" -> IF cell = Null THEN Null ELSE Number(cell.is)

convert_row(row) == [name |-> Field("name", row[1]), active |-> Field("active", row[2]),
                     email |-> Field("email", row[3]), code |-> Field("code", row[4])]

\* The positions in the table of the rows of a result.
convert_to_optional(rows) == IF rows = {} THEN Says("not found")
                             ELSE IF \A i, j \in rows : i = j THEN convert_row(table[CHOOSE i \in rows : TRUE])
                             ELSE Failed

-----------------------------------------------------------------------------
\* An object of the client has some of the keys.
Missing == [kind |-> "missing"]
Items == [name : {Missing, Null} \cup {String(n) : n \in Names}, active : {Missing, False},
          email : {Missing, Object} \cup {String(e) : e \in Emails}, code : {Missing} \cup {Number(n) : n \in Codes}]

\* The keys that a client may leave out.
Completed(item) == [item EXCEPT !.active = IF @ = Missing THEN True ELSE @,
                                !.email = IF @ = Missing THEN Null ELSE @,
                                !.code = IF @ = Missing THEN Null ELSE @]

Values(item) == <<item.name, item.active, item.email, item.code>>

\* n parameters, with something before each.
Template(n) == [i \in 1..(2 * n) |-> IF i % 2 = 0 THEN Ask ELSE Char("x")]

\* The database: the literals of such a query as a row, and the positions of the rows of a name.
Row(query) == <<Cell(query[2]), Cell(query[4]), Cell(query[6]), Cell(query[8])>>
RowsOf(n) == {i \in DOMAIN table : table[i][1].is = n}

\* The constraints of db_test (test/DBTest.sql): the name, unless it is that of one of the rows.
Violates(row, rows) == row[1] = Null \/ \E i \in rows : table[i][1] = row[1]

\* The handler ends with an exception, and its transaction with it.
Refuse == answer' = Failed /\ UNCHANGED <<table, stored>>

Save(item, rows, names, what) == /\ table' = rows
                                 /\ stored' = [n \in Names |-> IF n = item.name.is THEN Completed(item) ELSE names[n]]
                                 /\ answer' = Says(what)

Add(item) ==
  LET c == Call(Template(4), Values(Completed(item)))
  IN /\ item.name # Missing /\ Len(table) < MaxRows /\ call' = NoCall
     /\ IF Throws(c) \/ Violates(Row(c.query), DOMAIN table) THEN Refuse
        ELSE Save(item, Append(table, Row(c.query)), stored, "added")

\* A row with the new name only counts when it is another one; without a row of
\* the name nothing is updated, and that is no error.
Update(n, item) ==
  LET c == Call(Template(5), Append(Values(Completed(item)), String(n)))
  IN /\ item.name # Missing /\ call' = NoCall
     /\ CASE Throws(c) \/ (RowsOf(n) # {} /\ Violates(Row(c.query), DOMAIN table \ RowsOf(n))) -> Refuse
          [] ~Throws(c) /\ RowsOf(n) = {} -> answer' = Says("updated") /\ UNCHANGED <<table, stored>>
          [] OTHER -> Save(item, [i \in DOMAIN table |-> IF table[i][1].is = n THEN Row(c.query) ELSE table[i]],
                           [stored EXCEPT ![n] = Missing], "updated")

MissingName(item) == /\ item.name = Missing
                     /\ answer' = Says("missing")
                     /\ call' = NoCall /\ UNCHANGED <<table, stored>>

Find(n) == /\ call' = NoCall
           /\ answer' = convert_to_optional(RowsOf(n))
           /\ UNCHANGED <<table, stored>>

SeqsUpTo(S, n) == UNION {[1..m -> S] : m \in 0..n}

\* Some program's exec, before the handlers run.
Init == /\ table = <<>>
        /\ \E t \in SeqsUpTo({Ask, Char("x")}, MaxTokens), ps \in SeqsUpTo({Object, String("?"), Vector(<<String("?"), String("")>>)}, MaxParams) :
              call = Call(t, ps)
        /\ answer = Says("none")
        /\ stored = [n \in Names |-> Missing]

Next == \/ \E n \in Names : Find(n)
        \/ \E item \in Items : \/ Add(item) \/ MissingName(item)
                               \/ \E n \in Names : Update(n, item)

Spec == Init /\ [][Next]_vars

-----------------------------------------------------------------------------
\* Of the '?'s of a template that end at i; those that stand for a parameter; the
\* characters that leave something in the query; how many of some are up to i.
RunBefore(t, i) == CHOOSE n \in 0..i : /\ \A k \in (i - n + 1)..i : t[k] = Ask
                                       /\ n = i \/ t[i - n] # Ask
Places(t) == {i \in DOMAIN t : t[i] = Ask /\ RunBefore(t, i) % 2 = 1 /\ (i = Len(t) \/ t[i + 1] # Ask)}

Kept(t) == {i \in DOMAIN t : t[i] # Ask \/ RunBefore(t, i) % 2 = 0} \cup Places(t)
UpTo(S, i) == Cardinality({j \in S : j <= i})

Substituted(c) ==
  LET t == c.template
      fits == Cardinality(Places(t)) = Len(c.params) /\ Object \notin Range(c.params)
      put(i) == IF i \in Places(t) THEN Literal(c.params[UpTo(Places(t), i)]) ELSE t[i]
  IN /\ Throws(c) <=> ~fits
     /\ fits => /\ Len(c.query) = Cardinality(Kept(t))
                /\ \A i \in Kept(t) : c.query[UpTo(Kept(t), i)] = put(i)

(* exec puts the parameters where its comment says (database.hpp 445-454): *)
(* of a run of '?' every two are one, and one that is left over is the     *)
(* next parameter; it throws unless the parameters are as many as those    *)
(* and all of a type that SQL has.                                         *)
ExecSubstitutes == Substituted(call)

(* What DBTest.py expects: an item that was added or updated is found as   *)
(* it was sent, with its nulls, empty strings and defaults, under its last *)
(* name and no other, whatever calls failed in between.                    *)
FoundAsStored ==
  [][\A n \in Names : Find(n) =>
        answer' = IF stored[n] = Missing THEN Says("not found") ELSE stored[n]]_vars
================================================================================
