----------------------------- MODULE UserAccounts -----------------------------
(***************************************************************************)
(* The handlers of WebApp that use the table auth_user (handlers.cpp       *)
(* 81-202, 310-390), as transactions on it: one step per statement a       *)
(* handler executes, so that the statements of other requests come in      *)
(* between.  The database is the external part: it shows committed rows    *)
(* only (read committed), its UNIQUE constraint (db.sql 3) makes an insert *)
(* wait for the transaction that inserted the same name, and a transaction *)
(* that is not committed is rolled back when db_transaction is destroyed.  *)
(***************************************************************************)
EXTENDS Naturals, FiniteSets

CONSTANTS Requests, Names,
          NoRequest  \* marks a name without a row

ASSUME NoRequestAssumption == NoRequest \notin Requests

\* A lookup is a find, or a login up to the password.
Kinds == {"register", "add_user", "lookup", "users"}
Registers == {"register", "add_user"}

VARIABLES rows,      \* the committed table: who registered each name
          inserted,  \* the rows of open transactions
          kind, name,
          pc,        \* the next statement of each request
          answer,    \* what it was told, "none" before that
          known,     \* the names registered by requests answered before it began
          total,     \* count(*) as a listing read it, a set of names
          listed,    \* the rows it selected
          broken     \* requests whose connection broke

table == <<rows, inserted>>
vars == <<table, kind, name, pc, answer, known, total, listed, broken>>

Statements == {"select", "insert", "commit", "count", "page"}
Registered == {n \in Names : rows[n] # NoRequest}

Init == /\ rows = [n \in Names |-> NoRequest]
        /\ inserted = [n \in Names |-> NoRequest]
        /\ kind = [r \in Requests |-> "users"]
        /\ name \in [Requests -> Names]
        /\ pc = [r \in Requests |-> "new"]
        /\ answer = [r \in Requests |-> "none"]
        /\ known = [r \in Requests |-> {}]
        /\ total = [r \in Requests |-> {}]
        /\ listed = [r \in Requests |-> {}]
        /\ broken = {}

-----------------------------------------------------------------------------
Goes(r, from, to) == pc[r] = from /\ pc' = [pc EXCEPT ![r] = to]

\* The answer to a form is a page with the users: a second transaction.
Answers(r, from, what) ==
    /\ answer' = [answer EXCEPT ![r] = what]
    /\ Goes(r, from, IF kind[r] = "add_user" THEN "count" ELSE "done")

\* A connection was given out, and the parameters are all there.
Begin(r, k) == /\ Goes(r, "new", IF k = "users" THEN "count" ELSE "select")
               /\ kind' = [kind EXCEPT ![r] = k]
               /\ known' = [known EXCEPT ![r] = {name[q] : q \in {p \in Requests :
                                pc[p] = "done" /\ answer[p] = "registered"}}]
               /\ UNCHANGED <<table, name, answer, total, listed, broken>>

\* Registrations without the look-up: the constraint has to tell.
SelectUnchecked(r) ==
    /\ IF kind[r] \in Registers
       THEN Goes(r, "select", "insert") /\ UNCHANGED answer
       ELSE Answers(r, "select", IF rows[name[r]] # NoRequest THEN "found" ELSE "unknown")
    /\ UNCHANGED <<table, kind, name, known, total, listed, broken>>

\* get_user.  A login that finds the user goes on to the password.
Select(r) ==
    /\ LET there == rows[name[r]] # NoRequest
       IN  IF kind[r] \in Registers
           THEN IF there THEN Answers(r, "select", "existed")
                         ELSE Goes(r, "select", "insert") /\ UNCHANGED answer
           ELSE Answers(r, "select", IF there THEN "found" ELSE "unknown")
    /\ UNCHANGED <<table, kind, name, known, total, listed, broken>>

\* Without the constraint.
InsertAnyway(r) == /\ Goes(r, "insert", "commit")
                   /\ inserted' = [inserted EXCEPT ![name[r]] = r]
                   /\ UNCHANGED <<rows, kind, name, answer, known, total, listed, broken>>

\* The insert waits while another transaction has a row of the name.
Insert(r) == /\ rows[name[r]] = NoRequest /\ inserted[name[r]] = NoRequest
             /\ Goes(r, "insert", "commit")
             /\ inserted' = [inserted EXCEPT ![name[r]] = r]
             /\ UNCHANGED <<rows, kind, name, answer, known, total, listed, broken>>

\* The handler ends with an exception: handle_request answers 500.
Fails(r, from) == /\ Goes(r, from, "done")
                  /\ answer' = [answer EXCEPT ![r] = "error"]

\* Violates the constraint: the exception of the database.
InsertRefused(r) == /\ rows[name[r]] # NoRequest
                    /\ Fails(r, "insert")
                    /\ UNCHANGED <<table, kind, name, known, total, listed, broken>>

\* "you must manually commit changes": the transaction rolled back, as one is that is not.
CommitForgotten(r) == /\ Answers(r, "commit", "registered")
                      /\ inserted' = [inserted EXCEPT ![name[r]] = NoRequest]
                      /\ UNCHANGED <<rows, kind, name, known, total, listed, broken>>

Commit(r) == /\ Answers(r, "commit", "registered")
             /\ rows' = [rows EXCEPT ![name[r]] = r]
             /\ inserted' = [inserted EXCEPT ![name[r]] = NoRequest]
             /\ UNCHANGED <<kind, name, known, total, listed, broken>>

\* The first statement of redirect_to_users.
Count(r) == /\ Goes(r, "count", "page")
            /\ total' = [total EXCEPT ![r] = Registered]
            /\ UNCHANGED <<table, kind, name, answer, known, listed, broken>>

\* The second; its rows are more than a page can show only in Pagination.
Page(r) == /\ Goes(r, "page", "done")
           /\ listed' = [listed EXCEPT ![r] = Registered]
           /\ answer' = [answer EXCEPT ![r] = IF @ = "none" THEN "listed" ELSE @]
           /\ UNCHANGED <<table, kind, name, known, total, broken>>

\* The transaction not ended by the exception.
RolledBackNever(r) == inserted

\* The rows of a transaction that ends without a commit.
RolledBack(r) == [n \in Names |-> IF inserted[n] = r THEN NoRequest ELSE inserted[n]]

\* The connection breaks: the statement throws, the database rolls back.
Break(r) == /\ \E s \in Statements : Fails(r, s)
            /\ inserted' = RolledBack(r)
            /\ broken' = broken \cup {r}
            /\ UNCHANGED <<rows, kind, name, known, total, listed>>

\* It breaks after the commit took effect, before the handler hears of it.
CommitInDoubt(r) == /\ Fails(r, "commit")
                    /\ rows' = [rows EXCEPT ![name[r]] = r]
                    /\ inserted' = RolledBack(r)
                    /\ broken' = broken \cup {r}
                    /\ UNCHANGED <<kind, name, known, total, listed>>

Statement(r) == \/ Select(r) \/ Insert(r) \/ InsertRefused(r) \/ Commit(r)
                \/ Count(r) \/ Page(r)

Next == \E r \in Requests : \/ \E k \in Kinds : Begin(r, k)
                            \/ Statement(r)
                            \/ Break(r) \/ CommitInDoubt(r)

(* Threads run and the database answers; connections need not break.       *)
Spec == Init /\ [][Next]_vars /\ \A r \in Requests : WF_vars(Statement(r))

-----------------------------------------------------------------------------

(* Open transactions are those of the requests about to commit.            *)
TypeOK == /\ rows \in [Names -> Requests \cup {NoRequest}]
          /\ inserted \in [Names -> Requests \cup {NoRequest}]
          /\ kind \in [Requests -> Kinds] /\ name \in [Requests -> Names]
          /\ pc \in [Requests -> {"new", "done"} \cup Statements]
          /\ answer \in [Requests -> {"none", "registered", "existed", "found", "unknown", "listed", "error"}]
          /\ known \in [Requests -> SUBSET Names]
          /\ total \in [Requests -> SUBSET Names] /\ listed \in [Requests -> SUBSET Names]
          /\ broken \subseteq Requests
          /\ \A n \in Names : \A r \in Requests :
                inserted[n] = r <=> pc[r] = "commit" /\ name[r] = n

(* A name is registered by at most one request, however many look for it   *)
(* before any of them inserts, and who was told so has the row.            *)
OneRegistrationPerName ==
    \A r \in Requests : answer[r] = "registered" => rows[name[r]] = r

(* A registration that was refused has left no row, unless its connection  *)
(* broke: the transaction ends with the handler on every path.             *)
RefusedLeavesNoRow ==
    \A r \in Requests : pc[r] = "done" /\ r \notin broken /\ answer[r] \in {"existed", "error"}
                            => \A n \in Names : rows[n] # r /\ inserted[n] # r

(* The table and what requests were told of it agree at every point.       *)
RowsHaveOneOwner == TypeOK /\ OneRegistrationPerName /\ RefusedLeavesNoRow

(* "existed" is only said of a name that is registered for good, never of  *)
(* one whose registration may still fail.                                  *)
ExistedExists ==
    \A r \in Requests : answer[r] = "existed" => rows[name[r]] \in Requests \ {r}

(* Who registers after somebody was told that the name is registered hears *)
(* "existed": the server error of the lost race is for overlapping         *)
(* requests only.                                                          *)
ErrorOnlyInRace ==
    \A r \in Requests : answer[r] = "error" /\ r \notin broken => name[r] \notin known[r]

(* What a request is told of its name is true.                             *)
AnswersAreTrue == ExistedExists /\ ErrorOnlyInRace

(* Once a registration was answered, lookups and logins find the user, and *)
(* lists show it, the list that answers the form itself included.          *)
RegisteredIsSeen ==
    \A r \in Requests : /\ answer[r] = "unknown" => name[r] \notin known[r]
                        /\ pc[r] = "done" /\ r \notin broken /\ kind[r] \in {"users", "add_user"}
                                /\ answer[r] # "error"
                            => known[r] \cup {n \in Names : rows[n] = r} \subseteq listed[r]

(* The page shows every user that was counted: users are never removed.    *)
CountedAreListed ==
    \A r \in Requests : pc[r] = "done" /\ r \notin broken /\ total[r] # {} => total[r] \subseteq listed[r]

(* Two statements of a listing, and a form and its answer, fit together    *)
(* although they are transactions of their own.                            *)
ListsAreTrue == RegisteredIsSeen /\ CountedAreListed

(* Every request that began is answered: no insert waits for ever.         *)
RequestsAnswered == \A r \in Requests : pc[r] \in Statements ~> pc[r] = "done"
=============================================================================
