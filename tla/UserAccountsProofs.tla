-------------------------- MODULE UserAccountsProofs --------------------------
(***************************************************************************)
(* What UserAccounts promises of the table and of the answers, for any     *)
(* number of requests and names.  The argument rests on two facts: a row   *)
(* is never overwritten, since an open transaction only has a row of a     *)
(* name that no committed row has; and what a request knew when it began   *)
(* is in the table for good.                                               *)
(***************************************************************************)
EXTENDS UserAccounts, TLAPS

(* A row belongs to the request that committed it, and a name has one at   *)
(* most, in an open transaction or in the table.                           *)
RowsOK == /\ \A n \in Names : inserted[n] # NoRequest => rows[n] = NoRequest
          /\ \A n \in Names : \A r \in Requests :
                rows[n] = r => /\ name[r] = n
                               /\ pc[r] \in {"count", "page", "done"}
                               /\ answer[r] = "registered" \/ r \in broken

(* A request on its way to its answer.                                     *)
Underway(r) ==
    /\ pc[r] = "new" => answer[r] = "none"
    /\ pc[r] \in {"select", "insert", "commit"} => kind[r] # "users"
    /\ pc[r] \in {"insert", "commit"} => name[r] \notin known[r]
    /\ pc[r] \in {"new", "select", "insert", "commit", "count"} => total[r] = {}
    /\ known[r] \subseteq Registered /\ total[r] \subseteq Registered

(* What it was told.                                                       *)
Told(r) ==
    /\ answer[r] = "registered" => rows[name[r]] = r
    /\ answer[r] = "existed" => rows[name[r]] \in Requests \ {r}
    /\ answer[r] = "error" /\ r \notin broken => name[r] \notin known[r]
    /\ answer[r] = "unknown" => name[r] \notin known[r]

(* What it was shown.                                                      *)
Shown(r) ==
    pc[r] = "done" /\ r \notin broken =>
        /\ kind[r] \in {"users", "add_user"} /\ answer[r] # "error"
              => known[r] \cup {n \in Names : rows[n] = r} \subseteq listed[r]
        /\ total[r] # {} => total[r] \subseteq listed[r]

IInv == TypeOK /\ RowsOK /\ \A r \in Requests : Underway(r) /\ Told(r) /\ Shown(r)

-----------------------------------------------------------------------------
USE DEF table, Registered

LEMMA Initially == Init => IInv
BY NoRequestAssumption DEF Init, IInv, TypeOK, RowsOK, Underway, Told, Shown, Kinds, Statements

(* A request that a step does not concern: rows come, none go.             *)
LEMMA Frame ==
    ASSUME TypeOK, NEW q \in Requests, Underway(q), Told(q), Shown(q),
           \A n \in Names : rows[n] = NoRequest \/ rows'[n] = rows[n],
           \A n \in Names : rows'[n] = q <=> rows[n] = q,
           name' = name, q \in broken' <=> q \in broken,
           pc'[q] = pc[q], kind'[q] = kind[q], answer'[q] = answer[q], known'[q] = known[q],
           total'[q] = total[q], listed'[q] = listed[q]
    PROVE  Underway(q)' /\ Told(q)' /\ Shown(q)'
<1>1. name[q] \in Names
  BY DEF TypeOK
<1>2. Registered \subseteq Registered'
  OBVIOUS
<1>3. Underway(q)'
  BY <1>2 DEF Underway
<1>4. Told(q)'
  BY <1>1, NoRequestAssumption DEF Told
<1>5. Shown(q)'
  BY DEF Shown
<1>6. QED BY <1>3, <1>4, <1>5

LEMMA BeginKeeps ==
    ASSUME IInv, NEW r \in Requests, NEW k \in Kinds, Begin(r, k) PROVE IInv'
<1> USE NoRequestAssumption DEF IInv
<1>1. TypeOK'
  BY DEF Begin, Goes, TypeOK, Kinds, Statements
<1>2. RowsOK'
  BY DEF Begin, Goes, RowsOK, TypeOK
<1>3. Underway(r)' /\ Told(r)' /\ Shown(r)'
  <2>1. Underway(r)'
    <3>1. known'[r] \subseteq Registered
      BY DEF Begin, Told, TypeOK
    <3>2. QED BY <3>1 DEF Begin, Goes, Underway, TypeOK
  <2>2. Told(r)'
    BY DEF Begin, Goes, Told, Underway, RowsOK, TypeOK
  <2>3. Shown(r)'
    BY DEF Begin, Goes, Shown, Underway, RowsOK, TypeOK
  <2>4. QED BY <2>1, <2>2, <2>3
<1>4. ASSUME NEW q \in Requests, q # r PROVE Underway(q)' /\ Told(q)' /\ Shown(q)'
  BY <1>4, Frame DEF Begin, Goes, TypeOK
<1>5. QED BY <1>1, <1>2, <1>3, <1>4

LEMMA SelectKeeps ==
    ASSUME IInv, NEW r \in Requests, Select(r) PROVE IInv'
<1> USE NoRequestAssumption DEF IInv
<1>1. TypeOK'
  BY DEF Select, Goes, Answers, TypeOK, Kinds, Statements, Registers
<1>2. RowsOK'
  BY DEF Select, Goes, Answers, RowsOK, TypeOK
<1>3. Underway(r)' /\ Told(r)' /\ Shown(r)'
  <2>1. Underway(r)'
    BY DEF Select, Goes, Answers, Underway, RowsOK, TypeOK
  <2>2. Told(r)'
    BY DEF Select, Goes, Answers, Told, Underway, RowsOK, TypeOK
  <2>3. Shown(r)'
    BY DEF Select, Goes, Answers, Shown, Underway, RowsOK, TypeOK
  <2>4. QED BY <2>1, <2>2, <2>3
<1>4. ASSUME NEW q \in Requests, q # r PROVE Underway(q)' /\ Told(q)' /\ Shown(q)'
  BY <1>4, Frame DEF Select, Goes, Answers, TypeOK
<1>5. QED BY <1>1, <1>2, <1>3, <1>4

LEMMA InsertKeeps ==
    ASSUME IInv, NEW r \in Requests, Insert(r) PROVE IInv'
<1> USE NoRequestAssumption DEF IInv
<1>1. TypeOK'
  BY DEF Insert, Goes, TypeOK, Statements
<1>2. RowsOK'
  BY DEF Insert, Goes, RowsOK, TypeOK
<1>3. Underway(r)' /\ Told(r)' /\ Shown(r)'
  <2>1. Underway(r)'
    BY DEF Insert, Goes, Underway, RowsOK, TypeOK
  <2>2. Told(r)'
    BY DEF Insert, Goes, Told, Underway, RowsOK, TypeOK
  <2>3. Shown(r)'
    BY DEF Insert, Goes, Shown, Underway, RowsOK, TypeOK
  <2>4. QED BY <2>1, <2>2, <2>3
<1>4. ASSUME NEW q \in Requests, q # r PROVE Underway(q)' /\ Told(q)' /\ Shown(q)'
  BY <1>4, Frame DEF Insert, Goes, TypeOK
<1>5. QED BY <1>1, <1>2, <1>3, <1>4

LEMMA InsertRefusedKeeps ==
    ASSUME IInv, NEW r \in Requests, InsertRefused(r) PROVE IInv'
<1> USE NoRequestAssumption DEF IInv
<1>1. TypeOK'
  BY DEF InsertRefused, Goes, Fails, TypeOK, Statements
<1>2. RowsOK'
  BY DEF InsertRefused, Goes, Fails, RowsOK, TypeOK
<1>3. Underway(r)' /\ Told(r)' /\ Shown(r)'
  <2>1. Underway(r)'
    BY DEF InsertRefused, Goes, Fails, Underway, RowsOK, TypeOK
  <2>2. Told(r)'
    BY DEF InsertRefused, Goes, Fails, Told, Underway, RowsOK, TypeOK
  <2>3. Shown(r)'
    BY DEF InsertRefused, Goes, Fails, Shown, Underway, RowsOK, TypeOK
  <2>4. QED BY <2>1, <2>2, <2>3
<1>4. ASSUME NEW q \in Requests, q # r PROVE Underway(q)' /\ Told(q)' /\ Shown(q)'
  BY <1>4, Frame DEF InsertRefused, Goes, Fails, TypeOK
<1>5. QED BY <1>1, <1>2, <1>3, <1>4

LEMMA CommitKeeps ==
    ASSUME IInv, NEW r \in Requests, Commit(r) PROVE IInv'
<1> USE NoRequestAssumption DEF IInv
<1>1. TypeOK'
  BY DEF Commit, Goes, Answers, TypeOK, Statements
<1>2. RowsOK'
  BY DEF Commit, Goes, Answers, RowsOK, TypeOK
<1>3. Underway(r)' /\ Told(r)' /\ Shown(r)'
  <2>1. Underway(r)'
    BY DEF Commit, Goes, Answers, Underway, RowsOK, TypeOK
  <2>2. Told(r)'
    BY DEF Commit, Goes, Answers, Told, Underway, RowsOK, TypeOK
  <2>3. Shown(r)'
    BY DEF Commit, Goes, Answers, Shown, Underway, RowsOK, TypeOK
  <2>4. QED BY <2>1, <2>2, <2>3
<1>4. ASSUME NEW q \in Requests, q # r PROVE Underway(q)' /\ Told(q)' /\ Shown(q)'
  <2>1. name[r] \in Names /\ rows[name[r]] = NoRequest /\ rows' = [rows EXCEPT ![name[r]] = r]
    BY DEF Commit, Goes, Answers, TypeOK, RowsOK
  <2>2. /\ \A n \in Names : rows[n] = NoRequest \/ rows'[n] = rows[n]
        /\ \A n \in Names : rows'[n] = q <=> rows[n] = q
    BY <1>4, <2>1 DEF TypeOK
  <2>3. QED BY <1>4, <2>2, Frame DEF Commit, Goes, Answers, TypeOK
<1>5. QED BY <1>1, <1>2, <1>3, <1>4

LEMMA CountKeeps ==
    ASSUME IInv, NEW r \in Requests, Count(r) PROVE IInv'
<1> USE NoRequestAssumption DEF IInv
<1>1. TypeOK'
  BY DEF Count, Goes, TypeOK, Statements
<1>2. RowsOK'
  BY DEF Count, Goes, RowsOK, TypeOK
<1>3. Underway(r)' /\ Told(r)' /\ Shown(r)'
  <2>1. Underway(r)'
    BY DEF Count, Goes, Underway, RowsOK, TypeOK
  <2>2. Told(r)'
    BY DEF Count, Goes, Told, Underway, RowsOK, TypeOK
  <2>3. Shown(r)'
    BY DEF Count, Goes, Shown, Underway, RowsOK, TypeOK
  <2>4. QED BY <2>1, <2>2, <2>3
<1>4. ASSUME NEW q \in Requests, q # r PROVE Underway(q)' /\ Told(q)' /\ Shown(q)'
  BY <1>4, Frame DEF Count, Goes, TypeOK
<1>5. QED BY <1>1, <1>2, <1>3, <1>4

LEMMA PageKeeps ==
    ASSUME IInv, NEW r \in Requests, Page(r) PROVE IInv'
<1> USE NoRequestAssumption DEF IInv
<1>1. TypeOK'
  BY DEF Page, Goes, TypeOK, Statements
<1>2. RowsOK'
  BY DEF Page, Goes, RowsOK, TypeOK
<1>3. Underway(r)' /\ Told(r)' /\ Shown(r)'
  <2>1. Underway(r)'
    BY DEF Page, Goes, Underway, RowsOK, TypeOK
  <2>2. Told(r)'
    BY DEF Page, Goes, Told, Underway, RowsOK, TypeOK
  <2>3. Shown(r)'
    BY DEF Page, Goes, Shown, Underway, RowsOK, TypeOK
  <2>4. QED BY <2>1, <2>2, <2>3
<1>4. ASSUME NEW q \in Requests, q # r PROVE Underway(q)' /\ Told(q)' /\ Shown(q)'
  BY <1>4, Frame DEF Page, Goes, TypeOK
<1>5. QED BY <1>1, <1>2, <1>3, <1>4

LEMMA BreakKeeps ==
    ASSUME IInv, NEW r \in Requests, Break(r) PROVE IInv'
<1> USE NoRequestAssumption DEF IInv
<1>1. TypeOK'
  BY DEF Break, Goes, Fails, RolledBack, Statements, TypeOK
<1>2. RowsOK'
  BY DEF Break, Goes, Fails, RolledBack, Statements, RowsOK, TypeOK
<1>3. Underway(r)' /\ Told(r)' /\ Shown(r)'
  <2>1. Underway(r)'
    BY DEF Break, Goes, Fails, RolledBack, Statements, Underway, RowsOK, TypeOK
  <2>2. Told(r)'
    BY DEF Break, Goes, Fails, RolledBack, Statements, Told, Underway, RowsOK, TypeOK
  <2>3. Shown(r)'
    BY DEF Break, Goes, Fails, RolledBack, Statements, Shown, Underway, RowsOK, TypeOK
  <2>4. QED BY <2>1, <2>2, <2>3
<1>4. ASSUME NEW q \in Requests, q # r PROVE Underway(q)' /\ Told(q)' /\ Shown(q)'
  BY <1>4, Frame DEF Break, Goes, Fails, RolledBack, Statements, TypeOK
<1>5. QED BY <1>1, <1>2, <1>3, <1>4

LEMMA CommitInDoubtKeeps ==
    ASSUME IInv, NEW r \in Requests, CommitInDoubt(r) PROVE IInv'
<1> USE NoRequestAssumption DEF IInv
<1>1. TypeOK'
  BY DEF CommitInDoubt, Goes, Fails, RolledBack, TypeOK, Statements
<1>2. RowsOK'
  BY DEF CommitInDoubt, Goes, Fails, RolledBack, RowsOK, TypeOK
<1>3. Underway(r)' /\ Told(r)' /\ Shown(r)'
  <2>1. Underway(r)'
    BY DEF CommitInDoubt, Goes, Fails, RolledBack, Underway, RowsOK, TypeOK
  <2>2. Told(r)'
    BY DEF CommitInDoubt, Goes, Fails, RolledBack, Told, Underway, RowsOK, TypeOK
  <2>3. Shown(r)'
    BY DEF CommitInDoubt, Goes, Fails, RolledBack, Shown, Underway, RowsOK, TypeOK
  <2>4. QED BY <2>1, <2>2, <2>3
<1>4. ASSUME NEW q \in Requests, q # r PROVE Underway(q)' /\ Told(q)' /\ Shown(q)'
  <2>1. name[r] \in Names /\ rows[name[r]] = NoRequest /\ rows' = [rows EXCEPT ![name[r]] = r]
    BY DEF CommitInDoubt, Goes, Fails, TypeOK, RowsOK
  <2>2. /\ \A n \in Names : rows[n] = NoRequest \/ rows'[n] = rows[n]
        /\ \A n \in Names : rows'[n] = q <=> rows[n] = q
    BY <1>4, <2>1 DEF TypeOK
  <2>3. QED BY <1>4, <2>2, Frame DEF CommitInDoubt, Goes, Fails, TypeOK
<1>5. QED BY <1>1, <1>2, <1>3, <1>4

-----------------------------------------------------------------------------
LEMMA StepKeeps == IInv /\ [Next]_vars => IInv'
<1> SUFFICES ASSUME IInv, [Next]_vars PROVE IInv'
  OBVIOUS
<1>1. ASSUME NEW r \in Requests, NEW k \in Kinds, Begin(r, k) PROVE IInv'
  BY <1>1, BeginKeeps
<1>2. ASSUME NEW r \in Requests, Statement(r) PROVE IInv'
  BY <1>2, SelectKeeps, InsertKeeps, InsertRefusedKeeps, CommitKeeps, CountKeeps, PageKeeps
  DEF Statement
<1>3. ASSUME NEW r \in Requests, Break(r) \/ CommitInDoubt(r) PROVE IInv'
  BY <1>3, BreakKeeps, CommitInDoubtKeeps
<1>4. CASE UNCHANGED vars
  BY <1>4 DEF vars, IInv, TypeOK, RowsOK, Underway, Told, Shown
<1>5. QED BY <1>1, <1>2, <1>3, <1>4 DEF Next

LEMMA Invariance == Spec => []IInv
BY Initially, StepKeeps, PTL DEF Spec

(* However many requests look for a name before one of them inserts it,    *)
(* one registers it, and the transactions of the others leave nothing.     *)
THEOREM OneOwnerPerName == Spec => []RowsHaveOneOwner
<1>1. IInv => RowsHaveOneOwner
  <2> SUFFICES ASSUME IInv PROVE RowsHaveOneOwner
    OBVIOUS
  <2>1. OneRegistrationPerName
    BY DEF IInv, Told, OneRegistrationPerName
  <2>2. RefusedLeavesNoRow
    BY DEF IInv, TypeOK, RowsOK, RefusedLeavesNoRow
  <2>3. QED BY <2>1, <2>2 DEF IInv, RowsHaveOneOwner
<1>2. QED BY <1>1, Invariance, PTL

(* "existed" is said of names that are taken for good, and the server      *)
(* error of a lost race only while the requests overlap.                   *)
THEOREM RefusalsAreTrue == Spec => []AnswersAreTrue
<1>1. IInv => AnswersAreTrue
  BY DEF IInv, Told, AnswersAreTrue, ExistedExists, ErrorOnlyInRace
<1>2. QED BY <1>1, Invariance, PTL

(* A registration that was answered is seen by every later request, and a  *)
(* list shows what was counted for it.                                     *)
THEOREM RegistrationsAreSeen == Spec => []ListsAreTrue
<1>1. IInv => ListsAreTrue
  BY DEF IInv, Told, Shown, ListsAreTrue, RegisteredIsSeen, CountedAreListed
<1>2. QED BY <1>1, Invariance, PTL

=============================================================================
