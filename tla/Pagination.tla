------------------------------ MODULE Pagination ------------------------------
(***************************************************************************)
(* The pages of the users' list (handlers.cpp 310-390, users.html): which  *)
(* rows a page asks for, and which pages it links to.  A browser follows   *)
(* the links, or types a number, while users are added.  Numbers are ints  *)
(* of the build: larger ones are refused by stoi, and products wrap.       *)
(***************************************************************************)
EXTENDS Integers

CONSTANTS MaxInt,   \* the largest int
          MaxUsers, \* bound on the users that are added
          Typed     \* numbers that somebody types

ASSUME IntAssumption == MaxInt \in Nat /\ MaxInt >= 10
ASSUME BoundAssumption == MaxUsers \in 0..MaxInt /\ Typed \subseteq Nat

VARIABLES users,  \* the rows of auth_user
          page,   \* the page shown, 0 when there is an error instead
          total,  \* total_pages as it was computed for that page
          offset  \* the rows that were skipped for it

vars == <<users, page, total, offset>>

Init == users \in 0..MaxUsers /\ page = 0 /\ total = 0 /\ offset = 0

-----------------------------------------------------------------------------
\* A last page that is not full left out.
TotalPagesOfFull(n) == n \div 10

TotalPages(n) == n \div 10 + (IF n % 10 # 0 THEN 1 ELSE 0)

\* An int that does not fit wraps.
Wrap(x) == IF x \in (-MaxInt - 1) .. MaxInt THEN x
           ELSE ((x + MaxInt + 1) % (2 * MaxInt + 2)) - MaxInt - 1

\* The offset of the query.
Offset(p) == Wrap((p - 1) * 10)

LeftEllipsis(p) == p - 3 > 2
RightEllipsis(p, t) == p + 3 < t - 1

\* The pages with numbers of their own on both sides of p.
PagesLeft(p) == (IF LeftEllipsis(p) THEN p - 3 ELSE 1) .. (p - 1)
PagesRight(p, t) == (p + 1) .. (IF RightEllipsis(p, t) THEN p + 3 ELSE t)

\* The steps to the neighbours, and to the ends beyond an ellipsis.
NextPageAlways(p, t) == {p + 1}
NextPage(p, t) == {q \in {p + 1} : p < t}
Previous(p) == {q \in {p - 1} : p > 1}
Ends(p, t) == (IF LeftEllipsis(p) THEN {1} ELSE {}) \cup (IF RightEllipsis(p, t) THEN {t} ELSE {})

Links(p, t) == IF t = 0 THEN {}
               ELSE PagesLeft(p) \cup PagesRight(p, t) \cup NextPage(p, t) \cup Previous(p) \cup Ends(p, t)

-----------------------------------------------------------------------------
\* stoi throws for a number that is not an int, the database refuses a negative
\* offset: handle_request answers with an error.
Refused(p) == p > MaxInt \/ Offset(p) < 0

\* redirect_to_users.
Show(p) == IF Refused(p) THEN page' = 0 /\ total' = 0 /\ offset' = 0
                         ELSE page' = p /\ total' = TotalPages(users') /\ offset' = Offset(p)

\* Any digits match <int>.
Type(p) == UNCHANGED users /\ Show(p)

Click(p) == /\ page # 0
            /\ UNCHANGED users /\ Show(p)

\* The list that answers the form is page 1.
AddUser == /\ users < MaxUsers
           /\ users' = users + 1
           /\ Show(1)

\* Somebody else adds a user.
UserAdded == /\ users < MaxUsers
             /\ users' = users + 1
             /\ UNCHANGED <<page, total, offset>>

Next == \/ \E p \in Typed : Type(p)
        \/ \E p \in Links(page, total) : Click(p)
        \/ AddUser \/ UserAdded

Spec == Init /\ [][Next]_vars

-----------------------------------------------------------------------------

TypeOK == /\ users \in 0..MaxUsers
          /\ page \in 0..MaxInt
          /\ total \in 0..TotalPages(users)
          /\ offset \in 0..MaxInt

InRange == page \in 1..total

(* A page that exists asks for its own rows, all of them users, and no     *)
(* multiplication of an existing page's number overflows.                  *)
PageAsksForItsRows == InRange => offset = (page - 1) * 10 /\ offset < users

(* Every user is on some page that exists.                                 *)
EveryUserOnAPage ==
    \A u \in 1..users : \E p \in 1..TotalPages(users) : (p - 1) * 10 < u /\ u <= p * 10

(* A page that exists links only to pages that exist, however many users   *)
(* are added before somebody follows the link.                             *)
LinksExist == InRange => Links(page, total) \subseteq 1..TotalPages(users)

(* Every page has a number of its own, unless an ellipsis stands for it:   *)
(* there is an ellipsis exactly where pages are left out.                  *)
EllipsisWherePagesAreHidden ==
    InRange =>
        LET shown == PagesLeft(page) \cup {page} \cup PagesRight(page, total) \cup Ends(page, total)
            hidden == (1..total) \ shown
        IN  /\ LeftEllipsis(page) <=> \E q \in hidden : q < page
            /\ RightEllipsis(page, total) <=> \E q \in hidden : q > page

(* Whatever page that exists somebody is on while users are added, it      *)
(* shows users and links to pages that exist.                              *)
PagesAreRight == /\ TypeOK
                 /\ PageAsksForItsRows
                 /\ EveryUserOnAPage
                 /\ LinksExist
                 /\ EllipsisWherePagesAreHidden

(* Who follows links, from a page that exists, never gets an error or a    *)
(* page that does not exist.                                               *)
ClicksStayInRange == [][InRange => \A p \in Links(page, total) : Click(p) => InRange']_vars
=============================================================================
