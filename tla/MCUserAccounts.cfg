CONSTANTS
    r1 = r1
    r2 = r2
    r3 = r3
    n1 = n1
    n2 = n2
    Requests = {r1, r2, r3}
    Names = {n1, n2}
    NoRequest = NoRequest
SPECIFICATION Spec
INVARIANTS
    RowsHaveOneOwner
    AnswersAreTrue
    ListsAreTrue
PROPERTY RequestsAnswered
\* All requests are answered in the end.
CHECK_DEADLOCK FALSE
