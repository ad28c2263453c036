CONSTANTS
    MaxInt = 127
    MaxUsers = 105
    Typed <- TypedNumbers
    Alphabet <- Characters
    Delimiter = 38
    MaxLength = 5
    Names = {"a", "?"}
    Emails = {""}
    Codes = {"7"}
    MaxRows = 2
    MaxTemplate = 4
    MaxParameters = 2
    Letters = {"a", "b"}
    SaltLength = 2
    Passwords = {"p1", "p2", "$"}
    Accounts = {"u1", "u2"}
    Routes <- PathsAndTwice
    Tokens = {"/", "7", "%", "users", "find", "statics", "login", "send", "twice", "form_add_user"}
    MaxTokens = 4
    Keys = {"k"}
    Sockets = {w1}
    Messages = {m1, m2}
    Cnt = cnt
    MaxMessages = 3
    w1 = w1
    m1 = m1
    m2 = m2
    cnt = cnt
SPECIFICATION EachPart
INVARIANTS
    PagesAreRight
    ParamsKept
    ExecSubstitutes
    LoginNeedsThePassword
    RequestsReachTheirHandlers
    EchoesInOrder
PROPERTIES
    ClicksStayInRange
    FoundAsStored
    DeadPeersAreLeft
\* Sessions end, requests are called or refused, tables and texts are bounded.
CHECK_DEADLOCK FALSE
