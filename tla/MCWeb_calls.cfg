CONSTANTS
    c1 = c1
    c2 = c2
    t1 = t1
    t2 = t2
    Users = {ann}
    Passwords = {pw}
    Requests = {}
    Calls = {c1, c2}
    Tabs = {t1, t2}
    MaxSessions = 1
    MaxTokens = 3
    MaxLinks = 1
SPECIFICATION SpecHere
INVARIANTS TypeOK OneAnswer OneRowPerCall AnswersMatchRows ReplayMeansGivenUp
PROPERTIES CallsSettle
CHECK_DEADLOCK FALSE
