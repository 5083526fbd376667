CONSTANTS
    Symbols = {"&", "%", "2", "6"}
    MaxName = 1
    MaxPass = 1
    kMaxPostBodySize = 16
    SsidSize = 3
    PasswordSize = 3
    QueryLengths = {12}
    QuestionCounts = {0}
SPECIFICATION RequestSpec
INVARIANTS
    AcceptedIsShown
CHECK_DEADLOCK FALSE
