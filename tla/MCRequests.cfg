CONSTANTS
    Symbols = {"&", "%", "2", "6"}
    MaxName = 3
    MaxPass = 2
    kMaxPostBodySize = 16
    SsidSize = 3
    PasswordSize = 3
    QueryLengths = {12, 17, 100, 232, 512}
    QuestionCounts = {0, 1, 2, 44}
SPECIFICATION RequestSpec
INVARIANTS
    EventIsUsable
    PostedIsReceived
    ScanAnswerFits
    DnsAnswerFits
CHECK_DEADLOCK FALSE
