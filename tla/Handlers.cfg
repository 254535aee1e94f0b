CONSTANTS
    Entries <- MCEntries
    List <- MCList
    Priority <- MCPriority
    Once = {"h1", "m2"}
    Async = {"h2"}
    Matching = {"h1", "h2"}
    Reader = r
    Threads = {r, t}
    MaxWork = 2
    MaxDepth = 2
    Joins = {j1, j2}
    Nicks = {a, b}
    Others = {b}
    Subjects = {s}
    NoNick = NoNick
    NoJoin = NoJoin
    NoSubject = NoSubject
    MaxMucNews = 1
    Queries = {q1, q2}
    Malformed = {2}
    PageMax = 2
    MaxArchive = 3
SPECIFICATION MCSpec
INVARIANTS RegistryExact PriorityOrder OnceConsumed JoinExact RoomExact ReaderFreed PageExact
CHECK_DEADLOCK FALSE
