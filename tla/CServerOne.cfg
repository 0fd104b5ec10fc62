\* One call of every kind, two connections, two chunks in and one out.
SPECIFICATION FairSpec
CONSTANTS
    MaxCalls = 1
    MaxConns = 2
    Handlers = {"unary", "stream", "client", "bidi", "bad"}
    MaxIn = 2
    MaxOut = 1
INVARIANTS TypeOK InputInOrder StaleNeedsEarlyReturn ForeignNeedsDeadConn AnsweredAtMostOnce
PROPERTIES HandlersEnd
\* A server nobody calls rests, and so does a crashed one.
CHECK_DEADLOCK FALSE
