SPECIFICATION FairSpec
CONSTANTS
    Session = {s1, s2}
    Watched = {s1}
    Stream = {t1}
    NoStream = NoStream
    MaxConcurrentLogins = 1
    MaxProgress = 1
CHECK_DEADLOCK FALSE
INVARIANTS
    TypeOK
    LoginsBounded
    StreamsSeeTheEnd
PROPERTIES
    SessionsRemoved
