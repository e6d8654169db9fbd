SPECIFICATION FairSpec
CONSTANTS
    Recipients = {r1, r2}
    Workers = {w1, w2}
    MaxNotices = 1
    MaxFaults = 2
CHECK_DEADLOCK FALSE
INVARIANTS
    MailedAtMostOnce
    SentIsTrue
PROPERTIES
    MailResolves
