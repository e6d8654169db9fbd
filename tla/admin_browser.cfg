SPECIFICATION FairSpec
CONSTANTS
    Tabs = {t1, t2}
    t1 = t1
    t2 = t2
    Requests <- OneClicksOneReads
    Sids = {s1, s2}
    Tokens = {k1, k2}
INVARIANTS
    LoggedOutStaysOut
    RefusedOnlyWhenLapsed
PROPERTIES
    LogoutReachesTabs
