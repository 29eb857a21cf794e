\* Three calls of retry and resume at once, two clicks on a page.
CONSTANTS
    Attempt = {a1, a2, a3}
    MaxClicks = 2
SPECIFICATION FairSpec
INVARIANTS
    TypeOK
    AttemptsBounded
    NeverStranded
PROPERTIES
    SessionKept
    FailedRecovers
