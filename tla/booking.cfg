\* Three POSTs of one caller against a limit of one pending booking, so that a
\* refused one may leave another waiting, one DELETE at a time and two failures,
\* under the fairness of the handlers and the worker.
CONSTANTS
    u1 = u1
    u2 = u2
    Booking = {b1, b2, b3}
    User = {u1}
    Admin = {}
    Event = {e1}
    CancelRequest = {c1}
    NoBooking = NoBooking
    BookingLimitPerUser = 1
    MaxFaults = 2
SPECIFICATION FairSpec
INVARIANTS
    TypeOK
    PermitConservation
    PendingLimit
    AnnouncedOnce
    MessageAfterDecision
PROPERTIES
    DecisionStands
    LedgerSpec
    CreateAnswered
    PendingDecided
    AnnouncedUnlessFailure
