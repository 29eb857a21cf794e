\* A booking that its owner cancels, and then reads.
CONSTANTS
    u1 = u1
    u2 = u2
    Booking = {b1, b2}
    User <- MCUser
    Admin <- MCAdmin
    Event = {e1}
    CancelRequest = {c1}
    NoBooking = NoBooking
    BookingLimitPerUser = 1
    MaxFaults = 0
SPECIFICATION Spec
INVARIANT GetAsDocumented
