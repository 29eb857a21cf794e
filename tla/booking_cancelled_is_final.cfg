\* A booking whose cancellation the table already holds, and a task that loaded it before.
CONSTANTS
    u1 = u1
    u2 = u2
    Booking = {b1, b2}
    User <- MCUser
    Admin <- MCAdmin
    Event = {e1}
    CancelRequest = {c1}
    NoBooking = NoBooking
    BookingLimitPerUser = 1
    MaxFaults = 1
SPECIFICATION Spec
PROPERTY CancelledIsFinal
