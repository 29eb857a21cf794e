\* Two bookings of one caller for an event of one seat, and no failure.
CONSTANTS
    Booking = {b1, b2}
    NoBooking = NoBooking
    Event = {e1}
    MaxFaults = 0
    User = {u1}
    Admin <- MCAdmin
    CancelRequest = {c1}
    BookingLimitPerUser = 2
    NoEntry = NoEntry
    Reader = {}
    Writer = {}
    Content = {k1}
    Delete = Delete
    MaxSeats = 1
    MaxMessages = 3
    MaxRestarts = 0
SPECIFICATION Spec
INVARIANT NoOverbooking
