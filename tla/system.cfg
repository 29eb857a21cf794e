\* Two bookings of one caller for an event of one or two seats, a cancellation,
\* one failure and one restart of the events service.
CONSTANTS
    Booking = {b1, b2}
    NoBooking = NoBooking
    Event = {e1}
    MaxFaults = 1
    User = {u1}
    Admin <- MCAdmin
    CancelRequest = {c1}
    BookingLimitPerUser = 2
    NoEntry = NoEntry
    Reader = {}
    Writer = {}
    Content = {k1}
    Delete = Delete
    MaxSeats = 2
    MaxMessages = 3
    MaxRestarts = 1
SPECIFICATION FairSpec
INVARIANTS
    SeatForAnnouncedBooking
    SeatsSoldForBookings
PROPERTY PendingGetsSeat
