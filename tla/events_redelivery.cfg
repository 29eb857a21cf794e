\* One event of one or two seats, two messages, a GET and a
\* PUT or DELETE in progress, one failed call and one restart.
CONSTANTS
    Event = {e1}
    Booking = {b1}
    NoBooking = NoBooking
    NoEntry = NoEntry
    Reader = {r1}
    Writer = {w1}
    Content = {k1, k2}
    Delete = Delete
    MaxSeats = 2
    MaxMessages = 2
    MaxFaults = 1
    MaxRestarts = 1
SPECIFICATION Spec
INVARIANT OneSeatPerMessage
