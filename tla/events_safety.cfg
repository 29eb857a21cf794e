\* One event of one or two seats, three messages about two bookings, a GET and two
\* PUTs or DELETEs in progress, one failed call and one restart.
CONSTANTS
    Event = {e1}
    Booking = {b1, b2}
    NoBooking = NoBooking
    NoEntry = NoEntry
    Reader = {r1}
    Writer = {w1, w2}
    Content = {k1, k2}
    Delete = Delete
    MaxSeats = 2
    MaxMessages = 3
    MaxFaults = 1
    MaxRestarts = 1
SYMMETRY MCSymmetry
SPECIFICATION Spec
INVARIANTS
    TypeOK
    SeatsAccounted
    TakenOncePerRun
    CommittedWasConsumed
    StaleHasCause
PROPERTIES
    SeatsSpec
