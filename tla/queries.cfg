\* Three events of one or two seats, pages of at most three in integers of four
\* bits, so that page numbers reach past the largest int, and a top two.
CONSTANTS
    Event = {1, 2, 3}
    Client = {q1}
    Kind = {k1, k2}
    Filter = {{k1, k2}, {k1}}
    NoEntry = NoEntry
    MaxPageSize = 3
    TopSize = 2
    MaxInt = 7
    MaxSeats = 2
    MaxWrites = 4
SPECIFICATION Spec
INVARIANTS
    TypeOK
    PageRight
    TopRanked
