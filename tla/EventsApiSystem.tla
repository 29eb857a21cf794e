-------------------------- MODULE EventsApiSystem --------------------------
(***************************************************************************)
(* The booking service and the events service together.  They share the    *)
(* topic and nothing else: the booking service appends to it, the events   *)
(* service reads it, and neither ever asks the other anything.  The bound  *)
(* on failures is one for the system.                                      *)
(***************************************************************************)
EXTENDS Integers, Sequences, FiniteSets

CONSTANTS
    \* both services
    Booking, NoBooking, Event, MaxFaults,
    \* the booking service
    User, Admin, CancelRequest, BookingLimitPerUser,
    \* the events service
    NoEntry, Reader, Writer, Content, Delete, MaxSeats, MaxMessages, MaxRestarts

\* What the two services assume of them.
ASSUME IdsAssumption == IsFiniteSet(Booking) /\ NoBooking \notin Booking
ASSUME UsersAssumption == Admin \subseteq User /\ BookingLimitPerUser \in Nat \ {0}
ASSUME EventsAssumption == MaxSeats \in Nat \ {0} /\ Delete \notin Content
ASSUME BoundsAssumption == MaxFaults \in Nat /\ MaxRestarts \in Nat

VARIABLES
    \* both services
    eventOf, topic, faults,
    \* the booking service
    owner, createPc, permits, status, cancelling, worker, task, attempts,
    \* the events service
    life, content, total, available, cache, reader, writer, consumer,
    position, stored, committed, taken, raced, restarts

Bookings == INSTANCE BookingService
Events == INSTANCE EventService

bookingVars == <<owner, createPc, permits, status, cancelling, worker, task, attempts>>
eventVars == <<life, content, total, available, cache, reader, writer, consumer,
               position, stored, committed, taken, raced, restarts>>
vars == <<eventOf, topic, faults, bookingVars, eventVars>>

Init == Bookings!Init /\ Events!Init

Next ==
    \/ Bookings!Next /\ UNCHANGED eventVars
    \/ Events!ServiceNext /\ UNCHANGED bookingVars

Spec == Init /\ [][Next]_vars

FairSpec == Spec /\ Bookings!Fairness /\ Events!Fairness

-----------------------------------------------------------------------------
(***************************************************************************)
(* Safety                                                                  *)
(***************************************************************************)

\* A seat is taken only for a booking that the booking service has decided and
\* announced, and never more than once while nothing fails or restarts: at most
\* one announcement and at most one handling of it, end to end.
SeatForAnnouncedBooking ==
    \A b \in Booking :
        /\ taken[b] > 0 => attempts[b] = 1 /\ Bookings!Decided(b)
        /\ taken[b] > 1 => faults > 0 \/ restarts > 0

\* The messages of the topic about bookings of an event.
MessagesOf(e) == {i \in DOMAIN topic : eventOf[topic[i]] = e}

\* The seats of an event that the events service has sold are covered by what the
\* booking service has announced, although neither counts what the other does: one
\* seat for each message and run of the consumer and, unless something has failed,
\* one message for each decided and announced booking.
SeatsSoldForBookings ==
    \A e \in Event :
        /\ total[e] - available[e] <= Cardinality(MessagesOf(e)) * (restarts + 1)
        /\ faults = 0 =>
              Cardinality(MessagesOf(e)) <=
                  Cardinality({b \in Booking : eventOf[b] = e /\ attempts[b] = 1 /\ Bookings!Decided(b)})

-----------------------------------------------------------------------------
(***************************************************************************)
(* Liveness                                                                *)
(***************************************************************************)

\* The seats of an event that are taken in the end are those of its confirmed
\* bookings: while nothing fails or restarts, a booking pending for a live event
\* gets a seat, or is cancelled, or the event is sold out or deleted first.
PendingGetsSeat ==
    \A b \in Booking :
        status[b] = "Pending" /\ Events!Live(eventOf[b]) ~>
            \/ taken[b] > 0
            \/ status[b] = "Cancelled"
            \/ ~Events!Live(eventOf[b])
            \/ available[eventOf[b]] = 0
            \/ faults > 0
            \/ restarts > 0

-----------------------------------------------------------------------------
(***************************************************************************)
(* What the repository says of the system and the code does not keep       *)
(***************************************************************************)

\* No more bookings of an event are confirmed than it has seats: the one too
\* many is answered 409 and not created (README.md:101-108).
NoOverbooking ==
    \A e \in Event :
        Events!Live(e) =>
            Cardinality({b \in Booking : eventOf[b] = e /\ status[b] = "Confirmed"}) <= total[e]

=============================================================================
