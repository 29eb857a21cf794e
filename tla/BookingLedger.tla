---------------------------- MODULE BookingLedger ----------------------------
(***************************************************************************)
(* What the booking service promises, as one atomic object: a ledger of    *)
(* bookings that never lets a user have more than the limit pending, in    *)
(* which a booking leaves Pending once and for all, and which announces a  *)
(* booking at most once, after the decision.                               *)
(*                                                                         *)
(* The ledger is honest about the lost update of the code: a decision may  *)
(* be overwritten by the opposite one (Overwrite).                         *)
(***************************************************************************)
EXTENDS Naturals, FiniteSets

CONSTANTS Booking, User, BookingLimitPerUser

VARIABLES
    owner,       \* the user of each booking
    status,      \* "None" until the booking is submitted
    announced    \* the bookings the service has tried to announce

ledgerVars == <<owner, status, announced>>

Decision == {"Confirmed", "Cancelled"}

PendingOf(u) == {b \in Booking : status[b] = "Pending" /\ owner[b] = u}

Init ==
    /\ owner \in [Booking -> User]
    /\ status = [b \in Booking |-> "None"]
    /\ announced = {}

\* The count and the insert of a POST, as one step.
Submit(b) ==
    /\ status[b] = "None"
    /\ Cardinality(PendingOf(owner[b])) < BookingLimitPerUser
    /\ status' = [status EXCEPT ![b] = "Pending"]
    /\ UNCHANGED <<owner, announced>>

Decide(b, d) ==
    /\ status[b] = "Pending"
    /\ status' = [status EXCEPT ![b] = d]
    /\ UNCHANGED <<owner, announced>>

Overwrite(b, d) ==
    /\ status[b] \in Decision
    /\ status' = [status EXCEPT ![b] = d]
    /\ UNCHANGED <<owner, announced>>

Announce(b) ==
    /\ status[b] \in Decision
    /\ b \notin announced
    /\ announced' = announced \cup {b}
    /\ UNCHANGED <<owner, status>>

Next ==
    \E b \in Booking :
        \/ Submit(b)
        \/ \E d \in Decision : Decide(b, d) \/ Overwrite(b, d)
        \/ Announce(b)

Spec == Init /\ [][Next]_ledgerVars

=============================================================================
