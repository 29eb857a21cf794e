----------------------------- MODULE SeatLedger -----------------------------
(***************************************************************************)
(* What the events service promises about seats: an event is opened once,  *)
(* with all its seats free, and from then on seats are only taken, one at  *)
(* a time and never more than there are.  Nothing gives a seat back:       *)
(* Event.ReleaseSeats has no caller.                                       *)
(***************************************************************************)
EXTENDS Naturals

CONSTANTS Event, MaxSeats

VARIABLES
    total,       \* 0 until the event is opened
    available

seatVars == <<total, available>>

Init ==
    /\ total = [e \in Event |-> 0]
    /\ available = [e \in Event |-> 0]

Open(e, n) ==
    /\ total[e] = 0
    /\ total' = [total EXCEPT ![e] = n]
    /\ available' = [available EXCEPT ![e] = n]

Take(e) ==
    /\ available[e] > 0
    /\ available' = [available EXCEPT ![e] = @ - 1]
    /\ UNCHANGED total

Next == \E e \in Event : Take(e) \/ \E n \in 1 .. MaxSeats : Open(e, n)

Spec == Init /\ [][Next]_seatVars

=============================================================================
