-------------------------- MODULE MCBookingService --------------------------
(***************************************************************************)
(* BookingService on small instances.                                      *)
(***************************************************************************)
EXTENDS BookingService

CONSTANTS u1, u2

\* One ordinary caller and one administrator.
MCUser == {u1, u2}
MCAdmin == {u2}

=============================================================================
