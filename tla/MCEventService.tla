--------------------------- MODULE MCEventService ---------------------------
(***************************************************************************)
(* EventService on small instances.                                        *)
(***************************************************************************)
EXTENDS EventService, TLC

\* Bookings, contents and writers are told apart by nothing but their names.
MCSymmetry == Permutations(Booking) \cup Permutations(Content) \cup Permutations(Writer)

=============================================================================
