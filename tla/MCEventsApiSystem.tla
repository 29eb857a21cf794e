------------------------- MODULE MCEventsApiSystem -------------------------
(***************************************************************************)
(* EventsApiSystem on small instances.  There is no administrator.         *)
(***************************************************************************)
EXTENDS EventsApiSystem

MCAdmin == {}

=============================================================================
