----------------------------- MODULE MCCheckIn -----------------------------
(* CheckIn on a small instance. *)
EXTENDS CheckInCalm
=============================================================================
