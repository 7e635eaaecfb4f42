------------------------- MODULE MCShootFixedRoute -------------------------
(* Small instances of ShootFixedRoute for TLC. *)
EXTENDS ShootFixedRoute
=============================================================================
