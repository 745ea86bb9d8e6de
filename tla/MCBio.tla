-------------------------------- MODULE MCBio --------------------------------
(* A small instance of Bio for TLC. *)
EXTENDS Bio
=============================================================================
