------------------------------- MODULE MCLive --------------------------------
(* Live for TLC.                                                             *)
EXTENDS Live
=============================================================================
