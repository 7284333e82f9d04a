----------------------------- MODULE MCFragments -----------------------------
(* Messages of three packets, of three the last of which does not fit, and of one. *)
EXTENDS Fragments

MCLengthOf == <<4, 5, 1>>
==============================================================================
