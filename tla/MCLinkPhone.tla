----------------------------- MODULE MCLinkPhone -----------------------------
(***************************************************************************)
(* A few codes, for TLC.                                                   *)
(***************************************************************************)
EXTENDS LinkPhone

MCCodes == 1..2
=============================================================================
