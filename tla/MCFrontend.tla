----------------------------- MODULE MCFrontend -----------------------------
(* Instances of Frontend for TLC.                                          *)
EXTENDS Frontend

CONSTANTS allowed, forbidden

MCSystems   == {allowed, forbidden}
MCForbidden == {forbidden}
=============================================================================
