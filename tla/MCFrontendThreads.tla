-------------------------- MODULE MCFrontendThreads --------------------------
(* Instances of FrontendThreads for TLC.                                   *)
EXTENDS FrontendThreads

CONSTANTS allowed, forbidden

MCSystems   == {allowed, forbidden}
MCForbidden == {forbidden}

(* Exploration stops soon after the race has led to misplaced calls: what  *)
(* a library does after them is undefined anyway.                          *)
MaxMisuses == 1
FewMisuses == Cardinality(lib.misuse) <= MaxMisuses
=============================================================================
