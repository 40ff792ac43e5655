---------------------------- MODULE MCLibraryView ----------------------------
(***************************************************************************)
(* A small instance of LibraryView for TLC.                                *)
(***************************************************************************)
EXTENDS LibraryView

\* A card with three Moments and one with two.
MCItems == <<<<"a", "b", "c">>, <<"a", "b">>>>
=============================================================================
