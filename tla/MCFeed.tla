------------------------------- MODULE MCFeed -------------------------------
(* Constants for checking Feed. *)
EXTENDS Feed

\* Two frames of one instant, then a frame an instant.
PairThenSingles == <<1, 1, 2, 3>>
=============================================================================
