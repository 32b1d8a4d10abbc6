------------------------------- MODULE MCDraw -------------------------------
(***************************************************************************)
(* A screen of 6 by 5 points: lines of every slope up to 5 in 4, and       *)
(* rectangles with corners that fit, fill a side, and are too large.       *)
(***************************************************************************)
EXTENDS Draw

MC_Points == [x : 0..5, y : 0..4]
=============================================================================
