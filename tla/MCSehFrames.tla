---------------------------- MODULE MCSehFrames ----------------------------
(***************************************************************************)
(* Three objects in four pages: two can be live at once, and the third has *)
(* to reuse the memory of a removed one.                                   *)
(***************************************************************************)
EXTENDS SehFrames, TLC

Symmetry == Permutations(Managers)
=============================================================================
