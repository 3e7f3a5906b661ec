-------------------------------- MODULE MCUiPages --------------------------------
(***************************************************************************)
(* Two objects and two calls at a time for each list of the store; two     *)
(* devices, two restarts and one retry for the panels, so that the answer  *)
(* of a call finds another device, the first one again, or an error.  For  *)
(* the grid two groups, of one page and of two, and three choices or       *)
(* failures, so that a group is deleted while it is chosen, and load more  *)
(* is turned on twice during one call.                                     *)
(***************************************************************************)
EXTENDS UiPages, TLC
CONSTANTS i1, i2, d1, d2
================================================================================
