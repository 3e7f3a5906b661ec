-------------------------------- MODULE MCUiForms --------------------------------
(***************************************************************************)
(* Every form with two submissions, the second the retry of what failed or *)
(* the repeated click, and with two rows: one call may succeed and the     *)
(* other fail.  A third row is a simulated device.                         *)
(***************************************************************************)
EXTENDS UiForms

CONSTANTS r1, r2, s1

MCRows == {r1, r2, s1}
MCSimulated == {s1}
MCForms == FormNames
================================================================================
