------------------------------ MODULE MCHttpClient ------------------------------
(***************************************************************************)
(* A small instance of HttpClient for TLC.                                 *)
(***************************************************************************)
EXTENDS HttpClient, TLC

CONSTANTS c1, c2   \* two calls
================================================================================
