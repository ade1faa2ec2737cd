---------------------------- MODULE MCController ----------------------------
(* A small instance of Controller for TLC.                                   *)
EXTENDS Controller

CONSTANTS h1, h2        \* request goroutines
=============================================================================
