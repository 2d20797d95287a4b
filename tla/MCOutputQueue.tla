---------------------------- MODULE MCOutputQueue ----------------------------
(* A small instance of OutputQueue for TLC.                                  *)
EXTENDS OutputQueue

CONSTANTS stdout, stderr, poll1, poll2
=============================================================================
