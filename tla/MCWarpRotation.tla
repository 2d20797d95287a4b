--------------------------- MODULE MCWarpRotation ---------------------------
(* A small instance of WarpRotation for TLC.                                 *)
EXTENDS WarpRotation

CONSTANTS h1
=============================================================================
