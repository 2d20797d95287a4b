--------------------------- MODULE MCInboundStore ---------------------------
(* A small instance of InboundStore for TLC: values of the constants only.   *)
EXTENDS InboundStore

CONSTANTS i1, i2, p1, p2, h1, h2, job1
=============================================================================
