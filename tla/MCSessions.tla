----------------------------- MODULE MCSessions -----------------------------
(* A small instance of Sessions for TLC: values of the constants only.       *)
EXTENDS Sessions, TLC

CONSTANTS b1, b2, h1, h2, n1, n2, pw1, pw2

Symmetry == UNION {Permutations(S) : S \in {Browsers, Handlers, Names, Passwords}}
=============================================================================
