--------------------------- MODULE MCLoginThrottle ---------------------------
(* Small instances of LoginThrottle for TLC: values of the constants only.   *)
EXTENDS LoginThrottle, TLC

CONSTANTS a1, a2, a3, u1, u2, login1, login2

\* The limiter of the accounts tolerates more failures than the one of the
\* addresses, and starts with a longer lockout.
MCThreshold == [l \in Limiters |-> IF l = "ip" THEN 1 ELSE 2]
MCBaseDelay == [l \in Limiters |-> IF l = "ip" THEN 1 ELSE 2]

Symmetry == UNION {Permutations(S) : S \in {IPs, Users, Logins}}
=============================================================================
