-------------------------- MODULE MCXraySupervisor --------------------------
(* Small instances of XraySupervisor for TLC: values of the constants only.  *)
EXTENDS XraySupervisor, TLC

CONSTANTS h1, h2, j1, j2, s1, s2, s3, t1, t2, l1, l2

Symmetry ==
    UNION {Permutations(S) : S \in {Handlers, ApplyJobs, Slots, Templates,
                                   InboundLists}}
=============================================================================
