---------------------------- MODULE MCMuContext ----------------------------
(* Small instances of MuContext: a lambda `f1' that is called, recurs and  *)
(* is captured; a lambda `g1' that is captured too; one closure `k'.       *)
EXTENDS MuContext, TLC

CONSTANTS f1, g1, fc, k

CaptureBoth == [c \in {k} |-> <<f1, g1>>]
CaptureOne  == [c \in {k} |-> <<f1>>]

\* No definition tells one heap address from another.
Addresses == Permutations(HeapAddrs)
=============================================================================
