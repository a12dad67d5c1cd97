---------------------------- MODULE MCMuCompile ----------------------------
(* Two symbols, so that lambdas can shadow, permute and repeat parameters.   *)
EXTENDS MuCompile

CONSTANTS x, y, other
MCSymbols == {x, y}
=============================================================================
