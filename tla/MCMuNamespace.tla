--------------------------- MODULE MCMuNamespace ---------------------------
(* A small instance of MuNamespace: beside core, two namespaces a program   *)
(* makes with one name, and three names of symbols, two with one hash.      *)
EXTENDS MuNamespace, TLC

CONSTANTS uninterned, core, first, second, x, y, z

SpaceNames == uninterned :> "" @@ core :> "core" @@ first :> "pkg" @@ second :> "pkg"
Hashes     == x :> 1 @@ y :> 2 @@ z :> 2

\* y and z have one hash; values are only compared.
Symmetries == {p @@ q : p \in Permutations({y, z}), q \in Permutations(Values)}
=============================================================================
