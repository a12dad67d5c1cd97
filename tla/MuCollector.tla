---------------------------- MODULE MuCollector ----------------------------
(***************************************************************************)
(* What (gc) comes to for the conses of the heap, without its loops.  A    *)
(* collection ends, and then every cons is free, whoever refers to it; or  *)
(* the process ends in it.  Between collections a program writes to no     *)
(* cons but the free one that the next call of cons takes, which is then   *)
(* free no more; nothing ever moves or disappears.  MuHeap implements this.*)
(***************************************************************************)
VARIABLES
    objects,     \* everything allocated so far
    conses,      \* the conses among it
    links,       \* object -> the objects it refers to
    free,        \* conses the next calls of cons may overwrite
    process      \* "running", "collecting" or "ended"

vars == <<objects, conses, links, free, process>>

Init ==
    /\ conses = {}
    /\ free = {}
    /\ process = "running"

\* The program allocates, reuses one free cons or stores a reference.
Use ==
    /\ process = "running"
    /\ objects \subseteq objects' /\ conses \subseteq conses'
    /\ free' = free \/ \E o \in free : free' = free \ {o}
    /\ \A o \in conses \ (free \ free') : links'[o] = links[o]
    /\ UNCHANGED process

Begin ==
    /\ process = "running"
    /\ free' = {}
    /\ process' = "collecting"
    /\ UNCHANGED <<objects, conses, links>>

End ==
    /\ process = "collecting"
    /\ free' = conses
    /\ process' = "running"
    /\ UNCHANGED <<objects, conses, links>>

\* The heap is full, or an assertion fails, in a collection or outside one.
Die ==
    /\ process # "ended"
    /\ process' = "ended"
    /\ UNCHANGED <<objects, conses, links, free>>

Next == Use \/ Begin \/ End \/ Die

Spec == Init /\ [][Next]_vars

\* A collection that has begun does not go on for ever.
FairSpec == Spec /\ WF_vars(process = "collecting" /\ (End \/ Die))
=============================================================================
