---------------------------- MODULE SymbolTable ----------------------------
(***************************************************************************)
(* What namespaces promise, without lists and caches: a place -- a          *)
(* namespace, a scope and a name -- that has a symbol keeps it, and a       *)
(* symbol that has a value keeps it ("an immutable namespaced Lisp-1",      *)
(* doc/reference/eko/eko.md).  MuNamespace implements this.                 *)
(***************************************************************************)
CONSTANTS Values, Unbound

VARIABLES
    table,   \* pairs of a place and its symbol
    value    \* symbol -> value or Unbound

vars == <<table, value>>

Init ==
    /\ table = {}
    /\ DOMAIN value = {}

\* value' has one symbol more, whose value is in V.
NewSymbol(s, V) ==
    /\ s \notin DOMAIN value
    /\ \E v \in V :
          value' = [t \in DOMAIN value \cup {s} |-> IF t = s THEN v ELSE value[t]]

\* An empty place gets a symbol of its own.
Intern ==
    \E entry \in table' \ table :
        /\ \A other \in table : other[1] # entry[1]
        /\ NewSymbol(entry[2], Values \cup {Unbound})
        /\ table' = table \cup {entry}

\* A symbol in the table is given its value.
Bind ==
    \E entry \in table, v \in Values :
        /\ value[entry[2]] = Unbound
        /\ value' = [value EXCEPT ![entry[2]] = v]
        /\ UNCHANGED table

\* (symbol name): a symbol in no namespace, which never gets a value.
Make ==
    /\ \E s \in DOMAIN value' : NewSymbol(s, {Unbound})
    /\ UNCHANGED table

Next == Intern \/ Bind \/ Make

Spec == Init /\ [][Next]_vars
=============================================================================
