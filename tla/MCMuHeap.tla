------------------------------ MODULE MCMuHeap ------------------------------
(* Small instances of MuHeap.  Conses, symbols and namespaces have the      *)
(* payloads of the code (2, 3 and 4 words), vectors and strings the ones of *)
(* the cfg; a cfg that gives a class no payload leaves it out.              *)
EXTENDS MuHeap, TLC

CONSTANTS cons, symbol, namespace, vector, string,
    SymbolWords, VectorWords, StringWords

Payloads == cons :> {2} @@ symbol :> SymbolWords @@ namespace :> {4}
            @@ vector :> VectorWords @@ string :> StringWords

\* A later state: the program has made a namespace with a name of one
\* character, which does not look marked, registered it and forgotten it.
Letter == FirstWords
FirstThree == {Uninterned, System, Letter}

LetterInit ==
    /\ barrier = Letter + 1 + PayloadOf(Namespace)
    /\ barrier <= Capacity
    /\ header = [o \in FirstThree |-> HeapInfo(1 + PayloadOf(Namespace), Namespace)]
    /\ links = [o \in FirstThree |-> {}]
    /\ first = [o \in FirstThree |-> IF o = System THEN Filled ELSE Blank]
    /\ free_lists = [c \in Classes |-> <<>>]
    /\ namespaces = {System, Letter}
    /\ held = {}
    /\ phase = "run"
    /\ cursor = 0
    /\ pending = {}
    /\ written = {}

LetterSpec == LetterInit /\ [][Next]_vars /\ WF_vars(Collecting)
=============================================================================
