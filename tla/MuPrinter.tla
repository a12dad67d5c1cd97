----------------------------- MODULE MuPrinter -----------------------------
(***************************************************************************)
(* The printer of libmu (core/print.cc with the Write functions of the     *)
(* types), and what holds of an object that the program of MuWriteRead     *)
(* writes with it and reads back.                                          *)
(***************************************************************************)
EXTENDS MuWriteRead

-----------------------------------------------------------------------------
(* The text of an object, with escapes: (write object stream :t).          *)

RECURSIVE Written(_)

RECURSIVE WrittenTail(_)

\* Mutant: a tail is written like an element.
WrittenTailAsElement(o) ==
    IF o.t = "cons"
    THEN <<" ">> \o Written(o.kids[1]) \o WrittenTail(o.kids[2])
    ELSE IF o = NIL THEN <<>> ELSE <<" ">> \o Written(o)

\* Cons::Write: the iterator stops at a tail that is not a cons.
WrittenTail(o) ==
    IF o.t = "cons"
    THEN <<" ">> \o Written(o.kids[1]) \o WrittenTail(o.kids[2])
    ELSE IF o = NIL THEN <<>> ELSE <<" ", ".", " ">> \o Written(o)
WrittenList(o) ==
    <<"(">> \o Written(o.kids[1]) \o WrittenTail(o.kids[2]) \o <<")">>

\* Symbol::Write of a keyword, and of a symbol that is in no namespace.
WrittenSymbol(o) ==
    (IF IsKeyword(o) THEN <<":">> ELSE <<"#", ":">>) \o o.s

\* Vector::Write, of a string and of the other vectors.
WrittenString(o) == <<"\"">> \o o.s \o <<"\"">>
WrittenVector(o) ==
    <<"#", "(", ":">> \o o.s
      \o FlattenSeq([i \in DOMAIN o.kids |-> <<" ">> \o Written(o.kids[i])])
      \o <<")">>

\* What print_as_broket and the Write of functions and namespaces have in
\* common.
Broket(o) == <<"#", "<", ":">> \o o.s \o <<">">>

Written(o) ==
    CASE o.t = "cons" -> WrittenList(o)
      [] o.t \in {"keyword", "symbol", "uninterned"} -> WrittenSymbol(o)
      [] o.t = "string" -> WrittenString(o)
      [] o.t = "vector" -> WrittenVector(o)
      [] o.t = "char" -> <<"#", "\\">> \o o.s
      [] o.t = "number" -> o.s
      [] o.t = "function" -> Broket(o)

-----------------------------------------------------------------------------
(* Properties.                                                             *)

\* Where in the text the i-th thing written begins and ends.
EndOf(i) == FoldLeft(LAMBDA n, o : n + Len(TextOf(o)), 0, SubSeq(script, 1, i))
BeginOf(i) == EndOf(i - 1)

\* Another atom right after them would continue these.
Continues == {"number", "keyword", "symbol", "uninterned", "function"}

\* The read that just ended began where the i-th thing was written, which does
\* not run into the next.
ReadOf(i) ==
    /\ pc = "idle" /\ outcome # "none" /\ ~in.closed
    /\ script[i] # Space /\ began = BeginOf(i)
    /\ \/ i = Len(script) \/ script[i + 1] = Space
       \/ script[i].t \notin Continues

\* Escapes are not written inside of strings, and a broket has no syntax.
RECURSIVE ReadsBack(_)
ReadsBack(o) ==
    /\ o.t # "function"
    /\ o.t = "string" => Range(o.s) \cap {"\"", "\\"} = {}
    /\ \A i \in DOMAIN o.kids : ReadsBack(o.kids[i])

\* A symbol in no namespace is read as another one, that is not interned.
RECURSIVE Reread(_)
Reread(o) ==
    Object(IF o.t = "symbol" THEN "uninterned" ELSE o.t, o.s,
           [i \in DOMAIN o.kids |-> Reread(o.kids[i])])

\* An object that is written with escapes and read from where its text begins
\* is the same object again, and the reader stops where the text ends; an object
\* without a syntax is reported and not misread (print.cc:81, read.cc:164).
RoundTrip ==
    \A i \in DOMAIN script :
        ReadOf(i) /\ EndOf(i) <= Len(in.text) =>
        IF script[i].t = "function" THEN outcome = "raised"
        ELSE ReadsBack(script[i]) =>
             outcome = "value" /\ value = Reread(script[i]) /\ in.pos = EndOf(i)

\* A list, vector or string of which only a part has arrived is an error, never
\* a shorter object.
NoPartialForm ==
    \A i \in DOMAIN script :
        (/\ ReadOf(i) /\ EndOf(i) > Len(in.text) /\ began < Len(in.text)
         /\ script[i].t \in {"cons", "vector", "string"} /\ ReadsBack(script[i]))
        => outcome = "raised"

=============================================================================
