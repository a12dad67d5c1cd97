--------------------------- MODULE MCMuPrinter ---------------------------
(* A small instance of MuPrinter.  The letters include whole names: "nil",  *)
(* "quote" and the vector types are one character here.                     *)
EXTENDS MuPrinter

CONSTANTS eot, big, none

MCLetters == {"a", "x", "d", "t", "nil", "quote", "fixnum", "char", "func"}
MCChars == {"(", ")", "'", ".", "\"", "#", "\\", "|", ";", ":", ",", "}", "<", ">",
            " ", "\n", "1", eot, big} \cup MCLetters

one == Atom(<<"1">>)
a == Atom(<<"a">>)

\* Every kind of object, empty and nested ones, and dotted tails.
MCObjects ==
    {one, a, NIL, Char(")"), List(<<NIL, Quoted(a), Char("(")>>), ListDot(<<one>>, a),
     String(<<"a", "(">>), String(<<"\"">>),
     Vector(<<"t">>, <<String(<<>>), Vector(<<"fixnum">>, <<>>), List(<<a>>)>>),
     Object("function", <<"func">>, <<>>)}

\* All short texts over the characters that matter at a start, after a list has
\* begun, and longer ones.
Starts == {"(", ")", "'", ".", "\"", "#", "\\", "|", ";", ":", ",", "}", " ", "\n",
           "1", "a", "x", eot, big}
MCTexts ==
    UNION {[1 .. n -> Starts] : n \in 0 .. 2}
      \cup {<<"(">> \o t : t \in [1 .. 2 -> Starts]}
      \cup {<<"(", "a", ".">> \o t : t \in [1 .. 2 -> Starts]}
      \cup {<<"#", "|">> \o t : t \in [1 .. 3 -> {"|", "#", "a", ")"}]}
      \cup {<<"#", "(", ":">> \o t : t \in [1 .. 3 -> {"t", "char", "a", " ", "1", ")", "."}]}
=============================================================================
