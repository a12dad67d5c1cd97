------------------------ MODULE MuValueRefinement ------------------------
(***************************************************************************)
(* The computations of MuValue on words are those of LispValues on the      *)
(* values the words stand for.                                              *)
(***************************************************************************)
EXTENDS MuValue

\* The value a word stands for.
RECURSIVE Decode(_)
Decode(w) ==
    LET value(kind, n, text, parts) ==
            [kind |-> kind, n |-> n, text |-> text, parts |-> parts]
        element(i) == CASE VectorClass(w) = CLASS.T -> Decode(Ref(w, i))
                        [] VectorClass(w) = CLASS.CHAR -> value("char", Ref(w, i), <<>>, <<>>)
                        [] OTHER -> value("fixnum", Ref(w, i), <<>>, <<>>)
    IN CASE IsFixnum(w) -> value("fixnum", Int64Of(w), <<>>, <<>>)
         [] IsChar(w) -> value("char", UInt64Of(w), <<>>, <<>>)
         [] IsCons(w) -> value("cons", 0, <<>>, <<Decode(CarOf(w)), Decode(CdrOf(w))>>)
         [] IsVector(w) -> value("vector", VectorClass(w), <<>>,
                                 [i \in 1 .. VectorLen(w) |-> element(i - 1)])
         [] OTHER -> value("symbol", 0, DirectText(w), <<>>)

Values == INSTANCE LispValues WITH
    Bits <- W - 5, Codes <- 2^CharBits, Short <- DIRECT_STR_MAX,
    Readable <- -(2^(W - 2)) .. 2^(W - 2) - 1,
    FixnumType <- CLASS.FIXNUM, CharType <- CLASS.CHAR, ByteType <- CLASS.BYTE,
    AnyType <- CLASS.T,
    values <- [i \in DOMAIN stack |-> Decode(stack[i])],
    known <- [h \in DOMAIN interned |-> Data(interned[h])]

\* mu computes on words what LispValues computes on values: packing, wrapping,
\* sign extension, interning and shared elements do not show
\* (mu/mu-fixnum.cc, mu-char.cc, mu-cons.cc, mu-vector.cc).
ImplementsLispValues == Values!Spec
=============================================================================
