---------------------------- MODULE MCMuValue ----------------------------
(* Words of 20 bits: fixnums of 15, characters of 4, at most 3 characters in *)
(* a word.  Texts collide when their sums are equal.                        *)
EXTENDS MuValueRefinement

Num(i) == [kind |-> "fixnum", n |-> i]
Chr(c) == [kind |-> "char", n |-> c]

Sum(s) == FoldSeq(LAMBDA c, sum : c + sum, 0, s) % 11

\* -8 is the last to fit half a word, 16383 and -16384 the last fixnums;
\* -262145 is no number of 18 bits.
MCAtoms == {Num(i) : i \in {-262145, -16384, -8, 0, 3, 16383}} \cup {Chr(15)}

\* The word of <<15, 1, 8>> has its sign bit set.  <<1, 2, 3, 4>> and
\* <<4, 3, 2, 1>> collide, and <<0, 0, 0, 11>> with the empty text.
MCTexts == {<<>>, <<15, 1, 8>>, <<1, 2, 3, 4>>, <<4, 3, 2, 1>>, <<0, 0, 0, 11>>}

MCLists == {<<>>, <<Num(2), Num(-1)>>, <<Num(300), Num(3), Num(4)>>, <<Chr(9), Chr(1)>>,
            <<Chr(1), Chr(2), Chr(3), Chr(4)>>, <<Chr(1), Num(1)>>}

MCIndices == {-1, 0, 1, 2}

WideAtoms == {Num(i) : i \in {1, 16383, 16384, 131071}}
=============================================================================
