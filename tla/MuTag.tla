------------------------------ MODULE MuTag ------------------------------
(***************************************************************************)
(* The tagged words of libmu: core/type.h, type/fixnum.h, type/char.h and   *)
(* the packing of conses in type/cons.cc.  An object is one machine word    *)
(* whose low bits say what the others are; a word of W bits is a number     *)
(* below 2^W.  W is 64 and CharBits is 8 in the program.                    *)
(***************************************************************************)
EXTENDS Integers, Sequences

CONSTANTS W,         \* bits of a word
          CharBits   \* bits of a character of a string

\* The length of a short string has three bits, nil is one, and a character
\* holds the abbreviated name of a type.
ASSUME TagAssumption ==
    /\ W \in Nat /\ W % 2 = 0 /\ W > 16
    /\ CharBits \in Nat /\ CharBits >= 4
    /\ 3 * CharBits <= W - 8
    /\ (W - 8) \div CharBits <= 7

\* The powers of two up to that of a word.
Pow2 ==
    LET power[n \in 0 .. W] == IF n = 0 THEN 1 ELSE 2 * power[n - 1]
    IN [n \in 0 .. W |-> power[n]]

Word(i) == i % Pow2[W]
Signed(w) == IF w >= Pow2[W - 1] THEN w - Pow2[W] ELSE w
Bit(w, n) == (w \div Pow2[n]) % 2
Shl(w, n) == (w % Pow2[W - n]) * Pow2[n]
Asr(w, n) == Word(Signed(w) \div Pow2[n])

\* The sum of a sequence of numbers.
Total(s) ==
    LET sum[i \in 0 .. Len(s)] == IF i = 0 THEN 0 ELSE sum[i - 1] + s[i]
    IN sum[Len(s)]

\* & and | of two words.
WordAnd(v, w) == Total([k \in 1 .. W |-> Bit(v, k - 1) * Bit(w, k - 1) * Pow2[k - 1]])
WordOr(v, w) ==
    Total([k \in 1 .. W |->
              (IF Bit(v, k - 1) + Bit(w, k - 1) = 0 THEN 0 ELSE 1) * Pow2[k - 1]])

-----------------------------------------------------------------------------
(* Tags.                                                                   *)

TAG == [DIRECT |-> 0, CONS |-> 2, INDIRECT |-> 3]
CLASS == [FIXNUM |-> 0, CHAR |-> 1, VECTOR |-> 2, SYMBOL |-> 3,
          CONS |-> 5, BYTE |-> 11, T |-> 12]

TagOf(w) == w % 4
IsDirect(w) == TagOf(w) = TAG.DIRECT
IsIndirect(w) == TagOf(w) = TAG.INDIRECT

MakeDirect(data, len, class) == Shl(Word(data), 8) + ((len % 8) * 32) + (class * 4)
DirectData(w) == Asr(w, 8)
DirectSize(w) == (w \div 32) % 8
DirectClass(w) == (w \div 4) % 8

EntagIndirect(addr, class) == (addr * 64) + (class * 4) + TAG.INDIRECT
IndirectData(w) == Signed(w) \div 64
IndirectClass(w) == (w \div 4) % 16

TypeOf(w) ==
    CASE TagOf(w) = TAG.CONS -> CLASS.CONS
      [] IsDirect(w) -> DirectClass(w)
      [] IsIndirect(w) -> IndirectClass(w)

-----------------------------------------------------------------------------
(* Fixnums and characters.                                                 *)

Fixnum(i) == Shl(Word(i), 5) + (CLASS.FIXNUM * 4)
Int64Of(w) == Signed(w) \div 32
IsFixnum(w) == IsDirect(w) /\ DirectClass(w) = CLASS.FIXNUM

\* The constructor takes a byte.
CharOf(code) == MakeDirect(code % Pow2[CharBits], 1, CLASS.CHAR)
UInt64Of(w) == DirectData(w)
IsChar(w) == IsDirect(w) /\ DirectClass(w) = CLASS.CHAR /\ DirectSize(w) > 0

\* Division of C++ goes towards zero.
Abs(i) == IF i < 0 THEN -i ELSE i
Quo(i, j) ==
    LET q == Abs(i) \div Abs(j) IN IF (i < 0) = (j < 0) THEN q ELSE -q

\* (trunc a b) and (floor a b): quotient and remainder.
Truncated(i, j) ==
    LET quot == IF i < j THEN 0 ELSE Quo(i, j)
    IN <<quot, IF quot = 0 THEN i ELSE i - (j * quot)>>
Floored(i, j) ==
    LET rem == i - (Quo(i, j) * j) IN <<Quo(i - rem, j), rem>>

-----------------------------------------------------------------------------
(* Strings and keywords of at most DIRECT_STR_MAX characters: 7, and as     *)
(* many as fit above the low byte.                                          *)

DIRECT_STR_MAX == (W - 8) \div CharBits

CODE == 0 .. Pow2[CharBits] - 1

TextBits(s) == Total([i \in DOMAIN s |-> s[i] * Pow2[CharBits * (i - 1)]])

DirectText(w) ==
    [i \in 1 .. DirectSize(w) |-> (w \div Pow2[8 + (CharBits * (i - 1))]) % Pow2[CharBits]]

DirectString(s) == MakeDirect(TextBits(s), Len(s), CLASS.VECTOR)
Keyword(s) == MakeDirect(TextBits(s), Len(s), CLASS.SYMBOL)

NilText == <<14, 9, 4>>
NIL == Keyword(NilText)
\* The names of the types are abbreviated to one character.
MapClassSymbol(class) == Keyword(<<class>>)
MapSymbolClass(w) == DirectText(w)[1]
T == MapClassSymbol(CLASS.T)
Bool(test) == IF test THEN T ELSE NIL

\* Mutant: the characters after the slice stay in the word.
SliceDirectUnmasked(w, offset, length) ==
    MakeDirect(Asr(w, 8 + (offset * CharBits)), length, DirectClass(w))

\* Vector::Slice of a direct string: the shift extends the sign of the word.
SliceDirect(w, offset, length) ==
    LET bits == Asr(w, 8 + (offset * CharBits))
    IN MakeDirect(bits % Pow2[length * CharBits], length, DirectClass(w))

-----------------------------------------------------------------------------
(* A cons of two words that are short enough is packed into one word.      *)

Half == W \div 2

\* The tag bits are equal, the word has a sign bit to spare, and its upper
\* half only repeats the sign.
Packs(w) ==
    /\ Bit(w, 1) = Bit(w, 0)
    /\ Bit(w, Half - 2) = Bit(w, Half - 1)
    /\ w \div Pow2[Half] = (IF Bit(w, Half - 1) = 1 THEN Pow2[Half] - 1 ELSE 0)

Packed(w) == (w \div 2) % Pow2[Half - 1]

\* The shift of the cdr is one of half a word.
DirectCons(car, cdr) ==
    (Packed(car) * Pow2[Half + 1]) + ((Packed(cdr) * 4) % Pow2[Half]) + TAG.CONS

UnpackCar(w) ==
    LET bits == Asr(w, Half + 1) % Pow2[Half]
        upper == Bit(bits, Half - 2) * (Pow2[Half] - 1) * Pow2[Half]
    IN upper + ((bits * 2) % Pow2[Half]) + (bits % 2)

\* Mutant: the sign of the cdr is lost.
UnpackCdrUnsigned(w) == UnpackCar(Shl(Asr(w, 2), Half + 1))

\* The sign of the cdr did not fit and is taken from the bit below it.
UnpackCdr(w) ==
    LET bits == Asr(w, 2)
        sext == Bit(bits, Half - 3)
    IN UnpackCar((Shl(bits, Half + 1) % Pow2[W - 1]) + (sext * Pow2[W - 1]))

=============================================================================
