---------------------------- MODULE LispValues ----------------------------
(***************************************************************************)
(* What the data operations of mu promise, without words, tags, packing or  *)
(* a heap: they compute on numbers, characters, symbols, pairs and typed    *)
(* vectors, and an operation that is given a wrong argument abandons the    *)
(* expression.  MuValue implements this.                                    *)
(***************************************************************************)
EXTENDS Integers, Sequences

CONSTANTS Bits,        \* bits of a fixnum
          Codes,       \* number of characters
          Short,       \* characters of the longest string that is not interned
          Hash(_),     \* the key of an interned string
          NilText, FixnumType, CharType, ByteType, AnyType,
          Readable,    \* numbers the reader takes
          Atoms, Texts, Lists, Indices

VARIABLES
    values,      \* arguments computed so far, the last one on top
    known,       \* key -> first string interned with it
    call         \* the last handler: its name, literal operands and outcome

vars == <<values, known, call>>

Value(kind, n, text, parts) == [kind |-> kind, n |-> n, text |-> text, parts |-> parts]
\* Fixnums are numbers modulo 2^Bits.
Num(i) == Value("fixnum", ((i + 2^(Bits - 1)) % 2^Bits) - 2^(Bits - 1), <<>>, <<>>)
Chr(c) == Value("char", c % Codes, <<>>, <<>>)
Sym(text) == Value("symbol", 0, text, <<>>)
Pair(a, d) == Value("cons", 0, <<>>, <<a, d>>)
Vec(type, parts) == Value("vector", type, <<>>, parts)

Nil == Sym(NilText)
Truth(b) == IF b THEN Sym(<<AnyType>>) ELSE Nil
Str(s) == Vec(CharType, [i \in DOMAIN s |-> Chr(s[i])])
Atom(a) == IF a.kind = "char" THEN Chr(a.n) ELSE Num(a.n)

IsNum(v) == v.kind = "fixnum"
IsList(v) == v.kind = "cons" \/ v = Nil
Car(v) == IF v = Nil THEN Nil ELSE v.parts[1]
Cdr(v) == IF v = Nil THEN Nil ELSE v.parts[2]

\* The cars of the pairs of a list, and what follows n of them.
RECURSIVE Items(_)
Items(v) == IF v.kind = "cons" THEN <<Car(v)>> \o Items(Cdr(v)) ELSE <<>>
RECURSIVE After(_, _)
After(n, v) ==
    IF n = 0 THEN v ELSE IF v.kind = "cons" THEN After(n - 1, Cdr(v)) ELSE Nil
Proper(v) == After(Len(Items(v)), v) = Nil

RECURSIVE ListOf(_)
ListOf(s) == IF s = <<>> THEN Nil ELSE Pair(Head(s), ListOf(Tail(s)))

-----------------------------------------------------------------------------
(* A handler takes n arguments and leaves its value; an error leaves nothing. *)

Arg(i) == values[Len(values) - i]
Has(n) == Len(values) >= n
Below(n) == SubSeq(values, 1, Len(values) - n)

Calls(name, operands, n, ok) ==
    /\ call'.name = name /\ call'.operands = operands
    /\ Has(n)
    /\ call'.ok = ok
    /\ ok \/ values' = <<>>
Apply(name, operands, n, ok, v) ==
    Calls(name, operands, n, ok) /\ (ok => values' = Append(Below(n), v))
Pure(name, operands, n, ok, v) ==
    Apply(name, operands, n, ok, v) /\ UNCHANGED known

\* The object that stands for a string: the first one with its key.
Intern(key, s) ==
    IF Len(s) > Short /\ Hash(key) \in DOMAIN known THEN known[Hash(key)] ELSE s
Remember(s) ==
    known' = IF Len(s) > Short /\ Hash(s) \notin DOMAIN known
             THEN [h \in DOMAIN known \cup {Hash(s)} |->
                      IF h = Hash(s) THEN s ELSE known[h]]
             ELSE known

\* Literals; one that is no fixnum of 62 bits -- two less than a word -- is refused.
Literal ==
    \/ \E a \in Atoms :
          Pure("atom", a, 0, a.kind = "fixnum" => a.n \in Readable, Atom(a))
    \/ \E l \in Lists : Pure("list", l, 0, TRUE, ListOf([i \in DOMAIN l |-> Atom(l[i])]))
    \/ \E s \in Texts :
          /\ Apply("string", s, 0, TRUE, Str(Intern(s, s)))
          /\ Remember(Intern(s, s))

Numeric(name, Op(_, _)) ==
    Pure(name, <<>>, 2, IsNum(Arg(1)) /\ IsNum(Arg(0)), Op(Arg(1).n, Arg(0).n))

BitOf(i, k) == (i \div 2^k) % 2
RECURSIVE FromBits(_, _)
FromBits(b, k) == IF k = 0 THEN 0 ELSE b[k] * 2^(k - 1) + FromBits(b, k - 1)
Bitwise(Op(_, _), i, j) ==
    Num(FromBits([k \in 1 .. Bits |-> Op(BitOf(i, k - 1), BitOf(j, k - 1))], Bits))

Arithmetic ==
    \/ Numeric("fixnum+", LAMBDA i, j : Num(i + j))
    \/ Numeric("fixnum-", LAMBDA i, j : Num(i - j))
    \/ Numeric("fixnum*", LAMBDA i, j : Num(i * j))
    \/ Numeric("fixnum<", LAMBDA i, j : Truth(i < j))
    \/ Numeric("logand", LAMBDA i, j : Bitwise(LAMBDA p, q : p * q, i, j))
    \/ Numeric("logor", LAMBDA i, j : Bitwise(LAMBDA p, q : p + q - p * q, i, j))

\* trunc and floor: "quotient * divisor + remainder = number", and for
\* operands that are not negative the remainder is below the divisor.
Division(name) ==
    LET i == Arg(1).n
        j == Arg(0).n
        v == values'[Len(values')]
    IN /\ Calls(name, <<>>, 2, IsNum(Arg(1)) /\ IsNum(Arg(0)) /\ j # 0)
       /\ UNCHANGED known
       /\ call'.ok =>
             /\ v.kind = "cons" /\ IsNum(Car(v)) /\ IsNum(Cdr(v))
             /\ values' = Append(Below(2), v)
             /\ Num(Car(v).n * j + Cdr(v).n) = Num(i)
             /\ i >= 0 /\ j > 0 => Cdr(v).n \in 0 .. j - 1

Pairs ==
    \/ Pure("cons", <<>>, 2, TRUE, Pair(Arg(1), Arg(0)))
    \/ Pure("car", <<>>, 1, IsList(Arg(0)), Car(Arg(0)))
    \/ Pure("cdr", <<>>, 1, IsList(Arg(0)), Cdr(Arg(0)))
    \/ Pure("length", <<>>, 1, IsList(Arg(0)) /\ Proper(Arg(0)), Num(Len(Items(Arg(0)))))
    \/ \E n \in Indices :
          LET items == Items(Arg(0))
          IN Pure("nth", n, 1, n >= 0 /\ IsList(Arg(0)),
                  IF n < Len(items) THEN items[n + 1] ELSE Nil)
    \* Of a dotted pair, (nthcdr 0 pair) is its car.
    \/ \E n \in Indices :
          LET dotted == ~IsList(Cdr(Arg(0)))
          IN Pure("nthcdr", n, 1, n >= 0 /\ IsList(Arg(0)) /\ (dotted => n <= 1),
                  IF dotted /\ n = 0 THEN Car(Arg(0)) ELSE After(n, Arg(0)))

Characters ==
    \/ Pure("ch-code", <<>>, 1, Arg(0).kind = "char", Num(Arg(0).n))
    \/ Pure("code-ch", <<>>, 1, IsNum(Arg(0)), Chr(Arg(0).n))

\* Which elements a vector of a type takes, and what it keeps of them.
Accepts(type, v) ==
    \/ type = AnyType
    \/ type = FixnumType /\ IsNum(v)
    \/ type = CharType /\ v.kind = "char"
    \/ type = ByteType /\ IsNum(v) /\ v.n < Codes
Kept(type, v) == IF type = ByteType THEN Num(v.n % Codes) ELSE v

IsVec(v) == v.kind = "vector"

ListVector(type) ==
    LET items == Items(Arg(0))
        ok == IsList(Arg(0)) /\ \A i \in DOMAIN items : Accepts(type, items[i])
        text == Intern(<<>>, [i \in DOMAIN items |-> items[i].n])
    IN IF type = CharType
       THEN /\ Apply("list-sv", type, 1, ok, Str(text))
            /\ IF ok THEN Remember(text) ELSE UNCHANGED known
       ELSE Pure("list-sv", type, 1, ok,
                 Vec(type, [i \in DOMAIN items |-> Kept(type, items[i])]))

Vectors ==
    \/ \E type \in {FixnumType, CharType, ByteType, AnyType} : ListVector(type)
    \/ Pure("sv-len", <<>>, 1, IsVec(Arg(0)), Num(Len(Arg(0).parts)))
    \/ Pure("sv-type", <<>>, 1, IsVec(Arg(0)), Sym(<<Arg(0).n>>))
    \/ \E i \in Indices :
          Pure("sv-ref", i, 1, IsVec(Arg(0)) /\ i >= 0 /\ i < Len(Arg(0).parts),
               Arg(0).parts[i + 1])
    \/ \E i \in Indices, n \in Indices :
          Pure("slice", <<i, n>>, 1,
               IsVec(Arg(0)) /\ i >= 0 /\ n >= 0 /\ i + n <= Len(Arg(0).parts),
               Vec(Arg(0).n, SubSeq(Arg(0).parts, i + 1, i + n)))

\* The program is done with the value of an expression.
Forget == Calls("done", <<>>, 1, FALSE) /\ UNCHANGED known

Init == values = <<>> /\ DOMAIN known = {} /\ call.name = "done"

Next ==
    \/ Literal \/ Arithmetic \/ Division("trunc") \/ Division("floor")
    \/ Pairs \/ Characters \/ Vectors \/ Forget

Spec == Init /\ [][Next]_vars
=============================================================================
