------------------------------ MODULE MuValue ------------------------------
(***************************************************************************)
(* The data operations of mu on tagged words (mu/mu-fixnum.cc, mu-char.cc,  *)
(* mu-cons.cc, mu-vector.cc and the types they use): fixnums wrap, a cons   *)
(* is packed into a word when it fits, a short string is its own word, a    *)
(* longer one is interned by its hash, a slice shares the elements of its   *)
(* vector.  A program computes expressions: literals and the values of      *)
(* calls are pushed as arguments of later calls; an error abandons all.     *)
(***************************************************************************)
EXTENDS MuTag, SequencesExt, FiniteSets

CONSTANTS Hash(_),   \* hash_id
          Atoms,     \* numbers and characters the program has as literals
          Texts,     \* its strings
          Lists,     \* its quoted lists
          Indices,   \* operands of nth, nthcdr, sv-ref and slice
          MaxArgs,   \* values that wait for a call
          MaxSteps   \* literals and calls of a behaviour

ATOM == [kind : {"fixnum", "char"}, n : Int]

\* The operands of the reader are numbers and bytes; a behaviour makes no more
\* objects than a word has addresses for.
ASSUME ValueAssumption ==
    /\ MaxSteps \in Nat /\ MaxArgs \in Nat
    /\ \A a \in Atoms : a \in ATOM
    /\ \A s \in Texts : s \in Seq(CODE)
    /\ \A l \in Lists : l \in Seq(ATOM)
    /\ Indices \subseteq Int
    /\ \E longest \in 0 .. Pow2[W - 7] :
          /\ \A l \in Lists : Len(l) <= longest
          /\ MaxSteps * (longest + 1) < Pow2[W - 7]

VARIABLES
    stack,      \* words: arguments computed so far, the last one on top
    heap,       \* objects by address; an address is a position
    interned,   \* interned_strings: hash -> word
    call,       \* the last handler: its name, literal operands and outcome
    steps

vars == <<stack, heap, interned, call, steps>>

-----------------------------------------------------------------------------
(* Handlers.                                                               *)

Arg(i) == stack[Len(stack) - i]
Below(n) == SubSeq(stack, 1, Len(stack) - n)

Called(name, operands, ok) ==
    /\ call' = [name |-> name, operands |-> operands, ok |-> ok]
    /\ steps < MaxSteps
    /\ steps' = steps + 1

\* A computed object is a word and the heap it refers to.
Made(w, h) == [word |-> w, heap |-> h]

Return(n, made) ==
    /\ stack' = Append(Below(n), made.word)
    /\ heap' = made.heap
Raise == stack' = <<>> /\ UNCHANGED heap

\* A handler of n arguments that raises an error unless ok.
Handler(name, operands, n, ok, made) ==
    /\ Len(stack) \in n .. MaxArgs - 1 + n
    /\ Called(name, operands, ok)
    /\ IF ok THEN Return(n, made) ELSE Raise
    /\ UNCHANGED interned
Pure(name, operands, n, ok, word) == Handler(name, operands, n, ok, Made(word, heap))

-----------------------------------------------------------------------------
(* Conses.                                                                 *)

IsCons(w) == TagOf(w) = TAG.CONS \/ (IsIndirect(w) /\ IndirectClass(w) = CLASS.CONS)
IsList(w) == w = NIL \/ IsCons(w)

\* Cons::Heap
MakeCons(car, cdr, h) ==
    IF Packs(car) /\ Packs(cdr)
    THEN Made(DirectCons(car, cdr), h)
    ELSE Made(EntagIndirect(Len(h) + 1, CLASS.CONS), Append(h, [car |-> car, cdr |-> cdr]))

CarOf(w) ==
    IF w = NIL THEN NIL ELSE IF IsIndirect(w) THEN heap[IndirectData(w)].car ELSE UnpackCar(w)
CdrOf(w) ==
    IF w = NIL THEN NIL ELSE IF IsIndirect(w) THEN heap[IndirectData(w)].cdr ELSE UnpackCdr(w)

\* Cons::List: from the last element to the first.
MakeList(words) ==
    LET n == Len(words)
        made[i \in 0 .. n] ==
            IF i = 0 THEN Made(NIL, heap)
            ELSE LET rest == made[i - 1] IN MakeCons(words[n - i + 1], rest.word, rest.heap)
    IN made[n]

\* The conses Cons::iter stops at: it leaves a list at the first cdr that is none.
\* The cdr of a cons in the heap is an older object, or packs one.
Conses(w) ==
    LET most == 2 * Len(heap) + 1
        met[i \in 0 .. most] ==
            IF i = 0 THEN <<>>
            ELSE LET conses == met[i - 1]
                     next == IF conses = <<>> THEN w ELSE CdrOf(Last(conses))
                 IN IF IsCons(next) THEN Append(conses, next) ELSE conses
    IN met[most]

ListLength ==
    LET list == Arg(0)
    IN Pure("length", <<>>, 1,
            IsList(list) /\ \A i \in DOMAIN Conses(list) : IsList(CdrOf(Conses(list)[i])),
            Fixnum(Len(Conses(list))))

MuCons == Handler("cons", <<>>, 2, TRUE, MakeCons(Arg(1), Arg(0), heap))
Car == Pure("car", <<>>, 1, IsList(Arg(0)), CarOf(Arg(0)))
Cdr == Pure("cdr", <<>>, 1, IsList(Arg(0)), CdrOf(Arg(0)))

Nth(n) ==
    LET conses == Conses(Arg(0))
    IN Pure("nth", n, 1, n >= 0 /\ IsList(Arg(0)),
            IF n < Len(conses) THEN CarOf(conses[n + 1]) ELSE NIL)

Nthcdr(n) ==
    LET list == Arg(0)
        dotted == ~IsList(CdrOf(list))
        conses == Conses(list)
    IN Pure("nthcdr", n, 1, n >= 0 /\ IsList(list) /\ (dotted => n <= 1),
            CASE dotted -> IF n = 0 THEN CarOf(list) ELSE CdrOf(list)
              [] ~dotted /\ (n = 0 \/ list = NIL) -> list
              [] OTHER -> IF n <= Len(conses) THEN CdrOf(conses[n]) ELSE NIL)

-----------------------------------------------------------------------------
(* Fixnums and characters.                                                 *)

Numeric(name, Op(_, _)) ==
    Pure(name, <<>>, 2, IsFixnum(Arg(1)) /\ IsFixnum(Arg(0)),
         Op(Int64Of(Arg(1)), Int64Of(Arg(0))))

FixAdd == Numeric("fixnum+", LAMBDA i, j : Fixnum(i + j))
FixSub == Numeric("fixnum-", LAMBDA i, j : Fixnum(i - j))
FixMul == Numeric("fixnum*", LAMBDA i, j : Fixnum(i * j))
FixLessThan == Numeric("fixnum<", LAMBDA i, j : Bool(i < j))
\* On 64 bits, the sign extended.
Logand == Numeric("logand", LAMBDA i, j : Fixnum(WordAnd(Word(i), Word(j))))
Logor == Numeric("logor", LAMBDA i, j : Fixnum(WordOr(Word(i), Word(j))))

Divide(name, Op(_, _)) ==
    LET i == Int64Of(Arg(1))
        j == Int64Of(Arg(0))
    IN Handler(name, <<>>, 2, IsFixnum(Arg(1)) /\ IsFixnum(Arg(0)) /\ j # 0,
               MakeCons(Fixnum(Op(i, j)[1]), Fixnum(Op(i, j)[2]), heap))

Truncate == Divide("trunc", Truncated)
Floor == Divide("floor", Floored)

CharCode == Pure("ch-code", <<>>, 1, IsChar(Arg(0)), Fixnum(UInt64Of(Arg(0))))
CodeChar == Pure("code-ch", <<>>, 1, IsFixnum(Arg(0)), CharOf(Int64Of(Arg(0))))

-----------------------------------------------------------------------------
(* Strings and vectors.  A vector has its elements in an object of its own   *)
(* or, as a slice, in that of another vector from an offset.                *)

IsVector(w) ==
    \/ IsDirect(w) /\ DirectClass(w) = CLASS.VECTOR
    \/ IsIndirect(w) /\ IndirectClass(w) = CLASS.VECTOR
Layout(w) == heap[IndirectData(w)]
VectorLen(w) == IF IsDirect(w) THEN DirectSize(w) ELSE Layout(w).length
VectorClass(w) == IF IsDirect(w) THEN CLASS.CHAR ELSE MapSymbolClass(Layout(w).type)
Ref(w, i) ==
    IF IsDirect(w) THEN DirectText(w)[i + 1]
    ELSE heap[Layout(w).owner].data[Layout(w).offset + i + 1]
Data(w) == [i \in 1 .. VectorLen(w) |-> Ref(w, i - 1)]

\* Vector::Heap of elements that are no short string.
MakeVector(class, data) ==
    LET addr == Len(heap) + 1
    IN Made(EntagIndirect(addr, CLASS.VECTOR),
            Append(heap, [type |-> MapClassSymbol(class), length |-> Len(data),
                          owner |-> addr, offset |-> 0, data |-> data]))

\* Vector::Heap of a string; key is what its constructor left in interned_.
MakeString(key, text) ==
    IF Len(text) <= DIRECT_STR_MAX THEN Made(DirectString(text), heap)
    ELSE IF Hash(key) \in DOMAIN interned THEN Made(interned[Hash(key)], heap)
    ELSE MakeVector(CLASS.CHAR, text)

\* Mapped::InternString of a string that Vector::Heap has made.
InternString(made) ==
    LET text == made.heap[Len(made.heap)].data
    IN interned' = IF made.heap = heap \/ Hash(text) \in DOMAIN interned
                   THEN interned
                   ELSE [h \in DOMAIN interned \cup {Hash(text)} |->
                            IF h = Hash(text) THEN made.word ELSE interned[h]]

StringHandler(name, operands, n, ok, made) ==
    /\ Len(stack) \in n .. MaxArgs - 1 + n
    /\ Called(name, operands, ok)
    /\ IF ok THEN Return(n, made) /\ InternString(made)
             ELSE Raise /\ UNCHANGED interned

\* Vector::ListToVector: the elements a type takes and what it stores of them.
IsElement(class, w) ==
    CASE class = CLASS.T -> TRUE
      [] class = CLASS.FIXNUM -> IsFixnum(w)
      [] class = CLASS.BYTE -> IsFixnum(w) /\ Int64Of(w) < Pow2[CharBits]
      [] class = CLASS.CHAR -> IsChar(w)
Unbox(class, w) ==
    CASE class = CLASS.T -> w
      [] class = CLASS.FIXNUM -> Int64Of(w)
      [] class = CLASS.BYTE -> Int64Of(w) % Pow2[CharBits]
      [] class = CLASS.CHAR -> UInt64Of(w) % Pow2[CharBits]

ListToVector(class) ==
    LET conses == Conses(Arg(0))
        ok == IsList(Arg(0)) /\ \A i \in DOMAIN conses : IsElement(class, CarOf(conses[i]))
        data == [i \in DOMAIN conses |-> Unbox(class, CarOf(conses[i]))]
    IN IF class = CLASS.CHAR
       THEN StringHandler("list-sv", class, 1, ok, MakeString(<<>>, data))
       ELSE Handler("list-sv", class, 1, ok, MakeVector(class, data))

VectorLength == Pure("sv-len", <<>>, 1, IsVector(Arg(0)), Fixnum(VectorLen(Arg(0))))
VectorType ==
    Pure("sv-type", <<>>, 1, IsVector(Arg(0)), MapClassSymbol(VectorClass(Arg(0))))

VectorRef(i) ==
    LET vector == Arg(0)
    IN Pure("sv-ref", i, 1, IsVector(vector) /\ i >= 0 /\ i < VectorLen(vector),
            CASE VectorClass(vector) = CLASS.T -> Ref(vector, i)
              [] VectorClass(vector) = CLASS.CHAR -> CharOf(Ref(vector, i))
              [] OTHER -> Fixnum(Ref(vector, i)))

\* Mutant: only the length is compared with the vector's.
SliceToEnd(offset, length) ==
    LET vec == Arg(0)
    IN Handler("slice", <<offset, length>>, 1,
               IsVector(vec) /\ offset >= 0 /\ length \in 0 .. VectorLen(vec),
               IF IsDirect(vec)
               THEN Made(SliceDirect(vec, offset, length), heap)
               ELSE Made(EntagIndirect(Len(heap) + 1, CLASS.VECTOR),
                         Append(heap, [Layout(vec) EXCEPT !.length = length,
                                                          !.offset = @ + offset,
                                                          !.data = <<>>])))

\* A slice of a vector in the heap is a vector in the heap however short it is.
Slice(offset, length) ==
    LET vec == Arg(0)
    IN Handler("slice", <<offset, length>>, 1,
               /\ IsVector(vec)
               /\ offset >= 0 /\ length >= 0 /\ length + offset <= VectorLen(vec),
               IF IsDirect(vec)
               THEN Made(SliceDirect(vec, offset, length), heap)
               ELSE Made(EntagIndirect(Len(heap) + 1, CLASS.VECTOR),
                         Append(heap, [Layout(vec) EXCEPT !.length = length,
                                                          !.offset = @ + offset,
                                                          !.data = <<>>])))

-----------------------------------------------------------------------------
(* Literals.                                                               *)

AtomWord(a) == IF a.kind = "char" THEN CharOf(a.n) ELSE Fixnum(a.n)

\* parse_number refuses a number whose two upper bits differ.
ReadAtom(a) ==
    Pure("atom", a, 0,
         a.kind = "fixnum" => Bit(Word(a.n), W - 2) = Bit(Word(a.n), W - 1), AtomWord(a))

ReadList(l) ==
    Handler("list", l, 0, TRUE, MakeList([i \in DOMAIN l |-> AtomWord(l[i])]))

ReadString(s) == StringHandler("string", s, 0, TRUE, MakeString(s, s))

\* The program is done with the value of an expression.
Done ==
    /\ Len(stack) = 1
    /\ stack' = <<>>
    /\ call' = [name |-> "done", operands |-> <<>>, ok |-> FALSE]
    /\ UNCHANGED <<heap, interned, steps>>

-----------------------------------------------------------------------------

Init ==
    /\ stack = <<>>
    /\ heap = <<>>
    /\ interned = <<>>
    /\ call = [name |-> "done", operands |-> <<>>, ok |-> FALSE]
    /\ steps = 0

Next ==
    \/ \E a \in Atoms : ReadAtom(a)
    \/ \E l \in Lists : ReadList(l)
    \/ \E s \in Texts : ReadString(s)
    \/ FixAdd \/ FixSub \/ FixMul \/ FixLessThan \/ Logand \/ Logor \/ Truncate \/ Floor
    \/ MuCons \/ Car \/ Cdr \/ ListLength
    \/ CharCode \/ CodeChar
    \/ VectorLength \/ VectorType
    \/ \E n \in Indices : Nth(n) \/ Nthcdr(n) \/ VectorRef(n)
    \/ \E class \in {CLASS.FIXNUM, CLASS.CHAR, CLASS.BYTE, CLASS.T} : ListToVector(class)
    \/ \E offset, length \in Indices : Slice(offset, length)
    \/ Done

Spec == Init /\ [][Next]_vars

-----------------------------------------------------------------------------
(* Properties.                                                             *)

\* The words an object holds.
Held(o) ==
    IF "car" \in DOMAIN o THEN {o.car, o.cdr}
    ELSE {o.type} \cup (IF o.type = T THEN Range(o.data) ELSE {})
WordsInUse == Range(stack) \cup Range(interned) \cup UNION {Held(heap[a]) : a \in DOMAIN heap}

\* Every word is one the program can take apart, and refers to an object of its
\* class: no arithmetic on words touches the tag bits.
TypeOK ==
    /\ \A w \in WordsInUse :
          /\ w \in 0 .. Pow2[W] - 1
          /\ \/ IsDirect(w) /\ DirectClass(w) \in 0 .. 3
             \/ TagOf(w) = TAG.CONS /\ {UnpackCar(w), UnpackCdr(w)} \subseteq 0 .. Pow2[W] - 1
             \/ /\ IsIndirect(w)
                /\ IndirectData(w) \in DOMAIN heap
                /\ IsCons(w) <=> "car" \in DOMAIN heap[IndirectData(w)]
    /\ \A a \in DOMAIN heap :
          "car" \in DOMAIN heap[a]
             \/ heap[a].offset + heap[a].length <= Len(heap[heap[a].owner].data)

\* What a word that is no reference stands for.
DirectValue(w) ==
    CASE IsFixnum(w) -> [type |-> "fixnum", value |-> <<Int64Of(w)>>]
      [] IsChar(w) -> [type |-> "char", value |-> <<UInt64Of(w)>>]
      [] IsVector(w) -> [type |-> "string", value |-> DirectText(w)]
      [] OTHER -> [type |-> "symbol", value |-> DirectText(w)]

\* eq compares words: fixnums, characters, keywords and short strings that are
\* equal and in the word itself are eq, whatever they were computed with
\* (Type::Eq, core/type.h:144).
EqualWordsAreEq ==
    LET words == {w \in WordsInUse : IsDirect(w)}
    IN \A v, w \in words : v # w => DirectValue(v) # DirectValue(w)

\* A number the reader takes is the fixnum it becomes ("62 bit signed integer",
\* doc/html/1-2runtime.html).
ReadKeepsNumbers ==
    [][\A a \in Atoms : a.kind = "fixnum" /\ ReadAtom(a) /\ call'.ok
                           => Int64Of(Last(stack')) = a.n]_vars
=============================================================================
