--------------------------- MODULE MuValueProofs ---------------------------
(***************************************************************************)
(* TLAPS proofs about MuValue, for every width of a word and a character,  *)
(* every literal, hash and bound: type correctness, and that words that    *)
(* stand for the same number, character or short text are the same word.   *)
(*                                                                         *)
(* The invariant (WordsInv) says which words there are.  A word that is no *)
(* reference is one of the few forms the constructors make (DirectWords);  *)
(* any other word refers to an object of the heap, or is packed from two   *)
(* such words.  An object of the heap holds words of the heap; a vector    *)
(* has its elements in a vector of its type.  The heap never shrinks, so   *)
(* that words stay words (WordsStay), and a step makes no more objects     *)
(* than words have addresses for (Room).                                   *)
(***************************************************************************)
EXTENDS MuValue, MuTagProofs

-----------------------------------------------------------------------------
(* Words that are no references.                                           *)

LEMMA DirectWordFields ==
    ASSUME NEW w \in DirectWords
    PROVE  /\ w \in 0 .. Pow2[W] - 1
           /\ IsDirect(w) /\ ~IsIndirect(w) /\ ~IsCons(w)
           /\ DirectClass(w) \in 0 .. 3
           /\ IsFixnum(w) <=> w \in Numbers
           /\ IsChar(w) <=> w \in Characters
           /\ IsVector(w) <=> w \in ShortTexts(CLASS.VECTOR)
           /\ (~IsFixnum(w) /\ ~IsChar(w) /\ ~IsVector(w)) <=> w \in ShortTexts(CLASS.SYMBOL)
<1>1. TAG.DIRECT = 0 /\ TAG.INDIRECT = 3 /\ TAG.CONS = 2
      BY DEF TAG
<1>2. CLASS.FIXNUM = 0 /\ CLASS.CHAR = 1 /\ CLASS.VECTOR = 2 /\ CLASS.SYMBOL = 3
      BY DEF CLASS
<1>3. CASE w \in Numbers
  <2>1. w \in 0 .. Pow2[W] - 1 /\ TagOf(w) = 0 /\ DirectClass(w) = 0
        BY <1>3, NumberFields
  <2>2. w \notin Characters
        BY <2>1, CharacterFields DEF Characters
  <2>3. w \notin ShortTexts(CLASS.VECTOR) /\ w \notin ShortTexts(CLASS.SYMBOL)
        BY <1>2, <2>1, ShortTextFields
  <2> QED BY <1>1, <1>2, <1>3, <2>1, <2>2, <2>3 DEF IsDirect, IsIndirect, IsFixnum, IsChar, IsVector, IsCons
<1>4. CASE w \in Characters
  <2>1. w \in 0 .. Pow2[W] - 1 /\ TagOf(w) = 0 /\ DirectClass(w) = 1 /\ DirectSize(w) = 1
        BY <1>4, CharacterFields DEF Characters
  <2>2. w \notin Numbers
        BY <2>1, NumberFields
  <2>3. w \notin ShortTexts(CLASS.VECTOR) /\ w \notin ShortTexts(CLASS.SYMBOL)
        BY <1>2, <2>1, ShortTextFields
  <2> QED BY <1>1, <1>2, <1>4, <2>1, <2>2, <2>3 DEF IsDirect, IsIndirect, IsFixnum, IsChar, IsVector, IsCons
<1>5. ASSUME NEW class \in {CLASS.VECTOR, CLASS.SYMBOL}, w \in ShortTexts(class)
      PROVE  /\ w \in 0 .. Pow2[W] - 1 /\ TagOf(w) = 0 /\ DirectClass(w) = class
             /\ w \notin Numbers /\ w \notin Characters
  <2>1. class \in 2 .. 3 /\ class \in 0 .. 7
        BY <1>2
  <2>2. w \in 0 .. Pow2[W] - 1 /\ TagOf(w) = 0 /\ DirectClass(w) = class
        BY <1>5, <2>1, ShortTextFields
  <2>3. w \notin Numbers
        BY <2>1, <2>2, NumberFields
  <2>4. w \notin Characters
        BY <2>1, <2>2, CharacterFields DEF Characters
  <2> QED BY <2>2, <2>3, <2>4
<1>6. CASE w \in ShortTexts(CLASS.VECTOR)
  <2>1. /\ w \in 0 .. Pow2[W] - 1 /\ TagOf(w) = 0 /\ DirectClass(w) = 2
        /\ w \notin Numbers /\ w \notin Characters
        BY <1>2, <1>5, <1>6
  <2>2. w \notin ShortTexts(CLASS.SYMBOL)
        BY <1>2, <2>1, ShortTextFields
  <2> QED BY <1>1, <1>2, <1>6, <2>1, <2>2 DEF IsDirect, IsIndirect, IsFixnum, IsChar, IsVector, IsCons
<1>7. CASE w \in ShortTexts(CLASS.SYMBOL)
  <2>1. /\ w \in 0 .. Pow2[W] - 1 /\ TagOf(w) = 0 /\ DirectClass(w) = 3
        /\ w \notin Numbers /\ w \notin Characters
        BY <1>2, <1>5, <1>7
  <2>2. w \notin ShortTexts(CLASS.VECTOR)
        BY <1>2, <2>1, ShortTextFields
  <2> QED BY <1>1, <1>2, <1>7, <2>1, <2>2 DEF IsDirect, IsIndirect, IsFixnum, IsChar, IsVector, IsCons
<1> QED BY <1>3, <1>4, <1>6, <1>7 DEF DirectWords

\* Two words that are no references and stand for the same are the same.
LEMMA DirectValueInjective ==
    ASSUME NEW v \in DirectWords, NEW w \in DirectWords, DirectValue(v) = DirectValue(w)
    PROVE  v = w
<1>1. ASSUME NEW u \in DirectWords
      PROVE  /\ u \in Numbers => DirectValue(u) = [type |-> "fixnum", value |-> <<Int64Of(u)>>]
             /\ u \in Characters => DirectValue(u) = [type |-> "char", value |-> <<UInt64Of(u)>>]
             /\ u \in ShortTexts(CLASS.VECTOR) =>
                    DirectValue(u) = [type |-> "string", value |-> DirectText(u)]
             /\ u \in ShortTexts(CLASS.SYMBOL) =>
                    DirectValue(u) = [type |-> "symbol", value |-> DirectText(u)]
  <2> DEFINE n == Int64Of(u)
             c == UInt64Of(u)
             t == DirectText(u)
  <2>1. DirectValue(u) = CASE IsFixnum(u) -> [type |-> "fixnum", value |-> <<n>>]
                           [] IsChar(u) -> [type |-> "char", value |-> <<c>>]
                           [] IsVector(u) -> [type |-> "string", value |-> t]
                           [] OTHER -> [type |-> "symbol", value |-> t]
        BY DEF DirectValue
  <2>2. /\ IsFixnum(u) <=> u \in Numbers
        /\ IsChar(u) <=> u \in Characters
        /\ IsVector(u) <=> u \in ShortTexts(CLASS.VECTOR)
        /\ (~IsFixnum(u) /\ ~IsChar(u) /\ ~IsVector(u)) <=> u \in ShortTexts(CLASS.SYMBOL)
        BY DirectWordFields
  <2>3. ~(IsFixnum(u) /\ IsChar(u)) /\ ~(IsFixnum(u) /\ IsVector(u)) /\ ~(IsChar(u) /\ IsVector(u))
    <3>1. CLASS.FIXNUM = 0 /\ CLASS.CHAR = 1 /\ CLASS.VECTOR = 2
          BY DEF CLASS
    <3>2. ~IsIndirect(u)
          BY DirectWordFields
    <3> QED BY <3>1, <3>2 DEF IsFixnum, IsChar, IsVector
  <2> HIDE DEF n, c, t
  <2> QED BY <2>1, <2>2, <2>3 DEF n, c, t
<1>2. CASE v \in Numbers
  <2>1. w \in Numbers
        BY <1>1, <1>2 DEF DirectWords
  <2>2. Int64Of(v) = Int64Of(w)
        BY <1>1, <1>2, <2>1
  <2>3. PICK d \in 0 .. Pow2[W - 5] - 1, e \in 0 .. Pow2[W - 5] - 1 : v = 32 * d /\ w = 32 * e
        BY <1>2, <2>1 DEF Numbers
  <2>4. Pow2[W - 6] \in Nat /\ Pow2[W - 5] = 2 * Pow2[W - 6]
        BY WordSize
  <2>5. /\ Int64Of(v) = IF d >= Pow2[W - 6] THEN d - Pow2[W - 5] ELSE d
        /\ Int64Of(w) = IF e >= Pow2[W - 6] THEN e - Pow2[W - 5] ELSE e
        BY <2>3, FixnumFields
  <2>6. d = e
    <3>1. \A x, y, h \in Nat :
             /\ x < 2 * h /\ y < 2 * h
             /\ (IF x >= h THEN x - (2 * h) ELSE x) = (IF y >= h THEN y - (2 * h) ELSE y)
             => x = y
          OBVIOUS
    <3>2. d \in Nat /\ e \in Nat /\ d < 2 * Pow2[W - 6] /\ e < 2 * Pow2[W - 6]
          BY <2>4
    <3>3. (IF d >= Pow2[W - 6] THEN d - (2 * Pow2[W - 6]) ELSE d)
             = (IF e >= Pow2[W - 6] THEN e - (2 * Pow2[W - 6]) ELSE e)
          BY <2>2, <2>4, <2>5
    <3> QED BY <2>4, <3>1, <3>2, <3>3
  <2> QED BY <2>3, <2>6
<1>3. CASE v \in Characters
  <2>1. w \in Characters
        BY <1>1, <1>3 DEF DirectWords
  <2>2. UInt64Of(v) = UInt64Of(w)
        BY <1>1, <1>3, <2>1
  <2> QED BY <1>3, <2>1, <2>2, CharacterFields DEF Characters
<1>4. ASSUME NEW class \in {CLASS.VECTOR, CLASS.SYMBOL}, v \in ShortTexts(class)
      PROVE  v = w
  <2>1. class \in 0 .. 7
        BY DEF CLASS
  <2>2. w \in ShortTexts(class) /\ DirectText(v) = DirectText(w)
    <3>1. CASE class = CLASS.VECTOR
      <4>1. w \in ShortTexts(CLASS.VECTOR)
            BY <1>1, <1>4, <3>1 DEF DirectWords
      <4> QED BY <1>1, <1>4, <3>1, <4>1
    <3>2. CASE class = CLASS.SYMBOL
      <4>1. w \in ShortTexts(CLASS.SYMBOL)
            BY <1>1, <1>4, <3>2 DEF DirectWords
      <4> QED BY <1>1, <1>4, <3>2, <4>1
    <3> QED BY <3>1, <3>2
  <2>3. /\ v = DirectWord(TextBits(DirectText(v)), Len(DirectText(v)), class)
        /\ w = DirectWord(TextBits(DirectText(w)), Len(DirectText(w)), class)
        BY <1>4, <2>1, <2>2, ShortTextFields
  <2> QED BY <2>2, <2>3
<1> QED BY <1>2, <1>3, <1>4 DEF DirectWords

-----------------------------------------------------------------------------
(* What a heap holds.                                                      *)

IsPair(o) == "car" \in DOMAIN o
Reference(h, a) == EntagIndirect(a, IF IsPair(h[a]) THEN CLASS.CONS ELSE CLASS.VECTOR)
Atomic(h) == DirectWords \cup {Reference(h, a) : a \in DOMAIN h}
PackedConses(h) ==
    {DirectCons(p[1], p[2]) : p \in {q \in Atomic(h) \X Atomic(h) : Packs(q[1]) /\ Packs(q[2])}}
WordsOf(h) == Atomic(h) \cup PackedConses(h)

Pair == [car : Int, cdr : Int]
Vector == [type : {MapClassSymbol(c) : c \in CLASSES}, length : Nat, owner : Nat,
           offset : Nat, data : Seq(Int)]

GoodPair(h, o) == o \in Pair /\ {o.car, o.cdr} \subseteq WordsOf(h)

\* The elements of a vector are in a vector of its type.
GoodVector(h, o) ==
    /\ o \in Vector
    /\ o.owner \in DOMAIN h
    /\ h[o.owner] \in Vector
    /\ h[o.owner].type = o.type
    /\ o.offset + o.length <= Len(h[o.owner].data)
    /\ o.type = T => \A i \in 1 .. Len(o.data) : o.data[i] \in WordsOf(h)

Good(h, o) == GoodPair(h, o) \/ GoodVector(h, o)

\* A heap that a word can address.
Heaps == {h \in Seq(Pair \cup Vector) : Len(h) < Pow2[W - 7]}
GoodHeap(h) == h \in Heaps /\ \A a \in 1 .. Len(h) : Good(h, h[a])

LEMMA ObjectKinds ==
    /\ \A o \in Pair : IsPair(o)
    /\ \A o \in Vector : ~IsPair(o)
<1>1. ASSUME NEW o \in Pair PROVE IsPair(o)
      BY DEF Pair, IsPair
<1>2. ASSUME NEW o \in Vector PROVE ~IsPair(o)
  <2>1. DOMAIN o = {"type", "length", "owner", "offset", "data"}
        BY DEF Vector
  <2> QED BY <2>1 DEF IsPair
<1> QED BY <1>1, <1>2

LEMMA Addresses == Pow2[W - 7] \in Nat
BY WordSize

\* A reference reads back as its address and the class of its object.
LEMMA ReferenceWord ==
    ASSUME NEW h \in Heaps, NEW a \in 1 .. Len(h)
    PROVE  LET w == Reference(h, a)
           IN /\ w \in Atomic(h) /\ w \in 0 .. Pow2[W] - 1
              /\ ~IsDirect(w) /\ IsIndirect(w)
              /\ IndirectData(w) = a
              /\ IsCons(w) <=> h[a] \in Pair
              /\ IsVector(w) <=> h[a] \in Vector
<1> DEFINE class == IF IsPair(h[a]) THEN CLASS.CONS ELSE CLASS.VECTOR
           w == Reference(h, a)
<1>1. h \in Seq(Pair \cup Vector) /\ Len(h) < Pow2[W - 7] /\ Len(h) \in Nat
      BY DEF Heaps
<1>2. a \in 1 .. Pow2[W - 7] - 1 /\ class \in 0 .. 15
  <2>1. class \in 0 .. 15
        BY DEF CLASS
  <2> QED BY <1>1, <2>1, Addresses
<1>3. w = EntagIndirect(a, class) /\ a \in DOMAIN h
      BY <1>1 DEF Reference
<1>4. /\ w \in 0 .. Pow2[W] - 1 /\ TagOf(w) = 3
      /\ IndirectData(w) = a /\ IndirectClass(w) = class
  <2> HIDE DEF class
  <2> QED BY <1>2, <1>3, ReferenceFields
<1>5. w \in Atomic(h)
      BY <1>3 DEF Atomic
<1>6. h[a] \in Pair \cup Vector
      BY <1>1
<1>7. ~IsDirect(w) /\ IsIndirect(w)
      BY <1>4 DEF IsDirect, IsIndirect, TAG
<1>8. (IsCons(w) <=> IsPair(h[a])) /\ (IsVector(w) <=> ~IsPair(h[a]))
  <2> HIDE DEF w
  <2> QED BY <1>4, <1>7 DEF IsCons, IsVector, TAG, CLASS
<1> QED BY <1>4, <1>5, <1>6, <1>7, <1>8, ObjectKinds

\* The words a cons is packed from are no packed conses.
LEMMA PackedNoMore ==
    ASSUME NEW w \in Nat, TagOf(w) = 2
    PROVE  ~Packs(w)
<1>1. Pow2[0] = 1 /\ Pow2[1] = 2
      BY Powers, SmallPowers
<1>2. w % 4 = 2
      BY DEF TagOf
<1>3. PICK k \in Nat : w = (4 * k) + 2
      BY <1>2
<1>4. (w \div 2) % 2 = 1 /\ (w \div 1) % 2 = 0
      BY <1>3
<1> QED BY <1>1, <1>4 DEF Packs, Bit

LEMMA AtomicWord ==
    ASSUME NEW h \in Heaps, NEW w \in Atomic(h)
    PROVE  /\ w \in 0 .. Pow2[W] - 1
           /\ \/ w \in DirectWords /\ IsDirect(w)
              \/ \E a \in 1 .. Len(h) : w = Reference(h, a)
<1>1. h \in Seq(Pair \cup Vector)
      BY DEF Heaps
<1>2. CASE w \in DirectWords
      BY <1>2, DirectWordFields
<1>3. CASE w \notin DirectWords
  <2>1. PICK a \in 1 .. Len(h) : w = Reference(h, a)
        BY <1>1, <1>3 DEF Atomic
  <2> QED BY <2>1, ReferenceWord
<1> QED BY <1>2, <1>3

LEMMA PackedWord ==
    ASSUME NEW h \in Heaps, NEW w \in PackedConses(h)
    PROVE  /\ w \in 0 .. Pow2[W] - 1
           /\ TagOf(w) = 2 /\ ~Packs(w)
           /\ UnpackCar(w) \in Atomic(h) /\ UnpackCdr(w) \in Atomic(h)
<1>1. PICK p \in Atomic(h) \X Atomic(h) : Packs(p[1]) /\ Packs(p[2]) /\ w = DirectCons(p[1], p[2])
      BY DEF PackedConses
<1>2. p[1] \in Atomic(h) /\ p[2] \in Atomic(h)
      OBVIOUS
<1>3. p[1] \in 0 .. Pow2[W] - 1 /\ p[2] \in 0 .. Pow2[W] - 1
      BY <1>2, AtomicWord
<1>4. /\ w \in 0 .. Pow2[W] - 1 /\ TagOf(w) = 2
      /\ UnpackCar(w) = p[1] /\ UnpackCdr(w) = p[2]
      BY <1>1, <1>3, PackedCons
<1>5. w \in Nat
      BY <1>4
<1> QED BY <1>2, <1>4, <1>5, PackedNoMore

\* Every word of a heap is taken apart again.
LEMMA WordOf ==
    ASSUME NEW h \in Heaps, NEW w \in WordsOf(h)
    PROVE  /\ w \in 0 .. Pow2[W] - 1
           /\ \/ w \in DirectWords /\ IsDirect(w) /\ ~IsIndirect(w) /\ ~IsCons(w)
              \/ /\ ~IsDirect(w) /\ ~IsIndirect(w) /\ TagOf(w) = TAG.CONS /\ IsCons(w)
                 /\ ~IsVector(w) /\ ~Packs(w)
                 /\ UnpackCar(w) \in Atomic(h) /\ UnpackCdr(w) \in Atomic(h)
              \/ \E a \in 1 .. Len(h) : w = Reference(h, a)
<1>1. CASE w \in Atomic(h)
  <2>1. /\ w \in 0 .. Pow2[W] - 1
        /\ \/ w \in DirectWords
           \/ \E a \in 1 .. Len(h) : w = Reference(h, a)
        BY <1>1, AtomicWord
  <2> QED BY <2>1, DirectWordFields
<1>2. CASE w \in PackedConses(h)
  <2>1. /\ w \in 0 .. Pow2[W] - 1
        /\ TagOf(w) = 2 /\ ~Packs(w)
        /\ UnpackCar(w) \in Atomic(h) /\ UnpackCdr(w) \in Atomic(h)
        BY <1>2, PackedWord
  <2>2. ~IsDirect(w) /\ ~IsIndirect(w) /\ TagOf(w) = TAG.CONS /\ IsCons(w) /\ ~IsVector(w)
        BY <2>1 DEF IsDirect, IsIndirect, IsCons, IsVector, TAG
  <2> QED BY <2>1, <2>2
<1> QED BY <1>1, <1>2 DEF WordsOf

-----------------------------------------------------------------------------
(* A heap that grows.                                                      *)

Extends(h, g) == Len(h) <= Len(g) /\ \A a \in 1 .. Len(h) : g[a] = h[a]

LEMMA WordsStay ==
    ASSUME NEW h \in Heaps, NEW g \in Heaps, Extends(h, g)
    PROVE  Atomic(h) \subseteq Atomic(g) /\ WordsOf(h) \subseteq WordsOf(g)
<1>1. /\ h \in Seq(Pair \cup Vector) /\ g \in Seq(Pair \cup Vector)
      /\ DOMAIN h = 1 .. Len(h) /\ DOMAIN g = 1 .. Len(g)
      /\ Len(h) \in Nat /\ Len(g) \in Nat
      BY DEF Heaps
<1>2. ASSUME NEW a \in 1 .. Len(h) PROVE a \in 1 .. Len(g) /\ Reference(h, a) = Reference(g, a)
      BY <1>1 DEF Extends, Reference
<1>3. Atomic(h) \subseteq Atomic(g)
  <2>1. ASSUME NEW w \in Atomic(h) PROVE w \in Atomic(g)
        BY <1>1, <1>2 DEF Atomic
  <2> QED BY <2>1
<1>4. PackedConses(h) \subseteq PackedConses(g)
      BY <1>3 DEF PackedConses
<1> QED BY <1>3, <1>4 DEF WordsOf

LEMMA ObjectStays ==
    ASSUME NEW h \in Heaps, NEW g \in Heaps, Extends(h, g), NEW o, Good(h, o)
    PROVE  Good(g, o)
<1>1. WordsOf(h) \subseteq WordsOf(g)
      BY WordsStay
<1>2. CASE GoodPair(h, o)
      BY <1>1, <1>2 DEF Good, GoodPair
<1>3. CASE GoodVector(h, o)
  <2>1. o.owner \in 1 .. Len(h) /\ o.owner \in DOMAIN g
    <3>1. /\ DOMAIN h = 1 .. Len(h) /\ DOMAIN g = 1 .. Len(g)
          /\ Len(h) \in Nat /\ Len(g) \in Nat
          BY DEF Heaps
    <3> QED BY <1>3, <3>1 DEF GoodVector, Extends
  <2>2. g[o.owner] = h[o.owner]
        BY <2>1 DEF Extends
  <2> QED BY <1>1, <1>3, <2>1, <2>2 DEF Good, GoodVector
<1> QED BY <1>2, <1>3 DEF Good

\* An object at the end of the heap.
LEMMA Allocated ==
    ASSUME NEW h, GoodHeap(h), NEW o \in Pair \cup Vector, Len(h) + 1 < Pow2[W - 7],
           Append(h, o) \in Heaps => Good(Append(h, o), o)
    PROVE  /\ GoodHeap(Append(h, o))
           /\ Extends(h, Append(h, o))
           /\ Reference(Append(h, o), Len(h) + 1) \in WordsOf(Append(h, o))
<1> DEFINE g == Append(h, o)
<1>1. h \in Seq(Pair \cup Vector) /\ h \in Heaps /\ Len(h) \in Nat
      BY DEF GoodHeap, Heaps
<1>2. /\ g \in Seq(Pair \cup Vector) /\ Len(g) = Len(h) + 1
      /\ g[Len(h) + 1] = o /\ \A a \in 1 .. Len(h) : g[a] = h[a]
  <2> DEFINE S == Pair \cup Vector
  <2> HIDE DEF S
  <2>1. o \in S /\ h \in Seq(S)
        BY <1>1 DEF S
  <2>2. /\ g \in Seq(S) /\ Len(g) = Len(h) + 1
        /\ g[Len(h) + 1] = o /\ \A a \in 1 .. Len(h) : g[a] = h[a]
        BY <2>1
  <2> QED BY <2>2 DEF S
<1> HIDE DEF g
<1>3. g \in Heaps /\ Extends(h, g)
      BY <1>1, <1>2 DEF Heaps, Extends
<1>4. ASSUME NEW a \in 1 .. Len(g) PROVE Good(g, g[a])
  <2>1. CASE a \in 1 .. Len(h)
    <3>1. Good(h, h[a])
          BY <2>1 DEF GoodHeap
    <3> QED BY <1>1, <1>2, <1>3, <2>1, <3>1, ObjectStays
  <2>2. CASE a \notin 1 .. Len(h)
    <3>1. a = Len(h) + 1
          BY <1>1, <1>2, <2>2
    <3>2. Good(g, o)
          BY <1>3 DEF g
    <3> QED BY <1>2, <3>1, <3>2
  <2> QED BY <2>1, <2>2
<1>5. Reference(g, Len(h) + 1) \in WordsOf(g)
  <2>1. Len(h) + 1 \in 1 .. Len(g)
        BY <1>1, <1>2
  <2>2. Reference(g, Len(h) + 1) \in Atomic(g)
        BY <1>3, <2>1, ReferenceWord
  <2> QED BY <2>2 DEF WordsOf
<1> QED BY <1>3, <1>4, <1>5 DEF GoodHeap, g

\* A word and the heap it is in, n objects longer at most.
GoodMade(h, made, n) ==
    /\ GoodHeap(made.heap)
    /\ Extends(h, made.heap)
    /\ made.word \in WordsOf(made.heap)
    /\ Len(made.heap) <= Len(h) + n

LEMMA WordMade ==
    ASSUME NEW h, GoodHeap(h), NEW w \in WordsOf(h), NEW n \in Nat
    PROVE  GoodMade(h, Made(w, h), n)
<1>1. Len(h) \in Nat
      BY DEF GoodHeap, Heaps
<1> QED BY <1>1 DEF GoodMade, Made, Extends

LEMMA DirectWordOf ==
    ASSUME NEW h, NEW w \in DirectWords
    PROVE  w \in WordsOf(h)
BY DEF WordsOf, Atomic

\* Cons::Heap.
LEMMA ConsMade ==
    ASSUME NEW h, GoodHeap(h), Len(h) + 1 < Pow2[W - 7],
           NEW car \in WordsOf(h), NEW cdr \in WordsOf(h)
    PROVE  GoodMade(h, MakeCons(car, cdr, h), 1)
<1>1. h \in Heaps /\ h \in Seq(Pair \cup Vector) /\ Len(h) \in Nat
      BY DEF GoodHeap, Heaps
<1>2. CASE Packs(car) /\ Packs(cdr)
  <2>1. ASSUME NEW w \in WordsOf(h), Packs(w) PROVE w \in Atomic(h)
    <3>1. w \notin PackedConses(h)
          BY <1>1, <2>1, PackedWord
    <3> QED BY <3>1 DEF WordsOf
  <2>2. car \in Atomic(h) /\ cdr \in Atomic(h)
        BY <1>2, <2>1
  <2>3. DirectCons(car, cdr) \in WordsOf(h)
    <3>1. <<car, cdr>> \in {q \in Atomic(h) \X Atomic(h) : Packs(q[1]) /\ Packs(q[2])}
          BY <1>2, <2>2
    <3>2. DirectCons(car, cdr) = DirectCons(<<car, cdr>>[1], <<car, cdr>>[2])
          OBVIOUS
    <3>3. DirectCons(car, cdr) \in PackedConses(h)
          BY <3>1, <3>2 DEF PackedConses
    <3> QED BY <3>3 DEF WordsOf
  <2>4. MakeCons(car, cdr, h) = Made(DirectCons(car, cdr), h)
        BY <1>2 DEF MakeCons
  <2> QED BY <2>3, <2>4, WordMade
<1>3. CASE ~(Packs(car) /\ Packs(cdr))
  <2> DEFINE o == [car |-> car, cdr |-> cdr]
             g == Append(h, o)
  <2>1. car \in Int /\ cdr \in Int
    <3>1. car \in 0 .. Pow2[W] - 1 /\ cdr \in 0 .. Pow2[W] - 1
          BY <1>1, WordOf
    <3> QED BY <3>1
  <2>2. o \in Pair /\ o.car = car /\ o.cdr = cdr
        BY <2>1 DEF Pair
  <2> HIDE DEF o
  <2>3. ASSUME g \in Heaps PROVE Good(g, o)
    <3>1. Extends(h, g)
          BY <1>1, <2>2 DEF Extends
    <3>2. WordsOf(h) \subseteq WordsOf(g)
          BY <1>1, <2>3, <3>1, WordsStay
    <3> QED BY <2>2, <3>2 DEF Good, GoodPair
  <2>4. /\ GoodHeap(g) /\ Extends(h, g) /\ Reference(g, Len(h) + 1) \in WordsOf(g)
        BY <2>2, <2>3, Allocated
  <2>5. Len(g) = Len(h) + 1 /\ g[Len(h) + 1] = o
        BY <1>1, <2>2
  <2>6. Reference(g, Len(h) + 1) = EntagIndirect(Len(h) + 1, CLASS.CONS)
        BY <2>2, <2>5, ObjectKinds DEF Reference
  <2>7. MakeCons(car, cdr, h) = Made(EntagIndirect(Len(h) + 1, CLASS.CONS), g)
        BY <1>3 DEF MakeCons, o
  <2> HIDE DEF g
  <2> QED BY <1>1, <2>4, <2>5, <2>6, <2>7 DEF GoodMade, Made
<1> QED BY <1>2, <1>3

-----------------------------------------------------------------------------
(* Lists.                                                                  *)

\* What a list word has for fields.
LEMMA FieldsOfList ==
    ASSUME GoodHeap(heap), NEW w \in WordsOf(heap), IsList(w)
    PROVE  CarOf(w) \in WordsOf(heap) /\ CdrOf(w) \in WordsOf(heap)
<1>1. heap \in Heaps /\ heap \in Seq(Pair \cup Vector)
      BY DEF GoodHeap, Heaps
<1>2. NIL \in WordsOf(heap) /\ ~IsIndirect(NIL)
  <2>1. NIL \in DirectWords
        BY Symbols DEF DirectWords
  <2> QED BY <2>1, DirectWordOf, DirectWordFields
<1>3. CASE w = NIL
      BY <1>2, <1>3 DEF CarOf, CdrOf
<1>4. CASE w # NIL
  <2>1. IsCons(w)
        BY <1>4 DEF IsList
  <2>2. CASE ~IsIndirect(w)
    <3>1. \A a \in 1 .. Len(heap) : w # Reference(heap, a)
          BY <1>1, <2>2, ReferenceWord
    <3>2. UnpackCar(w) \in Atomic(heap) /\ UnpackCdr(w) \in Atomic(heap)
          BY <1>1, <2>1, <3>1, WordOf
    <3> QED BY <1>4, <2>2, <3>2 DEF CarOf, CdrOf, WordsOf
  <2>3. CASE IsIndirect(w)
    <3>1. PICK a \in 1 .. Len(heap) : w = Reference(heap, a)
          BY <1>1, <2>3, WordOf
    <3>2. IndirectData(w) = a /\ heap[a] \in Pair
          BY <1>1, <2>1, <3>1, ReferenceWord
    <3>3. Good(heap, heap[a])
          BY DEF GoodHeap
    <3>4. GoodPair(heap, heap[a])
      <4>1. heap[a] \notin Vector
            BY <3>2, ObjectKinds
      <4> QED BY <3>3, <4>1 DEF Good, GoodVector
    <3> QED BY <1>4, <2>3, <3>2, <3>4 DEF CarOf, CdrOf, GoodPair
  <2> QED BY <2>2, <2>3
<1> QED BY <1>3, <1>4

ConsesOf(h) == {c \in WordsOf(h) : IsCons(c)}

\* What Cons::iter stops at: words of the heap that are conses.
LEMMA ConsesMet ==
    ASSUME GoodHeap(heap), NEW w \in WordsOf(heap)
    PROVE  Conses(w) \in Seq(ConsesOf(heap))
<1> DEFINE more(conses) ==
               LET next == IF conses = <<>> THEN w ELSE CdrOf(Last(conses))
               IN IF IsCons(next) THEN Append(conses, next) ELSE conses
           Def(f, m) == f = [i \in 0 .. m |-> IF i = 0 THEN <<>> ELSE more(f[i - 1])]
           most == 2 * Len(heap) + 1
           S == {m \in 0 .. most : \E f : Def(f, m)}
<1>1. most \in Nat
      BY DEF GoodHeap, Heaps
<1> HIDE DEF more, most
<1>2. 0 \in S
  <2>1. [i \in 0 .. 0 |-> <<>>]
            = [i \in 0 .. 0 |-> IF i = 0 THEN <<>> ELSE more([j \in 0 .. 0 |-> <<>>][i - 1])]
        OBVIOUS
  <2>2. \E f : Def(f, 0)
        BY <2>1
  <2> QED BY <1>1, <2>2
<1>3. ASSUME NEW m \in 1 .. most, m - 1 \in S PROVE m \in S
  <2>1. PICK f : Def(f, m - 1)
        BY <1>3
  <2> DEFINE g == [i \in 0 .. m |-> IF i = m THEN more(f[m - 1]) ELSE f[i]]
  <2>2. ASSUME NEW i \in 0 .. m
        PROVE  g[i] = IF i = 0 THEN <<>> ELSE more(g[i - 1])
    <3>1. CASE i = m
          BY <3>1
    <3>2. CASE i # m
          BY <3>2, <2>1
    <3> QED BY <3>1, <3>2
  <2>3. g = [i \in 0 .. m |-> g[i]]
        OBVIOUS
  <2>4. Def(g, m)
    <3> HIDE DEF g
    <3> QED BY <2>2, <2>3
  <2>5. \E h : Def(h, m)
    <3> HIDE DEF g
    <3> QED BY <2>4
  <2> QED BY <2>5
<1>4. \E f : Def(f, most)
  <2>1. most \in S
    <3> HIDE DEF S
    <3>1. \A i \in 0 .. most : i \in S
          BY <1>1, <1>2, <1>3, IntervalInduction
    <3> QED BY <1>1, <3>1
  <2> QED BY <2>1
<1>5. PICK met : Def(met, most) /\ Conses(w) = met[most]
      BY <1>4 DEF Conses, most, more
<1>6. met[0] = <<>> /\ \A i \in 1 .. most : met[i] = more(met[i - 1])
      BY <1>1, <1>5
<1> HIDE DEF Def
<1> DEFINE C == ConsesOf(heap)
           R == {i \in 0 .. most : met[i] \in Seq(C)}
<1>7. ASSUME NEW conses \in Seq(C) PROVE more(conses) \in Seq(C)
  <2> DEFINE next == IF conses = <<>> THEN w ELSE CdrOf(Last(conses))
  <2>1. next \in WordsOf(heap)
    <3>1. CASE conses # <<>>
      <4>1. Last(conses) \in C
            BY <3>1 DEF Last
      <4> QED BY <3>1, <4>1, FieldsOfList DEF ConsesOf, IsList
    <3> QED BY <3>1
  <2>2. more(conses) = IF IsCons(next) THEN Append(conses, next) ELSE conses
        BY DEF more
  <2>3. IsCons(next) => next \in C
        BY <2>1 DEF ConsesOf
  <2> HIDE DEF next, C
  <2> QED BY <2>2, <2>3
<1> HIDE DEF C
<1>8. 0 \in R
  <2>1. met[0] \in Seq(C) /\ 0 \in 0 .. most
        BY <1>1, <1>6
  <2> QED BY <2>1
<1>9. ASSUME NEW i \in 1 .. most, i - 1 \in R PROVE i \in R
      BY <1>6, <1>7, <1>9
<1>10. most \in R
  <2> HIDE DEF R
  <2>1. \A i \in 0 .. most : i \in R
        BY <1>1, <1>8, <1>9, IntervalInduction
  <2> QED BY <1>1, <2>1
<1> QED BY <1>5, <1>10 DEF C

LEMMA MadeLater ==
    ASSUME NEW h, GoodHeap(h), NEW m, NEW made, NEW i \in Nat, NEW j \in Nat,
           GoodMade(h, m, i), GoodMade(m.heap, made, j)
    PROVE  GoodMade(h, made, i + j)
<1> DEFINE g == m.heap
           k == made.heap
<1>1. /\ g \in Heaps /\ k \in Heaps
      /\ Len(h) \in Nat /\ Len(g) \in Nat /\ Len(k) \in Nat
      BY DEF GoodMade, GoodHeap, Heaps
<1>2. Extends(h, g) /\ Extends(g, k) /\ Len(g) <= Len(h) + i /\ Len(k) <= Len(g) + j
      BY DEF GoodMade
<1>3. Extends(h, k) /\ Len(k) <= Len(h) + (i + j)
  <2> HIDE DEF g, k
  <2> QED BY <1>1, <1>2 DEF Extends
<1> QED BY <1>3 DEF GoodMade

\* Cons::List.
LEMMA ListMade ==
    ASSUME GoodHeap(heap), NEW words \in Seq(DirectWords),
           Len(heap) + Len(words) < Pow2[W - 7]
    PROVE  GoodMade(heap, MakeList(words), Len(words))
<1> DEFINE n == Len(words)
           more(i, rest) == MakeCons(words[n - i + 1], rest.word, rest.heap)
           Def(f, m) == f = [i \in 0 .. m |-> IF i = 0 THEN Made(NIL, heap)
                                              ELSE more(i, f[i - 1])]
           S == {m \in 0 .. n : \E f : Def(f, m)}
<1>1. n \in Nat /\ Len(heap) \in Nat /\ Pow2[W - 7] \in Nat
  <2>1. Len(heap) \in Nat
        BY DEF GoodHeap, Heaps
  <2>2. n \in Nat
        OBVIOUS
  <2> QED BY <2>1, <2>2, Addresses
<1>2. ASSUME NEW i \in 1 .. n, NEW rest, GoodMade(heap, rest, i - 1)
      PROVE  GoodMade(heap, more(i, rest), i)
  <2>1. words[n - i + 1] \in WordsOf(rest.heap)
    <3>1. n - i + 1 \in 1 .. n
          BY <1>1
    <3> QED BY <3>1, DirectWordOf
  <2>2. GoodHeap(rest.heap) /\ rest.word \in WordsOf(rest.heap) /\ Len(rest.heap) <= Len(heap) + (i - 1)
        BY <1>2 DEF GoodMade
  <2>3. Len(rest.heap) \in Nat
        BY <2>2 DEF GoodHeap, Heaps
  <2>4. Len(rest.heap) + 1 < Pow2[W - 7]
        BY <1>1, <2>2, <2>3
  <2>5. GoodMade(rest.heap, more(i, rest), 1)
        BY <2>1, <2>2, <2>4, ConsMade
  <2> HIDE DEF more
  <2>6. GoodMade(heap, more(i, rest), (i - 1) + 1)
        BY <1>1, <1>2, <2>5, MadeLater
  <2>7. (i - 1) + 1 = i
        OBVIOUS
  <2> QED BY <2>6, <2>7
<1> HIDE DEF more, n
<1>3. 0 \in S
  <2>1. [i \in 0 .. 0 |-> Made(NIL, heap)]
            = [i \in 0 .. 0 |-> IF i = 0 THEN Made(NIL, heap)
                                ELSE more(i, [j \in 0 .. 0 |-> Made(NIL, heap)][i - 1])]
        OBVIOUS
  <2>2. \E f : Def(f, 0)
        BY <2>1
  <2> QED BY <1>1, <2>2
<1>4. ASSUME NEW m \in 1 .. n, m - 1 \in S PROVE m \in S
  <2>1. PICK f : Def(f, m - 1)
        BY <1>4
  <2> DEFINE g == [i \in 0 .. m |-> IF i = m THEN more(m, f[m - 1]) ELSE f[i]]
  <2>2. ASSUME NEW i \in 0 .. m
        PROVE  g[i] = IF i = 0 THEN Made(NIL, heap) ELSE more(i, g[i - 1])
    <3>1. CASE i = m
          BY <3>1
    <3>2. CASE i # m
          BY <3>2, <2>1
    <3> QED BY <3>1, <3>2
  <2>3. g = [i \in 0 .. m |-> g[i]]
        OBVIOUS
  <2>4. Def(g, m)
    <3> HIDE DEF g
    <3> QED BY <2>2, <2>3
  <2>5. \E h : Def(h, m)
    <3> HIDE DEF g
    <3> QED BY <2>4
  <2> QED BY <2>5
<1>5. \E f : Def(f, n)
  <2>1. n \in S
    <3> HIDE DEF S
    <3>1. \A i \in 0 .. n : i \in S
          BY <1>1, <1>3, <1>4, IntervalInduction
    <3> QED BY <1>1, <3>1
  <2> QED BY <2>1
<1>6. PICK made : Def(made, n) /\ MakeList(words) = made[n]
      BY <1>5 DEF MakeList, n, more
<1>7. made[0] = Made(NIL, heap) /\ \A i \in 1 .. n : made[i] = more(i, made[i - 1])
      BY <1>1, <1>6
<1> HIDE DEF Def
<1> DEFINE R == {i \in 0 .. n : GoodMade(heap, made[i], i)}
<1>8. 0 \in R
  <2>1. NIL \in WordsOf(heap)
        BY Symbols, DirectWordOf DEF DirectWords
  <2> QED BY <1>1, <1>7, <2>1, WordMade
<1>9. ASSUME NEW i \in 1 .. n, i - 1 \in R PROVE i \in R
      BY <1>2, <1>7, <1>9
<1>10. n \in R
  <2> HIDE DEF R
  <2>1. \A i \in 0 .. n : i \in R
        BY <1>1, <1>8, <1>9, IntervalInduction
  <2> QED BY <1>1, <2>1
<1> QED BY <1>6, <1>10 DEF n

-----------------------------------------------------------------------------
(* Vectors.                                                                *)

\* What a vector word says of its vector: the elements of one of type T are
\* words of the heap, those of the others are numbers.
LEMMA VectorWord ==
    ASSUME GoodHeap(heap), NEW w \in WordsOf(heap), IsVector(w)
    PROVE  \/ w \in ShortTexts(CLASS.VECTOR) /\ IsDirect(w)
           \/ /\ ~IsDirect(w)
              /\ IndirectData(w) \in DOMAIN heap
              /\ GoodVector(heap, Layout(w))
              /\ GoodVector(heap, heap[Layout(w).owner])
<1>1. heap \in Heaps /\ heap \in Seq(Pair \cup Vector)
      BY DEF GoodHeap, Heaps
<1>2. CASE w \in DirectWords
      BY <1>2, DirectWordFields
<1>3. CASE w \notin DirectWords
  <2>1. PICK a \in 1 .. Len(heap) : w = Reference(heap, a)
        BY <1>1, <1>3, WordOf
  <2>2. ~IsDirect(w) /\ IndirectData(w) = a /\ heap[a] \in Vector
        BY <1>1, <2>1, ReferenceWord
  <2>3. ASSUME NEW b \in 1 .. Len(heap), heap[b] \in Vector PROVE GoodVector(heap, heap[b])
    <3>1. Good(heap, heap[b])
          BY DEF GoodHeap
    <3>2. heap[b] \notin Pair
          BY <2>3, ObjectKinds
    <3> QED BY <3>1, <3>2 DEF Good, GoodPair
  <2>4. GoodVector(heap, heap[a]) /\ Layout(w) = heap[a] /\ a \in DOMAIN heap
        BY <1>1, <2>2, <2>3 DEF Layout
  <2>5. heap[a].owner \in 1 .. Len(heap) /\ heap[heap[a].owner] \in Vector
        BY <1>1, <2>4 DEF GoodVector
  <2>6. GoodVector(heap, heap[heap[a].owner])
        BY <2>3, <2>5
  <2> QED BY <2>2, <2>4, <2>6
<1> QED BY <1>2, <1>3

LEMMA VectorClasses ==
    ASSUME GoodHeap(heap), NEW w \in WordsOf(heap), IsVector(w)
    PROVE  /\ VectorClass(w) \in CLASSES
           /\ VectorLen(w) \in Nat
           /\ ~IsDirect(w) => Layout(w).type = MapClassSymbol(VectorClass(w))
<1>1. CASE IsDirect(w)
  <2>1. w \in ShortTexts(CLASS.VECTOR)
        BY <1>1, VectorWord
  <2>2. DirectSize(w) \in 0 .. DIRECT_STR_MAX /\ DIRECT_STR_MAX \in 3 .. 7
    <3>1. CLASS.VECTOR \in 0 .. 7
          BY DEF CLASS
    <3> QED BY <2>1, <3>1, ShortTextFields, Scales
  <2> QED BY <1>1, <2>2 DEF VectorClass, VectorLen, CLASSES
<1>2. CASE ~IsDirect(w)
  <2>1. Layout(w) \in Vector
        BY <1>2, VectorWord DEF GoodVector
  <2>2. PICK c \in CLASSES : Layout(w).type = MapClassSymbol(c)
        BY <2>1 DEF Vector
  <2>3. VectorClass(w) = c
        BY <1>2, <2>2, ClassSymbols DEF VectorClass
  <2>4. VectorLen(w) \in Nat
        BY <1>2, <2>1 DEF VectorLen, Vector
  <2> QED BY <2>2, <2>3, <2>4
<1> QED BY <1>1, <1>2

\* The element of a vector.
LEMMA Element ==
    ASSUME GoodHeap(heap), NEW w \in WordsOf(heap), IsVector(w),
           NEW i \in Nat, i < VectorLen(w)
    PROVE  /\ Ref(w, i) \in Int
           /\ VectorClass(w) = CLASS.T => Ref(w, i) \in WordsOf(heap)
<1>1. CASE IsDirect(w)
  <2>1. w \in ShortTexts(CLASS.VECTOR)
        BY <1>1, VectorWord
  <2>2. DirectText(w) \in Seq(CODE) /\ Len(DirectText(w)) = DirectSize(w)
    <3>1. CLASS.VECTOR \in 0 .. 7
          BY DEF CLASS
    <3> QED BY <2>1, <3>1, ShortTextFields
  <2>3. i + 1 \in 1 .. Len(DirectText(w))
        BY <1>1, <2>2 DEF VectorLen
  <2>4. DirectText(w)[i + 1] \in CODE
    <3> DEFINE s == DirectText(w)
    <3> HIDE DEF s
    <3>1. s \in Seq(CODE) /\ i + 1 \in 1 .. Len(s)
          BY <2>2, <2>3 DEF s
    <3>2. s[i + 1] \in CODE
          BY <3>1
    <3> QED BY <3>2 DEF s
  <2>5. Ref(w, i) \in Int
        BY <1>1, <2>4 DEF Ref, CODE
  <2>6. VectorClass(w) # CLASS.T
        BY <1>1 DEF VectorClass, CLASS
  <2> QED BY <2>5, <2>6
<1>2. CASE ~IsDirect(w)
  <2> DEFINE o == Layout(w)
             v == heap[o.owner]
             j == o.offset + i + 1
  <2>1. GoodVector(heap, o) /\ GoodVector(heap, v)
        BY <1>2, VectorWord
  <2>2. Ref(w, i) = v.data[j] /\ VectorLen(w) = o.length
        BY <1>2 DEF Ref, VectorLen
  <2> HIDE DEF o, v
  <2>3. o.offset \in Nat /\ o.length \in Nat /\ v.data \in Seq(Int)
        BY <2>1 DEF GoodVector, Vector
  <2>4. o.offset + o.length <= Len(v.data)
        BY <2>1 DEF GoodVector, v
  <2>5. j \in 1 .. Len(v.data)
        BY <2>2, <2>3, <2>4
  <2>6. v.data[j] \in Int
        BY <2>3, <2>5
  <2>7. VectorClass(w) = CLASS.T => v.type = T
    <3>1. VectorClass(w) = CLASS.T => o.type = MapClassSymbol(CLASS.T)
          BY <1>2, VectorClasses DEF o
    <3> QED BY <2>1, <3>1 DEF GoodVector, T, v
  <2>8. VectorClass(w) = CLASS.T => v.data[j] \in WordsOf(heap)
        BY <2>1, <2>5, <2>7 DEF GoodVector
  <2> QED BY <2>2, <2>6, <2>8
<1> QED BY <1>1, <1>2

\* Vector::Heap.
LEMMA VectorMade ==
    ASSUME GoodHeap(heap), Len(heap) + 1 < Pow2[W - 7],
           NEW class \in CLASSES, NEW data \in Seq(Int),
           class = CLASS.T => \A i \in 1 .. Len(data) : data[i] \in WordsOf(heap)
    PROVE  GoodMade(heap, MakeVector(class, data), 1)
<1> DEFINE addr == Len(heap) + 1
           o == [type |-> MapClassSymbol(class), length |-> Len(data),
                 owner |-> addr, offset |-> 0, data |-> data]
           g == Append(heap, o)
<1>1. heap \in Heaps /\ heap \in Seq(Pair \cup Vector) /\ Len(heap) \in Nat
      BY DEF GoodHeap, Heaps
<1>2. /\ o \in Vector /\ o.type = MapClassSymbol(class) /\ o.length = Len(data)
      /\ o.owner = addr /\ o.offset = 0 /\ o.data = data
  <2>1. addr \in Nat /\ Len(data) \in Nat
        BY <1>1
  <2> HIDE DEF addr
  <2> QED BY <2>1 DEF Vector
<1> HIDE DEF o
<1>3. Len(g) = addr /\ g[addr] = o /\ DOMAIN g = 1 .. addr
      BY <1>1, <1>2
<1>4. MakeVector(class, data) = Made(EntagIndirect(addr, CLASS.VECTOR), g)
      BY DEF MakeVector, o
<1>5. ASSUME g \in Heaps PROVE Good(g, o)
  <2>1. Extends(heap, g)
        BY <1>1, <1>2 DEF Extends
  <2>2. WordsOf(heap) \subseteq WordsOf(g)
        BY <1>1, <1>5, <2>1, WordsStay
  <2>3. o.type = T => class = CLASS.T
    <3>1. CLASS.T \in CLASSES
          BY DEF CLASSES
    <3> QED BY <1>2, <3>1, ClassSymbols DEF T
  <2>4. o.type = T => \A i \in 1 .. Len(o.data) : o.data[i] \in WordsOf(g)
        BY <1>2, <2>2, <2>3
  <2>5. addr \in DOMAIN g /\ Len(data) \in Nat
        BY <1>1, <1>3
  <2> HIDE DEF g, addr
  <2>6. GoodVector(g, o)
        BY <1>2, <1>3, <2>4, <2>5 DEF GoodVector
  <2> QED BY <2>6 DEF Good
<1>6. /\ GoodHeap(g) /\ Extends(heap, g) /\ Reference(g, Len(heap) + 1) \in WordsOf(g)
      BY <1>2, <1>5, Allocated
<1>7. Reference(g, addr) = EntagIndirect(addr, CLASS.VECTOR)
      BY <1>2, <1>3, ObjectKinds DEF Reference
<1> HIDE DEF g
<1> QED BY <1>1, <1>3, <1>4, <1>6, <1>7 DEF GoodMade, Made

LEMMA StringMade ==
    ASSUME GoodHeap(heap), Len(heap) + 1 < Pow2[W - 7],
           \A hash \in DOMAIN interned : interned[hash] \in WordsOf(heap),
           NEW key, NEW text \in Seq(CODE)
    PROVE  GoodMade(heap, MakeString(key, text), 1)
<1>1. CASE Len(text) <= DIRECT_STR_MAX
  <2>1. CLASS.VECTOR \in 0 .. 7
        BY DEF CLASS
  <2>2. DirectString(text) \in ShortTexts(CLASS.VECTOR)
        BY <1>1, <2>1, ShortTextWord DEF DirectString
  <2>3. DirectString(text) \in WordsOf(heap)
        BY <2>2, DirectWordOf DEF DirectWords
  <2> QED BY <1>1, <2>3, WordMade DEF MakeString
<1>2. CASE ~(Len(text) <= DIRECT_STR_MAX) /\ Hash(key) \in DOMAIN interned
  <2>1. interned[Hash(key)] \in WordsOf(heap)
        BY <1>2
  <2>2. MakeString(key, text) = Made(interned[Hash(key)], heap)
        BY <1>2 DEF MakeString
  <2> QED BY <2>1, <2>2, WordMade
<1>3. CASE ~(Len(text) <= DIRECT_STR_MAX) /\ Hash(key) \notin DOMAIN interned
  <2>1. MakeString(key, text) = MakeVector(CLASS.CHAR, text)
        BY <1>3 DEF MakeString
  <2>2. CLASS.CHAR \in CLASSES /\ CLASS.CHAR # CLASS.T
        BY DEF CLASSES, CLASS
  <2>3. text \in Seq(Int)
    <3>1. CODE \subseteq Int
          BY DEF CODE
    <3> QED BY <3>1, SeqMonotonic
  <2> QED BY <2>1, <2>2, <2>3, VectorMade
<1> QED BY <1>1, <1>2, <1>3

-----------------------------------------------------------------------------
(* The invariant.                                                          *)

Longest ==
    CHOOSE longest \in 0 .. Pow2[W - 7] :
        /\ \A l \in Lists : Len(l) <= longest
        /\ MaxSteps * (longest + 1) < Pow2[W - 7]

WordsInv ==
    /\ steps \in 0 .. MaxSteps
    /\ Len(heap) <= steps * (Longest + 1)
    /\ GoodHeap(heap)
    /\ stack \in Seq(WordsOf(heap))
    /\ \A hash \in DOMAIN interned : interned[hash] \in WordsOf(heap)

LEMMA LongestList ==
    /\ MaxSteps \in Nat /\ Longest \in Nat
    /\ \A l \in Lists : Len(l) <= Longest
    /\ MaxSteps * (Longest + 1) < Pow2[W - 7]
<1>1. \E longest \in 0 .. Pow2[W - 7] :
          /\ \A l \in Lists : Len(l) <= longest
          /\ MaxSteps * (longest + 1) < Pow2[W - 7]
      BY ValueAssumption
<1>2. /\ Longest \in 0 .. Pow2[W - 7]
      /\ \A l \in Lists : Len(l) <= Longest
      /\ MaxSteps * (Longest + 1) < Pow2[W - 7]
      BY <1>1 DEF Longest
<1>3. MaxSteps \in Nat
      BY ValueAssumption
<1>4. Longest \in Nat
      BY <1>2, Addresses
<1> QED BY <1>2, <1>3, <1>4

\* There is room for what one more step makes.
LEMMA Room ==
    ASSUME WordsInv, steps < MaxSteps
    PROVE  /\ Len(heap) \in Nat /\ Longest \in Nat
           /\ Len(heap) + (Longest + 1) < Pow2[W - 7]
           /\ Len(heap) + 1 < Pow2[W - 7]
<1> DEFINE k == Longest + 1
<1>1. /\ Longest \in Nat /\ MaxSteps \in Nat /\ MaxSteps * k < Pow2[W - 7] /\ Pow2[W - 7] \in Nat
      BY LongestList, Addresses
<1>2. steps \in Nat /\ steps + 1 <= MaxSteps /\ Len(heap) \in Nat /\ Len(heap) <= steps * k
  <2>1. Len(heap) \in Nat
        BY DEF WordsInv, GoodHeap, Heaps
  <2>2. steps \in Nat /\ steps + 1 <= MaxSteps
        BY <1>1 DEF WordsInv
  <2> QED BY <2>1, <2>2 DEF WordsInv
<1>3. k \in Nat /\ k >= 1
      BY <1>1
<1> HIDE DEF k
<1>4. (steps + 1) * k <= MaxSteps * k
  <2>1. steps + 1 \in Nat
        BY <1>2
  <2> QED BY <1>1, <1>2, <1>3, <2>1, Product
<1>5. (steps + 1) * k = (steps * k) + k /\ steps * k \in Nat /\ MaxSteps * k \in Nat
      BY <1>1, <1>2, <1>3
<1>6. Len(heap) + k < Pow2[W - 7]
      BY <1>1, <1>2, <1>3, <1>4, <1>5
<1>7. Len(heap) + 1 < Pow2[W - 7]
      BY <1>1, <1>2, <1>3, <1>6
<1> QED BY <1>1, <1>2, <1>6, <1>7 DEF k

LEMMA Returned ==
    ASSUME WordsInv, steps < MaxSteps, steps' = steps + 1,
           NEW n \in Nat, Len(stack) >= n,
           NEW made, GoodMade(heap, made, Longest + 1), Return(n, made),
           \A hash \in DOMAIN interned' : interned'[hash] \in WordsOf(made.heap)
    PROVE  WordsInv'
<1>1. PICK g : g = made.heap
      OBVIOUS
<1>2. heap' = g /\ stack' = Append(Below(n), made.word) /\ made.word \in WordsOf(g)
      BY <1>1 DEF Return, GoodMade
<1>3. GoodHeap(g) /\ Extends(heap, g) /\ Len(g) <= Len(heap) + (Longest + 1)
      BY <1>1 DEF GoodMade
<1>4. heap \in Heaps /\ g \in Heaps /\ Len(g) \in Nat
      BY <1>3 DEF WordsInv, GoodHeap, Heaps
<1>5. steps' \in 0 .. MaxSteps
      BY LongestList DEF WordsInv
<1>6. Len(g) <= steps' * (Longest + 1)
  <2> DEFINE k == Longest + 1
  <2>1. k \in Nat /\ steps \in Nat /\ Len(heap) \in Nat
        BY LongestList, Room DEF WordsInv
  <2>2. Len(heap) <= steps * k
        BY DEF WordsInv
  <2>3. Len(g) <= Len(heap) + k
        BY <1>3
  <2> HIDE DEF k
  <2>4. (steps + 1) * k = (steps * k) + k /\ steps * k \in Nat
        BY <2>1
  <2>5. Len(g) <= (steps + 1) * k
        BY <1>4, <2>1, <2>2, <2>3, <2>4
  <2> QED BY <2>5 DEF k
<1>7. stack' \in Seq(WordsOf(g))
  <2>1. WordsOf(heap) \subseteq WordsOf(g)
        BY <1>3, <1>4, WordsStay
  <2>2. stack \in Seq(WordsOf(heap))
        BY DEF WordsInv
  <2>3. stack \in Seq(WordsOf(g))
        BY <2>1, <2>2, SeqMonotonic
  <2> DEFINE S == WordsOf(g)
  <2> HIDE DEF S
  <2>4. stack \in Seq(S) /\ made.word \in S
        BY <1>2, <2>3 DEF S
  <2>5. Below(n) \in Seq(S)
    <3>1. Len(stack) \in Nat /\ Len(stack) - n \in 0 .. Len(stack)
          BY <2>4
    <3> QED BY <2>4, <3>1 DEF Below
  <2>6. stack' \in Seq(S)
        BY <1>2, <2>4, <2>5
  <2> QED BY <2>6 DEF S
<1>8. \A hash \in DOMAIN interned' : interned'[hash] \in WordsOf(g)
      BY <1>1
<1> QED BY <1>2, <1>3, <1>5, <1>6, <1>7, <1>8 DEF WordsInv

LEMMA Raised ==
    ASSUME WordsInv, steps < MaxSteps, steps' = steps + 1, Raise, UNCHANGED interned
    PROVE  WordsInv'
<1>1. heap' = heap /\ interned' = interned /\ stack' = <<>>
      BY DEF Raise
<1>2. steps' \in 0 .. MaxSteps
      BY LongestList DEF WordsInv
<1>3. Len(heap) <= steps' * (Longest + 1)
  <2> DEFINE k == Longest + 1
  <2>1. k \in Nat /\ steps \in Nat /\ Len(heap) \in Nat
        BY LongestList, Room DEF WordsInv
  <2>2. Len(heap) <= steps * k
        BY DEF WordsInv
  <2> HIDE DEF k
  <2>3. (steps + 1) * k = (steps * k) + k /\ steps * k \in Nat
        BY <2>1
  <2>4. Len(heap) <= (steps + 1) * k
        BY <2>1, <2>2, <2>3
  <2> QED BY <2>4 DEF k
<1>4. stack' \in Seq(WordsOf(heap))
      BY <1>1
<1> QED BY <1>1, <1>2, <1>3, <1>4 DEF WordsInv

\* A handler that returns an object it has made or raises an error.
LEMMA Handled ==
    ASSUME WordsInv, steps < MaxSteps, steps' = steps + 1, UNCHANGED interned,
           NEW n \in Nat, Len(stack) >= n, NEW made,
           \/ Return(n, made) /\ GoodMade(heap, made, Longest + 1)
           \/ Raise
    PROVE  WordsInv'
<1>1. CASE Return(n, made) /\ GoodMade(heap, made, Longest + 1)
  <2>1. heap \in Heaps /\ made.heap \in Heaps /\ Extends(heap, made.heap)
        BY <1>1 DEF WordsInv, GoodMade, GoodHeap
  <2>2. WordsOf(heap) \subseteq WordsOf(made.heap)
        BY <2>1, WordsStay
  <2>3. \A hash \in DOMAIN interned' : interned'[hash] \in WordsOf(made.heap)
        BY <2>2 DEF WordsInv
  <2> QED BY <1>1, <2>3, Returned
<1>2. CASE Raise
      BY <1>2, Raised
<1> QED BY <1>1, <1>2

\* A handler that returns a word of the heap as it is.
LEMMA HandledWord ==
    ASSUME WordsInv, steps < MaxSteps, steps' = steps + 1, UNCHANGED interned,
           NEW n \in Nat, Len(stack) >= n, NEW w,
           \/ Return(n, Made(w, heap)) /\ w \in WordsOf(heap)
           \/ Raise
    PROVE  WordsInv'
<1>1. Longest + 1 \in Nat /\ GoodHeap(heap)
      BY LongestList DEF WordsInv
<1>2. CASE Return(n, Made(w, heap)) /\ w \in WordsOf(heap)
  <2>1. GoodMade(heap, Made(w, heap), Longest + 1)
        BY <1>1, <1>2, WordMade
  <2> QED BY <1>2, <2>1, Handled
<1>3. CASE Raise
      BY <1>3, Raised
<1> QED BY <1>2, <1>3

LEMMA OneMade ==
    ASSUME NEW made, GoodMade(heap, made, 1)
    PROVE  GoodMade(heap, made, Longest + 1)
<1>1. Len(made.heap) <= Len(heap) + 1 /\ Longest \in Nat
      BY LongestList DEF GoodMade
<1>2. Len(made.heap) <= Len(heap) + (Longest + 1)
  <2>1. Len(made.heap) \in Nat
        BY DEF GoodMade, GoodHeap, Heaps
  <2> QED BY <1>1, <2>1
<1> QED BY <1>2 DEF GoodMade

-----------------------------------------------------------------------------
(* What the handlers compute with.                                         *)

LEMMA ArgWord ==
    ASSUME WordsInv, NEW i \in Nat, Len(stack) >= i + 1
    PROVE  Arg(i) \in WordsOf(heap)
<1>1. stack \in Seq(WordsOf(heap)) /\ Len(stack) \in Nat
      BY DEF WordsInv
<1>2. Len(stack) - i \in 1 .. Len(stack)
      BY <1>1
<1>3. stack[Len(stack) - i] \in WordsOf(heap)
      BY <1>1, <1>2, ElementOfSeq
<1> QED BY <1>3 DEF Arg

LEMMA IntegerOfWord ==
    ASSUME WordsInv, NEW w \in WordsOf(heap)
    PROVE  Int64Of(w) \in Int /\ UInt64Of(w) \in Int
<1>1. w \in Int
  <2>1. heap \in Heaps
        BY DEF WordsInv, GoodHeap
  <2>2. w \in 0 .. Pow2[W] - 1
        BY <2>1, WordOf
  <2> QED BY <2>2
<1>2. /\ Pow2[W] \in Nat \ {0} /\ Pow2[W - 1] \in Nat /\ Pow2[8] = 256
      BY WordSize, SmallPowers
<1>3. Signed(w) \in Int
      BY <1>1, <1>2 DEF Signed
<1>4. Int64Of(w) \in Int
      BY <1>3 DEF Int64Of
<1>5. UInt64Of(w) \in Int
  <2>1. UInt64Of(w) = (Signed(w) \div 256) % Pow2[W]
        BY <1>2 DEF UInt64Of, DirectData, Asr, Word
  <2>2. Signed(w) \div 256 \in Int
        BY <1>3
  <2> QED BY <1>2, <2>1, <2>2
<1> QED BY <1>4, <1>5

LEMMA FixnumOf ==
    ASSUME NEW h, NEW i \in Int
    PROVE  Fixnum(i) \in WordsOf(h)
<1>1. Fixnum(i) \in Numbers
      BY FixnumWord DEF Numbers
<1> QED BY <1>1, DirectWordOf DEF DirectWords

LEMMA CharacterOf ==
    ASSUME NEW h, NEW i \in Int
    PROVE  CharOf(i) \in WordsOf(h)
BY CharOfWord, DirectWordOf DEF DirectWords

LEMMA BoolOf ==
    ASSUME NEW h
    PROVE  NIL \in WordsOf(h) /\ T \in WordsOf(h)
BY Symbols, DirectWordOf DEF DirectWords

LEMMA ClassOf ==
    ASSUME NEW h, NEW class \in CLASSES
    PROVE  MapClassSymbol(class) \in WordsOf(h)
BY ClassSymbols, DirectWordOf DEF DirectWords

\* The quotient of C++.
LEMMA QuoInteger ==
    ASSUME NEW i \in Int, NEW j \in Int \ {0}
    PROVE  Quo(i, j) \in Int
<1>1. Abs(i) \in Nat /\ Abs(j) \in Nat \ {0}
      BY DEF Abs
<1>2. \A u \in Nat, v \in Nat \ {0} : u \div v \in Nat
      OBVIOUS
<1>3. Abs(i) \div Abs(j) \in Nat
      BY <1>1, <1>2
<1> QED BY <1>3 DEF Quo

LEMMA Quotients ==
    ASSUME NEW i \in Int, NEW j \in Int \ {0}
    PROVE  /\ Truncated(i, j)[1] \in Int /\ Truncated(i, j)[2] \in Int
           /\ Floored(i, j)[1] \in Int /\ Floored(i, j)[2] \in Int
<1> DEFINE quot == IF i < j THEN 0 ELSE Quo(i, j)
           rem == i - (Quo(i, j) * j)
<1>1. quot \in Int /\ Quo(i, j) \in Int
      BY QuoInteger
<1>2. \A u, v, k \in Int : k - (u * v) \in Int
      OBVIOUS
<1>3. rem \in Int /\ i - (j * quot) \in Int
      BY <1>1, <1>2
<1>4. /\ Truncated(i, j)[1] = quot
      /\ Truncated(i, j)[2] = IF quot = 0 THEN i ELSE i - (j * quot)
      BY DEF Truncated
<1>5. /\ Floored(i, j)[1] = Quo(i - rem, j)
      /\ Floored(i, j)[2] = rem
      BY DEF Floored
<1> HIDE DEF rem, quot
<1>6. Quo(i - rem, j) \in Int
      BY <1>3, QuoInteger
<1> QED BY <1>1, <1>3, <1>4, <1>5, <1>6

LEMMA BitNumber ==
    ASSUME NEW w \in Int, NEW n \in 0 .. W
    PROVE  Bit(w, n) \in Int
<1>1. Pow2[n] \in Nat \ {0}
      BY Powers
<1>2. w \div Pow2[n] \in Int
      BY <1>1
<1> QED BY <1>2 DEF Bit

LEMMA BitwiseNumber ==
    ASSUME NEW i \in Int, NEW j \in Int
    PROVE  WordAnd(Word(i), Word(j)) \in Int /\ WordOr(Word(i), Word(j)) \in Int
<1> DEFINE v == Word(i)
           w == Word(j)
           and == [k \in 1 .. W |-> Bit(v, k - 1) * Bit(w, k - 1) * Pow2[k - 1]]
           or == [k \in 1 .. W |->
                     (IF Bit(v, k - 1) + Bit(w, k - 1) = 0 THEN 0 ELSE 1) * Pow2[k - 1]]
<1>1. v \in Int /\ w \in Int
  <2>1. Pow2[W] \in Nat \ {0}
        BY WordSize
  <2> QED BY <2>1 DEF Word
<1>2. W \in Nat
      BY TagAssumption
<1> HIDE DEF v, w
<1>3. ASSUME NEW k \in 1 .. W
      PROVE  /\ Bit(v, k - 1) * Bit(w, k - 1) * Pow2[k - 1] \in Int
             /\ (IF Bit(v, k - 1) + Bit(w, k - 1) = 0 THEN 0 ELSE 1) * Pow2[k - 1] \in Int
  <2>1. k - 1 \in 0 .. W
        BY <1>2
  <2>2. Bit(v, k - 1) \in Int /\ Bit(w, k - 1) \in Int
        BY <1>1, <2>1, BitNumber
  <2>3. Pow2[k - 1] \in Int
        BY <2>1, Powers
  <2>4. \A x, y, z \in Int : x * y * z \in Int /\ (IF x + y = 0 THEN 0 ELSE 1) * z \in Int
        OBVIOUS
  <2> QED BY <2>2, <2>3, <2>4
<1>4. and \in [1 .. W -> Int] /\ or \in [1 .. W -> Int]
      BY <1>3
<1>5. WordAnd(v, w) = Total(and) /\ WordOr(v, w) = Total(or)
      BY DEF WordAnd, WordOr
<1> HIDE DEF and, or
<1>6. Total(and) \in Int /\ Total(or) \in Int
  <2>1. ASSUME NEW s \in [1 .. W -> Int] PROVE Total(s) \in Int
    <3>1. PICK sum \in [0 .. W -> Int] : Total(s) = sum[W]
          BY <1>2, TotalSum
    <3> QED BY <1>2, <3>1
  <2> QED BY <1>4, <2>1
<1> QED BY <1>5, <1>6 DEF v, w

-----------------------------------------------------------------------------
(* The handlers on fixnums and characters.                                 *)

LEMMA NumericSteps ==
    ASSUME WordsInv,
           \/ FixAdd \/ FixSub \/ FixMul \/ FixLessThan \/ Logand \/ Logor
    PROVE  WordsInv'
<1> DEFINE i == Int64Of(Arg(1))
           j == Int64Of(Arg(0))
<1>1. SUFFICES ASSUME Len(stack) \in Nat, Len(stack) >= 2 PROVE WordsInv'
      BY DEF WordsInv, FixAdd, FixSub, FixMul, FixLessThan, Logand, Logor,
             Numeric, Pure, Handler
<1>2. i \in Int /\ j \in Int
  <2>1. Arg(0) \in WordsOf(heap) /\ Arg(1) \in WordsOf(heap)
        BY <1>1, ArgWord
  <2> QED BY <2>1, IntegerOfWord
<1>3. /\ Fixnum(i + j) \in WordsOf(heap)
      /\ Fixnum(i - j) \in WordsOf(heap)
      /\ Fixnum(i * j) \in WordsOf(heap)
      /\ Bool(i < j) \in WordsOf(heap)
      /\ Fixnum(WordAnd(Word(i), Word(j))) \in WordsOf(heap)
      /\ Fixnum(WordOr(Word(i), Word(j))) \in WordsOf(heap)
  <2> HIDE DEF i, j
  <2>1. i + j \in Int /\ i - j \in Int /\ i * j \in Int
        BY <1>2
  <2>2. WordAnd(Word(i), Word(j)) \in Int /\ WordOr(Word(i), Word(j)) \in Int
        BY <1>2, BitwiseNumber
  <2>3. Bool(i < j) \in WordsOf(heap)
        BY BoolOf DEF Bool
  <2> QED BY <2>1, <2>2, <2>3, FixnumOf
<1>4. CASE FixAdd
      BY <1>3, <1>4, HandledWord DEF FixAdd, Numeric, Pure, Handler, Called
<1>5. CASE FixSub
      BY <1>3, <1>5, HandledWord DEF FixSub, Numeric, Pure, Handler, Called
<1>6. CASE FixMul
      BY <1>3, <1>6, HandledWord DEF FixMul, Numeric, Pure, Handler, Called
<1>7. CASE FixLessThan
      BY <1>3, <1>7, HandledWord DEF FixLessThan, Numeric, Pure, Handler, Called
<1>8. CASE Logand
      BY <1>3, <1>8, HandledWord DEF Logand, Numeric, Pure, Handler, Called
<1>9. CASE Logor
      BY <1>3, <1>9, HandledWord DEF Logor, Numeric, Pure, Handler, Called
<1> QED BY <1>4, <1>5, <1>6, <1>7, <1>8, <1>9

LEMMA DivisionSteps ==
    ASSUME WordsInv, Truncate \/ Floor
    PROVE  WordsInv'
<1> DEFINE i == Int64Of(Arg(1))
           j == Int64Of(Arg(0))
           trunc == MakeCons(Fixnum(Truncated(i, j)[1]), Fixnum(Truncated(i, j)[2]), heap)
           floor == MakeCons(Fixnum(Floored(i, j)[1]), Fixnum(Floored(i, j)[2]), heap)
<1>1. SUFFICES ASSUME Len(stack) \in Nat, Len(stack) >= 2, steps < MaxSteps PROVE WordsInv'
      BY DEF WordsInv, Truncate, Floor, Divide, Handler, Called
<1>2. i \in Int /\ j \in Int
  <2>1. Arg(0) \in WordsOf(heap) /\ Arg(1) \in WordsOf(heap)
        BY <1>1, ArgWord
  <2> QED BY <2>1, IntegerOfWord
<1>3. ASSUME j # 0
      PROVE  GoodMade(heap, trunc, Longest + 1) /\ GoodMade(heap, floor, Longest + 1)
  <2> HIDE DEF i, j
  <2>1. /\ Fixnum(Truncated(i, j)[1]) \in WordsOf(heap)
        /\ Fixnum(Truncated(i, j)[2]) \in WordsOf(heap)
        /\ Fixnum(Floored(i, j)[1]) \in WordsOf(heap)
        /\ Fixnum(Floored(i, j)[2]) \in WordsOf(heap)
        BY <1>2, <1>3, Quotients, FixnumOf
  <2>2. GoodHeap(heap) /\ Len(heap) + 1 < Pow2[W - 7]
        BY <1>1, Room DEF WordsInv
  <2>3. GoodMade(heap, trunc, 1) /\ GoodMade(heap, floor, 1)
        BY <2>1, <2>2, ConsMade
  <2> QED BY <2>3, OneMade
<1>4. CASE Truncate
  <2>1. /\ steps < MaxSteps /\ steps' = steps + 1 /\ UNCHANGED interned
        /\ (j # 0 /\ Return(2, trunc)) \/ Raise
        BY <1>4 DEF Truncate, Divide, Handler, Called
  <2> HIDE DEF trunc, j
  <2> QED BY <1>1, <1>3, <2>1, Handled
<1>5. CASE Floor
  <2>1. /\ steps < MaxSteps /\ steps' = steps + 1 /\ UNCHANGED interned
        /\ (j # 0 /\ Return(2, floor)) \/ Raise
        BY <1>5 DEF Floor, Divide, Handler, Called
  <2> HIDE DEF floor, j
  <2> QED BY <1>1, <1>3, <2>1, Handled
<1> QED BY <1>4, <1>5

LEMMA CharacterSteps ==
    ASSUME WordsInv, CharCode \/ CodeChar
    PROVE  WordsInv'
<1>1. SUFFICES ASSUME Len(stack) \in Nat, Len(stack) >= 1 PROVE WordsInv'
      BY DEF WordsInv, CharCode, CodeChar, Pure, Handler
<1>2. Int64Of(Arg(0)) \in Int /\ UInt64Of(Arg(0)) \in Int
  <2>1. Arg(0) \in WordsOf(heap)
        BY <1>1, ArgWord
  <2> QED BY <2>1, IntegerOfWord
<1>3. /\ Fixnum(UInt64Of(Arg(0))) \in WordsOf(heap)
      /\ CharOf(Int64Of(Arg(0))) \in WordsOf(heap)
      BY <1>2, FixnumOf, CharacterOf
<1>4. CASE CharCode
      BY <1>1, <1>3, <1>4, HandledWord DEF CharCode, Pure, Handler, Called
<1>5. CASE CodeChar
      BY <1>1, <1>3, <1>5, HandledWord DEF CodeChar, Pure, Handler, Called
<1> QED BY <1>4, <1>5

-----------------------------------------------------------------------------
(* The handlers on lists.                                                  *)

LEMMA ConsStep ==
    ASSUME WordsInv, MuCons
    PROVE  WordsInv'
<1> DEFINE made == MakeCons(Arg(1), Arg(0), heap)
<1>1. /\ Len(stack) \in Nat /\ Len(stack) >= 2 /\ steps < MaxSteps /\ steps' = steps + 1
      /\ UNCHANGED interned /\ Return(2, made)
      BY DEF WordsInv, MuCons, Handler, Called
<1>2. Arg(0) \in WordsOf(heap) /\ Arg(1) \in WordsOf(heap)
      BY <1>1, ArgWord
<1>3. GoodHeap(heap) /\ Len(heap) + 1 < Pow2[W - 7]
      BY <1>1, Room DEF WordsInv
<1>4. GoodMade(heap, made, Longest + 1)
      BY <1>2, <1>3, ConsMade, OneMade
<1> HIDE DEF made
<1> QED BY <1>1, <1>4, Handled

LEMMA FieldSteps ==
    ASSUME WordsInv, Car \/ Cdr
    PROVE  WordsInv'
<1>1. SUFFICES ASSUME Len(stack) \in Nat, Len(stack) >= 1 PROVE WordsInv'
      BY DEF WordsInv, Car, Cdr, Pure, Handler
<1>2. GoodHeap(heap) /\ Arg(0) \in WordsOf(heap)
      BY <1>1, ArgWord DEF WordsInv
<1>3. IsList(Arg(0)) => CarOf(Arg(0)) \in WordsOf(heap) /\ CdrOf(Arg(0)) \in WordsOf(heap)
      BY <1>2, FieldsOfList
<1>4. CASE Car
      BY <1>1, <1>3, <1>4, HandledWord DEF Car, Pure, Handler, Called
<1>5. CASE Cdr
      BY <1>1, <1>3, <1>5, HandledWord DEF Cdr, Pure, Handler, Called
<1> QED BY <1>4, <1>5

\* The conses of an argument and their fields.
LEMMA ConsesOfArg ==
    ASSUME WordsInv, Len(stack) >= 1
    PROVE  LET conses == Conses(Arg(0))
           IN /\ Arg(0) \in WordsOf(heap)
              /\ Len(conses) \in Nat /\ conses = [i \in 1 .. Len(conses) |-> conses[i]]
              /\ \A i \in 1 .. Len(conses) :
                    CarOf(conses[i]) \in WordsOf(heap) /\ CdrOf(conses[i]) \in WordsOf(heap)
<1> DEFINE conses == Conses(Arg(0))
<1>1. GoodHeap(heap) /\ Arg(0) \in WordsOf(heap)
      BY ArgWord DEF WordsInv
<1>2. conses \in Seq(ConsesOf(heap))
      BY <1>1, ConsesMet
<1> HIDE DEF conses
<1>3. /\ Len(conses) \in Nat /\ conses = [i \in 1 .. Len(conses) |-> conses[i]]
      BY <1>2
<1>4. ASSUME NEW i \in 1 .. Len(conses)
      PROVE  CarOf(conses[i]) \in WordsOf(heap) /\ CdrOf(conses[i]) \in WordsOf(heap)
  <2>1. conses[i] \in ConsesOf(heap)
        BY <1>2, ElementOfSeq
  <2>2. conses[i] \in WordsOf(heap) /\ IsList(conses[i])
        BY <2>1 DEF ConsesOf, IsList
  <2> QED BY <1>1, <2>2, FieldsOfList
<1> QED BY <1>1, <1>3, <1>4 DEF conses

LEMMA ListSteps ==
    ASSUME WordsInv, ListLength \/ \E n \in Indices : Nth(n) \/ Nthcdr(n)
    PROVE  WordsInv'
<1> DEFINE list == Arg(0)
           conses == Conses(list)
<1>1. SUFFICES ASSUME Len(stack) \in Nat, Len(stack) >= 1 PROVE WordsInv'
      BY DEF WordsInv, ListLength, Nth, Nthcdr, Pure, Handler
<1>2. /\ list \in WordsOf(heap) /\ GoodHeap(heap) /\ NIL \in WordsOf(heap)
      /\ Len(conses) \in Nat
      /\ \A i \in 1 .. Len(conses) :
            CarOf(conses[i]) \in WordsOf(heap) /\ CdrOf(conses[i]) \in WordsOf(heap)
      BY <1>1, ConsesOfArg, BoolOf DEF WordsInv
<1>3. IsList(list) => CarOf(list) \in WordsOf(heap) /\ CdrOf(list) \in WordsOf(heap)
      BY <1>2, FieldsOfList
<1>4. CASE ListLength
  <2>1. Fixnum(Len(conses)) \in WordsOf(heap)
        BY <1>2, FixnumOf
  <2> QED BY <1>1, <1>4, <2>1, HandledWord DEF ListLength, Pure, Handler, Called
<1>5. ASSUME NEW n \in Indices, Nth(n) PROVE WordsInv'
  <2> DEFINE w == IF n < Len(conses) THEN CarOf(conses[n + 1]) ELSE NIL
  <2>1. n \in Int
        BY ValueAssumption
  <2>2. n >= 0 => w \in WordsOf(heap)
    <3> HIDE DEF conses
    <3>1. CASE n >= 0 /\ n < Len(conses)
      <4>1. n + 1 \in 1 .. Len(conses)
            BY <1>2, <2>1, <3>1
      <4> QED BY <1>2, <3>1, <4>1
    <3> QED BY <1>2, <3>1
  <2>3. /\ steps < MaxSteps /\ steps' = steps + 1 /\ UNCHANGED interned
        /\ (n >= 0 /\ Return(1, Made(w, heap))) \/ Raise
        BY <1>5 DEF Nth, Pure, Handler, Called
  <2> HIDE DEF w
  <2> QED BY <1>1, <2>2, <2>3, HandledWord
<1>6. ASSUME NEW n \in Indices, Nthcdr(n) PROVE WordsInv'
  <2> DEFINE dotted == ~IsList(CdrOf(list))
             w == CASE dotted -> IF n = 0 THEN CarOf(list) ELSE CdrOf(list)
                    [] ~dotted /\ (n = 0 \/ list = NIL) -> list
                    [] OTHER -> IF n <= Len(conses) THEN CdrOf(conses[n]) ELSE NIL
  <2>1. n \in Int
        BY ValueAssumption
  <2>2. ASSUME n >= 0, IsList(list) PROVE w \in WordsOf(heap)
    <3> HIDE DEF conses, list
    <3>1. CASE dotted
          BY <1>3, <2>2, <3>1
    <3>2. CASE ~dotted /\ (n = 0 \/ list = NIL)
          BY <1>2, <3>2
    <3>3. CASE ~dotted /\ n # 0 /\ list # NIL
      <4>1. w = IF n <= Len(conses) THEN CdrOf(conses[n]) ELSE NIL
            BY <3>3
      <4>2. n <= Len(conses) => n \in 1 .. Len(conses)
            BY <1>2, <2>1, <2>2, <3>3
      <4> QED BY <1>2, <4>1, <4>2
    <3> QED BY <3>1, <3>2, <3>3
  <2>3. /\ steps < MaxSteps /\ steps' = steps + 1 /\ UNCHANGED interned
        /\ (n >= 0 /\ IsList(list) /\ Return(1, Made(w, heap))) \/ Raise
        BY <1>6 DEF Nthcdr, Pure, Handler, Called
  <2> HIDE DEF w, list
  <2> QED BY <1>1, <2>2, <2>3, HandledWord
<1> QED BY <1>4, <1>5, <1>6

-----------------------------------------------------------------------------
(* Literals.                                                               *)

LEMMA AtomWords ==
    ASSUME NEW a \in ATOM
    PROVE  AtomWord(a) \in DirectWords
<1>1. a.n \in Int
      BY DEF ATOM
<1>2. CharOf(a.n) \in Characters /\ Fixnum(a.n) \in Numbers
      BY <1>1, CharOfWord, FixnumWord DEF Numbers
<1> QED BY <1>2 DEF AtomWord, DirectWords

LEMMA AtomStep ==
    ASSUME WordsInv, NEW a \in Atoms, ReadAtom(a)
    PROVE  WordsInv'
<1> DEFINE w == AtomWord(a)
<1>1. w \in WordsOf(heap)
      BY ValueAssumption, AtomWords, DirectWordOf
<1>2. /\ Len(stack) >= 0 /\ steps < MaxSteps /\ steps' = steps + 1 /\ UNCHANGED interned
      /\ Return(0, Made(w, heap)) \/ Raise
      BY DEF WordsInv, ReadAtom, Pure, Handler, Called
<1> HIDE DEF w
<1> QED BY <1>1, <1>2, HandledWord

LEMMA ListStep ==
    ASSUME WordsInv, NEW l \in Lists, ReadList(l)
    PROVE  WordsInv'
<1> DEFINE words == [i \in DOMAIN l |-> AtomWord(l[i])]
           made == MakeList(words)
<1>1. /\ Len(stack) >= 0 /\ steps < MaxSteps /\ steps' = steps + 1 /\ UNCHANGED interned
      /\ Return(0, made)
      BY DEF WordsInv, ReadList, Handler, Called
<1>2. l \in Seq(ATOM) /\ Len(l) <= Longest /\ Len(l) \in Nat
      BY ValueAssumption, LongestList
<1>3. words \in Seq(DirectWords) /\ Len(words) = Len(l)
  <2>1. \A i \in 1 .. Len(l) : l[i] \in ATOM
        BY <1>2, ElementOfSeq
  <2>2. words \in [1 .. Len(l) -> DirectWords]
        BY <1>2, <2>1, AtomWords
  <2> HIDE DEF words
  <2> QED BY <1>2, <2>2
<1> HIDE DEF words
<1>4. /\ GoodHeap(heap) /\ Len(heap) \in Nat /\ Longest \in Nat
      /\ Len(heap) + (Longest + 1) < Pow2[W - 7]
      BY <1>1, Room DEF WordsInv
<1>5. Len(heap) + Len(words) < Pow2[W - 7]
      BY <1>2, <1>3, <1>4, Addresses
<1>6. GoodMade(heap, made, Len(words))
      BY <1>3, <1>4, <1>5, ListMade
<1> HIDE DEF made
<1>7. GoodMade(heap, made, Longest + 1)
  <2>1. Len(made.heap) \in Nat
        BY <1>6 DEF GoodMade, GoodHeap, Heaps
  <2>2. Len(made.heap) <= Len(heap) + (Longest + 1)
        BY <1>2, <1>3, <1>4, <1>6, <2>1 DEF GoodMade
  <2> QED BY <1>6, <2>2 DEF GoodMade
<1> QED BY <1>1, <1>7, Handled

\* A handler that returns a string leaves it with the interned ones.
LEMMA StringHandled ==
    ASSUME WordsInv, NEW key, NEW text \in Seq(CODE), NEW n \in Nat, Len(stack) >= n,
           steps < MaxSteps, steps' = steps + 1,
           \/ /\ Return(n, MakeString(key, text))
              /\ InternString(MakeString(key, text))
           \/ Raise /\ UNCHANGED interned
    PROVE  WordsInv'
<1>1. CASE Return(n, MakeString(key, text)) /\ InternString(MakeString(key, text))
  <2>1. PICK made : made = MakeString(key, text)
        OBVIOUS
  <2>2. GoodHeap(heap) /\ Len(heap) + 1 < Pow2[W - 7]
        BY Room DEF WordsInv
  <2>3. \A hash \in DOMAIN interned : interned[hash] \in WordsOf(heap)
        BY DEF WordsInv
  <2>4. GoodMade(heap, made, Longest + 1)
        BY <2>1, <2>2, <2>3, StringMade, OneMade
  <2>5. WordsOf(heap) \subseteq WordsOf(made.heap) /\ made.word \in WordsOf(made.heap)
        BY <2>2, <2>4, WordsStay DEF GoodMade, GoodHeap
  <2>6. InternString(made) /\ Return(n, made)
        BY <1>1, <2>1
  <2>7. \A hash \in DOMAIN interned' : interned'[hash] \in WordsOf(made.heap)
    <3> DEFINE text0 == made.heap[Len(made.heap)].data
    <3>1. interned' = IF made.heap = heap \/ Hash(text0) \in DOMAIN interned
                      THEN interned
                      ELSE [h \in DOMAIN interned \cup {Hash(text0)} |->
                               IF h = Hash(text0) THEN made.word ELSE interned[h]]
          BY <2>6 DEF InternString
    <3> DEFINE hash0 == Hash(text0)
    <3> HIDE DEF text0
    <3>2. CASE made.heap = heap \/ hash0 \in DOMAIN interned
          BY <2>3, <2>5, <3>1, <3>2
    <3>3. CASE ~(made.heap = heap \/ hash0 \in DOMAIN interned)
      <4>1. interned' = [h \in DOMAIN interned \cup {hash0} |->
                            IF h = hash0 THEN made.word ELSE interned[h]]
            BY <3>1, <3>3
      <4> HIDE DEF hash0
      <4> QED BY <2>3, <2>5, <4>1
    <3> QED BY <3>2, <3>3
  <2> QED BY <2>4, <2>6, <2>7, Returned
<1>2. CASE Raise /\ UNCHANGED interned
      BY <1>2, Raised
<1> QED BY <1>1, <1>2

LEMMA StringStep ==
    ASSUME WordsInv, NEW s \in Texts, ReadString(s)
    PROVE  WordsInv'
<1>1. /\ Len(stack) >= 0 /\ steps < MaxSteps /\ steps' = steps + 1
      /\ Return(0, MakeString(s, s)) /\ InternString(MakeString(s, s))
      BY DEF WordsInv, ReadString, StringHandler, Called
<1>2. s \in Seq(CODE)
      BY ValueAssumption
<1> QED BY <1>1, <1>2, StringHandled

-----------------------------------------------------------------------------
(* The handlers on vectors.                                                *)

\* What a vector stores of the elements of a list.
LEMMA Unboxed ==
    ASSUME WordsInv, NEW w \in WordsOf(heap), NEW class \in CLASSES, IsElement(class, w)
    PROVE  /\ class # CLASS.T => Unbox(class, w) \in Int
           /\ class = CLASS.T => Unbox(class, w) = w /\ w \in Int
           /\ class = CLASS.CHAR => Unbox(class, w) \in CODE
<1>1. Int64Of(w) \in Int /\ UInt64Of(w) \in Int
      BY IntegerOfWord
<1>2. Pow2[CharBits] \in Nat \ {0}
      BY Scales
<1>3. /\ Int64Of(w) % Pow2[CharBits] \in Int
      /\ UInt64Of(w) % Pow2[CharBits] \in 0 .. Pow2[CharBits] - 1
      BY <1>1, <1>2
<1>4. w \in Int
  <2>1. w \in 0 .. Pow2[W] - 1
        BY WordOf DEF WordsInv, GoodHeap
  <2> QED BY <2>1
<1>5. /\ CLASS.T # CLASS.FIXNUM /\ CLASS.T # CLASS.BYTE /\ CLASS.T # CLASS.CHAR
      /\ CLASS.CHAR # CLASS.FIXNUM /\ CLASS.CHAR # CLASS.BYTE /\ CLASS.FIXNUM # CLASS.BYTE
      BY DEF CLASS
<1>6. CASE class = CLASS.T
      BY <1>4, <1>5, <1>6 DEF Unbox
<1>7. CASE class = CLASS.FIXNUM
      BY <1>1, <1>5, <1>7 DEF Unbox
<1>8. CASE class = CLASS.BYTE
      BY <1>3, <1>5, <1>8 DEF Unbox
<1>9. CASE class = CLASS.CHAR
      BY <1>3, <1>5, <1>9 DEF Unbox, CODE
<1> QED BY <1>6, <1>7, <1>8, <1>9 DEF CLASSES

LEMMA ListToVectorStep ==
    ASSUME WordsInv, NEW class \in CLASSES, ListToVector(class)
    PROVE  WordsInv'
<1> DEFINE conses == Conses(Arg(0))
           cars == \A i \in DOMAIN conses : IsElement(class, CarOf(conses[i]))
           data == [i \in DOMAIN conses |-> Unbox(class, CarOf(conses[i]))]
<1>1. Len(stack) \in Nat /\ Len(stack) >= 1 /\ steps < MaxSteps /\ steps' = steps + 1
  <2>1. Len(stack) \in Nat
        BY DEF WordsInv
  <2>2. CASE class = CLASS.CHAR
        BY <2>1, <2>2 DEF ListToVector, StringHandler, Called
  <2>3. CASE class # CLASS.CHAR
        BY <2>1, <2>3 DEF ListToVector, Handler, Called
  <2> QED BY <2>2, <2>3
<1>2. /\ Len(conses) \in Nat /\ DOMAIN conses = 1 .. Len(conses)
      /\ \A i \in 1 .. Len(conses) : CarOf(conses[i]) \in WordsOf(heap)
  <2>1. conses \in Seq(ConsesOf(heap))
        BY <1>1, ArgWord, ConsesMet DEF WordsInv
  <2>2. Len(conses) \in Nat /\ DOMAIN conses = 1 .. Len(conses)
    <3> HIDE DEF conses
    <3> QED BY <2>1
  <2>3. \A i \in 1 .. Len(conses) : CarOf(conses[i]) \in WordsOf(heap)
        BY <1>1, ConsesOfArg
  <2> QED BY <2>2, <2>3
<1>3. ASSUME cars
      PROVE  /\ class = CLASS.CHAR => data \in Seq(CODE)
             /\ class # CLASS.CHAR => GoodMade(heap, MakeVector(class, data), Longest + 1)
  <2> DEFINE n == Len(conses)
  <2>1. n \in Nat /\ data = [i \in 1 .. n |-> Unbox(class, CarOf(conses[i]))]
        BY <1>2
  <2>2. ASSUME NEW i \in 1 .. n
        PROVE  /\ Unbox(class, CarOf(conses[i])) \in Int
               /\ class = CLASS.T => Unbox(class, CarOf(conses[i])) \in WordsOf(heap)
               /\ class = CLASS.CHAR => Unbox(class, CarOf(conses[i])) \in CODE
    <3>1. CarOf(conses[i]) \in WordsOf(heap) /\ IsElement(class, CarOf(conses[i]))
          BY <1>2, <1>3
    <3> HIDE DEF conses
    <3> QED BY <3>1, Unboxed
  <2> HIDE DEF data, n
  <2>3. class = CLASS.CHAR => data \in [1 .. n -> CODE]
        BY <2>1, <2>2
  <2>4. data \in [1 .. n -> Int]
        BY <2>1, <2>2
  <2>5. class = CLASS.CHAR => data \in Seq(CODE)
        BY <2>1, <2>3, SeqDef
  <2>6. data \in Seq(Int) /\ Len(data) = n
        BY <2>1, <2>4
  <2>7. class = CLASS.T => \A i \in 1 .. Len(data) : data[i] \in WordsOf(heap)
        BY <2>1, <2>2, <2>6
  <2>8. GoodHeap(heap) /\ Len(heap) + 1 < Pow2[W - 7]
        BY <1>1, Room DEF WordsInv
  <2>9. GoodMade(heap, MakeVector(class, data), Longest + 1)
        BY <2>6, <2>7, <2>8, VectorMade, OneMade
  <2> QED BY <2>5, <2>9
<1>4. CASE class = CLASS.CHAR
  <2>1. \/ /\ cars
           /\ Return(1, MakeString(<<>>, data)) /\ InternString(MakeString(<<>>, data))
        \/ Raise /\ UNCHANGED interned
        BY <1>4 DEF ListToVector, StringHandler
  <2>2. CASE Raise /\ UNCHANGED interned
        BY <1>1, <2>2, Raised
  <2>3. CASE ~(Raise /\ UNCHANGED interned)
    <3>1. data \in Seq(CODE)
          BY <1>3, <1>4, <2>1, <2>3
    <3>2. Return(1, MakeString(<<>>, data)) /\ InternString(MakeString(<<>>, data))
          BY <2>1, <2>3
    <3> HIDE DEF data
    <3> QED BY <1>1, <3>1, <3>2, StringHandled
  <2> QED BY <2>2, <2>3
<1>5. CASE class # CLASS.CHAR
  <2> DEFINE made == MakeVector(class, data)
  <2>1. UNCHANGED interned /\ ((cars /\ Return(1, made)) \/ Raise)
        BY <1>5 DEF ListToVector, Handler
  <2>2. cars => GoodMade(heap, made, Longest + 1)
        BY <1>3, <1>5
  <2> HIDE DEF made, cars
  <2> QED BY <1>1, <2>1, <2>2, Handled
<1> QED BY <1>4, <1>5

LEMMA VectorSteps ==
    ASSUME WordsInv, VectorLength \/ VectorType \/ \E i \in Indices : VectorRef(i)
    PROVE  WordsInv'
<1> DEFINE vector == Arg(0)
<1>1. SUFFICES ASSUME Len(stack) \in Nat, Len(stack) >= 1 PROVE WordsInv'
      BY DEF WordsInv, VectorLength, VectorType, VectorRef, Pure, Handler
<1>2. GoodHeap(heap) /\ vector \in WordsOf(heap)
      BY <1>1, ArgWord DEF WordsInv
<1>3. IsVector(vector) => VectorClass(vector) \in CLASSES /\ VectorLen(vector) \in Nat
      BY <1>2, VectorClasses
<1>4. IsVector(vector) => /\ Fixnum(VectorLen(vector)) \in WordsOf(heap)
                          /\ MapClassSymbol(VectorClass(vector)) \in WordsOf(heap)
      BY <1>3, FixnumOf, ClassOf
<1>5. CASE VectorLength
      BY <1>1, <1>4, <1>5, HandledWord DEF VectorLength, Pure, Handler, Called
<1>6. CASE VectorType
      BY <1>1, <1>4, <1>6, HandledWord DEF VectorType, Pure, Handler, Called
<1>7. ASSUME NEW i \in Indices, VectorRef(i) PROVE WordsInv'
  <2> DEFINE w == CASE VectorClass(vector) = CLASS.T -> Ref(vector, i)
                    [] VectorClass(vector) = CLASS.CHAR -> CharOf(Ref(vector, i))
                    [] OTHER -> Fixnum(Ref(vector, i))
             ok == IsVector(vector) /\ i >= 0 /\ i < VectorLen(vector)
  <2>1. i \in Int
        BY ValueAssumption
  <2>2. ASSUME ok PROVE w \in WordsOf(heap)
    <3>1. i \in Nat
          BY <2>1, <2>2
    <3>2. /\ Ref(vector, i) \in Int
          /\ VectorClass(vector) = CLASS.T => Ref(vector, i) \in WordsOf(heap)
          BY <1>2, <2>2, <3>1, Element
    <3>3. CharOf(Ref(vector, i)) \in WordsOf(heap) /\ Fixnum(Ref(vector, i)) \in WordsOf(heap)
          BY <3>2, CharacterOf, FixnumOf
    <3>4. CLASS.T # CLASS.CHAR
          BY DEF CLASS
    <3> HIDE DEF vector
    <3> QED BY <3>2, <3>3, <3>4
  <2>3. /\ steps < MaxSteps /\ steps' = steps + 1 /\ UNCHANGED interned
        /\ (ok /\ Return(1, Made(w, heap))) \/ Raise
        BY <1>7 DEF VectorRef, Pure, Handler, Called
  <2> HIDE DEF w, ok
  <2> QED BY <1>1, <2>2, <2>3, HandledWord
<1> QED BY <1>5, <1>6, <1>7

\* A slice of a short string is one.
LEMMA SliceOfShortText ==
    ASSUME NEW w \in ShortTexts(CLASS.VECTOR), NEW offset \in Nat, NEW length \in Nat,
           length + offset <= DirectSize(w)
    PROVE  SliceDirect(w, offset, length) \in ShortTexts(CLASS.VECTOR)
<1> DEFINE bits == Asr(w, 8 + (offset * CharBits))
           b == bits % Pow2[length * CharBits]
<1>1. CLASS.VECTOR \in 0 .. 7
      BY DEF CLASS
<1>2. /\ w \in 0 .. Pow2[W] - 1 /\ DirectClass(w) = CLASS.VECTOR
      /\ DirectSize(w) \in 0 .. DIRECT_STR_MAX /\ DIRECT_STR_MAX \in 3 .. 7 /\ CharBits \in Nat
      BY <1>1, ShortTextFields, Scales
<1>3. length \in 0 .. DIRECT_STR_MAX /\ offset \in 0 .. DIRECT_STR_MAX /\ length \in 0 .. 7
      BY <1>2
<1>4. length * CharBits = CharBits * length /\ offset * CharBits = CharBits * offset
      BY <1>2
<1>5. /\ Scale(length) \in Nat \ {0} /\ Scale(length) <= Pow2[W - 8]
      /\ Scale(offset) \in Nat \ {0}
      /\ Pow2[8 + (CharBits * offset)] = 256 * Scale(offset)
      BY <1>3, Scales
<1>6. bits \in Int
  <2>1. Pow2[W] \in Nat \ {0} /\ Pow2[W - 1] \in Nat
        BY WordSize
  <2>2. Signed(w) \in Int
        BY <1>2, <2>1 DEF Signed
  <2> DEFINE m == 256 * Scale(offset)
             q == Signed(w) \div m
  <2>3. m \in Nat \ {0}
        BY <1>5
  <2> HIDE DEF m
  <2>4. q \in Int
        BY <2>2, <2>3
  <2>5. bits = q % Pow2[W]
        BY <1>4, <1>5 DEF Asr, Word, m
  <2> HIDE DEF q, bits
  <2> QED BY <2>1, <2>4, <2>5
<1>7. b \in Nat /\ b < Scale(length)
  <2>1. b = bits % Scale(length)
        BY <1>4 DEF Scale
  <2> HIDE DEF b, bits
  <2> QED BY <1>5, <1>6, <2>1
<1>8. b % Pow2[W - 8] = b
  <2>1. Pow2[W - 8] \in Nat
        BY WordSize
  <2>2. \A i, j \in Nat : i < j => i % j = i
        OBVIOUS
  <2> HIDE DEF b
  <2> QED BY <1>5, <1>7, <2>1, <2>2
<1>9. SliceDirect(w, offset, length) = DirectWord(b, length, CLASS.VECTOR)
  <2>1. SliceDirect(w, offset, length) = MakeDirect(b, length, CLASS.VECTOR)
        BY <1>2 DEF SliceDirect
  <2> HIDE DEF b
  <2>2. b \in Int
        BY <1>7
  <2> QED BY <1>1, <1>3, <1>8, <2>1, <2>2, MakeDirectWord
<1> HIDE DEF b
<1>10. <<length, b>> \in {p \in (0 .. DIRECT_STR_MAX) \X Nat : p[2] < Pow2[CharBits * p[1]]}
      BY <1>3, <1>7 DEF Scale
<1>11. DirectWord(b, length, CLASS.VECTOR)
          = DirectWord(<<length, b>>[2], <<length, b>>[1], CLASS.VECTOR)
      OBVIOUS
<1> QED BY <1>9, <1>10, <1>11 DEF ShortTexts

LEMMA SliceStep ==
    ASSUME WordsInv, NEW offset \in Indices, NEW length \in Indices, Slice(offset, length)
    PROVE  WordsInv'
<1> DEFINE vec == Arg(0)
           o == [Layout(vec) EXCEPT !.length = length,
                                    !.offset = @ + offset,
                                    !.data = <<>>]
           g == Append(heap, o)
           made == IF IsDirect(vec) THEN Made(SliceDirect(vec, offset, length), heap)
                   ELSE Made(EntagIndirect(Len(heap) + 1, CLASS.VECTOR), g)
           ok == /\ IsVector(vec)
                 /\ offset >= 0 /\ length >= 0 /\ length + offset <= VectorLen(vec)
<1>1. /\ Len(stack) >= 1 /\ steps < MaxSteps /\ steps' = steps + 1 /\ UNCHANGED interned
      /\ (ok /\ Return(1, made)) \/ Raise
      BY DEF WordsInv, Slice, Handler, Called
<1>2. /\ GoodHeap(heap) /\ vec \in WordsOf(heap) /\ Len(heap) + 1 < Pow2[W - 7]
      /\ Len(heap) \in Nat /\ heap \in Heaps
      BY <1>1, ArgWord, Room DEF WordsInv, GoodHeap
<1>3. offset \in Int /\ length \in Int
      BY ValueAssumption
<1>4. ASSUME ok PROVE GoodMade(heap, made, 1)
  <2>1. offset \in Nat /\ length \in Nat /\ IsVector(vec) /\ length + offset <= VectorLen(vec)
        BY <1>3, <1>4
  <2>2. CASE IsDirect(vec)
    <3>1. vec \in ShortTexts(CLASS.VECTOR)
          BY <1>2, <2>1, <2>2, VectorWord
    <3>2. length + offset <= DirectSize(vec)
          BY <2>1, <2>2 DEF VectorLen
    <3> HIDE DEF vec
    <3>3. SliceDirect(vec, offset, length) \in WordsOf(heap)
          BY <2>1, <3>1, <3>2, SliceOfShortText, DirectWordOf DEF DirectWords
    <3> QED BY <1>2, <2>2, <3>3, WordMade
  <2>3. CASE ~IsDirect(vec)
    <3> DEFINE l == Layout(vec)
    <3>1. GoodVector(heap, l) /\ VectorLen(vec) = l.length
          BY <1>2, <2>1, <2>3, VectorWord DEF VectorLen
    <3>2. l \in Vector
          BY <3>1 DEF GoodVector
    <3> HIDE DEF l
    <3>3. /\ l.type \in {MapClassSymbol(c) : c \in CLASSES} /\ l.length \in Nat
          /\ l.owner \in Nat /\ l.offset \in Nat /\ l.data \in Seq(Int)
          BY <3>2 DEF Vector
    <3>4. o = [type |-> l.type, length |-> length, owner |-> l.owner,
               offset |-> l.offset + offset, data |-> <<>>]
      <4>1. o = [l EXCEPT !.length = length, !.offset = @ + offset, !.data = <<>>]
            BY DEF l
      <4>2. l = [type |-> l.type, length |-> l.length, owner |-> l.owner,
                 offset |-> l.offset, data |-> l.data]
            BY <3>2 DEF Vector
      <4> HIDE DEF o
      <4>3. PICK k : k = l.offset
            OBVIOUS
      <4>4. o = [type |-> l.type, length |-> length, owner |-> l.owner,
                 offset |-> k + offset, data |-> <<>>]
            BY <4>1, <4>2, <4>3
      <4> QED BY <4>3, <4>4
    <3> HIDE DEF o
    <3>5. /\ o.type = l.type /\ o.length = length /\ o.owner = l.owner
          /\ o.offset = l.offset + offset /\ o.data = <<>>
          BY <3>4
    <3>6. o \in Vector
      <4>1. l.offset + offset \in Nat /\ <<>> \in Seq(Int)
            BY <2>1, <3>3
      <4> QED BY <2>1, <3>3, <3>4, <4>1 DEF Vector
    <3>7. ASSUME g \in Heaps PROVE Good(g, o)
      <4>1. Extends(heap, g) /\ DOMAIN g = 1 .. Len(heap) + 1
            BY <1>2, <3>6 DEF Extends, Heaps
      <4>2. l.owner \in 1 .. Len(heap)
            BY <1>2, <3>1 DEF GoodVector, Heaps
      <4>3. g[l.owner] = heap[l.owner] /\ l.owner \in DOMAIN g
            BY <1>2, <4>1, <4>2 DEF Extends
      <4>4. o.offset + o.length <= Len(heap[l.owner].data)
        <5>1. l.offset + l.length <= Len(heap[l.owner].data) /\ heap[l.owner] \in Vector
              BY <3>1 DEF GoodVector
        <5>2. Len(heap[l.owner].data) \in Nat
              BY <5>1 DEF Vector
        <5>3. length + offset <= l.length
              BY <2>1, <3>1
        <5> QED BY <2>1, <3>3, <3>5, <5>1, <5>2, <5>3, SMTT(30)
      <4>5. \A i \in 1 .. Len(o.data) : o.data[i] \in WordsOf(g)
            BY <3>5
      <4> HIDE DEF g
      <4> QED BY <3>1, <3>5, <3>6, <4>3, <4>4, <4>5 DEF Good, GoodVector
    <3>8. /\ GoodHeap(g) /\ Extends(heap, g) /\ Reference(g, Len(heap) + 1) \in WordsOf(g)
          BY <1>2, <3>6, <3>7, Allocated
    <3>9. Len(g) = Len(heap) + 1 /\ g[Len(heap) + 1] = o
          BY <1>2, <3>6 DEF Heaps
    <3>10. Reference(g, Len(heap) + 1) = EntagIndirect(Len(heap) + 1, CLASS.VECTOR)
          BY <3>6, <3>9, ObjectKinds DEF Reference
    <3>11. made = Made(EntagIndirect(Len(heap) + 1, CLASS.VECTOR), g)
          BY <2>3
    <3> HIDE DEF g, made
    <3> QED BY <1>2, <3>8, <3>9, <3>10, <3>11 DEF GoodMade, Made
  <2> QED BY <2>2, <2>3
<1>5. ok => GoodMade(heap, made, Longest + 1)
      BY <1>4, OneMade
<1> HIDE DEF made, ok
<1> QED BY <1>1, <1>5, Handled

LEMMA DoneStep ==
    ASSUME WordsInv, Done
    PROVE  WordsInv'
<1>1. stack' = <<>> /\ heap' = heap /\ interned' = interned /\ steps' = steps
      BY DEF Done
<1>2. stack' \in Seq(WordsOf(heap))
      BY <1>1
<1> QED BY <1>1, <1>2 DEF WordsInv

LEMMA InitWords == Init => WordsInv
<1> SUFFICES ASSUME Init PROVE WordsInv
    OBVIOUS
<1>1. steps = 0 /\ heap = <<>> /\ stack = <<>> /\ interned = <<>>
      BY DEF Init
<1>2. /\ steps \in 0 .. MaxSteps /\ Len(heap) = 0 /\ 0 <= steps * (Longest + 1)
      BY <1>1, LongestList
<1>3. GoodHeap(heap)
  <2>1. 0 < Pow2[W - 7]
    <3>1. W \in Nat /\ W > 16
          BY TagAssumption
    <3>2. W - 7 \in 0 .. W
          BY <3>1
    <3>3. Pow2[W - 7] \in Nat \ {0}
          BY <3>2, Powers
    <3> QED BY <3>3
  <2>2. heap \in Seq(Pair \cup Vector)
        BY <1>1
  <2> QED BY <1>1, <1>2, <2>1, <2>2 DEF GoodHeap, Heaps
<1>4. stack \in Seq(WordsOf(heap)) /\ DOMAIN interned = {}
      BY <1>1
<1> QED BY <1>2, <1>3, <1>4 DEF WordsInv

LEMMA NextWords ==
    ASSUME WordsInv, [Next]_vars
    PROVE  WordsInv'
<1>1. ASSUME NEW a \in Atoms, ReadAtom(a) PROVE WordsInv'
      BY <1>1, AtomStep
<1>2. ASSUME NEW l \in Lists, ReadList(l) PROVE WordsInv'
      BY <1>2, ListStep
<1>3. ASSUME NEW s \in Texts, ReadString(s) PROVE WordsInv'
      BY <1>3, StringStep
<1>4. CASE FixAdd \/ FixSub \/ FixMul \/ FixLessThan \/ Logand \/ Logor
      BY <1>4, NumericSteps
<1>5. CASE Truncate \/ Floor
      BY <1>5, DivisionSteps
<1>6. CASE MuCons
      BY <1>6, ConsStep
<1>7. CASE Car \/ Cdr
      BY <1>7, FieldSteps
<1>8. CASE ListLength \/ \E n \in Indices : Nth(n) \/ Nthcdr(n)
      BY <1>8, ListSteps
<1>9. CASE CharCode \/ CodeChar
      BY <1>9, CharacterSteps
<1>10. CASE VectorLength \/ VectorType \/ \E n \in Indices : VectorRef(n)
      BY <1>10, VectorSteps
<1>11. ASSUME NEW class \in {CLASS.FIXNUM, CLASS.CHAR, CLASS.BYTE, CLASS.T},
              ListToVector(class)
       PROVE  WordsInv'
      BY <1>11, ListToVectorStep DEF CLASSES
<1>12. ASSUME NEW offset \in Indices, NEW length \in Indices, Slice(offset, length)
       PROVE  WordsInv'
      BY <1>12, SliceStep
<1>13. CASE Done
      BY <1>13, DoneStep
<1>14. CASE UNCHANGED vars
      BY <1>14 DEF vars, WordsInv
<1> QED BY <1>1, <1>2, <1>3, <1>4, <1>5, <1>6, <1>7, <1>8, <1>9, <1>10, <1>11, <1>12,
           <1>13, <1>14 DEF Next

THEOREM WordsAlwaysGood == Spec => []WordsInv
<1>1. WordsInv /\ [Next]_vars => WordsInv'
      BY NextWords
<1> QED BY InitWords, <1>1, PTL DEF Spec

-----------------------------------------------------------------------------

\* The words the program has are words of its heap.
LEMMA WordsInUseAreGood ==
    ASSUME WordsInv
    PROVE  WordsInUse \subseteq WordsOf(heap)
<1>1. GoodHeap(heap) /\ heap \in Heaps /\ DOMAIN heap = 1 .. Len(heap)
      BY DEF WordsInv, GoodHeap, Heaps
<1>2. Range(stack) \subseteq WordsOf(heap)
      BY DEF WordsInv, Range
<1>3. Range(interned) \subseteq WordsOf(heap)
      BY DEF WordsInv, Range
<1>4. ASSUME NEW a \in DOMAIN heap PROVE Held(heap[a]) \subseteq WordsOf(heap)
  <2>1. Good(heap, heap[a])
        BY <1>1 DEF GoodHeap
  <2>2. CASE GoodPair(heap, heap[a])
    <3>1. IsPair(heap[a])
          BY <2>2, ObjectKinds DEF GoodPair
    <3> QED BY <2>2, <3>1 DEF Held, GoodPair, IsPair
  <2>3. CASE GoodVector(heap, heap[a])
    <3> DEFINE o == heap[a]
    <3>1. o \in Vector /\ ~IsPair(o)
          BY <2>3, ObjectKinds DEF GoodVector
    <3>2. o.type = T => \A i \in 1 .. Len(o.data) : o.data[i] \in WordsOf(heap)
          BY <2>3 DEF GoodVector
    <3> HIDE DEF o
    <3>3. o.type \in WordsOf(heap)
      <4>1. PICK c \in CLASSES : o.type = MapClassSymbol(c)
            BY <3>1 DEF Vector
      <4> QED BY <4>1, ClassOf
    <3>4. o.data \in Seq(Int)
          BY <3>1 DEF Vector
    <3>5. o.type = T => Range(o.data) \subseteq WordsOf(heap)
          BY <3>2, <3>4 DEF Range
    <3> QED BY <3>1, <3>3, <3>5 DEF Held, IsPair, o
  <2> QED BY <2>1, <2>2, <2>3 DEF Good
<1> QED BY <1>2, <1>3, <1>4 DEF WordsInUse

LEMMA GoodWordsAreTyped ==
    ASSUME WordsInv
    PROVE  TypeOK
<1>1. GoodHeap(heap) /\ heap \in Heaps /\ DOMAIN heap = 1 .. Len(heap)
      BY DEF WordsInv, GoodHeap, Heaps
<1>2. ASSUME NEW w \in WordsInUse
      PROVE  /\ w \in 0 .. Pow2[W] - 1
             /\ \/ IsDirect(w) /\ DirectClass(w) \in 0 .. 3
                \/ TagOf(w) = TAG.CONS /\ {UnpackCar(w), UnpackCdr(w)} \subseteq 0 .. Pow2[W] - 1
                \/ /\ IsIndirect(w)
                   /\ IndirectData(w) \in DOMAIN heap
                   /\ IsCons(w) <=> "car" \in DOMAIN heap[IndirectData(w)]
  <2>1. w \in WordsOf(heap)
        BY WordsInUseAreGood
  <2>2. w \in 0 .. Pow2[W] - 1
        BY <1>1, <2>1, WordOf
  <2>3. CASE w \in DirectWords
        BY <2>2, <2>3, DirectWordFields
  <2>4. CASE /\ TagOf(w) = TAG.CONS
             /\ UnpackCar(w) \in Atomic(heap) /\ UnpackCdr(w) \in Atomic(heap)
    <3>1. UnpackCar(w) \in 0 .. Pow2[W] - 1 /\ UnpackCdr(w) \in 0 .. Pow2[W] - 1
          BY <1>1, <2>4, AtomicWord
    <3> QED BY <2>2, <2>4, <3>1
  <2>5. ASSUME NEW a \in 1 .. Len(heap), w = Reference(heap, a)
        PROVE  /\ IsIndirect(w)
               /\ IndirectData(w) \in DOMAIN heap
               /\ IsCons(w) <=> "car" \in DOMAIN heap[IndirectData(w)]
    <3>1. IsIndirect(w) /\ IndirectData(w) = a /\ (IsCons(w) <=> heap[a] \in Pair)
          BY <1>1, <2>5, ReferenceWord
    <3>2. heap[a] \in Pair \cup Vector
          BY <1>1 DEF Heaps
    <3>3. heap[a] \in Pair <=> IsPair(heap[a])
          BY <3>2, ObjectKinds
    <3> QED BY <1>1, <3>1, <3>3 DEF IsPair
  <2> QED BY <1>1, <2>1, <2>2, <2>3, <2>4, <2>5, WordOf
<1>3. ASSUME NEW a \in DOMAIN heap
      PROVE  \/ "car" \in DOMAIN heap[a]
             \/ heap[a].offset + heap[a].length <= Len(heap[heap[a].owner].data)
  <2>1. Good(heap, heap[a])
        BY <1>1 DEF GoodHeap
  <2>2. CASE GoodPair(heap, heap[a])
        BY <2>2, ObjectKinds DEF GoodPair, IsPair
  <2>3. CASE GoodVector(heap, heap[a])
        BY <2>3 DEF GoodVector
  <2> QED BY <2>1, <2>2, <2>3 DEF Good
<1> QED BY <1>2, <1>3 DEF TypeOK

THEOREM WordsTypeCorrect == Spec => []TypeOK
<1>1. WordsInv => TypeOK
      BY GoodWordsAreTyped
<1> QED BY <1>1, WordsAlwaysGood, PTL

LEMMA DirectWordsDiffer ==
    ASSUME WordsInv
    PROVE  EqualWordsAreEq
<1>1. ASSUME NEW w \in WordsInUse, IsDirect(w) PROVE w \in DirectWords
  <2>1. w \in WordsOf(heap) /\ heap \in Heaps
        BY WordsInUseAreGood DEF WordsInv, GoodHeap
  <2>2. \A a \in 1 .. Len(heap) : w # Reference(heap, a)
        BY <1>1, <2>1, ReferenceWord
  <2> QED BY <1>1, <2>1, <2>2, WordOf
<1>2. ASSUME NEW v \in WordsInUse, NEW w \in WordsInUse, IsDirect(v), IsDirect(w), v # w
      PROVE  DirectValue(v) # DirectValue(w)
  <2>1. v \in DirectWords /\ w \in DirectWords
        BY <1>1, <1>2
  <2> QED BY <1>2, <2>1, DirectValueInjective
<1> QED BY <1>2 DEF EqualWordsAreEq

\* Two different direct words stand for different values, whatever operations
\* computed them.  A short slice of a heap string is a reference, and not one
\* of them (vector.cc:97).
THEOREM EqualWords == Spec => []EqualWordsAreEq
<1>1. WordsInv => EqualWordsAreEq
      BY DirectWordsDiffer
<1> QED BY <1>1, WordsAlwaysGood, PTL

\* A number the reader takes is the fixnum of its lower bits: parse_number does
\* not see that two more bits are needed (type/fixnum.h).
ReadWrapsNumbers ==
    [][\A a \in Atoms : a.kind = "fixnum" /\ ReadAtom(a) /\ call'.ok
                           => Int64Of(Last(stack'))
                                 = ((a.n + Pow2[W - 6]) % Pow2[W - 5]) - Pow2[W - 6]]_vars

THEOREM ReadNumbersWrap == Spec => ReadWrapsNumbers
<1>1. ASSUME WordsInv, NEW a \in Atoms, a.kind = "fixnum", ReadAtom(a), call'.ok
      PROVE  Int64Of(Last(stack')) = ((a.n + Pow2[W - 6]) % Pow2[W - 5]) - Pow2[W - 6]
  <2>1. a \in ATOM /\ a.n \in Int
        BY ValueAssumption DEF ATOM
  <2> DEFINE w == Fixnum(a.n)
  <2>2. Return(0, Made(w, heap))
    <3>1. AtomWord(a) = w
          BY <1>1 DEF AtomWord
    <3> QED BY <1>1, <3>1 DEF ReadAtom, Pure, Handler, Called
  <2>3. stack' = Append(Below(0), w)
        BY <2>2 DEF Return, Made
  <2>4. Below(0) \in Seq(WordsOf(heap))
    <3>1. stack \in Seq(WordsOf(heap)) /\ Len(stack) - 0 \in 0 .. Len(stack)
          BY <1>1 DEF WordsInv
    <3> QED BY <3>1 DEF Below
  <2>5. Last(stack') = w
    <3> DEFINE s == Below(0)
    <3>1. Len(s) \in Nat
          BY <2>4
    <3> HIDE DEF s, w
    <3>2. Last(Append(s, w)) = w
          BY <2>4, <3>1 DEF Last, s
    <3> QED BY <2>3, <3>2 DEF s
  <2> QED BY <2>1, <2>5, FixnumsWrap
<1>2. WordsInv /\ [Next]_vars =>
        [\A a \in Atoms : a.kind = "fixnum" /\ ReadAtom(a) /\ call'.ok
                           => Int64Of(Last(stack'))
                                 = ((a.n + Pow2[W - 6]) % Pow2[W - 5]) - Pow2[W - 6]]_vars
      BY <1>1
<1>3. Spec => [][Next]_vars
      BY DEF Spec
<1> QED BY <1>2, <1>3, WordsAlwaysGood, PTL DEF ReadWrapsNumbers

=============================================================================
