---------------------------- MODULE MuTagProofs ----------------------------
(***************************************************************************)
(* TLAPS proofs about the words of MuTag, for every width of a word and of *)
(* a character: what is put into a word comes out of it again.             *)
(*                                                                         *)
(* Powers of two and sums are recursive, so what is said of them is proved *)
(* by induction over an interval: a set of numbers that has a member has a *)
(* least one (LeastNumber), and the least counterexample has none before   *)
(* it (IntervalInduction).  From there on a word is a sum of its fields,   *)
(* each multiplied by a power of two, and a shift or a mask is a quotient  *)
(* or a remainder of it (Division, Quotient).                              *)
(***************************************************************************)
EXTENDS MuTag, SequenceTheorems, WellFoundedInduction, TLAPS

-----------------------------------------------------------------------------
(* Numbers.                                                                *)

\* Numbers are well-founded.
LEMMA LeastNumber ==
    ASSUME NEW S, S \subseteq Nat, S # {}
    PROVE  \E n \in S : \A m \in S : n <= m
<1> DEFINE Before == {p \in Nat \X Nat : p[1] < p[2]}
<1>1. IsWellFoundedOn(Before, Nat)
      BY NatLessThanWellFounded DEF OpToRel
<1> HIDE DEF Before
<1>2. PICK n \in S : \A m \in S : <<m, n>> \notin Before
      BY <1>1, WFMin
<1>3. \A m \in S : ~(m < n)
      BY <1>2 DEF Before
<1> QED BY <1>3

\* Induction from 0 to the end of an interval: S holds the numbers for which
\* what is to be proved is true.
LEMMA IntervalInduction ==
    ASSUME NEW n \in Nat, NEW S, 0 \in S,
           \A i \in 1 .. n : i - 1 \in S => i \in S
    PROVE  \A i \in 0 .. n : i \in S
<1> DEFINE Missing == {i \in 0 .. n : i \notin S}
<1>1. SUFFICES ASSUME Missing # {} PROVE FALSE
      OBVIOUS
<1>2. Missing \subseteq Nat
      OBVIOUS
<1>3. PICK i \in Missing : \A j \in Missing : i <= j
  <2> HIDE DEF Missing
  <2> QED BY <1>1, <1>2, LeastNumber
<1>4. i \in 1 .. n
      BY <1>3
<1>5. i - 1 \in S
      BY <1>3, <1>4
<1> QED BY <1>3, <1>4, <1>5

LEMMA Division ==
    ASSUME NEW a \in Int, NEW m \in Nat \ {0}
    PROVE  /\ a \div m \in Int
           /\ (a % m) \in 0 .. m - 1
           /\ a = (m * (a \div m)) + (a % m)
OBVIOUS

LEMMA Quotient ==
    ASSUME NEW m \in Nat \ {0}, NEW q \in Int, NEW r \in 0 .. m - 1
    PROVE  ((m * q) + r) \div m = q /\ ((m * q) + r) % m = r
OBVIOUS

\* Monotony.
LEMMA Product ==
    ASSUME NEW a \in Nat, NEW b \in Nat, NEW c \in Nat, a <= b
    PROVE  a * c <= b * c /\ c * a <= c * b
OBVIOUS

\* The lower bits of the lower bits.
LEMMA ModuloOfModulo ==
    ASSUME NEW a \in Int, NEW m \in Nat \ {0}, NEW k \in Nat \ {0}
    PROVE  (a % (m * k)) % m = a % m
<1> DEFINE n == m * k
           q == a \div n
           r == a % n
           s == r \div m
           t == r % m
<1>1. n \in Nat \ {0}
      OBVIOUS
<1>2. q \in Int /\ r \in Int /\ a = (n * q) + r
  <2> HIDE DEF n
  <2> QED BY <1>1, Division
<1>3. s \in Int /\ t \in 0 .. m - 1 /\ r = (m * s) + t
      BY <1>2, Division
<1>4. k * q + s \in Int /\ a = (m * ((k * q) + s)) + t
  <2> HIDE DEF q, r, s, t
  <2> QED BY <1>2, <1>3
<1>5. a % m = t
  <2> HIDE DEF n, q, r, s, t
  <2> QED BY <1>3, <1>4, Quotient
<1> QED BY <1>5

-----------------------------------------------------------------------------
(* Powers of two.                                                          *)

\* Pow2 is what its definition says.
LEMMA Powers ==
    /\ Pow2 \in [0 .. W -> Nat \ {0}]
    /\ Pow2[0] = 1
    /\ \A n \in 1 .. W : Pow2[n] = 2 * Pow2[n - 1]
<1> DEFINE Def(f, m) == f = [n \in 0 .. m |-> IF n = 0 THEN 1 ELSE 2 * f[n - 1]]
           S == {m \in 0 .. W : \E f : Def(f, m)}
           Typed == {n \in 0 .. W : Pow2[n] \in Nat \ {0}}
<1>1. W \in Nat
      BY TagAssumption
<1>2. 0 \in S
  <2>1. [n \in 0 .. 0 |-> 1]
            = [n \in 0 .. 0 |-> IF n = 0 THEN 1 ELSE 2 * [i \in 0 .. 0 |-> 1][n - 1]]
        OBVIOUS
  <2>2. \E f : Def(f, 0)
        BY <2>1
  <2> QED BY <1>1, <2>2
<1>3. ASSUME NEW m \in 1 .. W, m - 1 \in S PROVE m \in S
  <2>1. PICK f : Def(f, m - 1)
        BY <1>3
  <2> DEFINE g == [n \in 0 .. m |-> IF n = m THEN 2 * f[m - 1] ELSE f[n]]
  <2>2. Def(g, m)
    <3>1. ASSUME NEW n \in 0 .. m
          PROVE  g[n] = IF n = 0 THEN 1 ELSE 2 * g[n - 1]
      <4>1. CASE n = m
            BY <4>1
      <4>2. CASE n # m
            BY <4>2, <2>1
      <4> QED BY <4>1, <4>2
    <3>2. g = [n \in 0 .. m |-> g[n]]
          OBVIOUS
    <3> HIDE DEF g
    <3> QED BY <3>1, <3>2
  <2>3. \E h : Def(h, m)
    <3> HIDE DEF g
    <3> QED BY <2>2
  <2> QED BY <2>3
<1>4. W \in S
  <2> HIDE DEF S
  <2> QED BY <1>1, <1>2, <1>3, IntervalInduction
<1>5. PICK power : /\ Def(power, W)
                   /\ Pow2 = [n \in 0 .. W |-> power[n]]
      BY <1>4 DEF Pow2
<1>6. Pow2 = [n \in 0 .. W |-> Pow2[n]]
      BY <1>5
<1>7. /\ Pow2[0] = 1
      /\ \A n \in 1 .. W : Pow2[n] = 2 * Pow2[n - 1]
  <2>1. \A n \in 0 .. W : Pow2[n] = power[n]
        BY <1>5
  <2>2. \A n \in 0 .. W : power[n] = IF n = 0 THEN 1 ELSE 2 * power[n - 1]
        BY <1>5
  <2>3. \A n \in 1 .. W : n \in 0 .. W /\ n - 1 \in 0 .. W /\ n # 0
        BY <1>1
  <2>4. 0 \in 0 .. W
        BY <1>1
  <2>5. Pow2[0] = 1
        BY <2>1, <2>2, <2>4
  <2>6. ASSUME NEW n \in 1 .. W PROVE Pow2[n] = 2 * Pow2[n - 1]
    <3>1. Pow2[n] = power[n] /\ power[n] = 2 * power[n - 1] /\ Pow2[n - 1] = power[n - 1]
          BY <2>1, <2>2, <2>3
    <3> QED BY <3>1
  <2> QED BY <2>5, <2>6
<1>8. \A n \in 0 .. W : n \in Typed
  <2>1. 0 \in Typed
    <3>1. 0 \in 0 .. W /\ Pow2[0] = 1
          BY <1>1, <1>7
    <3> QED BY <3>1
  <2>2. ASSUME NEW n \in 1 .. W, n - 1 \in Typed PROVE n \in Typed
    <3>1. n \in 0 .. W /\ Pow2[n] = 2 * Pow2[n - 1]
          BY <1>1, <1>7
    <3>2. Pow2[n - 1] \in Nat \ {0}
          BY <2>2
    <3> QED BY <3>1, <3>2
  <2> HIDE DEF Typed
  <2> QED BY <1>1, <2>1, <2>2, IntervalInduction
<1> QED BY <1>6, <1>7, <1>8

LEMMA PowerOfSum ==
    ASSUME NEW m \in Nat, NEW n \in Nat, m + n <= W
    PROVE  Pow2[m + n] = Pow2[m] * Pow2[n]
<1> DEFINE S == {k \in 0 .. n : Pow2[m + k] = Pow2[m] * Pow2[k]}
<1>1. W \in Nat
      BY TagAssumption
<1>2. 0 \in S
      BY <1>1, Powers
<1>3. ASSUME NEW k \in 1 .. n, k - 1 \in S PROVE k \in S
  <2>1. m \in 0 .. W /\ k \in 1 .. W /\ k - 1 \in 0 .. W /\ m + k \in 1 .. W /\ (m + k) - 1 = m + (k - 1)
        BY <1>1
  <2>2. Pow2[m + k] = 2 * (Pow2[m] * Pow2[k - 1])
        BY <1>3, <2>1, Powers
  <2>3. Pow2[k] = 2 * Pow2[k - 1] /\ Pow2[m] \in Nat /\ Pow2[k - 1] \in Nat
        BY <2>1, Powers
  <2>4. \A a, b \in Nat : 2 * (a * b) = a * (2 * b)
        OBVIOUS
  <2> QED BY <2>2, <2>3, <2>4
<1>4. n \in S
  <2> HIDE DEF S
  <2> QED BY <1>2, <1>3, IntervalInduction
<1> QED BY <1>4

LEMMA PowersGrow ==
    ASSUME NEW m \in Nat, NEW n \in Nat, m <= n, n <= W
    PROVE  Pow2[m] \in Nat \ {0} /\ Pow2[n] \in Nat \ {0} /\ Pow2[m] <= Pow2[n]
<1>1. m \in 0 .. W /\ n \in 0 .. W /\ n - m \in 0 .. W
      BY TagAssumption
<1>2. Pow2[m] \in Nat \ {0} /\ Pow2[n] \in Nat \ {0} /\ Pow2[n - m] \in Nat \ {0}
      BY <1>1, Powers
<1>3. Pow2[n] = Pow2[m] * Pow2[n - m]
  <2>1. m + (n - m) = n
        OBVIOUS
  <2> QED BY <1>1, <2>1, PowerOfSum
<1>4. \A a, b \in Nat \ {0} : a <= a * b
      OBVIOUS
<1> QED BY <1>2, <1>3, <1>4

\* The powers that stand in the layout of words.
LEMMA SmallPowers ==
    /\ Pow2[1] = 2 /\ Pow2[2] = 4 /\ Pow2[3] = 8 /\ Pow2[4] = 16 /\ Pow2[5] = 32
    /\ Pow2[6] = 64 /\ Pow2[7] = 128 /\ Pow2[8] = 256
<1>1. W \in Nat /\ W > 16
      BY TagAssumption
<1>2. ASSUME NEW n \in 1 .. 8 PROVE Pow2[n] = 2 * Pow2[n - 1]
  <2>1. n \in 1 .. W
        BY <1>1
  <2> QED BY <2>1, Powers
<1>3. Pow2[0] = 1 /\ Pow2[1] = 2 * Pow2[0] /\ Pow2[2] = 2 * Pow2[1] /\ Pow2[3] = 2 * Pow2[2]
      BY <1>2, Powers
<1>4. Pow2[4] = 2 * Pow2[3] /\ Pow2[5] = 2 * Pow2[4] /\ Pow2[6] = 2 * Pow2[5]
      BY <1>2
<1>5. Pow2[7] = 2 * Pow2[6] /\ Pow2[8] = 2 * Pow2[7]
      BY <1>2
<1> QED BY <1>3, <1>4, <1>5

\* A word in units of what its fields are worth.
LEMMA WordSize ==
    /\ Pow2[W - 9] \in Nat \ {0} /\ Pow2[W - 8] = 2 * Pow2[W - 9]
    /\ Pow2[W - 7] = 4 * Pow2[W - 9] /\ Pow2[W - 6] = 8 * Pow2[W - 9]
    /\ Pow2[W - 5] = 16 * Pow2[W - 9] /\ Pow2[W - 1] = 256 * Pow2[W - 9]
    /\ Pow2[W] = 512 * Pow2[W - 9]
<1>1. W \in Nat /\ W > 16
      BY TagAssumption
<1>2. Pow2[W - 9] \in Nat \ {0}
  <2>1. W - 9 \in 0 .. W
        BY <1>1
  <2> QED BY <2>1, Powers
<1>3. /\ Pow2[W - 8] = 2 * Pow2[W - 9] /\ Pow2[W - 7] = 2 * Pow2[W - 8]
      /\ Pow2[W - 6] = 2 * Pow2[W - 7] /\ Pow2[W - 5] = 2 * Pow2[W - 6]
  <2>1. /\ W - 8 \in 1 .. W /\ W - 7 \in 1 .. W /\ W - 6 \in 1 .. W /\ W - 5 \in 1 .. W
        /\ (W - 8) - 1 = W - 9 /\ (W - 7) - 1 = W - 8
        /\ (W - 6) - 1 = W - 7 /\ (W - 5) - 1 = W - 6
        BY <1>1
  <2> QED BY <2>1, Powers
<1>4. Pow2[W - 1] = Pow2[W - 9] * Pow2[8]
  <2>1. W - 9 \in Nat /\ (W - 9) + 8 = W - 1 /\ W - 1 <= W
        BY <1>1
  <2> QED BY <2>1, PowerOfSum
<1>5. Pow2[W] = 2 * Pow2[W - 1]
      BY <1>1, Powers
<1> QED BY <1>2, <1>3, <1>4, <1>5, SmallPowers

LEMMA DataRange == Pow2[W - 8] \in Nat
BY WordSize

-----------------------------------------------------------------------------
(* Words that are no references.                                           *)

\* The word of a direct object: what it holds, its size, its class.
DirectWord(data, size, class) == (256 * data) + (32 * size) + (4 * class)

Numbers == {32 * d : d \in 0 .. Pow2[W - 5] - 1}
Characters == {DirectWord(c, 1, CLASS.CHAR) : c \in CODE}
ShortTexts(class) ==
    {DirectWord(t[2], t[1], class) :
        t \in {p \in (0 .. DIRECT_STR_MAX) \X Nat : p[2] < Pow2[CharBits * p[1]]}}
DirectWords == Numbers \cup Characters \cup ShortTexts(CLASS.VECTOR) \cup ShortTexts(CLASS.SYMBOL)

LEMMA DirectFields ==
    ASSUME NEW data \in 0 .. Pow2[W - 8] - 1, NEW size \in 0 .. 7, NEW class \in 0 .. 7
    PROVE  LET w == DirectWord(data, size, class)
           IN /\ w \in 0 .. Pow2[W] - 1
              /\ TagOf(w) = 0
              /\ DirectSize(w) = size
              /\ DirectClass(w) = class
              /\ w \div 256 = data
<1> DEFINE w == DirectWord(data, size, class)
<1>1. Pow2[W - 8] \in Nat /\ Pow2[W] = 256 * Pow2[W - 8]
      BY WordSize
<1>2. w \in 0 .. Pow2[W] - 1
      BY <1>1 DEF DirectWord
<1>3. TagOf(w) = 0
      BY DEF DirectWord, TagOf
<1>4. w \div 4 = (8 * ((8 * data) + size)) + class
      BY DEF DirectWord
<1>5. DirectClass(w) = class
      BY <1>4 DEF DirectClass
<1>6. w \div 32 = (8 * data) + size
      BY DEF DirectWord
<1>7. DirectSize(w) = size
      BY <1>6 DEF DirectSize
<1>8. w \div 256 = data
      BY DEF DirectWord
<1> QED BY <1>2, <1>3, <1>5, <1>7, <1>8

\* What Type::MakeDirect makes of any datum.
LEMMA MakeDirectWord ==
    ASSUME NEW data \in Int, NEW size \in 0 .. 7, NEW class \in 0 .. 7
    PROVE  /\ (data % Pow2[W - 8]) \in 0 .. Pow2[W - 8] - 1
           /\ MakeDirect(data, size, class) = DirectWord(data % Pow2[W - 8], size, class)
<1>1. Pow2[W - 8] \in Nat \ {0} /\ Pow2[W] = Pow2[W - 8] * 256 /\ Pow2[8] = 256
      BY WordSize, SmallPowers
<1>2. (data % Pow2[W]) % Pow2[W - 8] = data % Pow2[W - 8]
      BY <1>1, ModuloOfModulo
<1>3. (data % Pow2[W - 8]) \in 0 .. Pow2[W - 8] - 1
  <2> DEFINE n == Pow2[W - 8]
  <2>1. n \in Nat \ {0}
        BY <1>1
  <2>2. (data % n) \in 0 .. n - 1
    <3> HIDE DEF n
    <3> QED BY <2>1, Division
  <2> QED BY <2>2
<1>4. Shl(Word(data), 8) = (data % Pow2[W - 8]) * 256
      BY <1>1, <1>2 DEF Shl, Word
<1>5. size % 8 = size
      OBVIOUS
<1>6. \A d, s, c \in Int : (d * 256) + (s * 32) + (c * 4) = (256 * d) + (32 * s) + (4 * c)
      OBVIOUS
<1> QED BY <1>3, <1>4, <1>5, <1>6 DEF MakeDirect, DirectWord

-----------------------------------------------------------------------------
(* Fixnums.                                                                *)

\* Whatever the number, its fixnum holds its lower bits, and the tag and the
\* class of a fixnum.
LEMMA FixnumWord ==
    ASSUME NEW i \in Int
    PROVE  /\ (i % Pow2[W - 5]) \in 0 .. Pow2[W - 5] - 1
           /\ Fixnum(i) = 32 * (i % Pow2[W - 5])
<1>1. Pow2[W - 5] \in Nat \ {0} /\ Pow2[W] = Pow2[W - 5] * 32 /\ Pow2[5] = 32
      BY WordSize, SmallPowers
<1>2. (i % Pow2[W]) % Pow2[W - 5] = i % Pow2[W - 5]
      BY <1>1, ModuloOfModulo
<1>3. (i % Pow2[W - 5]) \in 0 .. Pow2[W - 5] - 1
      BY <1>1, Division
<1>4. Fixnum(i) = (i % Pow2[W - 5]) * 32
      BY <1>1, <1>2, <1>3 DEF Fixnum, Shl, Word, CLASS
<1> QED BY <1>3, <1>4

LEMMA FixnumFields ==
    ASSUME NEW d \in 0 .. Pow2[W - 5] - 1
    PROVE  /\ 32 * d \in 0 .. Pow2[W] - 1
           /\ TagOf(32 * d) = 0
           /\ DirectClass(32 * d) = 0
           /\ Int64Of(32 * d) = IF d >= Pow2[W - 6] THEN d - Pow2[W - 5] ELSE d
<1>1. /\ Pow2[W - 6] \in Nat \ {0} /\ Pow2[W - 5] = 2 * Pow2[W - 6]
      /\ Pow2[W] = 64 * Pow2[W - 6] /\ Pow2[W - 1] = 32 * Pow2[W - 6]
      BY WordSize
<1>2. 32 * d \in 0 .. Pow2[W] - 1
      BY <1>1
<1>3. TagOf(32 * d) = 0
      BY DEF TagOf
<1>4. (32 * d) \div 4 = 8 * d
      OBVIOUS
<1>5. DirectClass(32 * d) = 0
      BY <1>4 DEF DirectClass
<1>6. CASE d >= Pow2[W - 6]
  <2>1. Signed(32 * d) = 32 * (d - Pow2[W - 5])
        BY <1>1, <1>6 DEF Signed
  <2>2. d - Pow2[W - 5] \in Int
        BY <1>1
  <2>3. \A n \in Int : (32 * n) \div 32 = n
        OBVIOUS
  <2> QED BY <1>2, <1>3, <1>5, <1>6, <2>1, <2>2, <2>3 DEF Int64Of
<1>7. CASE ~(d >= Pow2[W - 6])
  <2>1. Signed(32 * d) = 32 * d
        BY <1>1, <1>7 DEF Signed
  <2>2. (32 * d) \div 32 = d
        OBVIOUS
  <2> QED BY <1>2, <1>3, <1>5, <1>7, <2>1, <2>2 DEF Int64Of
<1> QED BY <1>6, <1>7

\* Fixnums are the numbers of W - 5 bits: what Fixnum::Int64Of takes out of the
\* word of any number is the number, wrapped (type/fixnum.h).
THEOREM FixnumsWrap ==
    \A i \in Int :
        Int64Of(Fixnum(i)) = ((i + Pow2[W - 6]) % Pow2[W - 5]) - Pow2[W - 6]
<1>1. Pow2[W - 6] \in Nat \ {0} /\ Pow2[W - 5] = 2 * Pow2[W - 6]
      BY WordSize
<1>2. TAKE i \in Int
<1> DEFINE n == Pow2[W - 5]
           h == Pow2[W - 6]
           d == i % n
           q == i \div n
<1>3. n \in Nat \ {0} /\ h \in Nat \ {0} /\ n = 2 * h
      BY <1>1
<1>4. q \in Int /\ d \in 0 .. n - 1 /\ i = (n * q) + d
  <2> HIDE DEF n
  <2> QED BY <1>3, Division
<1>5. Int64Of(Fixnum(i)) = IF d >= h THEN d - n ELSE d
      BY <1>4, FixnumWord, FixnumFields
<1>6. CASE d >= h
  <2> DEFINE p == q + 1
             e == d - h
  <2>1. i + h = (n * p) + e /\ e \in 0 .. n - 1 /\ p \in Int
    <3> HIDE DEF n, h, d, q
    <3> QED BY <1>3, <1>4, <1>6
  <2>2. ((n * p) + e) % n = e
    <3> HIDE DEF n, h, d, q, p, e
    <3> QED BY <1>3, <2>1, Quotient
  <2>3. (i + h) % n = e
    <3> HIDE DEF n, h, d, q, p, e
    <3> QED BY <2>1, <2>2
  <2> QED BY <1>3, <1>4, <1>5, <1>6, <2>3
<1>7. CASE ~(d >= h)
  <2>1. i + h = (n * q) + (d + h) /\ d + h \in 0 .. n - 1
    <3> HIDE DEF n, h, d, q
    <3> QED BY <1>3, <1>4, <1>7
  <2>2. (i + h) % n = d + h
    <3> HIDE DEF n, h, d, q
    <3> QED BY <1>3, <1>4, <2>1, Quotient
  <2> QED BY <1>3, <1>4, <1>5, <1>7, <2>2
<1> QED BY <1>6, <1>7

-----------------------------------------------------------------------------
(* Sums and texts.                                                         *)

LEMMA QuotientOfQuotient ==
    ASSUME NEW a \in Int, NEW m \in Nat \ {0}, NEW k \in Nat \ {0}
    PROVE  /\ a \div (m * k) = (a \div m) \div k
           /\ a % (m * k) = (m * ((a \div m) % k)) + (a % m)
<1> DEFINE q == a \div m
           r == a % m
           p == q \div k
           s == q % k
           n == m * k
           t == (m * s) + r
<1>1. q \in Int /\ r \in 0 .. m - 1 /\ a = (m * q) + r
      BY Division
<1>2. p \in Int /\ s \in 0 .. k - 1 /\ q = (k * p) + s
  <2> HIDE DEF q
  <2> QED BY <1>1, Division
<1>3. n \in Nat \ {0}
      OBVIOUS
<1>4. t \in 0 .. n - 1
  <2>1. m * s \in Nat /\ m * s <= m * (k - 1) /\ m * (k - 1) = n - m
    <3> HIDE DEF q, r, p, s
    <3> QED BY <1>2, Product
  <2> HIDE DEF q, r, p, s, n
  <2> QED BY <1>1, <1>2, <1>3, <2>1
<1>5. a = (n * p) + t
  <2>1. a = (m * ((k * p) + s)) + r
    <3> HIDE DEF q, r, p, s
    <3> QED BY <1>1, <1>2
  <2>2. \A x, y, z, u, v \in Int : (x * ((y * z) + u)) + v = ((x * y) * z) + ((x * u) + v)
        OBVIOUS
  <2> HIDE DEF q, r, p, s
  <2> QED BY <1>1, <1>2, <2>1, <2>2
<1>6. a \div n = p /\ a % n = t
  <2> HIDE DEF n, p, t
  <2> QED BY <1>2, <1>3, <1>4, <1>5, Quotient
<1> QED BY <1>6

\* Total adds the elements up, from the first to the last.
LEMMA TotalSum ==
    ASSUME NEW n \in Nat, NEW s \in [1 .. n -> Int]
    PROVE  \E sum \in [0 .. n -> Int] :
              /\ sum[0] = 0
              /\ \A i \in 1 .. n : sum[i] = sum[i - 1] + s[i]
              /\ Total(s) = sum[n]
<1> DEFINE Def(f, m) == f = [i \in 0 .. m |-> IF i = 0 THEN 0 ELSE f[i - 1] + s[i]]
           S == {m \in 0 .. n : \E f : Def(f, m)}
<1>1. s \in Seq(Int) /\ Len(s) = n
      OBVIOUS
<1>2. 0 \in S
  <2>1. [i \in 0 .. 0 |-> 0]
            = [i \in 0 .. 0 |-> IF i = 0 THEN 0 ELSE [j \in 0 .. 0 |-> 0][i - 1] + s[i]]
        OBVIOUS
  <2>2. \E f : Def(f, 0)
        BY <2>1
  <2> QED BY <2>2
<1>3. ASSUME NEW m \in 1 .. n, m - 1 \in S PROVE m \in S
  <2>1. PICK f : Def(f, m - 1)
        BY <1>3
  <2> DEFINE g == [i \in 0 .. m |-> IF i = m THEN f[m - 1] + s[m] ELSE f[i]]
  <2>2. ASSUME NEW i \in 0 .. m
        PROVE  g[i] = IF i = 0 THEN 0 ELSE g[i - 1] + s[i]
    <3>1. CASE i = m
          BY <3>1
    <3>2. CASE i # m
          BY <3>2, <2>1
    <3> QED BY <3>1, <3>2
  <2>3. g = [i \in 0 .. m |-> g[i]]
        OBVIOUS
  <2>4. Def(g, m)
    <3> HIDE DEF g
    <3> QED BY <2>2, <2>3
  <2>5. \E h : Def(h, m)
    <3> HIDE DEF g
    <3> QED BY <2>4
  <2> QED BY <2>5
<1>4. n \in S
  <2> HIDE DEF S
  <2>1. \A i \in 0 .. n : i \in S
        BY <1>2, <1>3, IntervalInduction
  <2> QED BY <2>1
<1>5. PICK sum : Def(sum, n) /\ Total(s) = sum[n]
      BY <1>1, <1>4 DEF Total
<1>6. \A i \in 0 .. n : sum[i] = IF i = 0 THEN 0 ELSE sum[i - 1] + s[i]
      BY <1>5
<1>7. sum = [i \in 0 .. n |-> sum[i]]
      BY <1>5
<1>8. sum[0] = 0 /\ \A i \in 1 .. n : sum[i] = sum[i - 1] + s[i]
      BY <1>6
<1> DEFINE Typed == {i \in 0 .. n : sum[i] \in Int}
<1>9. \A i \in 0 .. n : i \in Typed
  <2>1. 0 \in Typed
        BY <1>8
  <2>2. ASSUME NEW i \in 1 .. n, i - 1 \in Typed PROVE i \in Typed
    <3>1. sum[i] = sum[i - 1] + s[i] /\ sum[i - 1] \in Int /\ s[i] \in Int
          BY <1>8, <2>2
    <3> QED BY <3>1
  <2> HIDE DEF Typed
  <2> QED BY <2>1, <2>2, IntervalInduction
<1>10. sum \in [0 .. n -> Int]
  <2>1. \A i \in 0 .. n : sum[i] \in Int
        BY <1>9
  <2> QED BY <1>7, <2>1
<1> QED BY <1>5, <1>8, <1>10

\* What a character of a text is worth in its word.
Scale(i) == Pow2[CharBits * i]

\* A word holds three to seven characters.
LEMMA TextLengths ==
    /\ DIRECT_STR_MAX \in 3 .. 7
    /\ CharBits * DIRECT_STR_MAX <= W - 8
    /\ W - 8 < CharBits * (DIRECT_STR_MAX + 1)
<1>1. /\ W \in Nat /\ W > 16 /\ CharBits \in Nat /\ CharBits >= 4
      /\ 3 * CharBits <= W - 8 /\ (W - 8) \div CharBits <= 7
      BY TagAssumption
<1> DEFINE n == DIRECT_STR_MAX
<1>2. n \in Int /\ CharBits * n <= W - 8 /\ n <= 7 /\ W - 8 < CharBits * (n + 1)
  <2> DEFINE a == W - 8
             r == a % CharBits
             q == a \div CharBits
  <2>1. n = q /\ a \in Int
        BY <1>1 DEF DIRECT_STR_MAX
  <2>2. q \in Int /\ r \in 0 .. CharBits - 1 /\ a = (CharBits * q) + r
    <3> HIDE DEF a
    <3> QED BY <1>1, <2>1, Division
  <2>3. n <= 7
        BY <1>1 DEF DIRECT_STR_MAX
  <2>4. a = W - 8
        OBVIOUS
  <2> HIDE DEF n, r, q, a
  <2> QED BY <1>1, <2>1, <2>2, <2>3, <2>4
<1> HIDE DEF n
<1>3. n >= 3
  <2>1. SUFFICES ASSUME n + 1 <= 3 PROVE FALSE
        BY <1>2
  <2>2. CharBits * (n + 1) <= CharBits * 3
    <3>1. \A c \in Nat, x, y \in Int : x <= y => c * x <= c * y
          OBVIOUS
    <3> QED BY <1>1, <1>2, <2>1, <3>1
  <2> QED BY <1>1, <1>2, <2>2
<1> QED BY <1>2, <1>3 DEF n

LEMMA Scales ==
    /\ CharBits \in Nat \ {0} /\ Pow2[CharBits] \in Nat /\ Pow2[CharBits] >= 16
    /\ DIRECT_STR_MAX \in 3 .. 7
    /\ Scale(0) = 1
    /\ \A i \in 0 .. DIRECT_STR_MAX :
          /\ CharBits * i \in 0 .. W - 8
          /\ Scale(i) \in Nat \ {0} /\ Scale(i) <= Pow2[W - 8]
          /\ Pow2[8 + (CharBits * i)] = 256 * Scale(i)
    /\ \A i \in 1 .. DIRECT_STR_MAX : Scale(i) = Scale(i - 1) * Pow2[CharBits]
<1>1. /\ W \in Nat /\ W > 16 /\ CharBits \in Nat /\ CharBits >= 4
      /\ 3 * CharBits <= W - 8
      BY TagAssumption
<1> DEFINE n == DIRECT_STR_MAX
<1>2. n \in 3 .. 7 /\ CharBits * n <= W - 8
      BY TextLengths
<1> HIDE DEF n
<1>3. n \in Int /\ n >= 3 /\ n <= 7
      BY <1>2
<1>4. Pow2[CharBits] \in Nat /\ Pow2[CharBits] >= 16
      BY <1>1, PowersGrow, SmallPowers
<1>5. Scale(0) = 1
      BY <1>1, Powers DEF Scale
<1>6. ASSUME NEW i \in 0 .. n
      PROVE  /\ CharBits * i \in 0 .. W - 8
             /\ Scale(i) \in Nat \ {0} /\ Scale(i) <= Pow2[W - 8]
             /\ Pow2[8 + (CharBits * i)] = 256 * Scale(i)
  <2> DEFINE e == CharBits * i
  <2>1. e \in Nat /\ e <= W - 8
    <3>1. CharBits * i <= CharBits * n /\ CharBits * i \in Nat
          BY <1>1, <1>2, <1>3, Product
    <3> QED BY <1>1, <1>2, <3>1
  <2>2. W - 8 \in Nat /\ W - 8 <= W /\ 8 + e <= W
        BY <1>1, <2>1
  <2>3. Pow2[e] \in Nat \ {0} /\ Pow2[e] <= Pow2[W - 8]
    <3> HIDE DEF e
    <3> QED BY <2>1, <2>2, PowersGrow
  <2>4. Pow2[8 + e] = Pow2[8] * Pow2[e]
    <3> HIDE DEF e
    <3> QED BY <2>1, <2>2, PowerOfSum
  <2> QED BY <2>1, <2>3, <2>4, SmallPowers, <1>1 DEF Scale
<1>7. ASSUME NEW i \in 1 .. n
      PROVE  Scale(i) = Scale(i - 1) * Pow2[CharBits]
  <2>1. /\ i - 1 \in 0 .. n /\ i \in 0 .. n
        /\ CharBits * i = (CharBits * (i - 1)) + CharBits
        BY <1>1, <1>2, <1>3
  <2> DEFINE e == CharBits * (i - 1)
  <2>2. e \in Nat /\ e + CharBits <= W
        BY <1>1, <1>6, <2>1
  <2>3. Pow2[e + CharBits] = Pow2[e] * Pow2[CharBits]
    <3> HIDE DEF e
    <3> QED BY <1>1, <2>2, PowerOfSum
  <2> QED BY <2>1, <2>3 DEF Scale
<1> QED BY <1>1, <1>2, <1>3, <1>4, <1>5, <1>6, <1>7 DEF n

\* The word of a text, character by character.
LEMMA TextSum ==
    ASSUME NEW s \in Seq(CODE), Len(s) <= DIRECT_STR_MAX
    PROVE  \E sum \in [0 .. Len(s) -> Nat] :
              /\ sum[0] = 0
              /\ \A i \in 1 .. Len(s) : sum[i] = sum[i - 1] + (s[i] * Scale(i - 1))
              /\ TextBits(s) = sum[Len(s)]
              /\ \A i \in 0 .. Len(s) : sum[i] < Scale(i)
<1> DEFINE n == Len(s)
           f == [i \in DOMAIN s |-> s[i] * Pow2[CharBits * (i - 1)]]
<1>1. n \in Nat /\ n <= DIRECT_STR_MAX /\ DIRECT_STR_MAX \in 3 .. 7 /\ DOMAIN s = 1 .. n
      BY Scales
<1>2. ASSUME NEW i \in 1 .. n
      PROVE  /\ s[i] \in Nat /\ s[i] <= Pow2[CharBits] - 1
             /\ i - 1 \in 0 .. DIRECT_STR_MAX /\ i \in 1 .. DIRECT_STR_MAX
             /\ f[i] = s[i] * Scale(i - 1)
  <2>1. s[i] \in CODE
        BY <1>1
  <2>2. s[i] \in Nat /\ s[i] <= Pow2[CharBits] - 1
        BY <2>1, Scales DEF CODE
  <2> QED BY <1>1, <2>2 DEF Scale
<1>3. ASSUME NEW i \in 0 .. DIRECT_STR_MAX PROVE Scale(i) \in Nat \ {0}
      BY <1>1, Scales
<1>4. f \in [1 .. n -> Int]
  <2>0. \A x, y \in Nat : x * y \in Int
        OBVIOUS
  <2>1. ASSUME NEW i \in 1 .. n PROVE s[i] * Scale(i - 1) \in Int
    <3>1. s[i] \in Nat /\ Scale(i - 1) \in Nat
          BY <1>2, <1>3
    <3> QED BY <3>1, <2>0
  <2>2. f = [i \in 1 .. n |-> f[i]]
        BY <1>1
  <2>3. \A i \in 1 .. n : f[i] \in Int
    <3> HIDE DEF f
    <3> QED BY <1>2, <2>1
  <2> HIDE DEF f
  <2> QED BY <2>2, <2>3
<1>5. PICK sum \in [0 .. n -> Int] : /\ sum[0] = 0
                                     /\ \A i \in 1 .. n : sum[i] = sum[i - 1] + f[i]
                                     /\ Total(f) = sum[n]
  <2> HIDE DEF f, n
  <2> QED BY <1>1, <1>4, TotalSum
<1>6. \A i \in 1 .. n : sum[i] = sum[i - 1] + (s[i] * Scale(i - 1))
  <2> HIDE DEF f, n
  <2> QED BY <1>2, <1>5
<1>7. TextBits(s) = sum[n]
      BY <1>5 DEF TextBits
<1> DEFINE Below == {i \in 0 .. n : sum[i] \in Nat /\ sum[i] < Scale(i)}
<1>8. \A i \in 0 .. n : i \in Below
  <2>1. 0 \in Below
    <3>1. Scale(0) = 1 /\ sum[0] = 0 /\ 0 \in 0 .. n
          BY <1>1, <1>5, Scales
    <3> QED BY <3>1
  <2>2. ASSUME NEW i \in 1 .. n, i - 1 \in Below PROVE i \in Below
    <3> DEFINE m == Scale(i - 1)
               c == s[i]
               k == Pow2[CharBits]
               a == sum[i - 1]
    <3>1. m \in Nat \ {0} /\ c \in Nat /\ c <= k - 1 /\ k \in Nat /\ k >= 16
          BY <1>2, <1>3, Scales
    <3>2. sum[i] = a + (c * m) /\ Scale(i) = m * k
          BY <1>2, <1>6, Scales
    <3>3. a \in Nat /\ a < m
          BY <2>2
    <3>4. c * m <= (k - 1) * m /\ c * m \in Nat /\ (k - 1) * m = (m * k) - m
      <4> HIDE DEF m, c, k, a
      <4> QED BY <3>1, Product
    <3>5. a + (c * m) \in Nat /\ a + (c * m) < m * k
      <4>1. m * k \in Nat
            BY <3>1
      <4> HIDE DEF m, c, k, a
      <4> QED BY <3>1, <3>3, <3>4, <4>1
    <3> HIDE DEF m, c, k, a
    <3> QED BY <3>2, <3>5
  <2> HIDE DEF Below
  <2> QED BY <1>1, <2>1, <2>2, IntervalInduction
<1>9. sum \in [0 .. n -> Nat] /\ \A i \in 0 .. n : sum[i] < Scale(i)
  <2>1. sum = [i \in 0 .. n |-> sum[i]]
        BY <1>5
  <2>2. \A i \in 0 .. n : sum[i] \in Nat /\ sum[i] < Scale(i)
        BY <1>8
  <2> QED BY <2>1, <2>2
<1> QED BY <1>5, <1>6, <1>7, <1>9

LEMMA ModuloShift ==
    ASSUME NEW a \in Int, NEW q \in Int, NEW m \in Nat \ {0}
    PROVE  (a + (m * q)) % m = a % m
<1> DEFINE p == a \div m
           r == a % m
           t == p + q
<1>1. p \in Int /\ r \in 0 .. m - 1 /\ a = (m * p) + r
      BY Division
<1>2. t \in Int /\ a + (m * q) = (m * t) + r
  <2> HIDE DEF p, r
  <2> QED BY <1>1
<1>3. ((m * t) + r) % m = r
  <2> HIDE DEF t, r
  <2> QED BY <1>1, <1>2, Quotient
<1> QED BY <1>2, <1>3

\* A character is where its text says.
LEMMA DigitsOfText ==
    ASSUME NEW s \in Seq(CODE), Len(s) <= DIRECT_STR_MAX, NEW i \in 1 .. Len(s)
    PROVE  (TextBits(s) \div Scale(i - 1)) % Pow2[CharBits] = s[i]
<1> DEFINE n == Len(s)
           m == Scale(i - 1)
           k == Pow2[CharBits]
<1>1. n \in Nat /\ n <= DIRECT_STR_MAX /\ DIRECT_STR_MAX \in 3 .. 7 /\ DOMAIN s = 1 .. n
      BY Scales
<1>2. PICK sum \in [0 .. n -> Nat] :
              /\ sum[0] = 0
              /\ \A j \in 1 .. n : sum[j] = sum[j - 1] + (s[j] * Scale(j - 1))
              /\ TextBits(s) = sum[n]
              /\ \A j \in 0 .. n : sum[j] < Scale(j)
      BY TextSum
<1>3. \A j \in 1 .. n : s[j] \in Nat
  <2>1. CODE \subseteq Nat
        BY Scales DEF CODE
  <2> QED BY <1>1, <2>1
<1>4. Scale(i) \in Nat \ {0} /\ m \in Nat \ {0} /\ k \in Nat \ {0} /\ Scale(i) = m * k
  <2>1. i \in 1 .. DIRECT_STR_MAX /\ i \in 0 .. DIRECT_STR_MAX /\ i - 1 \in 0 .. DIRECT_STR_MAX
        BY <1>1
  <2>2. k \in Nat \ {0}
    <3>1. k \in Nat /\ k >= 16
          BY Scales
    <3> HIDE DEF k
    <3> QED BY <3>1
  <2> QED BY <2>1, <2>2, Scales
<1> DEFINE Same == {j \in 0 .. n : j >= i => sum[j] % Scale(i) = sum[i]}
<1>5. n \in Same
  <2>1. 0 \in Same
        BY <1>1
  <2>2. ASSUME NEW j \in 1 .. n, j - 1 \in Same PROVE j \in Same
    <3>1. CASE j < i
          BY <3>1, <1>1
    <3>2. CASE j = i
      <4>1. sum[i] \in Nat /\ sum[i] < Scale(i)
            BY <1>1, <1>2
      <4>2. \A x, y \in Nat : x < y => x % y = x
            OBVIOUS
      <4> QED BY <1>4, <3>2, <4>1, <4>2
    <3>3. CASE j > i
      <4> DEFINE d == Scale((j - 1) - i)
      <4>1. j - 1 \in 0 .. n /\ (j - 1) - i \in 0 .. DIRECT_STR_MAX /\ j - 1 \in 0 .. DIRECT_STR_MAX
            BY <1>1, <3>3
      <4>2. Scale(j - 1) = Scale(i) * d
        <5>1. /\ CharBits * i \in Nat /\ CharBits * ((j - 1) - i) \in Nat
              /\ CharBits * (j - 1) <= W
              BY <1>1, <4>1, Scales, TagAssumption
        <5>2. (CharBits * i) + (CharBits * ((j - 1) - i)) = CharBits * (j - 1)
              BY <1>1, <4>1, Scales
        <5> DEFINE e == CharBits * i
                   f == CharBits * ((j - 1) - i)
        <5>3. Pow2[e + f] = Pow2[e] * Pow2[f]
          <6>1. e \in Nat /\ f \in Nat /\ e + f <= W
                BY <5>1, <5>2
          <6> HIDE DEF e, f
          <6> QED BY <6>1, PowerOfSum
        <5> QED BY <5>2, <5>3 DEF Scale
      <4>3. d \in Nat
            BY <4>1, Scales
      <4>4. sum[j] = sum[j - 1] + (Scale(i) * (s[j] * d))
        <5>1. \A x, y, z \in Nat : x * (y * z) = y * (x * z)
              OBVIOUS
        <5>2. s[j] * (Scale(i) * d) = Scale(i) * (s[j] * d)
          <6> HIDE DEF d
          <6> QED BY <1>3, <1>4, <4>3, <5>1
        <5> HIDE DEF d
        <5> QED BY <1>2, <4>2, <5>2
      <4>5. s[j] * d \in Int /\ sum[j - 1] \in Int
        <5> HIDE DEF d
        <5>1. s[j] \in Nat /\ sum[j - 1] \in Nat
              BY <1>2, <1>3, <4>1
        <5>2. \A x, y \in Nat : x * y \in Int
              OBVIOUS
        <5> QED BY <4>3, <5>1, <5>2
      <4>6. sum[j] % Scale(i) = sum[j - 1] % Scale(i)
        <5> DEFINE q == s[j] * d
        <5>1. (sum[j - 1] + (Scale(i) * q)) % Scale(i) = sum[j - 1] % Scale(i)
          <6> HIDE DEF q
          <6> QED BY <1>4, <4>5, ModuloShift DEF q
        <5> QED BY <4>4, <5>1
      <4> QED BY <2>2, <3>3, <4>1, <4>6
    <3> QED BY <1>1, <3>1, <3>2, <3>3
  <2> HIDE DEF Same
  <2>3. \A j \in 0 .. n : j \in Same
        BY <1>1, <2>1, <2>2, IntervalInduction
  <2> QED BY <1>1, <2>3
<1> DEFINE b == sum[n]
           c == (b \div m) % k
<1>6. b \in Int /\ b % Scale(i) = sum[i]
      BY <1>1, <1>2, <1>5
<1>7. b % (m * k) = (m * c) + (b % m)
  <2> HIDE DEF b, m, k
  <2> QED BY <1>4, <1>6, QuotientOfQuotient DEF c
<1>8. sum[i] = sum[i - 1] + (s[i] * m) /\ sum[i - 1] \in Nat /\ sum[i - 1] < m /\ s[i] \in Nat
      BY <1>1, <1>2, <1>3
<1>9. (b % m) \in 0 .. m - 1
  <2> HIDE DEF b, m
  <2> QED BY <1>4, <1>6, Division
<1>10. c \in Int
  <2> DEFINE q == b \div m
  <2> HIDE DEF b, m, k
  <2>1. q \in Int
        BY <1>4, <1>6, Division
  <2>2. (q % k) \in Int
    <3> HIDE DEF q
    <3> QED BY <1>4, <2>1, Division
  <2> QED BY <2>2
<1>11. (m * c) + (b % m) = (m * s[i]) + sum[i - 1]
  <2> HIDE DEF b, m, k, c
  <2> QED BY <1>4, <1>6, <1>7, <1>8
<1>12. c = s[i]
  <2>1. ((m * c) + (b % m)) \div m = c
    <3> HIDE DEF b, m, k, c
    <3> QED BY <1>4, <1>9, <1>10, Quotient
  <2>2. ((m * s[i]) + sum[i - 1]) \div m = s[i]
    <3> HIDE DEF b, m, k, c
    <3>1. s[i] \in Int /\ sum[i - 1] \in 0 .. m - 1
          BY <1>4, <1>8
    <3> QED BY <1>4, <3>1, Quotient
  <2> HIDE DEF b, m, k, c
  <2> QED BY <1>11, <2>1, <2>2
<1> QED BY <1>2, <1>12

\* The text of a word, and back.
LEMMA TextOfDigits ==
    ASSUME NEW n \in 0 .. DIRECT_STR_MAX, NEW b \in Nat, b < Scale(n)
    PROVE  LET s == [i \in 1 .. n |-> (b \div Scale(i - 1)) % Pow2[CharBits]]
           IN s \in Seq(CODE) /\ Len(s) = n /\ TextBits(s) = b
<1> DEFINE k == Pow2[CharBits]
           s == [i \in 1 .. n |-> (b \div Scale(i - 1)) % k]
<1>1. DIRECT_STR_MAX \in 3 .. 7 /\ k \in Nat \ {0}
      BY Scales
<1>2. ASSUME NEW i \in 1 .. n
      PROVE  /\ Scale(i) \in Nat \ {0} /\ Scale(i - 1) \in Nat \ {0}
             /\ Scale(i) = Scale(i - 1) * k
             /\ b \div Scale(i - 1) \in Int
             /\ s[i] \in CODE
  <2>1. i \in 1 .. DIRECT_STR_MAX /\ i - 1 \in 0 .. DIRECT_STR_MAX
        BY <1>1
  <2>2. Scale(i) \in Nat \ {0} /\ Scale(i - 1) \in Nat \ {0} /\ Scale(i) = Scale(i - 1) * k
        BY <1>1, <2>1, Scales
  <2> DEFINE m == Scale(i - 1)
             q == b \div m
  <2>3. q \in Int
    <3> HIDE DEF m
    <3>1. m \in Nat \ {0} /\ b \in Int
          BY <2>2 DEF m
    <3> QED BY <3>1, Division
  <2>4. (q % k) \in 0 .. k - 1
    <3> HIDE DEF q, k
    <3> QED BY <1>1, <2>3, Division
  <2> QED BY <2>2, <2>3, <2>4 DEF CODE
<1>3. s \in Seq(CODE) /\ Len(s) = n /\ DOMAIN s = 1 .. n
  <2>1. s = [i \in 1 .. n |-> s[i]]
        OBVIOUS
  <2> HIDE DEF s
  <2>2. s \in [1 .. n -> CODE]
        BY <1>2, <2>1
  <2> QED BY <1>1, <2>2
<1>4. PICK sum \in [0 .. n -> Nat] :
              /\ sum[0] = 0
              /\ \A i \in 1 .. n : sum[i] = sum[i - 1] + (s[i] * Scale(i - 1))
              /\ TextBits(s) = sum[n]
  <2> HIDE DEF s
  <2> QED BY <1>1, <1>3, TextSum
<1> DEFINE Same == {i \in 0 .. n : sum[i] = b % Scale(i)}
<1>5. \A i \in 0 .. n : i \in Same
  <2>1. 0 \in Same
    <3>1. b % 1 = 0
          OBVIOUS
    <3> QED BY <1>1, <1>4, <3>1, Scales
  <2>2. ASSUME NEW i \in 1 .. n, i - 1 \in Same PROVE i \in Same
    <3> DEFINE m == Scale(i - 1)
               c == (b \div m) % k
    <3>1. b % (m * k) = (m * c) + (b % m)
      <4>1. m \in Nat \ {0}
            BY <1>2
      <4>2. b \in Int
            OBVIOUS
      <4> HIDE DEF m, k
      <4> QED BY <1>1, <4>1, <4>2, QuotientOfQuotient
    <3>2. s[i] = c
          OBVIOUS
    <3>3. c \in Nat /\ m \in Nat
      <4>1. CODE \subseteq Nat
            BY Scales DEF CODE
      <4>2. s[i] \in CODE /\ m \in Nat
            BY <1>2
      <4> HIDE DEF c, s, m
      <4> QED BY <3>2, <4>1, <4>2
    <3>4. sum[i] = sum[i - 1] + (c * m) /\ sum[i - 1] = b % m /\ sum[i - 1] \in Nat
      <4> HIDE DEF c, s
      <4> QED BY <1>4, <2>2, <3>2
    <3>5. sum[i] = b % (m * k)
      <4> HIDE DEF c, s, m, k
      <4> QED BY <3>1, <3>3, <3>4
    <3> QED BY <1>2, <3>5
  <2>3. n \in Nat
        BY <1>1
  <2> HIDE DEF Same
  <2> QED BY <2>1, <2>2, <2>3, IntervalInduction
<1>6. b % Scale(n) = b
  <2>1. Scale(n) \in Nat \ {0}
        BY Scales
  <2>2. \A x, y \in Nat : x < y => x % y = x
        OBVIOUS
  <2> QED BY <2>1, <2>2
<1> QED BY <1>1, <1>3, <1>4, <1>5, <1>6

LEMMA TextFields ==
    ASSUME NEW n \in 0 .. DIRECT_STR_MAX, NEW b \in Nat, b < Scale(n), NEW class \in 0 .. 7
    PROVE  LET w == DirectWord(b, n, class)
           IN /\ b \in 0 .. Pow2[W - 8] - 1 /\ n \in 0 .. 7
              /\ DirectText(w) = [i \in 1 .. n |-> (b \div Scale(i - 1)) % Pow2[CharBits]]
              /\ TextBits(DirectText(w)) = b
<1> DEFINE w == DirectWord(b, n, class)
<1>1. /\ DIRECT_STR_MAX \in 3 .. 7 /\ Scale(n) \in Nat \ {0} /\ Scale(n) <= Pow2[W - 8]
      /\ Pow2[W - 8] \in Nat
      BY Scales, WordSize
<1>2. b \in 0 .. Pow2[W - 8] - 1 /\ n \in 0 .. 7
      BY <1>1
<1>3. DirectSize(w) = n /\ w \div 256 = b /\ w \in Int
  <2>1. w \in Int
        BY <1>2 DEF DirectWord
  <2> QED BY <1>2, <2>1, DirectFields
<1>4. ASSUME NEW i \in 1 .. n
      PROVE  w \div Pow2[8 + (CharBits * (i - 1))] = b \div Scale(i - 1)
  <2> DEFINE m == Scale(i - 1)
  <2>1. i - 1 \in 0 .. DIRECT_STR_MAX
        BY <1>1
  <2>2. m \in Nat \ {0} /\ Pow2[8 + (CharBits * (i - 1))] = 256 * m
        BY <2>1, Scales
  <2>3. w \div (256 * m) = (w \div 256) \div m
    <3> DEFINE c == 256
    <3>1. c \in Nat \ {0}
          OBVIOUS
    <3>2. w \div (c * m) = (w \div c) \div m
      <4> HIDE DEF w, m, c
      <4> QED BY <1>3, <2>2, <3>1, QuotientOfQuotient, ZenonT(30)
    <3> QED BY <3>2
  <2> QED BY <1>3, <2>2, <2>3
<1>5. DirectText(w) = [i \in 1 .. n |-> (b \div Scale(i - 1)) % Pow2[CharBits]]
  <2> HIDE DEF w
  <2> QED BY <1>3, <1>4 DEF DirectText
<1>6. TextBits(DirectText(w)) = b
      BY <1>5, TextOfDigits
<1> QED BY <1>2, <1>5, <1>6

\* What a direct word holds is read back.
LEMMA DirectWordsRead ==
    \A data \in 0 .. Pow2[W - 8] - 1, size \in 0 .. 7, class \in 0 .. 7 :
        LET w == DirectWord(data, size, class)
        IN /\ w \in 0 .. Pow2[W] - 1 /\ TagOf(w) = 0
           /\ DirectClass(w) = class /\ DirectSize(w) = size
<1> SUFFICES ASSUME NEW data \in 0 .. Pow2[W - 8] - 1, NEW size \in 0 .. 7,
                    NEW class \in 0 .. 7
             PROVE  LET w == DirectWord(data, size, class)
                    IN /\ w \in 0 .. Pow2[W] - 1 /\ TagOf(w) = 0
                       /\ DirectClass(w) = class /\ DirectSize(w) = size
    OBVIOUS
<1> QED BY DirectFields, SMTT(30)

\* The word of a text that is short enough.
LEMMA ShortTextWord ==
    ASSUME NEW s \in Seq(CODE), Len(s) <= DIRECT_STR_MAX, NEW class \in 0 .. 7
    PROVE  LET w == MakeDirect(TextBits(s), Len(s), class)
           IN w \in ShortTexts(class) /\ DirectText(w) = s
<1> DEFINE b == TextBits(s)
           n == Len(s)
           w == MakeDirect(b, n, class)
<1>1. n \in 0 .. DIRECT_STR_MAX /\ DIRECT_STR_MAX \in 3 .. 7
  <2>1. DIRECT_STR_MAX \in 3 .. 7
        BY TextLengths
  <2>2. n \in Nat /\ n <= DIRECT_STR_MAX
        OBVIOUS
  <2> HIDE DEF n
  <2> QED BY <2>1, <2>2
<1>2. b \in Nat /\ b < Scale(n)
  <2>1. PICK sum \in [0 .. n -> Nat] :
              TextBits(s) = sum[n] /\ \A i \in 0 .. n : sum[i] < Scale(i)
        BY TextSum
  <2>2. n \in 0 .. n
        BY <1>1
  <2> QED BY <2>1, <2>2
<1>3. b \in 0 .. Pow2[W - 8] - 1 /\ n \in 0 .. 7
  <2> HIDE DEF b, n
  <2> QED BY <1>1, <1>2, TextFields
<1>4. b % Pow2[W - 8] = b
  <2>1. Pow2[W - 8] \in Nat
        BY DataRange
  <2>2. \A x, y \in Nat : x < y => x % y = x
        OBVIOUS
  <2> HIDE DEF b, n
  <2> QED BY <1>3, <2>1, <2>2
<1>5. w = DirectWord(b, n, class)
  <2>1. MakeDirect(b, n, class) = DirectWord(b % Pow2[W - 8], n, class)
    <3>1. b \in Int /\ n \in 0 .. 7
          BY <1>2, <1>3
    <3> HIDE DEF b, n
    <3> QED BY <3>1, MakeDirectWord
  <2> QED BY <1>4, <2>1
<1>6. w \in ShortTexts(class)
  <2> DEFINE p == <<n, b>>
  <2>1. p \in {q \in (0 .. DIRECT_STR_MAX) \X Nat : q[2] < Pow2[CharBits * q[1]]}
        BY <1>1, <1>2 DEF Scale
  <2> QED BY <1>5, <2>1 DEF ShortTexts
<1>7. DirectText(w) = [i \in 1 .. n |-> (b \div Scale(i - 1)) % Pow2[CharBits]]
  <2> HIDE DEF b, n, w
  <2> QED BY <1>1, <1>2, <1>5, TextFields
<1>8. \A i \in 1 .. n : (b \div Scale(i - 1)) % Pow2[CharBits] = s[i]
      BY DigitsOfText
<1>9. DirectText(w) = s
  <2>1. s = [i \in 1 .. n |-> s[i]]
        OBVIOUS
  <2> HIDE DEF b, n, w
  <2> QED BY <1>7, <1>8, <2>1
<1> QED BY <1>6, <1>9

\* A string that is its own word, and a keyword, are the characters they were
\* made of (Vector::Heap, type/vector.h; Symbol::Keyword, type/symbol.h).
THEOREM ShortTextsReadBack ==
    \A s \in Seq(CODE) : Len(s) <= DIRECT_STR_MAX =>
        DirectText(DirectString(s)) = s /\ DirectText(Keyword(s)) = s
<1>1. CLASS.VECTOR \in 0 .. 7 /\ CLASS.SYMBOL \in 0 .. 7
      BY DEF CLASS
<1> QED BY <1>1, ShortTextWord DEF DirectString, Keyword

CLASSES == {CLASS.FIXNUM, CLASS.CHAR, CLASS.BYTE, CLASS.T}

LEMMA ClassSymbols ==
    ASSUME NEW class \in CLASSES
    PROVE  /\ MapClassSymbol(class) \in ShortTexts(CLASS.SYMBOL)
           /\ MapSymbolClass(MapClassSymbol(class)) = class
<1> DEFINE s == <<class>>
<1>1. s \in Seq(CODE) /\ Len(s) = 1 /\ s[1] = class
  <2>1. class \in CODE
        BY Scales DEF CLASSES, CLASS, CODE
  <2> QED BY <2>1
<1>2. CLASS.SYMBOL \in 0 .. 7 /\ 1 <= DIRECT_STR_MAX
      BY Scales DEF CLASS
<1>3. Keyword(s) \in ShortTexts(CLASS.SYMBOL) /\ DirectText(Keyword(s)) = s
  <2> HIDE DEF s
  <2> QED BY <1>1, <1>2, ShortTextWord DEF Keyword
<1> QED BY <1>1, <1>3 DEF MapClassSymbol, MapSymbolClass

LEMMA Symbols == NIL \in ShortTexts(CLASS.SYMBOL) /\ T \in ShortTexts(CLASS.SYMBOL)
<1>1. NilText \in Seq(CODE) /\ Len(NilText) = 3
  <2>1. 14 \in CODE /\ 9 \in CODE /\ 4 \in CODE
        BY Scales DEF CODE
  <2> QED BY <2>1 DEF NilText
<1>2. CLASS.SYMBOL \in 0 .. 7 /\ 3 <= DIRECT_STR_MAX
      BY Scales DEF CLASS
<1>3. NIL \in ShortTexts(CLASS.SYMBOL)
      BY <1>1, <1>2, ShortTextWord DEF NIL, Keyword
<1> QED BY <1>3, ClassSymbols DEF T, CLASSES

\* What the program sees of the words of each kind.
LEMMA NumberFields ==
    ASSUME NEW w \in Numbers
    PROVE  /\ w \in 0 .. Pow2[W] - 1 /\ TagOf(w) = 0 /\ DirectClass(w) = 0
           /\ Int64Of(w) \in Int
<1>1. PICK d \in 0 .. Pow2[W - 5] - 1 : w = 32 * d
      BY DEF Numbers
<1>2. Pow2[W - 5] \in Nat
      BY WordSize
<1> QED BY <1>1, <1>2, FixnumFields

LEMMA CharacterFields ==
    ASSUME NEW c \in CODE
    PROVE  LET w == DirectWord(c, 1, CLASS.CHAR)
           IN /\ w \in 0 .. Pow2[W] - 1 /\ TagOf(w) = 0 /\ DirectClass(w) = 1
              /\ DirectSize(w) = 1 /\ UInt64Of(w) = c
<1> DEFINE w == DirectWord(c, 1, CLASS.CHAR)
<1>1. CODE = 0 .. Pow2[CharBits] - 1 /\ Pow2[CharBits] \in Nat
      BY Scales DEF CODE
<1>2. Pow2[CharBits] <= Pow2[W - 9] /\ Pow2[W - 9] \in Nat
  <2>1. CharBits \in Nat /\ W - 9 \in Nat /\ CharBits <= W - 9 /\ W - 9 <= W
        BY TagAssumption
  <2> HIDE DEF w
  <2> QED BY <2>1, PowersGrow
<1>3. /\ Pow2[W - 8] = 2 * Pow2[W - 9] /\ Pow2[W - 1] = 256 * Pow2[W - 9]
      /\ Pow2[W] = 512 * Pow2[W - 9]
      BY WordSize
<1>4. c \in 0 .. Pow2[W - 8] - 1 /\ c < Pow2[W - 9] /\ c \in Nat
      BY <1>1, <1>2, <1>3
<1>5. CLASS.CHAR = 1
      BY DEF CLASS
<1>6. /\ w \in 0 .. Pow2[W] - 1 /\ TagOf(w) = 0 /\ DirectClass(w) = 1
      /\ DirectSize(w) = 1 /\ w \div 256 = c
  <2>1. 1 \in 0 .. 7
        OBVIOUS
  <2> QED BY <1>4, <1>5, <2>1, DirectFields
<1>7. w = (256 * c) + 36
      BY <1>4, <1>5 DEF DirectWord
<1>8. w < Pow2[W - 1]
  <2> HIDE DEF w
  <2> QED BY <1>2, <1>3, <1>4, <1>7
<1>9. UInt64Of(w) = c
  <2>1. Signed(w) = w
        BY <1>2, <1>3, <1>6, <1>8 DEF Signed
  <2>2. DirectData(w) = Word(c)
    <3> HIDE DEF w
    <3> QED BY <1>6, <2>1, SmallPowers DEF DirectData, Asr
  <2>3. Word(c) = c
    <3>1. \A x, y \in Nat : x < y => x % y = x
          OBVIOUS
    <3>2. c < Pow2[W] /\ Pow2[W] \in Nat
          BY <1>2, <1>3, <1>4
    <3> QED BY <1>4, <3>1, <3>2 DEF Word
  <2> QED BY <2>2, <2>3 DEF UInt64Of
<1> QED BY <1>6, <1>9

LEMMA CharOfWord ==
    ASSUME NEW i \in Int
    PROVE  /\ (i % Pow2[CharBits]) \in CODE
           /\ CharOf(i) = DirectWord(i % Pow2[CharBits], 1, CLASS.CHAR)
           /\ CharOf(i) \in Characters
<1> DEFINE k == Pow2[CharBits]
           c == i % k
<1>1. k \in Nat \ {0}
  <2>1. k \in Nat /\ k >= 16
        BY Scales
  <2> HIDE DEF k
  <2> QED BY <2>1
<1>2. c \in 0 .. k - 1
  <2> HIDE DEF k
  <2> QED BY <1>1, Division
<1>3. Pow2[CharBits] <= Pow2[W - 8] /\ Pow2[W - 8] \in Nat
  <2>1. CharBits \in Nat /\ W - 8 \in Nat /\ CharBits <= W - 8 /\ W - 8 <= W
        BY TagAssumption
  <2> QED BY <2>1, PowersGrow
<1>4. c % Pow2[W - 8] = c
  <2>1. \A x, y \in Nat : x < y => x % y = x
        OBVIOUS
  <2>2. c \in Nat /\ c < Pow2[W - 8]
    <3> HIDE DEF c
    <3> QED BY <1>1, <1>2, <1>3
  <2> HIDE DEF c
  <2> QED BY <1>3, <2>1, <2>2
<1>5. CharOf(i) = DirectWord(c, 1, CLASS.CHAR)
  <2>1. c \in Int /\ 1 \in 0 .. 7 /\ CLASS.CHAR \in 0 .. 7
    <3> HIDE DEF c
    <3> QED BY <1>1, <1>2 DEF CLASS
  <2>2. MakeDirect(c, 1, CLASS.CHAR) = DirectWord(c % Pow2[W - 8], 1, CLASS.CHAR)
    <3> HIDE DEF c
    <3> QED BY <2>1, MakeDirectWord
  <2> QED BY <1>4, <2>2 DEF CharOf
<1>6. c \in CODE
      BY <1>2 DEF CODE
<1> QED BY <1>5, <1>6 DEF Characters

\* A byte is a character and back (Char in type/char.h).
THEOREM CharactersReadBack ==
    \A i \in Int : UInt64Of(CharOf(i)) = i % Pow2[CharBits]
BY CharOfWord, CharacterFields

LEMMA ShortTextFields ==
    ASSUME NEW class \in 0 .. 7, NEW w \in ShortTexts(class)
    PROVE  /\ w \in 0 .. Pow2[W] - 1 /\ TagOf(w) = 0 /\ DirectClass(w) = class
           /\ DirectSize(w) \in 0 .. DIRECT_STR_MAX
           /\ DirectText(w) \in Seq(CODE)
           /\ Len(DirectText(w)) = DirectSize(w)
           /\ w = DirectWord(TextBits(DirectText(w)), Len(DirectText(w)), class)
<1>1. PICK p \in (0 .. DIRECT_STR_MAX) \X Nat :
          p[2] < Pow2[CharBits * p[1]] /\ w = DirectWord(p[2], p[1], class)
      BY DEF ShortTexts
<1> DEFINE n == p[1]
           b == p[2]
<1>2. n \in 0 .. DIRECT_STR_MAX /\ b \in Nat /\ b < Scale(n) /\ w = DirectWord(b, n, class)
      BY <1>1 DEF Scale
<1> HIDE DEF n, b
<1>3. /\ b \in 0 .. Pow2[W - 8] - 1 /\ n \in 0 .. 7
      /\ DirectText(w) = [i \in 1 .. n |-> (b \div Scale(i - 1)) % Pow2[CharBits]]
      /\ TextBits(DirectText(w)) = b
      BY <1>2, TextFields
<1>4. w \in 0 .. Pow2[W] - 1 /\ TagOf(w) = 0 /\ DirectClass(w) = class /\ DirectSize(w) = n
  <2>1. b \in 0 .. Pow2[W - 8] - 1 /\ n \in 0 .. 7
        BY <1>3
  <2>2. LET u == DirectWord(b, n, class)
        IN /\ u \in 0 .. Pow2[W] - 1 /\ TagOf(u) = 0
           /\ DirectClass(u) = class /\ DirectSize(u) = n
        BY <2>1, DirectWordsRead
  <2> QED BY <1>2, <2>2
<1>5. DirectText(w) \in Seq(CODE) /\ Len(DirectText(w)) = n
      BY <1>2, <1>3, TextOfDigits
<1> QED BY <1>2, <1>3, <1>4, <1>5

-----------------------------------------------------------------------------
(* References.                                                             *)

LEMMA ReferenceFields ==
    ASSUME NEW a \in 1 .. Pow2[W - 7] - 1, NEW class \in 0 .. 15
    PROVE  LET w == EntagIndirect(a, class)
           IN /\ w \in 0 .. Pow2[W] - 1
              /\ TagOf(w) = 3
              /\ IndirectData(w) = a
              /\ IndirectClass(w) = class
<1> DEFINE w == EntagIndirect(a, class)
<1>1. Pow2[W - 7] \in Nat /\ Pow2[W] = 128 * Pow2[W - 7] /\ Pow2[W - 1] = 64 * Pow2[W - 7]
      BY WordSize
<1>2. w = (64 * a) + (4 * class) + 3 /\ a \in Nat /\ a < Pow2[W - 7]
      BY <1>1 DEF EntagIndirect, TAG
<1> HIDE DEF w
<1>3. w \in 0 .. Pow2[W] - 1 /\ w < Pow2[W - 1]
      BY <1>1, <1>2
<1>4. TagOf(w) = 3
      BY <1>2 DEF TagOf
<1>5. IndirectData(w) = a
  <2>1. Signed(w) = w
        BY <1>1, <1>3 DEF Signed
  <2>2. w \div 64 = a
        BY <1>2
  <2> QED BY <2>1, <2>2 DEF IndirectData
<1>6. IndirectClass(w) = class
  <2>1. w \div 4 = (16 * a) + class
        BY <1>2
  <2> QED BY <2>1 DEF IndirectClass
<1> QED BY <1>3, <1>4, <1>5, <1>6 DEF w

-----------------------------------------------------------------------------
(* Packed conses.                                                          *)

\* The unit in which the fields of a packed cons are counted: the sign of its
\* cdr.
Unit == Pow2[Half - 3]

LEMMA HalfPowers ==
    /\ Unit \in Nat \ {0}
    /\ Half - 3 \in Nat /\ W - (Half + 1) = Half - 1
    /\ Pow2[Half - 2] = 2 * Unit /\ Pow2[Half - 1] = 4 * Unit
    /\ Pow2[Half] = 8 * Unit /\ Pow2[Half + 1] = 16 * Unit
    /\ Pow2[W] = (8 * Unit) * (8 * Unit)
    /\ Pow2[W - 1] = (4 * Unit) * (8 * Unit)
<1>1. W \in Nat /\ W > 16 /\ W % 2 = 0
      BY TagAssumption
<1>2. Half \in Nat /\ W = 2 * Half /\ Half > 8
      BY <1>1 DEF Half
<1>3. Unit \in Nat \ {0}
  <2>1. Half - 3 \in 0 .. W
        BY <1>2
  <2> QED BY <2>1, Powers DEF Unit
<1>4. /\ Pow2[Half - 2] = 2 * Pow2[Half - 3] /\ Pow2[Half - 1] = 2 * Pow2[Half - 2]
      /\ Pow2[Half] = 2 * Pow2[Half - 1] /\ Pow2[Half + 1] = 2 * Pow2[Half]
  <2>1. /\ Half - 2 \in 1 .. W /\ Half - 1 \in 1 .. W /\ Half \in 1 .. W /\ Half + 1 \in 1 .. W
        /\ (Half - 2) - 1 = Half - 3 /\ (Half - 1) - 1 = Half - 2 /\ (Half + 1) - 1 = Half
        BY <1>2
  <2> QED BY <2>1, Powers
<1>5. Pow2[W] = Pow2[Half] * Pow2[Half]
  <2>1. Half + Half = W
        BY <1>2
  <2>2. Pow2[Half + Half] = Pow2[Half] * Pow2[Half]
        BY <1>1, <1>2, <2>1, PowerOfSum
  <2> QED BY <2>1, <2>2
<1>6. Pow2[W - 1] = Pow2[Half - 1] * Pow2[Half]
  <2>1. (Half - 1) + Half = W - 1 /\ Half - 1 \in Nat /\ W - 1 <= W
        BY <1>2
  <2>2. Pow2[(Half - 1) + Half] = Pow2[Half - 1] * Pow2[Half]
        BY <1>1, <1>2, <2>1, PowerOfSum
  <2> QED BY <2>1, <2>2
<1>7. Half - 3 \in Nat /\ W - (Half + 1) = Half - 1
      BY <1>2
<1>8. /\ Pow2[Half - 2] = 2 * Unit /\ Pow2[Half - 1] = 4 * Unit
      /\ Pow2[Half] = 8 * Unit /\ Pow2[Half + 1] = 16 * Unit
      BY <1>3, <1>4 DEF Unit
<1> QED BY <1>3, <1>5, <1>6, <1>7, <1>8

\* The halves of words that pack: their upper two bits are the same.
Halves == {x \in 0 .. (4 * Unit) - 1 : x < Unit \/ x >= 3 * Unit}
\* The word of a half: the last bit is there twice, the sign in the upper half.
WordOfHalf(x) ==
    (2 * x) + (x % 2) + (IF x < Unit THEN 0 ELSE ((8 * Unit) - 1) * (8 * Unit))

LEMMA PackedHalf ==
    ASSUME NEW w \in 0 .. Pow2[W] - 1, Packs(w)
    PROVE  Packed(w) \in Halves /\ w = WordOfHalf(Packed(w))
<1> DEFINE P == Unit
           h == 8 * P
           q == w \div h
           lo == w % h
           x == lo \div 2
<1>1. P \in Nat \ {0} /\ h \in Nat \ {0}
      BY HalfPowers
<1>2. w \in Nat
  <2>1. Pow2[W] \in Nat
        BY WordSize
  <2> QED BY <2>1
<1>3. q \in Int /\ lo \in 0 .. h - 1 /\ w = (h * q) + lo
  <2> HIDE DEF h
  <2> QED BY <1>1, <1>2, Division
<1>4. lo \in Nat /\ lo < 8 * P /\ x \in Nat /\ lo = (2 * x) + (lo % 2) /\ (lo % 2) \in 0 .. 1
  <2> HIDE DEF q, lo, P
  <2> QED BY <1>1, <1>3
<1>5. Bit(w, Half - 1) = IF lo < 4 * P THEN 0 ELSE 1
  <2> DEFINE m == 4 * P
             d == IF lo < m THEN 0 ELSE 1
             e == lo - (m * d)
             p == (2 * q) + d
  <2>1. m \in Nat \ {0} /\ e \in 0 .. m - 1 /\ p \in Int
    <3> HIDE DEF q, lo, P
    <3> QED BY <1>1, <1>3, <1>4
  <2>2. w = (m * p) + e
    <3>1. w = ((8 * P) * q) + lo
          BY <1>3
    <3>2. d \in Int /\ m = 4 * P
          OBVIOUS
    <3>3. \A a, b, c, f \in Int : ((8 * a) * b) + c = ((4 * a) * ((2 * b) + f)) + (c - ((4 * a) * f))
          OBVIOUS
    <3> HIDE DEF q, lo, P, d
    <3> QED BY <1>1, <1>3, <1>4, <3>1, <3>2, <3>3
  <2>3. w \div m = p
    <3> HIDE DEF m, e, p
    <3> QED BY <2>1, <2>2, Quotient
  <2>4. p % 2 = d
    <3> HIDE DEF q, lo, P
    <3> QED BY <1>3
  <2> QED BY <2>3, <2>4, HalfPowers DEF Bit
<1>6. Bit(w, Half - 2) = (IF lo < 2 * P THEN 0 ELSE IF lo < 4 * P THEN 1 ELSE IF lo < 6 * P THEN 0 ELSE 1)
  <2> DEFINE m == 2 * P
             d == IF lo < 2 * P THEN 0 ELSE IF lo < 4 * P THEN 1 ELSE IF lo < 6 * P THEN 2 ELSE 3
             e == lo - (m * d)
             p == (4 * q) + d
  <2>1. m \in Nat \ {0} /\ e \in 0 .. m - 1 /\ p \in Int
    <3> HIDE DEF q, lo, P
    <3> QED BY <1>1, <1>3, <1>4
  <2>2. w = (m * p) + e
    <3>1. w = ((8 * P) * q) + lo
          BY <1>3
    <3>2. d \in Int /\ m = 2 * P
          OBVIOUS
    <3>3. \A a, b, c, f \in Int : ((8 * a) * b) + c = ((2 * a) * ((4 * b) + f)) + (c - ((2 * a) * f))
          OBVIOUS
    <3> HIDE DEF q, lo, P, d
    <3> QED BY <1>1, <1>3, <1>4, <3>1, <3>2, <3>3
  <2>3. w \div m = p
    <3> HIDE DEF m, e, p
    <3> QED BY <2>1, <2>2, Quotient
  <2>4. p % 2 = (IF lo < 2 * P THEN 0 ELSE IF lo < 4 * P THEN 1 ELSE IF lo < 6 * P THEN 0 ELSE 1)
    <3> HIDE DEF q, lo, P
    <3> QED BY <1>3
  <2> QED BY <2>3, <2>4, HalfPowers DEF Bit
<1>7. Bit(w, 1) = x % 2 /\ Bit(w, 0) = lo % 2
  <2>1. w = (2 * (((4 * P) * q) + x)) + (lo % 2)
    <3>1. w = ((8 * P) * q) + lo
          BY <1>3
    <3>2. \A a, b \in Int : (8 * a) * b = 2 * ((4 * a) * b)
          OBVIOUS
    <3> HIDE DEF q, lo, P, x
    <3> QED BY <1>1, <1>3, <1>4, <3>1, <3>2
  <2>2. (4 * P) * q \in Int /\ (4 * P) * q = 2 * ((2 * P) * q) /\ (2 * P) * q \in Int
    <3> HIDE DEF q, P
    <3> QED BY <1>1, <1>3
  <2> DEFINE y == (4 * P) * q
             z == (2 * P) * q
  <2>3. w \div 2 = y + x
    <3> HIDE DEF lo, x, y
    <3> QED BY <1>4, <2>1, <2>2 DEF y
  <2>4. (y + x) % 2 = x % 2
    <3> HIDE DEF lo, x, y, z
    <3> QED BY <1>4, <2>2 DEF y, z
  <2>5. (w \div 1) % 2 = lo % 2
    <3>1. w \div 1 = w
          BY <1>2
    <3> HIDE DEF lo, x, y
    <3> QED BY <1>4, <2>1, <2>2, <3>1 DEF y
  <2> QED BY <2>3, <2>4, <2>5, SmallPowers, Powers DEF Bit
<1>8. x % 2 = lo % 2 /\ (lo < 2 * P \/ lo >= 6 * P)
  <2>1. Bit(w, 1) = Bit(w, 0) /\ Bit(w, Half - 2) = Bit(w, Half - 1)
        BY DEF Packs
  <2> HIDE DEF q, lo, P, x
  <2> QED BY <1>1, <1>4, <1>5, <1>6, <1>7, <2>1
<1>9. q = IF lo < 4 * P THEN 0 ELSE h - 1
  <2>1. w \div Pow2[Half] = (IF Bit(w, Half - 1) = 1 THEN Pow2[Half] - 1 ELSE 0)
        BY DEF Packs
  <2>2. Pow2[Half] = h
        BY HalfPowers
  <2> HIDE DEF lo, h, P
  <2> QED BY <1>5, <2>1, <2>2
<1>10. lo = (2 * x) + (x % 2) /\ x \in 0 .. (4 * P) - 1 /\ (x < P \/ x >= 3 * P)
  <2> HIDE DEF lo, P, x
  <2> QED BY <1>1, <1>4, <1>8
<1>11. Packed(w) = x
  <2>1. w \div 2 = ((4 * P) * q) + x
    <3>1. w = ((8 * P) * q) + lo
          BY <1>3
    <3>2. \A a, b \in Int : (8 * a) * b = 2 * ((4 * a) * b) /\ (4 * a) * b \in Int
          OBVIOUS
    <3> DEFINE y == (4 * P) * q
    <3>3. w = (2 * y) + lo /\ y \in Int
      <4> HIDE DEF q, lo, P
      <4> QED BY <1>1, <1>3, <3>1, <3>2
    <3> HIDE DEF y, lo
    <3>4. w \div 2 = y + (lo \div 2)
          BY <1>4, <3>3
    <3> QED BY <3>4 DEF y
  <2>2. (((4 * P) * q) + x) % (4 * P) = x
    <3> DEFINE m == 4 * P
    <3>1. m \in Nat \ {0} /\ x \in 0 .. m - 1
          BY <1>1, <1>10
    <3>2. ((m * q) + x) % m = x
      <4> HIDE DEF m, q, x
      <4> QED BY <1>3, <3>1, Quotient
    <3> QED BY <3>2
  <2> QED BY <2>1, <2>2, HalfPowers DEF Packed
<1>12. w = (2 * x) + (x % 2) + (IF x < P THEN 0 ELSE ((8 * P) - 1) * (8 * P))
  <2>1. w = ((8 * P) * q) + lo
        BY <1>3
  <2>2. q = (IF lo < 4 * P THEN 0 ELSE (8 * P) - 1)
        BY <1>9
  <2>3. CASE x < P
    <3>1. lo < 4 * P
      <4> HIDE DEF lo, P, x
      <4> QED BY <1>1, <1>4, <1>10, <2>3
    <3>2. (8 * P) * 0 = 0
          BY <1>1
    <3> HIDE DEF q, lo, P, x
    <3> QED BY <1>1, <1>4, <1>10, <2>1, <2>2, <2>3, <3>1, <3>2
  <2>4. CASE ~(x < P)
    <3>1. ~(lo < 4 * P)
      <4> HIDE DEF lo, P, x
      <4> QED BY <1>1, <1>4, <1>10, <2>4
    <3>2. (8 * P) * ((8 * P) - 1) = ((8 * P) - 1) * (8 * P) /\ (8 * P) * ((8 * P) - 1) \in Int
      <4> HIDE DEF P
      <4> QED BY <1>1
    <3> HIDE DEF q, lo, P, x
    <3> QED BY <1>1, <1>4, <1>10, <2>1, <2>2, <2>4, <3>1, <3>2
  <2> QED BY <2>3, <2>4
<1> QED BY <1>10, <1>11, <1>12 DEF Halves, WordOfHalf

\* What Cons::car takes out of a word whose upper bits are a half.
LEMMA UnpackHalf ==
    ASSUME NEW x \in Halves, NEW r \in 0 .. (16 * Unit) - 1
    PROVE  UnpackCar(((16 * Unit) * x) + r) = WordOfHalf(x)
<1> DEFINE P == Unit
           m == 16 * P
           w == (m * x) + r
           h == 8 * P
           M == Pow2[W]
           d == IF x < P THEN 0 ELSE 1
           b == x + ((4 * P) * d)
<1>1. /\ P \in Nat \ {0} /\ m \in Nat \ {0} /\ h \in Nat \ {0} /\ m = 16 * P /\ h = 8 * P
      /\ M = h * h /\ M \in Nat \ {0}
      /\ Pow2[W - 1] = (4 * P) * h
      BY HalfPowers, WordSize
<1>2. x \in Nat /\ x < 4 * P /\ (x < P \/ x >= 3 * P) /\ r \in Nat /\ r < 16 * P
  <2>1. x \in 0 .. (4 * P) - 1 /\ (x < P \/ x >= 3 * P) /\ r \in 0 .. (16 * P) - 1
        BY DEF Halves
  <2> HIDE DEF P
  <2> QED BY <1>1, <2>1
<1>3. Signed(w) \div m = x - ((4 * P) * d)
  <2>1. CASE x < P
    <3>1. m * x <= m * (P - 1) /\ m * (P - 1) = (m * P) - m
      <4> HIDE DEF P, m
      <4> QED BY <1>1, <1>2, <2>1, Product
    <3>2. (4 * P) * h = 2 * (m * P) /\ m * P \in Nat
      <4>1. \A y \in Int : (4 * y) * (8 * y) = 2 * ((16 * y) * y)
            OBVIOUS
      <4> QED BY <1>1, <4>1
    <3>3. w < (4 * P) * h /\ w \in Int
      <4> HIDE DEF P, m, h
      <4> QED BY <1>1, <1>2, <3>1, <3>2
    <3>4. Signed(w) = w
      <4>1. ~(w >= Pow2[W - 1])
        <5> HIDE DEF P, m, h, w
        <5> QED BY <1>1, <3>3
      <4> HIDE DEF P, m, h, w
      <4> QED BY <4>1 DEF Signed
    <3>5. w \div m = x
      <4>1. x \in Int /\ r \in 0 .. m - 1
        <5> HIDE DEF P
        <5> QED BY <1>1, <1>2
      <4> HIDE DEF m
      <4> QED BY <1>1, <4>1, Quotient
    <3> QED BY <1>1, <1>2, <2>1, <3>4, <3>5
  <2>2. CASE ~(x < P)
    <3>1. m * (2 * P) <= m * x /\ m * (2 * P) = (4 * P) * h
      <4>1. 2 * P <= x
        <5> HIDE DEF P
        <5> QED BY <1>1, <1>2, <2>2
      <4>2. \A y \in Int : (16 * y) * (2 * y) = (4 * y) * (8 * y)
            OBVIOUS
      <4>3. m * (2 * P) <= m * x
        <5> DEFINE z == 2 * P
        <5>1. z \in Nat
              BY <1>1
        <5> HIDE DEF P, m, z
        <5> QED BY <1>1, <1>2, <4>1, <5>1, Product DEF z
      <4> QED BY <1>1, <4>2, <4>3
    <3>2. Signed(w) = w - M
      <4>1. w >= Pow2[W - 1]
        <5> HIDE DEF P, m, h
        <5> QED BY <1>1, <1>2, <3>1
      <4> HIDE DEF P, m, h, w
      <4> QED BY <4>1 DEF Signed
    <3>3. w - M = (m * (x - (4 * P))) + r
      <4>1. \A y, z, u \in Int : (((16 * y) * z) + u) - ((8 * y) * (8 * y)) = ((16 * y) * (z - (4 * y))) + u
            OBVIOUS
      <4> QED BY <1>1, <1>2, <4>1
    <3>4. ((m * (x - (4 * P))) + r) \div m = x - (4 * P)
      <4> DEFINE y == x - (4 * P)
      <4>1. y \in Int /\ r \in 0 .. m - 1
        <5> HIDE DEF P
        <5> QED BY <1>1, <1>2
      <4> HIDE DEF m, y
      <4> QED BY <1>1, <4>1, Quotient DEF y
    <3>5. (4 * P) * d = 4 * P
      <4> HIDE DEF P
      <4> QED BY <1>1, <2>2
    <3> HIDE DEF P, m, h, w, d
    <3> QED BY <3>2, <3>3, <3>4, <3>5
  <2> QED BY <2>1, <2>2
<1>4. Asr(w, Half + 1) % h = b
  <2> DEFINE s == x - ((4 * P) * d)
  <2>1. Asr(w, Half + 1) = s % M
    <3>1. Pow2[Half + 1] = m
          BY HalfPowers
    <3> HIDE DEF m, w, s
    <3> QED BY <1>3, <3>1 DEF Asr, Word, s
  <2>2. s \in Int /\ b \in 0 .. h - 1
    <3> HIDE DEF P
    <3> QED BY <1>1, <1>2
  <2>3. (s % M) % h = s % h
    <3>1. (s % (h * h)) % h = s % h
      <4> HIDE DEF h, s
      <4> QED BY <1>1, <2>2, ModuloOfModulo
    <3> HIDE DEF h, s, M
    <3> QED BY <1>1, <3>1
  <2>4. s = (h * (0 - d)) + b /\ 0 - d \in Int
    <3> HIDE DEF P
    <3> QED BY <1>1, <1>2
  <2>5. s % h = b
    <3> DEFINE e == 0 - d
    <3>1. ((h * e) + b) % h = b
      <4>1. e \in Int
            OBVIOUS
      <4> HIDE DEF h, b, e
      <4> QED BY <1>1, <2>2, <4>1, Quotient
    <3> QED BY <2>4, <3>1
  <2> QED BY <2>1, <2>3, <2>5
<1>5. Bit(b, Half - 2) = d
  <2>1. Pow2[Half - 2] = 2 * P
        BY HalfPowers
  <2> DEFINE k == 2 * P
             p == IF d = 0 THEN 0 ELSE 3
             e == b - (k * p)
  <2>2. k \in Nat \ {0} /\ p \in Int /\ e \in 0 .. k - 1 /\ b = (k * p) + e
    <3> HIDE DEF P
    <3> QED BY <1>1, <1>2
  <2>3. b \div k = p
    <3> HIDE DEF k, p, e, b
    <3> QED BY <2>2, Quotient
  <2>4. p % 2 = d
        OBVIOUS
  <2> HIDE DEF P, d, p, b
  <2> QED BY <2>1, <2>3, <2>4 DEF Bit
<1>6. (b * 2) % h = 2 * x /\ b % 2 = x % 2
  <2>1. b * 2 = (h * d) + (2 * x) /\ 2 * x \in 0 .. h - 1 /\ d \in Int
    <3> HIDE DEF P
    <3> QED BY <1>1, <1>2
  <2>2. ((h * d) + (2 * x)) % h = 2 * x
    <3> DEFINE y == 2 * x
    <3> HIDE DEF h, d, y
    <3> QED BY <1>1, <2>1, Quotient DEF y
  <2>3. b % 2 = x % 2
    <3> HIDE DEF P
    <3> QED BY <1>1, <1>2
  <2> HIDE DEF h, d, b
  <2> QED BY <2>1, <2>2, <2>3
<1>7. UnpackCar(w) = ((d * (h - 1)) * h) + (2 * x) + (x % 2)
  <2>1. Pow2[Half] = h
        BY HalfPowers
  <2> HIDE DEF h, d, b, w, P
  <2> QED BY <1>4, <1>5, <1>6, <2>1 DEF UnpackCar
<1>8. ((d * (h - 1)) * h) + (2 * x) + (x % 2) = WordOfHalf(x)
  <2>1. CASE x < P
    <3>1. (0 * (h - 1)) * h = 0
      <4> HIDE DEF h
      <4> QED BY <1>1
    <3> HIDE DEF h
    <3> QED BY <1>1, <1>2, <2>1, <3>1 DEF WordOfHalf
  <2>2. CASE ~(x < P)
    <3>1. (1 * (h - 1)) * h = (h - 1) * h /\ (h - 1) * h \in Int
      <4> HIDE DEF h
      <4> QED BY <1>1
    <3>2. WordOfHalf(x) = (2 * x) + (x % 2) + ((h - 1) * h)
          BY <2>2 DEF WordOfHalf
    <3>3. d = 1
          BY <2>2
    <3>4. x % 2 \in Int
          BY <1>2
    <3> HIDE DEF h, d, P
    <3> QED BY <1>2, <3>1, <3>2, <3>3, <3>4
  <2> QED BY <2>1, <2>2
<1> QED BY <1>7, <1>8

\* What of the cdr is in the lower half of a packed cons, and the bit of it that
\* is taken for the sign.
LEMMA CdrBits ==
    ASSUME NEW x \in Halves
    PROVE  \E y \in 0 .. (2 * Unit) - 1, d \in 0 .. 1 :
              /\ (x * 4) % (8 * Unit) = 4 * y
              /\ x = y + ((2 * Unit) * d)
              /\ d = IF y < Unit THEN 0 ELSE 1
<1> DEFINE P == Unit
           d == IF x < P THEN 0 ELSE 1
           y == x - ((2 * P) * d)
           h == 8 * P
<1>1. P \in Nat \ {0} /\ h \in Nat \ {0}
      BY HalfPowers
<1>2. x \in Nat /\ x < 4 * P /\ (x < P \/ x >= 3 * P)
  <2>1. x \in 0 .. (4 * P) - 1 /\ (x < P \/ x >= 3 * P)
        BY DEF Halves
  <2> HIDE DEF P
  <2> QED BY <1>1, <2>1
<1>3. /\ y \in 0 .. (2 * P) - 1 /\ d \in 0 .. 1 /\ x = y + ((2 * P) * d)
      /\ d = IF y < P THEN 0 ELSE 1
  <2> HIDE DEF P
  <2> QED BY <1>1, <1>2
<1>4. x * 4 = (h * d) + (4 * y) /\ 4 * y \in 0 .. h - 1 /\ d \in Int
  <2> HIDE DEF P
  <2> QED BY <1>1, <1>2
<1>5. (x * 4) % h = 4 * y
  <2> DEFINE z == 4 * y
  <2>1. ((h * d) + z) % h = z
    <3> HIDE DEF h, d, z
    <3> QED BY <1>1, <1>4, Quotient DEF z
  <2> HIDE DEF h, d, y
  <2> QED BY <1>4, <2>1
<1> HIDE DEF y, d
<1> QED BY <1>3, <1>5

\* What is packed into a word comes out of it.
LEMMA PackedCons ==
    ASSUME NEW car \in 0 .. Pow2[W] - 1, NEW cdr \in 0 .. Pow2[W] - 1,
           Packs(car), Packs(cdr)
    PROVE  LET w == DirectCons(car, cdr)
           IN /\ w \in 0 .. Pow2[W] - 1
              /\ TagOf(w) = 2
              /\ UnpackCar(w) = car
              /\ UnpackCdr(w) = cdr
<1> DEFINE P == Unit
           a == Packed(car)
           b == Packed(cdr)
           m == 16 * P
           M == Pow2[W]
           w == DirectCons(car, cdr)
<1>1. /\ P \in Nat \ {0} /\ m \in Nat \ {0}
      /\ M = m * (4 * P) /\ M \in Nat \ {0}
      /\ Pow2[W - 1] = m * (2 * P)
  <2>1. \A u \in Int : (8 * u) * (8 * u) = (16 * u) * (4 * u) /\ (4 * u) * (8 * u) = (16 * u) * (2 * u)
        OBVIOUS
  <2> QED BY <2>1, HalfPowers, WordSize
<1>2. a \in Halves /\ car = WordOfHalf(a) /\ b \in Halves /\ cdr = WordOfHalf(b)
      BY PackedHalf
<1>3. PICK y \in 0 .. (2 * P) - 1, d \in 0 .. 1 :
              /\ (b * 4) % (8 * P) = 4 * y
              /\ b = y + ((2 * P) * d)
              /\ d = IF y < P THEN 0 ELSE 1
      BY <1>2, CdrBits
<1>4. a \in Nat /\ a < 4 * P /\ b \in Nat /\ b < 4 * P /\ y \in Nat /\ y < 2 * P
  <2>1. a \in 0 .. (4 * P) - 1 /\ b \in 0 .. (4 * P) - 1
        BY <1>2 DEF Halves
  <2> HIDE DEF P
  <2> QED BY <1>1, <2>1
<1> DEFINE r == (4 * y) + 2
<1>5. w = (m * a) + r /\ r \in 0 .. m - 1
  <2>1. w = (a * m) + ((b * 4) % (8 * P)) + 2
        BY HalfPowers DEF DirectCons, TAG
  <2>2. a * m = m * a
    <3> HIDE DEF m, a
    <3> QED BY <1>1, <1>4
  <2>3. r \in 0 .. m - 1
    <3> HIDE DEF P
    <3> QED BY <1>1, <1>4
  <2> HIDE DEF m, a, w
  <2>4. m * a \in Nat
        BY <1>1, <1>4
  <2> QED BY <1>3, <1>4, <2>1, <2>2, <2>3, <2>4
<1>6. w \in 0 .. M - 1
  <2>1. m * a <= m * ((4 * P) - 1) /\ m * ((4 * P) - 1) = M - m /\ m * a \in Nat
    <3> DEFINE k == 4 * P
    <3>1. k \in Nat \ {0} /\ a <= k - 1 /\ M = m * k
      <4> HIDE DEF m, M, a
      <4> QED BY <1>1, <1>4
    <3> HIDE DEF m, k, a, M
    <3>2. m * a <= m * (k - 1)
          BY <1>1, <1>4, <3>1, Product
    <3>3. m * (k - 1) = (m * k) - m /\ m * a \in Nat
          BY <1>1, <1>4, <3>1
    <3> QED BY <3>1, <3>2, <3>3 DEF k
  <2> HIDE DEF m, M, a, w, r
  <2> QED BY <1>1, <1>5, <2>1
<1>7. UnpackCar(w) = car
      BY <1>2, <1>5, UnpackHalf
<1> DEFINE z == ((4 * P) * a) + y
<1>8. z \in Nat /\ w = (4 * z) + 2
  <2>1. (4 * P) * a \in Nat /\ m * a = 4 * ((4 * P) * a)
    <3> HIDE DEF a
    <3>1. \A u, v \in Nat : (4 * u) * v \in Nat /\ (16 * u) * v = 4 * ((4 * u) * v)
          OBVIOUS
    <3> QED BY <1>1, <1>4, <3>1
  <2> DEFINE x == (4 * P) * a
  <2> HIDE DEF x, w, m, a
  <2> QED BY <1>4, <1>5, <2>1 DEF x
<1>9. TagOf(w) = 2
  <2> HIDE DEF z, w
  <2> QED BY <1>8 DEF TagOf
<1> DEFINE bits == Asr(w, 2)
           K == m * P
<1>10. K \in Nat /\ M = 4 * K /\ Pow2[W - 1] = 2 * K
  <2>1. \A u, v \in Nat : u * v \in Nat /\ u * (4 * v) = 4 * (u * v) /\ u * (2 * v) = 2 * (u * v)
        OBVIOUS
  <2> HIDE DEF m, P, M
  <2> QED BY <1>1, <2>1
<1>11. \E t \in 0 .. 3 : bits = z + (t * K)
  <2>1. Asr(w, 2) = (Signed(w) \div 4) % M
        BY SmallPowers DEF Asr, Word
  <2>2. CASE w >= Pow2[W - 1]
    <3>1. Signed(w) = (4 * (z - K)) + 2
      <4> HIDE DEF w, z, K, M, m, P
      <4> QED BY <1>8, <1>10, <2>2 DEF Signed, M
    <3>2. Signed(w) \div 4 = z - K
      <4> HIDE DEF w, z, K, M
      <4> QED BY <1>8, <1>10, <3>1
    <3>3. z < K /\ z + (3 * K) \in 0 .. M - 1
      <4> HIDE DEF w, z, K, M
      <4> QED BY <1>6, <1>8, <1>10
    <3>4. (z - K) % M = z + (3 * K)
      <4> DEFINE e == z + (3 * K)
                 q == -1
      <4>1. ((M * q) + e) % M = e
        <5>1. q \in Int
              OBVIOUS
        <5>2. e \in 0 .. M - 1
              BY <3>3
        <5> HIDE DEF e, M, q
        <5>3. M \in Nat \ {0}
              BY <1>1
        <5> QED BY <5>1, <5>2, <5>3, Quotient, SMTT(30)
      <4>2. (M * q) + e = z - K
        <5> HIDE DEF M, z, K
        <5> QED BY <1>8, <1>10
      <4> QED BY <4>1, <4>2
    <3> QED BY <2>1, <3>2, <3>4
  <2>3. CASE ~(w >= Pow2[W - 1])
    <3>1. Signed(w) = (4 * z) + 2
      <4> HIDE DEF w, z, K, M, m, P
      <4> QED BY <1>8, <1>10, <2>3 DEF Signed
    <3>2. Signed(w) \div 4 = z
      <4> HIDE DEF w, z
      <4> QED BY <1>8, <3>1
    <3>3. z < M
      <4> HIDE DEF w, z, M
      <4> QED BY <1>1, <1>6, <1>8
    <3>4. z % M = z
      <4> HIDE DEF z, M
      <4>1. \A u, v \in Nat : u < v => u % v = u
            OBVIOUS
      <4> QED BY <1>1, <1>8, <3>3, <4>1
    <3>5. z = z + (0 * K)
      <4> HIDE DEF z, K
      <4> QED BY <1>8, <1>10
    <3> QED BY <2>1, <3>2, <3>4, <3>5
  <2> QED BY <2>2, <2>3
<1>12. PICK t \in 0 .. 3 : bits = z + (t * K)
      BY <1>11
\* bits = (4 * P) * (a + 4 * t * P) + y
<1> DEFINE v == a + ((4 * t) * P)
<1>13. v \in Nat /\ bits = ((4 * P) * v) + y
  <2>1. \A u, x, s \in Nat : /\ ((4 * u) * x) + (s * ((16 * u) * u)) = (4 * u) * (x + ((4 * s) * u))
                             /\ x + ((4 * s) * u) \in Nat
        OBVIOUS
  <2>2. t \in Nat
        OBVIOUS
  <2>3. ((4 * P) * a) + (t * K) = (4 * P) * v /\ v \in Nat
    <3> HIDE DEF a, P
    <3> QED BY <1>1, <1>4, <2>1, <2>2
  <2> DEFINE x == (4 * P) * a
             k == t * K
  <2>4. x \in Nat /\ k \in Nat
    <3>1. \A i, j \in Nat : (4 * i) * j \in Nat /\ i * j \in Nat
          OBVIOUS
    <3> HIDE DEF P, a, K
    <3> QED BY <1>1, <1>4, <1>10, <2>2, <3>1
  <2>5. bits = (x + y) + k /\ x + k = (4 * P) * v
        BY <1>12, <2>3
  <2> HIDE DEF x, k, bits, v
  <2>6. bits = (x + k) + y
        BY <1>4, <2>4, <2>5
  <2> QED BY <2>3, <2>5, <2>6
<1>14. Bit(bits, Half - 3) = d
  <2> DEFINE e == y - (P * d)
             p == (4 * v) + d
  <2>1. e \in 0 .. P - 1 /\ p \in Int
    <3> HIDE DEF P, v
    <3> QED BY <1>1, <1>3, <1>4, <1>13
  <2>2. bits = (P * p) + e
    <3>1. \A i, j, k, l \in Int : ((4 * i) * j) + k = (i * ((4 * j) + l)) + (k - (i * l))
          OBVIOUS
    <3> HIDE DEF P, v, bits
    <3> QED BY <1>1, <1>4, <1>13, <3>1
  <2>3. bits \div P = p
    <3> HIDE DEF P, e, p, bits
    <3> QED BY <1>1, <2>1, <2>2, Quotient
  <2>4. p % 2 = d
    <3> HIDE DEF v
    <3> QED BY <1>13
  <2> QED BY <2>3, <2>4 DEF Bit, Unit
<1>15. Shl(bits, Half + 1) = y * m
  <2>1. Pow2[W - (Half + 1)] = 4 * P /\ Pow2[Half + 1] = m
        BY HalfPowers
  <2>2. bits % (4 * P) = y
    <3> DEFINE k == 4 * P
    <3>1. k \in Nat \ {0} /\ y \in 0 .. k - 1 /\ v \in Int
      <4> HIDE DEF P, v
      <4> QED BY <1>1, <1>4, <1>13
    <3>2. ((k * v) + y) % k = y
      <4> HIDE DEF k, v
      <4> QED BY <3>1, Quotient
    <3> QED BY <1>13, <3>2
  <2> HIDE DEF bits, m, P
  <2> QED BY <2>1, <2>2 DEF Shl
<1>16. (y * m) % Pow2[W - 1] = y * m
  <2>1. y * m < Pow2[W - 1] /\ y * m \in Nat /\ Pow2[W - 1] \in Nat
    <3> DEFINE k == 2 * P
    <3>1. k \in Nat \ {0} /\ y <= k - 1 /\ Pow2[W - 1] = m * k
      <4> HIDE DEF m
      <4> QED BY <1>1, <1>4
    <3> HIDE DEF m, k
    <3>2. y * m <= (k - 1) * m /\ y * m \in Nat
          BY <1>1, <1>4, <3>1, Product
    <3>3. (k - 1) * m = (m * k) - m /\ m * k \in Nat
          BY <1>1, <3>1
    <3> QED BY <1>1, <3>1, <3>2, <3>3
  <2> DEFINE k == y * m
  <2>2. \A i, j \in Nat : i < j => i % j = i
        OBVIOUS
  <2> HIDE DEF k
  <2> QED BY <2>1, <2>2 DEF k
<1>17. (y * m) + (d * Pow2[W - 1]) = (m * b) + 0
  <2>1. \A i, j, k, l \in Int : (i * j) + (k * (j * l)) = j * (i + (l * k))
        OBVIOUS
  <2>2. m \in Int /\ 2 * P \in Int /\ d \in Int /\ y \in Int /\ m * b \in Int
    <3> HIDE DEF b
    <3>1. \A i, j \in Nat : i * j \in Int
          OBVIOUS
    <3> QED BY <1>1, <1>4, <3>1
  <2>3. (y * m) + (d * (m * (2 * P))) = m * b
    <3> DEFINE k == 2 * P
    <3>1. k \in Int
          BY <2>2
    <3> HIDE DEF k, m, b
    <3>2. (y * m) + (d * (m * k)) = m * (y + (k * d))
          BY <2>1, <2>2, <3>1
    <3>3. b = y + (k * d)
          BY <1>3 DEF k
    <3> HIDE DEF b
    <3> QED BY <3>2, <3>3 DEF k
  <2> HIDE DEF m, b
  <2> QED BY <1>1, <2>2, <2>3
<1>18. UnpackCdr(w) = UnpackCar((m * b) + 0)
  <2> HIDE DEF m, b, w
  <2> QED BY <1>14, <1>15, <1>16, <1>17 DEF UnpackCdr
<1>19. UnpackCar((m * b) + 0) = cdr
  <2>1. 0 \in 0 .. (16 * Unit) - 1
        BY <1>1
  <2> QED BY <1>2, <2>1, UnpackHalf
<1> QED BY <1>6, <1>7, <1>9, <1>18, <1>19

\* A cons of two words that are packed into one is the two words again
\* (Cons::Heap, Cons::car and Cons::cdr, type/cons.h).
THEOREM ConsesUnpack ==
    \A car, cdr \in 0 .. Pow2[W] - 1 :
        Packs(car) /\ Packs(cdr) =>
            /\ TagOf(DirectCons(car, cdr)) = TAG.CONS
            /\ UnpackCar(DirectCons(car, cdr)) = car
            /\ UnpackCdr(DirectCons(car, cdr)) = cdr
BY PackedCons DEF TAG

=============================================================================
