---------------------------- MODULE MuHeapProofs ----------------------------
(***************************************************************************)
(* TLAPS proofs about MuHeap, for every capacity, every set of classes and *)
(* every payload: type correctness; that the headers tile the heap as long *)
(* as objects fit the size field of a header; and, from that, that the     *)
(* free lists are sound.                                                   *)
(*                                                                         *)
(* Then, of what (gc) does: the first words it changes are exactly those   *)
(* of the objects that registered namespaces reach through objects that do *)
(* not look marked; and the three loops implement the one step of          *)
(* MuCollector, which frees every cons.                                    *)
(***************************************************************************)
EXTENDS MuHeap, SequenceTheorems, TLAPS

-----------------------------------------------------------------------------
(* Types.                                                                  *)

\* The constants used by Init are numbers.
LEMMA NamespaceWords ==
    /\ PayloadOf(Namespace) \in Nat
    /\ System \in Nat \ {0} /\ FirstWords \in Nat
    /\ System < FirstWords
    /\ FirstWords = System + (1 + PayloadOf(Namespace))
    /\ System = 1 + PayloadOf(Namespace)
  <1>1. Payload[Namespace] \subseteq Nat /\ Payload[Namespace] # {}
    BY HeapAssumption
  <1>2. PayloadOf(Namespace) \in Payload[Namespace]
    BY <1>1 DEF PayloadOf
  <1> QED
    BY <1>1, <1>2 DEF System, FirstWords

\* A header that MakeHeapInfo makes is one.
LEMMA HeapInfoType ==
    ASSUME NEW words \in Nat, NEW c \in Classes
    PROVE  HeapInfo(words, c) \in Headers
  <1>1. words % SizeModulus \in 0 .. SizeModulus - 1
    BY HeapAssumption
  <1> QED
    BY <1>1 DEF HeapInfo, Headers

\* The first word of a new object refers to something held or is immediate.
LEMMA NewWordsType ==
    ASSUME NEW c \in Classes, NEW refs, NEW w \in NewWords(c, refs)
    PROVE  w \in refs \cup {Blank, Filled}
  <1>1. CASE c = Cons
    BY <1>1 DEF NewWords
  <1>2. CASE c # Cons /\ c = Vector
    BY <1>2 DEF NewWords
  <1>3. CASE c # Cons /\ c # Vector /\ c \in Untraced
    BY <1>3 DEF NewWords
  <1>4. CASE c # Cons /\ c # Vector /\ c \notin Untraced
    BY <1>4 DEF NewWords
  <1> QED
    BY <1>1, <1>2, <1>3, <1>4

\* The heap the Env constructor leaves has the right types.
LEMMA TypeInit == Init => TypeOK
  <1> SUFFICES ASSUME Init PROVE TypeOK
    OBVIOUS
  <1> USE DEF Init
  <1>1. Objects = {0, System}
    BY DEF Objects, Uninterned
  <1>2. barrier \in 0 .. Capacity /\ Objects \subseteq 0 .. barrier - 1
    BY <1>1, NamespaceWords, HeapAssumption, SMTT(30)
  <1>3. HeapInfo(1 + PayloadOf(Namespace), Namespace) \in Headers
    BY NamespaceWords, HeapInfoType, HeapAssumption
  <1>4. header \in [Objects -> Headers]
    BY <1>1, <1>3 DEF Uninterned
  <1>5. links \in [Objects -> SUBSET Objects]
    BY <1>1 DEF Uninterned
  <1>6. free_lists \in [Classes -> Seq(Objects)]
    BY EmptySeq
  <1>7. first \in [Objects -> Objects \cup {Blank, Filled}]
    BY <1>1 DEF Uninterned
  <1> QED
    BY <1>1, <1>2, <1>4, <1>5, <1>6, <1>7 DEF TypeOK, Uninterned

\* Alloc adds one object, at the old barrier.
LEMMA AllocType ==
    ASSUME TypeOK, NEW c \in Classes, NEW n \in Payload[c],
           NEW refs \in SUBSET held,
               NEW w \in NewWords(c, refs), Alloc(n, c, refs, w)
    PROVE  /\ n \in Nat /\ barrier \notin Objects
           /\ Objects' = Objects \cup {barrier}
           /\ header'[barrier] = HeapInfo(1 + n, c)
           /\ \A o \in Objects : header'[o] = header[o]
           /\ barrier' \in 0 .. Capacity
           /\ Objects' \subseteq 0 .. barrier' - 1
           /\ header' \in [Objects' -> Headers]
           /\ links' \in [Objects' -> SUBSET Objects']
           /\ first' \in [Objects' -> Objects' \cup {Blank, Filled}]
           /\ free_lists' \in [Classes -> Seq(Objects')]
           /\ held' \subseteq Objects'
  <1> USE DEF Alloc
  <1>1. n \in Nat
    BY HeapAssumption
  <1>2. barrier \in Nat /\ barrier \notin Objects /\ Capacity \in Nat
    BY HeapAssumption DEF TypeOK
  <1>3. Objects' = Objects \cup {barrier}
    BY DEF Objects
  <1>4. HeapInfo(1 + n, c) \in Headers
    BY <1>1, HeapInfoType
  <1>5. barrier' \in 0 .. Capacity /\ Objects' \subseteq 0 .. barrier' - 1
    BY <1>1, <1>2, <1>3 DEF TypeOK
  <1>6. header' \in [Objects' -> Headers]
    BY <1>3, <1>4 DEF TypeOK
  <1>7. links' \in [Objects' -> SUBSET Objects']
    BY <1>3 DEF TypeOK
  <1>8. free_lists' \in [Classes -> Seq(Objects')]
    BY <1>3, SeqMonotonic DEF TypeOK
  <1>9. held' \subseteq Objects'
    BY <1>3 DEF TypeOK
  <1>10. first' \in [Objects' -> Objects' \cup {Blank, Filled}]
    <2>1. w \in Objects' \cup {Blank, Filled}
      BY <1>3, NewWordsType DEF TypeOK
    <2> QED
      BY <1>3, <2>1 DEF TypeOK
  <1> QED
    BY <1>1, <1>2, <1>3, <1>5, <1>6, <1>7, <1>8, <1>9, <1>10

\* Reuse changes no header, and takes the last entry of the free list.
LEMMA ReuseType ==
    ASSUME TypeOK, NEW refs \in SUBSET held,
           NEW w \in NewWords(Cons, refs), Reuse(refs, w)
    PROVE  /\ UNCHANGED <<barrier, header>> /\ Objects' = Objects
           /\ links' \in [Objects -> SUBSET Objects]
           /\ first' \in [Objects -> Objects \cup {Blank, Filled}]
           /\ free_lists' \in [Classes -> Seq(Objects)]
           /\ \A c \in Classes \ {Cons} : free_lists'[c] = free_lists[c]
           /\ Len(free_lists'[Cons]) = Len(free_lists[Cons]) - 1
           /\ \A i \in 1 .. Len(free_lists[Cons]) - 1 :
                 free_lists'[Cons][i] = free_lists[Cons][i]
           /\ held' \subseteq Objects
  <1> DEFINE list == free_lists[Cons]
             n == Len(list)
             free == list[n]
             shorter == SubSeq(list, 1, n - 1)
  <1>1. list \in Seq(Objects) /\ list # <<>> /\ Cons \in Classes
    BY HeapAssumption DEF TypeOK, Reuse
  <1>2. n \in Nat /\ n >= 1
    BY <1>1, EmptySeq
  <1>3. free \in Objects
    BY <1>1, <1>2, ElementOfSeq
  <1>4. \A i \in 1 .. n - 1 : list[i] \in Objects
    BY <1>1, <1>2, ElementOfSeq
  <1>5. /\ free_lists' = [free_lists EXCEPT ![Cons] = shorter]
        /\ links' = [links EXCEPT ![free] = refs]
        /\ first' = [first EXCEPT ![free] = w]
        /\ held' = held \cup {free}
        /\ UNCHANGED <<barrier, header>>
    BY DEF Reuse
  <1>6. /\ shorter \in Seq(Objects)
        /\ Len(shorter) = n - 1
        /\ \A i \in 1 .. n - 1 : shorter[i] = list[i]
    <2> HIDE DEF list, n
    <2>1. n - 1 \in Int /\ 1 \in Int
      BY <1>2
    <2>2. /\ shorter \in Seq(Objects)
          /\ Len(shorter) = IF 1 <= n - 1 THEN n - 1 - 1 + 1 ELSE 0
          /\ \A i \in 1 .. n - 1 - 1 + 1 : shorter[i] = list[1 + i - 1]
      BY <2>1, <1>4, SubSeqProperties
    <2> HIDE DEF shorter
    <2>3. Len(shorter) = n - 1
      BY <1>2, <2>2
    <2>4. \A i \in 1 .. n - 1 : shorter[i] = list[i]
      <3> TAKE i \in 1 .. n - 1
      <3>1. i \in 1 .. n - 1 - 1 + 1 /\ 1 + i - 1 = i
        BY <1>2
      <3> QED
        BY <3>1, <2>2
    <2> QED
      BY <2>2, <2>3, <2>4
  <1>7. Objects' = Objects
    BY <1>5 DEF Objects
  <1> HIDE DEF shorter, free
  <1>8. links' \in [Objects -> SUBSET Objects] /\ held' \subseteq Objects
    BY <1>3, <1>5 DEF TypeOK
  <1>10. first' \in [Objects -> Objects \cup {Blank, Filled}]
    BY <1>1, <1>3, <1>5, NewWordsType DEF TypeOK
  <1>9. /\ free_lists' \in [Classes -> Seq(Objects)]
        /\ free_lists'[Cons] = shorter
        /\ \A c \in Classes \ {Cons} : free_lists'[c] = free_lists[c]
    BY <1>1, <1>5, <1>6 DEF TypeOK
  <1> QED
    BY <1>5, <1>6, <1>7, <1>8, <1>9, <1>10

\* A step of an iterator over a heap of objects.
LEMMA CursorType ==
    ASSUME TypeOK, cursor \in Objects, NEW next, AdvanceCursor(next)
    PROVE  cursor' \in Nat /\ phase' \in {phase, next}
  <1>1. header[cursor].size \in Nat /\ cursor \in Nat
    BY HeapAssumption DEF TypeOK, Headers
  <1> QED
    BY <1>1 DEF AdvanceCursor, AfterCursor

\* No operation of the heap breaks a type.
LEMMA TypeStep == TypeOK /\ [Next]_vars => TypeOK'
  <1> SUFFICES ASSUME TypeOK, [Next]_vars PROVE TypeOK'
    OBVIOUS
  <1> USE DEF memory, program, collector
  <1>1. ASSUME NEW refs \in SUBSET held,
               NEW w \in NewWords(Cons, refs), MakeCons(refs, w) PROVE TypeOK'
    <2>1. PICK n \in Payload[Cons] : GcAlloc(n, refs, w)
      BY <1>1 DEF MakeCons
    <2>2. CASE Reuse(refs, w)
      BY <1>1, <2>2, ReuseType DEF MakeCons, TypeOK
    <2>3. CASE Alloc(n, Cons, refs, w)
      BY <1>1, <2>3, AllocType, HeapAssumption DEF MakeCons, TypeOK
    <2> QED
      BY <2>1, <2>2, <2>3 DEF GcAlloc
  <1>2. ASSUME NEW c \in Classes, NEW refs \in SUBSET held,
               NEW w \in NewWords(c, refs), MakeObject(c, refs, w)
        PROVE  TypeOK'
    BY <1>2, AllocType DEF MakeObject, TypeOK
  <1>3. CASE HeapExhausted
    BY <1>3 DEF HeapExhausted, TypeOK, Objects
  <1>4. ASSUME NEW o \in Objects, Load(o) PROVE TypeOK'
    BY <1>4 DEF Load, TypeOK, Objects
  <1>5. ASSUME NEW o \in Objects, Release(o) PROVE TypeOK'
    BY <1>5 DEF Release, TypeOK, Objects
  <1>6. ASSUME NEW ns \in Objects, NEW list \in Objects, SetExterns(ns, list)
        PROVE  TypeOK'
    BY <1>6 DEF SetExterns, TypeOK, Objects
  <1>7. ASSUME NEW s \in Objects, NEW o \in Objects, SetValue(s, o)
        PROVE  TypeOK'
    BY <1>7 DEF SetValue, TypeOK, Objects
  <1>8. ASSUME NEW ns \in Objects, AddNamespace(ns) PROVE TypeOK'
    BY <1>8 DEF AddNamespace, TypeOK, Objects
  <1>9. CASE Gc
    <2>1. free_lists' \in [Classes -> Seq(Objects)]
      BY <1>9, EmptySeq DEF Gc
    <2> QED
      BY <1>9, <2>1 DEF Gc, TypeOK, Objects
  <1>10. CASE Clear
    <2>1. cursor' \in Nat /\ phase' \in {phase, "mark"}
      BY <1>10, CursorType DEF Clear
    <2>2. Objects' = Objects /\ header' \in [Objects -> Headers]
      BY <1>10 DEF Clear, TypeOK, Objects, Headers
    <2>3. pending' \subseteq Objects
      BY <1>10 DEF Clear, TypeOK
    <2> QED
      BY <1>10, <2>1, <2>2, <2>3 DEF Clear, TypeOK
  <1>11. ASSUME NEW o \in Objects, Mark(o) PROVE TypeOK'
    <2>1. first' \in [Objects -> Objects \cup {Blank, Filled}]
      BY <1>11 DEF Mark, TypeOK
    <2>2. pending' \subseteq Objects /\ written' \subseteq Objects
      BY <1>11 DEF Mark, TypeOK
    <2> QED
      BY <1>11, <2>1, <2>2 DEF Mark, TypeOK, Objects
  <1>12. CASE Marked
    BY <1>12 DEF Marked, TypeOK, Objects
  <1>13. CASE GcSweep
    <2>1. cursor' \in Nat /\ phase' \in {phase, "run"}
      BY <1>13, CursorType DEF GcSweep
    <2>2. free_lists' \in [Classes -> Seq(Objects)]
      BY <1>13, AppendProperties DEF GcSweep, TypeOK, Headers
    <2>3. Objects' = Objects
      BY <1>13 DEF GcSweep, Objects
    <2> QED
      BY <1>13, <2>1, <2>2, <2>3 DEF GcSweep, TypeOK
  <1>14. CASE UNCHANGED vars
    BY <1>14 DEF vars, TypeOK, Objects
  <1>15. ASSUME NEW o \in Objects,
                UseTypeless(o) \/ MarkReference(o) \/ MarkTypeless(o)
         PROVE  TypeOK'
    BY <1>15 DEF UseTypeless, MarkReference, MarkTypeless, TypeOK, Objects
  <1> QED
    BY <1>1, <1>2, <1>3, <1>4, <1>5, <1>6, <1>7, <1>8, <1>9, <1>10, <1>11,
       <1>12, <1>13, <1>14, <1>15 DEF Next, Collecting

\* Every variable of the heap keeps the shape the code gives it.
THEOREM HeapTypeCorrect == Spec => []TypeOK
  <1> QED
    BY TypeInit, TypeStep, PTL DEF Spec

-----------------------------------------------------------------------------
(* The headers tile the heap, when objects fit.                            *)

\* The first namespaces tile the heap.
LEMMA TileInit == ObjectsFit /\ Init => HeadersTile
  <1> SUFFICES ASSUME ObjectsFit, Init PROVE HeadersTile
    OBVIOUS
  <1> DEFINE w == 1 + PayloadOf(Namespace)
  <1>1. PayloadOf(Namespace) \in Payload[Namespace] /\ Namespace \in Classes
    <2>1. Payload[Namespace] # {}
      BY HeapAssumption
    <2> QED
      BY <2>1, HeapAssumption DEF PayloadOf
  <1>2. w \in 0 .. SizeModulus - 1
    BY <1>1, NamespaceWords, HeapAssumption DEF ObjectsFit
  <1>3. w % SizeModulus = w
    BY <1>2, HeapAssumption
  <1>4. Objects = {0, System} /\ barrier = System + w /\ System = w
    BY NamespaceWords DEF Init, Objects, Uninterned
  <1>5. \A o \in Objects : header[o].size = w
    BY <1>3, <1>4 DEF Init, HeapInfo, Uninterned
  <1> HIDE DEF w
  <1> QED
    BY <1>2, <1>4, <1>5, NamespaceWords, HeapAssumption DEF HeadersTile

\* Headers only change their marks, except that Alloc adds one.
LEMMA TileStep ==
    ObjectsFit /\ TypeOK /\ HeadersTile /\ [Next]_vars => HeadersTile'
  <1> SUFFICES ASSUME ObjectsFit, TypeOK, HeadersTile, [Next]_vars
               PROVE  HeadersTile'
    OBVIOUS
  <1> USE DEF memory, program, collector
  <1>1. ASSUME NEW c \in Classes, NEW n \in Payload[c],
               NEW refs \in SUBSET held,
               NEW w \in NewWords(c, refs), Alloc(n, c, refs, w)
        PROVE  HeadersTile'
    <2>1. /\ n \in Nat /\ barrier \notin Objects
          /\ Objects' = Objects \cup {barrier}
          /\ header'[barrier] = HeapInfo(1 + n, c)
          /\ \A o \in Objects : header'[o] = header[o]
          /\ barrier' = barrier + (1 + n)
      BY <1>1, AllocType DEF Alloc
    <2>2. (1 + n) % SizeModulus = 1 + n
      BY <2>1, HeapAssumption DEF ObjectsFit
    <2>3. header'[barrier].size = 1 + n
      BY <2>1, <2>2 DEF HeapInfo
    <2>4. barrier \in Nat /\ \A o \in Objects : o \in Nat /\ o < barrier
      BY HeapAssumption DEF TypeOK
    <2> QED
      BY <2>1, <2>3, <2>4 DEF HeadersTile
  <1>2. ASSUME barrier' = barrier, Objects' = Objects,
               \A o \in Objects : header'[o].size = header[o].size
        PROVE  HeadersTile'
    BY <1>2 DEF HeadersTile
  <1>3. ASSUME NEW refs \in SUBSET held,
               NEW w \in NewWords(Cons, refs), MakeCons(refs, w) PROVE HeadersTile'
    <2>1. PICK n \in Payload[Cons] : GcAlloc(n, refs, w)
      BY <1>3 DEF MakeCons
    <2>2. CASE Reuse(refs, w)
      BY <1>2, <2>2 DEF Reuse, Objects
    <2>3. CASE Alloc(n, Cons, refs, w)
      BY <1>1, <2>3, HeapAssumption
    <2> QED
      BY <2>1, <2>2, <2>3 DEF GcAlloc
  <1>4. ASSUME NEW c \in Classes, NEW refs \in SUBSET held,
               NEW w \in NewWords(c, refs), MakeObject(c, refs, w)
        PROVE  HeadersTile'
    BY <1>1, <1>4 DEF MakeObject
  <1>5. CASE UNCHANGED <<barrier, header>>
    BY <1>2, <1>5 DEF Objects
  <1>6. CASE Clear
    <2>1. /\ header' = [header EXCEPT ![cursor].ref = 0] /\ cursor \in Objects
          /\ barrier' = barrier
      BY <1>6 DEF Clear
    <2>2. Objects' = Objects
      BY <2>1 DEF Objects, TypeOK
    <2>3. header[cursor] \in Headers
      BY <2>1 DEF TypeOK
    <2>4. [header[cursor] EXCEPT !.ref = 0].size = header[cursor].size
      BY <2>3 DEF Headers
    <2>5. \A p \in Objects : header'[p].size = header[p].size
      BY <2>1, <2>4 DEF TypeOK
    <2> QED
      BY <1>2, <2>1, <2>2, <2>5
  <1> QED
    BY <1>3, <1>4, <1>5, <1>6
       DEF Next, Collecting, vars, HeapExhausted, Load, Release, SetExterns,
           SetValue, AddNamespace, UseTypeless, Gc, Mark, MarkReference,
           MarkTypeless, Marked, GcSweep

\* If every object with its header is smaller than the modulus of the size
\* field, a walk of the heap meets every object and nothing else
\* (mapped.h:144, heap-mapped.cc:100).
THEOREM HeadersAlwaysTile == ObjectsFit => (Spec => []HeadersTile)
  <1>1. ObjectsFit /\ Init => TypeOK /\ HeadersTile
    BY TypeInit, TileInit
  <1>2. ObjectsFit /\ TypeOK /\ HeadersTile /\ [Next]_vars
          => (TypeOK /\ HeadersTile)'
    BY TypeStep, TileStep
  <1> SUFFICES ASSUME ObjectsFit PROVE Spec => []HeadersTile
    OBVIOUS
  <1> QED
    BY <1>1, <1>2, PTL DEF Spec

-----------------------------------------------------------------------------
(* The free lists.                                                         *)

\* Nothing ever sets the ref bits of a header.
NoHeaderMarked == \A o \in Objects : header[o].ref = 0

\* FreeListsSound is not inductive: the loops of (gc) rely on the lists being
\* empty when the sweep begins and on the sweep going forward.
SweepInv ==
    /\ FreeListsSound
    /\ NoHeaderMarked
    /\ phase \in {"clear", "mark"} => \A c \in Classes : free_lists[c] = <<>>
    /\ phase = "sweep" =>
          \A c \in Classes : \A i \in DOMAIN free_lists[c] : free_lists[c][i] < cursor

\* Empty lists are sound.
LEMMA EmptyListsSound ==
    ASSUME \A c \in Classes : free_lists[c] = <<>>
    PROVE  FreeListsSound /\ \A c \in Classes : DOMAIN free_lists[c] = {}
  BY DEF FreeListsSound

\* The free lists start empty.
LEMMA SweepInit == Init => SweepInv
  <1> SUFFICES ASSUME Init PROVE SweepInv
    OBVIOUS
  <1>1. NoHeaderMarked
    BY DEF Init, NoHeaderMarked, Objects, HeapInfo
  <1> QED
    BY <1>1, EmptyListsSound DEF Init, SweepInv

\* Lists stay sound when every entry was one and has the same class.
LEMMA SoundKept ==
    ASSUME FreeListsSound, Objects \subseteq Objects',
           \A o \in Objects : header'[o] = header[o],
           \A c \in Classes :
              /\ DOMAIN free_lists'[c] \subseteq DOMAIN free_lists[c]
              /\ \A i \in DOMAIN free_lists'[c] :
                    free_lists'[c][i] = free_lists[c][i]
    PROVE  FreeListsSound'
  <1> SUFFICES ASSUME NEW c \in Classes
               PROVE  /\ \A i \in DOMAIN free_lists'[c] :
                            free_lists'[c][i] \in OfClass(c)'
                      /\ \A i, j \in DOMAIN free_lists'[c] :
                            free_lists'[c][i] = free_lists'[c][j] => i = j
    BY DEF FreeListsSound
  <1>1. \A o \in OfClass(c) : o \in OfClass(c)'
    BY DEF OfClass
  <1> QED
    BY <1>1 DEF FreeListsSound

\* Allocation, reuse and the loops of (gc) keep the free lists sound.
LEMMA SweepStep ==
    TypeOK /\ HeadersTile /\ SweepInv /\ [Next]_vars => SweepInv'
  <1> SUFFICES ASSUME TypeOK, HeadersTile, SweepInv, [Next]_vars
               PROVE  SweepInv'
    OBVIOUS
  <1> USE DEF memory, program, collector
  <1>1. ASSUME NEW c \in Classes, NEW n \in Payload[c],
               NEW refs \in SUBSET held,
               NEW w \in NewWords(c, refs), Alloc(n, c, refs, w), phase = "run",
               UNCHANGED phase
        PROVE  SweepInv'
    <2>0. /\ Objects' = Objects \cup {barrier}
          /\ header'[barrier] = HeapInfo(1 + n, c)
          /\ \A o \in Objects : header'[o] = header[o]
      BY <1>1, AllocType
    <2>1. header'[barrier].ref = 0
      BY <2>0 DEF HeapInfo
    <2>2. free_lists' = free_lists
      BY <1>1 DEF Alloc
    <2>3. FreeListsSound'
      BY <2>0, <2>2, SoundKept DEF SweepInv
    <2>4. NoHeaderMarked'
      BY <2>0, <2>1 DEF SweepInv, NoHeaderMarked
    <2> QED
      BY <1>1, <2>3, <2>4 DEF SweepInv
  <1>2. ASSUME UNCHANGED <<header, free_lists, cursor>>,
               phase' = phase \/ phase' \notin {"clear", "mark", "sweep"}
        PROVE  SweepInv'
    <2>1. FreeListsSound' /\ NoHeaderMarked'
      BY <1>2 DEF SweepInv, FreeListsSound, NoHeaderMarked, OfClass, Objects
    <2> QED
      BY <1>2, <2>1 DEF SweepInv
  <1>3. ASSUME NEW refs \in SUBSET held,
               NEW w \in NewWords(Cons, refs), MakeCons(refs, w) PROVE SweepInv'
    <2>1. PICK n \in Payload[Cons] : GcAlloc(n, refs, w)
      BY <1>3 DEF MakeCons
    <2>2. CASE Reuse(refs, w)
      <3>1. /\ UNCHANGED header /\ Objects' = Objects
            /\ free_lists' \in [Classes -> Seq(Objects)]
            /\ \A c \in Classes \ {Cons} : free_lists'[c] = free_lists[c]
            /\ Len(free_lists'[Cons]) = Len(free_lists[Cons]) - 1
            /\ \A i \in 1 .. Len(free_lists[Cons]) - 1 :
                  free_lists'[Cons][i] = free_lists[Cons][i]
        BY <2>2, ReuseType
      <3>2. \A c \in Classes :
              /\ DOMAIN free_lists[c] = 1 .. Len(free_lists[c])
              /\ DOMAIN free_lists'[c] = 1 .. Len(free_lists'[c])
              /\ Len(free_lists[c]) \in Nat
        BY <3>1, LenProperties DEF TypeOK
      <3>3. \A c \in Classes :
              /\ DOMAIN free_lists'[c] \subseteq DOMAIN free_lists[c]
              /\ \A i \in DOMAIN free_lists'[c] :
                    free_lists'[c][i] = free_lists[c][i]
        <4> SUFFICES ASSUME NEW c \in Classes
                     PROVE  /\ DOMAIN free_lists'[c] \subseteq DOMAIN free_lists[c]
                            /\ \A i \in DOMAIN free_lists'[c] :
                                  free_lists'[c][i] = free_lists[c][i]
          OBVIOUS
        <4>1. CASE c = Cons
          <5>1. /\ DOMAIN free_lists[Cons] = 1 .. Len(free_lists[Cons])
                /\ DOMAIN free_lists'[Cons] = 1 .. Len(free_lists[Cons]) - 1
                /\ Len(free_lists[Cons]) \in Nat
            BY <3>1, <3>2, <4>1
          <5> QED
            BY <3>1, <4>1, <5>1
        <4>2. CASE c # Cons
          BY <3>1, <4>2
        <4> QED
          BY <4>1, <4>2
      <3>4. FreeListsSound' /\ NoHeaderMarked'
        BY <3>1, <3>3, SoundKept DEF SweepInv, NoHeaderMarked
      <3> QED
        BY <1>3, <3>4 DEF SweepInv, MakeCons
    <2>3. CASE Alloc(n, Cons, refs, w)
      BY <1>1, <1>3, <2>3, HeapAssumption DEF MakeCons
    <2> QED
      BY <2>1, <2>2, <2>3 DEF GcAlloc
  <1>4. ASSUME NEW c \in Classes, NEW refs \in SUBSET held,
               NEW w \in NewWords(c, refs), MakeObject(c, refs, w)
        PROVE  SweepInv'
    BY <1>1, <1>4 DEF MakeObject
  <1>5. ASSUME \A c \in Classes : free_lists'[c] = <<>>, NoHeaderMarked'
        PROVE  SweepInv'
    BY <1>5, EmptyListsSound DEF SweepInv, FreeListsSound
  <1>6. CASE Gc
    BY <1>5, <1>6 DEF Gc, SweepInv, NoHeaderMarked, Objects
  <1>7. CASE Clear
    <2>1. NoHeaderMarked'
      BY <1>7 DEF Clear, SweepInv, NoHeaderMarked, TypeOK, Headers, Objects
    <2> QED
      BY <1>5, <1>7, <2>1 DEF Clear, SweepInv
  <1>8. ASSUME NEW o \in Objects, Mark(o) PROVE SweepInv'
    BY <1>2, <1>8 DEF Mark
  <1>9. CASE Marked
    BY <1>5, <1>9 DEF Marked, SweepInv, NoHeaderMarked, Objects
  <1>10. CASE GcSweep
    <2> DEFINE k == header[cursor].class
    <2>1. cursor \in Objects /\ cursor \in Nat /\ k \in Classes
      BY <1>10 DEF GcSweep, TypeOK, Headers
    <2>2. Objects' = Objects /\ header' = header /\ phase = "sweep"
      BY <1>10 DEF GcSweep, Objects
    <2>3. phase' = "run" \/ (phase' = phase /\ cursor' > cursor /\ cursor' \in Nat)
      <3>1. cursor + header[cursor].size > cursor /\ header[cursor].size \in Nat
        BY <2>1, HeapAssumption DEF HeadersTile, TypeOK, Headers
      <3> QED
        BY <1>10, <2>1, <3>1 DEF GcSweep, AdvanceCursor, AfterCursor
    <2>4. \A c \in Classes :
             /\ free_lists[c] \in Seq(Objects)
             /\ DOMAIN free_lists[c] = 1 .. Len(free_lists[c])
             /\ Len(free_lists[c]) \in Nat
             /\ \A i \in DOMAIN free_lists[c] :
                   /\ free_lists[c][i] \in Nat
                   /\ free_lists[c][i] < cursor
      <3>1. \A c \in Classes : free_lists[c] \in Seq(Objects)
        BY DEF TypeOK
      <3>2. \A c \in Classes :
             /\ DOMAIN free_lists[c] = 1 .. Len(free_lists[c])
             /\ Len(free_lists[c]) \in Nat
             /\ \A i \in DOMAIN free_lists[c] : free_lists[c][i] \in Objects
        BY <3>1, LenProperties
      <3>3. \A c \in Classes : \A i \in DOMAIN free_lists[c] :
               free_lists[c][i] < cursor
        BY <2>2 DEF SweepInv
      <3>4. Objects \subseteq Nat
        BY HeapAssumption DEF TypeOK
      <3> QED
        BY <3>1, <3>2, <3>3, <3>4
    <2>5. free_lists' = [free_lists EXCEPT ![k] = Append(@, cursor)]
      BY <1>10, <2>1 DEF GcSweep, SweepInv, NoHeaderMarked
    <2>6. SweepInv'
      <3> HIDE DEF k
      <3>1. \A c \in Classes \ {k} : free_lists'[c] = free_lists[c]
        BY <2>5 DEF TypeOK
      <3>2. free_lists'[k] = Append(free_lists[k], cursor)
        BY <2>1, <2>5 DEF TypeOK
      <3>3. /\ DOMAIN free_lists'[k] = 1 .. Len(free_lists[k]) + 1
            /\ \A i \in 1 .. Len(free_lists[k]) : free_lists'[k][i] = free_lists[k][i]
            /\ free_lists'[k][Len(free_lists[k]) + 1] = cursor
        BY <2>1, <2>4, <3>2, AppendProperties
      <3>4. cursor \in OfClass(k)
        BY <2>1 DEF OfClass, k
      <3>5. \A i \in DOMAIN free_lists'[k] :
               \/ i \in DOMAIN free_lists[k] /\ free_lists'[k][i] = free_lists[k][i]
               \/ i = Len(free_lists[k]) + 1 /\ free_lists'[k][i] = cursor
        BY <2>1, <2>4, <3>3
      <3>6. \A c \in Classes : \A i \in DOMAIN free_lists[c] :
               free_lists[c][i] \in OfClass(c)
        BY DEF SweepInv, FreeListsSound
      <3>7. \A c \in Classes : \A i, j \in DOMAIN free_lists[c] :
               free_lists[c][i] = free_lists[c][j] => i = j
        BY DEF SweepInv, FreeListsSound
      <3>8. \A i \in DOMAIN free_lists'[k] : free_lists'[k][i] \in OfClass(k)
        BY <2>1, <3>4, <3>5, <3>6
      <3>9. \A i, j \in DOMAIN free_lists'[k] :
               free_lists'[k][i] = free_lists'[k][j] => i = j
        BY <2>1, <2>4, <3>5, <3>7
      <3>10. \A c \in Classes : OfClass(c)' = OfClass(c)
        BY <2>2 DEF OfClass
      <3>11. FreeListsSound'
        BY <2>1, <2>2, <3>1, <3>6, <3>7, <3>8, <3>9, <3>10 DEF FreeListsSound
      <3>12. \A c \in Classes : \A i \in DOMAIN free_lists'[c] :
                phase' = "sweep" => free_lists'[c][i] < cursor'
        <4> SUFFICES ASSUME NEW c \in Classes, NEW i \in DOMAIN free_lists'[c],
                            phase' = "sweep"
                     PROVE  free_lists'[c][i] < cursor'
          OBVIOUS
        <4>1. CASE c = k
          BY <2>1, <2>2, <2>3, <2>4, <3>5, <4>1
        <4>2. CASE c # k
          BY <2>1, <2>2, <2>3, <2>4, <3>1, <4>2
        <4> QED
          BY <4>1, <4>2
      <3>13. NoHeaderMarked'
        BY <2>2 DEF SweepInv, NoHeaderMarked
      <3> QED
        BY <2>2, <2>3, <3>11, <3>12, <3>13 DEF SweepInv
    <2> QED
      BY <2>6
  <1>11. CASE HeapExhausted \/ \E o \in Objects :
                  UseTypeless(o) \/ MarkReference(o) \/ MarkTypeless(o)
    BY <1>2, <1>11 DEF HeapExhausted, UseTypeless, MarkReference, MarkTypeless
  <1> QED
    BY <1>2, <1>3, <1>4, <1>6, <1>7, <1>8, <1>9, <1>10, <1>11
       DEF Next, Collecting, vars, Load, Release, SetExterns, SetValue,
           AddNamespace

\* Whatever the program does between collections, a free list holds objects of
\* its class, each once: no cons is handed out twice.
THEOREM FreeListsAlwaysSound == ObjectsFit => (Spec => []FreeListsSound)
  <1>1. ObjectsFit /\ Init => TypeOK /\ HeadersTile /\ SweepInv
    BY TypeInit, TileInit, SweepInit
  <1>2. ObjectsFit /\ TypeOK /\ HeadersTile /\ SweepInv /\ [Next]_vars
          => (TypeOK /\ HeadersTile /\ SweepInv)'
    BY TypeStep, TileStep, SweepStep
  <1>3. SweepInv => FreeListsSound
    BY DEF SweepInv
  <1> SUFFICES ASSUME ObjectsFit PROVE Spec => []FreeListsSound
    OBVIOUS
  <1> QED
    BY <1>1, <1>2, <1>3, PTL DEF Spec

-----------------------------------------------------------------------------
(* What references lead to.                                                *)

\* What is reached in P is reached from itself, and so is what it refers to.
LEMMA ReachableCloses ==
    ASSUME NEW R, NEW P
    PROVE  /\ R \cap P \subseteq ReachableIn(R, P)
           /\ ClosedIn(ReachableIn(R, P), P)
           /\ ReachableIn(R, P) \subseteq P
  <1>1. R \cap P \subseteq ReachableIn(R, P) /\ ReachableIn(R, P) \subseteq P
    BY DEF ReachableIn
  <1>2. ASSUME NEW o \in ReachableIn(R, P), NEW p \in links[o] \cap P
        PROVE  p \in ReachableIn(R, P)
    <2>1. ASSUME NEW S \in SUBSET P, R \cap P \subseteq S, ClosedIn(S, P)
          PROVE  p \in S
      <3>1. o \in S
        BY <1>2, <2>1 DEF ReachableIn
      <3> QED
        BY <1>2, <2>1, <3>1 DEF ClosedIn
    <2> QED
      BY <1>2, <2>1 DEF ReachableIn
  <1> QED
    BY <1>1, <1>2 DEF ClosedIn

\* Nothing else is: a closed set that holds the roots holds what they reach.
LEMMA ReachableLeast ==
    ASSUME NEW R, NEW P, NEW S \in SUBSET P, R \cap P \subseteq S, ClosedIn(S, P)
    PROVE  ReachableIn(R, P) \subseteq S
  BY DEF ReachableIn

\* Walking on: past the cursor there is no object before the next header.
LEMMA CursorPast ==
    ASSUME TypeOK, HeadersTile, cursor \in Objects, NEW next,
           AdvanceCursor(next)
    PROVE  /\ phase' = next /\ cursor' = 0
              /\ \A o \in Objects : o <= cursor
           \/ /\ phase' = phase
              /\ cursor' \in Nat /\ cursor < cursor'
              /\ \A o \in Objects : o < cursor' => o <= cursor
  <1>1. Objects \subseteq Nat /\ barrier \in Nat
        /\ \A o \in Objects : o < barrier
    BY HeapAssumption DEF TypeOK
  <1>2. header[cursor].size \in Nat
    BY HeapAssumption DEF TypeOK, Headers
  <1>3. /\ AfterCursor \in Nat /\ AfterCursor > cursor
        /\ \A o \in Objects : cursor < o => AfterCursor <= o
    BY <1>1, <1>2 DEF HeadersTile, AfterCursor
  <1> HIDE DEF AfterCursor
  <1>4. CASE AfterCursor >= barrier
    <2>1. \A o \in Objects : o <= cursor
      BY <1>1, <1>3, <1>4
    <2> QED
      BY <1>4, <2>1 DEF AdvanceCursor
  <1>5. CASE ~(AfterCursor >= barrier)
    <2>1. \A o \in Objects : o < AfterCursor => o <= cursor
      BY <1>1, <1>3
    <2> QED
      BY <1>3, <1>5, <2>1 DEF AdvanceCursor
  <1> QED
    BY <1>4, <1>5

-----------------------------------------------------------------------------
(* What the program does to the graph of objects.                          *)

\* The entries of a free list are objects of its class.
LEMMA FreeType ==
    ASSUME TypeOK, FreeListsSound, NEW c \in Classes
    PROVE  /\ DOMAIN free_lists[c] = 1 .. Len(free_lists[c])
           /\ Len(free_lists[c]) \in Nat
           /\ Free(c) \subseteq OfClass(c)
  <1>1. free_lists[c] \in Seq(Objects)
    BY DEF TypeOK
  <1> QED
    BY <1>1, LenProperties DEF Free, FreeListsSound

\* Reuse takes one cons off the free list and writes to nothing else.
LEMMA ReuseGraph ==
    ASSUME TypeOK, FreeListsSound, NEW refs \in SUBSET held,
           NEW w \in NewWords(Cons, refs), Reuse(refs, w)
    PROVE  \E f \in Free(Cons) :
              /\ f \in OfClass(Cons)
              /\ Free(Cons)' = Free(Cons) \ {f}
              /\ links' = [links EXCEPT ![f] = refs]
              /\ held' = held \cup {f}
              /\ UNCHANGED <<barrier, header>> /\ Objects' = Objects
  <1> DEFINE list == free_lists[Cons]
             n == Len(list)
             f == list[n]
             rest == free_lists'[Cons]
  <1>1. /\ list # <<>>
        /\ links' = [links EXCEPT ![f] = refs]
        /\ held' = held \cup {f}
        /\ UNCHANGED <<barrier, header>> /\ Objects' = Objects
    BY DEF Reuse, Objects
  <1>2. list \in Seq(Objects) /\ rest \in Seq(Objects) /\ Cons \in Classes
    BY ReuseType, HeapAssumption DEF TypeOK
  <1>3. Len(rest) = n - 1 /\ \A i \in 1 .. n - 1 : rest[i] = list[i]
    BY ReuseType
  <1>4. n \in Nat /\ n >= 1 /\ DOMAIN list = 1 .. n /\ DOMAIN rest = 1 .. n - 1
    BY <1>1, <1>2, <1>3, EmptySeq, LenProperties
  <1>5. \A i, j \in 1 .. n : list[i] = list[j] => i = j
    BY <1>2, <1>4 DEF FreeListsSound
  <1>6. Free(Cons) = {list[i] : i \in 1 .. n}
    BY <1>4 DEF Free
  <1>7. Free(Cons)' = {rest[i] : i \in 1 .. n - 1}
    BY <1>4 DEF Free
  <1>8. Free(Cons) \subseteq OfClass(Cons)
    BY <1>2, FreeType
  <1> HIDE DEF rest, list, n
  <1>9. Free(Cons)' = Free(Cons) \ {f}
    <2>1. 1 .. n - 1 = (1 .. n) \ {n}
      BY <1>4
    <2>2. \A i \in 1 .. n - 1 : rest[i] = list[i] /\ list[i] # list[n]
      BY <1>3, <1>4, <1>5
    <2> QED
      BY <1>6, <1>7, <2>1, <2>2
  <1>10. f \in Free(Cons)
    BY <1>4, <1>6
  <1> QED
    BY <1>1, <1>8, <1>9, <1>10

\* Alloc makes one object, at the barrier, that refers to what is held.
LEMMA AllocGraph ==
    ASSUME TypeOK, NEW c \in Classes, NEW n \in Payload[c],
           NEW refs \in SUBSET held,
               NEW w \in NewWords(c, refs), Alloc(n, c, refs, w)
    PROVE  /\ barrier \notin Objects
           /\ Objects' = Objects \cup {barrier}
           /\ header'[barrier].class = c
           /\ links'[barrier] = refs
           /\ \A o \in Objects : header'[o] = header[o] /\ links'[o] = links[o]
           /\ held' = held \cup {barrier}
           /\ free_lists' = free_lists
  <1>1. /\ barrier \notin Objects /\ Objects' = Objects \cup {barrier}
        /\ header'[barrier] = HeapInfo(1 + n, c)
        /\ \A o \in Objects : header'[o] = header[o]
    BY AllocType
  <1> QED
    BY <1>1 DEF Alloc, HeapInfo

-----------------------------------------------------------------------------
(* The visits.                                                             *)

\* What the registered namespaces reach through what did not look marked.
Visitable == ReachableIn(namespaces, Unmarked)

\* MarksReachable is not inductive.  All through the loop that visits, what
\* GcMark has written to looks marked now and did not before; it and what is
\* pending is visitable; and what it refers to is written, or still pending,
\* or looked marked from the beginning.
VisitInv ==
    /\ phase \in {"run", "clear", "sweep"} => written = {}
    /\ phase = "mark" =>
          /\ cursor = 0
          /\ \A o \in written : header[o].class \notin Untraced /\ first[o] = Filled
          /\ written \cup (pending \cap Unmarked) \subseteq Visitable
          /\ namespaces \cap Unmarked \subseteq written \cup pending
          /\ ClosedIn(written, Unmarked \ pending)

\* What did not look marked stays the same while objects, references, classes
\* and first words do.
LEMMA VisitsKept ==
    ASSUME VisitInv, phase' = phase,
           UNCHANGED <<header, links, first, namespaces, cursor, pending, written>>
    PROVE  VisitInv'
  <1>1. Objects' = Objects
    BY DEF Objects
  <1>2. \A o \in Objects : IsGcMarked(o)' = IsGcMarked(o)
    BY DEF IsGcMarked, BlankReference
  <1>3. Unmarked' = Unmarked
    BY <1>1, <1>2 DEF Unmarked
  <1>4. Visitable' = Visitable
    BY <1>3 DEF Visitable, ReachableIn, ClosedIn
  <1> QED
    BY <1>3, <1>4 DEF VisitInv, ClosedIn

\* The visit of one reference.
LEMMA VisitMark ==
    ASSUME TypeOK, VisitInv, NEW o \in Objects, Mark(o)
    PROVE  VisitInv'
  <1> USE DEF program
  <1>1. /\ phase = "mark" /\ phase' = "mark" /\ cursor' = cursor /\ o \in pending
        /\ UNCHANGED <<header, links, namespaces>>
    BY DEF Mark
  <1>2. Objects' = Objects
    BY <1>1 DEF Objects
  <1>3. /\ cursor = 0
        /\ \A p \in written : header[p].class \notin Untraced /\ first[p] = Filled
        /\ written \cup (pending \cap Unmarked) \subseteq Visitable
        /\ namespaces \cap Unmarked \subseteq written \cup pending
        /\ \A p \in written : links[p] \cap (Unmarked \ pending) \subseteq written
    BY <1>1 DEF VisitInv, ClosedIn
  <1>4. ASSUME Unmarked' = Unmarked,
               \A p \in written' : header[p].class \notin Untraced /\ first'[p] = Filled,
               written' \cup (pending' \cap Unmarked) \subseteq Visitable,
               namespaces \cap Unmarked \subseteq written' \cup pending',
               \A p \in written' : links[p] \cap (Unmarked \ pending') \subseteq written'
        PROVE  VisitInv'
    <2>1. Visitable' = Visitable
      BY <1>1, <1>4 DEF Visitable, ReachableIn, ClosedIn
    <2> QED
      BY <1>1, <1>3, <1>4, <2>1 DEF VisitInv, ClosedIn
  <1>5. CASE header[o].class \in Untraced \/ IsGcMarked(o)
    <2>1. pending' = pending \ {o} /\ UNCHANGED <<first, written>>
      BY <1>5 DEF Mark
    <2>2. \A p \in Objects : IsGcMarked(p)' = IsGcMarked(p)
      BY <2>1 DEF IsGcMarked, BlankReference
    <2>3. Unmarked' = Unmarked
      BY <1>1, <1>2, <2>1, <2>2 DEF Unmarked
    <2>4. o \in Unmarked => o \in written
      BY <1>5 DEF Unmarked
    <2> QED
      BY <1>3, <1>4, <2>1, <2>3, <2>4
  <1>6. CASE ~(header[o].class \in Untraced \/ IsGcMarked(o))
    <2>1. /\ first[o] = Blank
          /\ pending' = (pending \ {o}) \cup links[o]
          /\ first' = [first EXCEPT ![o] = Filled]
          /\ written' = written \cup {o}
      BY <1>6 DEF Mark
    <2>2. first'[o] = Filled /\ \A p \in Objects \ {o} : first'[p] = first[p]
      BY <2>1 DEF TypeOK
    <2>3. \A p \in Objects \ {o} : IsGcMarked(p)' = IsGcMarked(p)
      BY <2>2 DEF IsGcMarked, BlankReference
    <2>4. o \in Unmarked
      BY <1>6 DEF Unmarked
    <2>5. Unmarked' = Unmarked
      BY <1>1, <1>2, <1>6, <2>1, <2>3 DEF Unmarked
    <2>6. o \in Visitable /\ links[o] \cap Unmarked \subseteq Visitable
      <3>1. o \in Visitable
        BY <1>1, <1>3, <2>4
      <3>2. ClosedIn(Visitable, Unmarked)
        BY ReachableCloses DEF Visitable
      <3> QED
        BY <3>1, <3>2 DEF ClosedIn
    <2>7. \A p \in written' : header[p].class \notin Untraced /\ first'[p] = Filled
      <3>1. written \subseteq Objects
        BY DEF TypeOK
      <3> QED
        BY <1>3, <1>6, <2>1, <2>2, <3>1
    <2>8. written' \cup (pending' \cap Unmarked) \subseteq Visitable
      BY <1>3, <2>1, <2>6
    <2>9. namespaces \cap Unmarked \subseteq written' \cup pending'
      BY <1>3, <2>1
    <2>10. \A p \in written' : links[p] \cap (Unmarked \ pending') \subseteq written'
      BY <1>3, <2>1
    <2> QED
      BY <1>4, <2>5, <2>7, <2>8, <2>9, <2>10
  <1> QED
    BY <1>5, <1>6

\* The loop begins with the namespaces.
LEMMA VisitClear ==
    ASSUME TypeOK, HeadersTile, VisitInv, Clear
    PROVE  VisitInv'
  <1>1. /\ phase = "clear" /\ cursor \in Objects /\ AdvanceCursor("mark")
        /\ pending' = IF phase' = "mark" THEN namespaces ELSE pending
        /\ UNCHANGED <<namespaces, written>>
    BY DEF Clear, program
  <1>2. written' = {}
    BY <1>1 DEF VisitInv
  <1>3. CASE phase' = "mark"
    <2>1. cursor' = 0 /\ pending' = namespaces'
      BY <1>1, <1>3, CursorPast
    <2>2. (namespaces \cap Unmarked \subseteq Visitable)'
      BY DEF Visitable, ReachableIn
    <2> QED
      BY <1>2, <1>3, <2>1, <2>2 DEF VisitInv, ClosedIn
  <1>4. CASE phase' # "mark"
    BY <1>2, <1>4 DEF VisitInv
  <1> QED
    BY <1>3, <1>4

\* What is known of the visits holds through every step.
LEMMA VisitStep ==
    TypeOK /\ HeadersTile /\ VisitInv /\ [Next]_vars => VisitInv'
  <1> SUFFICES ASSUME TypeOK, HeadersTile, VisitInv, [Next]_vars PROVE VisitInv'
    OBVIOUS
  <1> USE DEF memory, program, collector
  <1>1. ASSUME phase = "run", phase' \in {"run", "clear", "stopped"}, UNCHANGED written
        PROVE  VisitInv'
    BY <1>1 DEF VisitInv
  <1>2. CASE Marked
    BY <1>2 DEF Marked, VisitInv
  <1>3. CASE GcSweep
    <2>1. phase = "sweep" /\ cursor \in Objects /\ AdvanceCursor("run") /\ UNCHANGED written
      BY <1>3 DEF GcSweep
    <2>2. phase' \in {"run", "sweep"}
      BY <2>1, CursorPast
    <2> QED
      BY <2>1, <2>2 DEF VisitInv
  <1>4. ASSUME NEW o \in Objects, MarkReference(o) \/ MarkTypeless(o)
        PROVE  VisitInv'
    BY <1>4 DEF MarkReference, MarkTypeless, VisitInv
  <1>5. CASE UNCHANGED vars
    BY <1>5, VisitsKept DEF vars
  <1> QED
    BY <1>1, <1>2, <1>3, <1>4, <1>5, VisitMark, VisitClear
       DEF Next, Collecting, MakeCons, MakeObject, HeapExhausted, Load, Release,
           SetExterns, SetValue, AddNamespace, UseTypeless, Gc

\* Once nothing is pending, what is written is closed in what did not look
\* marked, so nothing visitable is left out.
LEMMA NothingPending ==
    ASSUME TypeOK, VisitInv, phase = "mark", pending = {}
    PROVE  written = ReachableIn(namespaces, Unmarked)
  <1>1. written \in SUBSET Unmarked /\ namespaces \cap Unmarked \subseteq written
    BY DEF VisitInv, Unmarked, TypeOK
  <1>2. ClosedIn(written, Unmarked)
    BY DEF VisitInv, ClosedIn
  <1>3. ReachableIn(namespaces, Unmarked) \subseteq written
    BY <1>1, <1>2, ReachableLeast
  <1> QED
    BY <1>3 DEF VisitInv, Visitable

\* Everything known of the heap in the middle of a collection.
HeapInv == TypeOK /\ HeadersTile /\ SweepInv /\ VisitInv

LEMMA HeapInvariant == ObjectsFit => (Spec => []HeapInv)
  <1>1. ObjectsFit /\ Init => HeapInv
    <2>1. Init => VisitInv
      BY DEF Init, VisitInv
    <2> QED
      BY <2>1, TypeInit, TileInit, SweepInit DEF HeapInv
  <1>2. ObjectsFit /\ HeapInv /\ [Next]_vars => HeapInv'
    BY TypeStep, TileStep, SweepStep, VisitStep DEF HeapInv
  <1> SUFFICES ASSUME ObjectsFit PROVE Spec => []HeapInv
    OBVIOUS
  <1> QED
    BY <1>1, <1>2, PTL DEF Spec

\* However the references are visited, when the visits are over GcMark has
\* written to exactly the objects that the registered namespaces reach through
\* objects that did not look marked (env-env.cc:118, env.cc:211, heap.cc:53).
THEOREM MarksAreReachable == ObjectsFit => (Spec => []MarksReachable)
  <1>1. HeapInv => MarksReachable
    BY NothingPending DEF HeapInv, MarksReachable
  <1> SUFFICES ASSUME ObjectsFit PROVE Spec => []MarksReachable
    OBVIOUS
  <1> QED
    BY <1>1, HeapInvariant, PTL

-----------------------------------------------------------------------------
(* The sweep.                                                              *)

\* The sweep leaves no object behind that is not on a free list.
SweptInv ==
    phase = "sweep" =>
        \A c \in Classes : \A o \in OfClass(c) : o < cursor => o \in Free(c)

\* The sweep of the object under the cursor.
LEMMA SweepFree ==
    ASSUME TypeOK, FreeListsSound, NoHeaderMarked, GcSweep, NEW c \in Classes
    PROVE  Free(c)' = Free(c) \cup {o \in OfClass(c) : o = cursor}
  <1> DEFINE k == header[cursor].class
  <1>1. /\ cursor \in Objects /\ k \in Classes
        /\ free_lists' = [free_lists EXCEPT ![k] = Append(@, cursor)]
    BY DEF GcSweep, NoHeaderMarked, TypeOK, Headers
  <1>2. CASE c = k
    <2> DEFINE list == free_lists[c]
               longer == free_lists'[c]
    <2>1. list \in Seq(Objects) /\ longer = Append(list, cursor)
      BY <1>1, <1>2 DEF TypeOK
    <2>2. /\ DOMAIN list = 1 .. Len(list) /\ Len(list) \in Nat
          /\ DOMAIN longer = 1 .. Len(list) + 1
          /\ \A i \in 1 .. Len(list) : longer[i] = list[i]
          /\ longer[Len(list) + 1] = cursor
      BY <1>1, <2>1, AppendProperties, LenProperties
    <2>3. Free(c) = {list[i] : i \in 1 .. Len(list)}
      BY <2>2 DEF Free
    <2>4. Free(c)' = {longer[i] : i \in 1 .. Len(list) + 1}
      BY <2>2 DEF Free
    <2>5. {o \in OfClass(c) : o = cursor} = {cursor}
      BY <1>1, <1>2 DEF OfClass
    <2>6. 1 .. Len(list) + 1 = (1 .. Len(list)) \cup {Len(list) + 1}
      BY <2>2
    <2> HIDE DEF list, longer
    <2> QED
      BY <2>2, <2>3, <2>4, <2>5, <2>6
  <1>3. CASE c # k
    <2>1. free_lists'[c] = free_lists[c]
      BY <1>1, <1>3 DEF TypeOK
    <2>2. {o \in OfClass(c) : o = cursor} = {}
      BY <1>3 DEF OfClass
    <2> QED
      BY <2>1, <2>2 DEF Free
  <1> QED
    BY <1>2, <1>3

\* Behind the cursor, before and after it moves.
LEMMA SweptSoFar ==
    ASSUME HeapInv, SweptInv, GcSweep, NEW c \in Classes,
           NEW o \in OfClass(c), o <= cursor
    PROVE  o \in Free(c)'
  <1>1. phase = "sweep" /\ cursor \in Nat /\ o \in Nat
    BY HeapAssumption DEF GcSweep, HeapInv, TypeOK, OfClass
  <1>2. Free(c)' = Free(c) \cup {p \in OfClass(c) : p = cursor}
    BY SweepFree DEF HeapInv, SweepInv
  <1>3. o < cursor \/ o = cursor
    BY <1>1
  <1> QED
    BY <1>1, <1>2, <1>3 DEF SweptInv

LEMMA SweptStep == HeapInv /\ SweptInv /\ [Next]_vars => SweptInv'
  <1> SUFFICES ASSUME HeapInv, SweptInv, [Next]_vars, phase' = "sweep",
                      NEW c \in Classes, NEW o \in OfClass(c)', o < cursor'
               PROVE  o \in Free(c)'
    BY DEF SweptInv
  <1> USE DEF memory, program, collector
  <1>1. CASE Marked
    <2>1. cursor' = 0 /\ o \in Objects
      BY <1>1 DEF Marked, HeapInv, VisitInv, OfClass, Objects
    <2>2. o \in Nat
      BY <2>1, HeapAssumption DEF HeapInv, TypeOK
    <2> QED
      BY <2>1, <2>2
  <1>2. CASE GcSweep
    <2>1. UNCHANGED header /\ o \in OfClass(c)
      BY <1>2 DEF GcSweep, OfClass, Objects
    <2>2. cursor \in Objects /\ AdvanceCursor("run")
      BY <1>2 DEF GcSweep
    <2>3. o <= cursor
      <3>1. o \in Objects
        BY <2>1 DEF OfClass
      <3> QED
        BY <2>2, <3>1, CursorPast DEF HeapInv
    <2> QED
      BY <1>2, <2>1, <2>3, SweptSoFar
  <1>3. CASE UNCHANGED vars
    <2>1. /\ OfClass(c)' = OfClass(c) /\ Free(c)' = Free(c)
          /\ cursor' = cursor /\ phase' = phase
      BY <1>3 DEF vars, OfClass, Objects, Free
    <2> QED
      BY <2>1 DEF SweptInv
  <1>4. CASE Clear
    BY <1>4, CursorPast DEF Clear, HeapInv
  <1>5. ASSUME NEW p \in Objects,
               Mark(p) \/ MarkReference(p) \/ MarkTypeless(p) \/ UseTypeless(p)
        PROVE  FALSE
    BY <1>5 DEF Mark, MarkReference, MarkTypeless, UseTypeless
  <1> QED
    BY <1>1, <1>2, <1>3, <1>4, <1>5
       DEF Next, Collecting, MakeCons, MakeObject, HeapExhausted, Load, Release,
           SetExterns, SetValue, AddNamespace, Gc

LEMMA SweptInvariant == ObjectsFit => (Spec => [](HeapInv /\ SweptInv))
  <1>1. Init => SweptInv
    BY DEF Init, SweptInv
  <1> SUFFICES ASSUME ObjectsFit PROVE Spec => [](HeapInv /\ SweptInv)
    OBVIOUS
  <1> QED
    BY <1>1, SweptStep, HeapInvariant, PTL DEF Spec

-----------------------------------------------------------------------------
(* The refinement.                                                         *)

\* What MuCollector sees: the conses, which of them can be reused, and what
\* the process is doing.
Conses == OfClass(Cons)
Reusable == IF Looping THEN {} ELSE Free(Cons)
Process == IF Looping THEN "collecting"
           ELSE IF phase = "run" THEN "running" ELSE "ended"

\* The program reuses at most one cons, and writes to no other.
LEMMA UseRefines ==
    ASSUME NEW F \in SUBSET Free(Cons), F = {} \/ \E f \in F : F = {f},
           phase = "run", phase' = "run",
           Free(Cons)' = Free(Cons) \ F,
           Objects \subseteq Objects', Conses \subseteq Conses',
           \A o \in Conses \ F : links'[o] = links[o]
    PROVE  Collector!Use
  <1>1. Looping = FALSE /\ Looping' = FALSE
    BY DEF Looping
  <1>2. Reusable = Free(Cons) /\ Reusable' = Free(Cons) \ F
    BY <1>1 DEF Reusable
  <1>3. Reusable \ Reusable' = F
    BY <1>2
  <1>4. Reusable' = Reusable \/ \E o \in Reusable : Reusable' = Reusable \ {o}
    BY <1>2
  <1>5. \A o \in Conses \ (Reusable \ Reusable') : links'[o] = links[o]
    BY <1>3
  <1>6. Process = "running" /\ UNCHANGED Process
    BY <1>1 DEF Process
  <1> HIDE DEF Looping
  <1> QED
    BY <1>4, <1>5, <1>6 DEF Collector!Use, Reusable, Conses, Process

\* The end of the process, in a collection or outside one, frees nothing.
LEMMA DieRefines ==
    ASSUME HeapInv, phase \in {"run", "mark"}, phase' \in {"stopped", "astray"},
           UNCHANGED <<header, links, free_lists>>
    PROVE  Collector!Die
  <1>1. Looping' = FALSE /\ Process # "ended" /\ Process' = "ended"
    BY DEF Looping, Process
  <1>2. Objects' = Objects /\ Conses' = Conses /\ Free(Cons)' = Free(Cons)
    BY DEF Objects, Conses, OfClass, Free
  <1>3. Looping => Free(Cons) = {}
    <2> SUFFICES ASSUME Looping PROVE Free(Cons) = {}
      OBVIOUS
    <2>1. free_lists[Cons] = <<>>
      BY HeapAssumption DEF Looping, HeapInv, SweepInv
    <2> QED
      BY <2>1 DEF Free
  <1>4. UNCHANGED Reusable
    BY <1>1, <1>2, <1>3 DEF Reusable
  <1> HIDE DEF Looping
  <1> QED
    BY <1>1, <1>2, <1>4 DEF Collector!Die, Reusable, Conses, Process

\* The program's steps.
LEMMA ProgramRefines ==
    ASSUME HeapInv,
           \/ \E refs \in SUBSET held : \E w \in NewWords(Cons, refs) : MakeCons(refs, w)
           \/ \E c \in Classes, refs \in SUBSET held :
                 \E w \in NewWords(c, refs) : MakeObject(c, refs, w)
           \/ \E ns, list \in Objects : SetExterns(ns, list)
           \/ \E s, o \in Objects : SetValue(s, o)
           \/ \E ns \in Objects : AddNamespace(ns)
    PROVE  Collector!Use
  <1> USE DEF memory, program, collector
  <1>1. TypeOK /\ FreeListsSound /\ Cons \in Classes
    BY HeapAssumption DEF HeapInv, SweepInv
  <1>2. ASSUME NEW c \in Classes, NEW n \in Payload[c],
               NEW refs \in SUBSET held,
               NEW w \in NewWords(c, refs), Alloc(n, c, refs, w),
               phase = "run", UNCHANGED <<phase, namespaces>>
        PROVE  Collector!Use
    <2>1. /\ Objects' = Objects \cup {barrier}
          /\ \A o \in Objects : header'[o] = header[o] /\ links'[o] = links[o]
          /\ free_lists' = free_lists
      BY <1>1, <1>2, AllocGraph
    <2>2. /\ Objects \subseteq Objects' /\ Conses \subseteq Conses'
          /\ \A o \in Conses \ {} : links'[o] = links[o]
      BY <2>1 DEF Conses, OfClass
    <2>3. Free(Cons)' = Free(Cons) \ {}
      BY <2>1 DEF Free
    <2>4. phase = "run" /\ phase' = "run" /\ namespaces \subseteq namespaces'
      BY <1>2
    <2> QED
      BY <2>2, <2>3, <2>4, UseRefines
  <1>3. ASSUME NEW refs \in SUBSET held,
               NEW w \in NewWords(Cons, refs), MakeCons(refs, w) PROVE Collector!Use
    <2>1. PICK n \in Payload[Cons] : GcAlloc(n, refs, w)
      BY <1>3 DEF MakeCons
    <2>2. phase = "run" /\ UNCHANGED <<phase, namespaces>>
      BY <1>3 DEF MakeCons
    <2>3. CASE Reuse(refs, w)
      <3>1. PICK f \in Free(Cons) :
               /\ Free(Cons)' = Free(Cons) \ {f}
               /\ links' = [links EXCEPT ![f] = refs]
               /\ UNCHANGED header /\ Objects' = Objects
        BY <1>1, <2>3, ReuseGraph
      <3>2. Conses' = Conses
        BY <3>1 DEF Conses, OfClass
      <3>3. \A o \in Conses \ {f} : links'[o] = links[o]
        BY <1>1, <3>1 DEF Conses, OfClass, TypeOK
      <3> QED
        BY <2>2, <3>1, <3>2, <3>3, UseRefines
    <2>4. CASE Alloc(n, Cons, refs, w)
      BY <1>1, <1>2, <2>2, <2>4
    <2> QED
      BY <2>1, <2>3, <2>4 DEF GcAlloc
  <1>4. ASSUME NEW c \in Classes, NEW refs \in SUBSET held,
               NEW w \in NewWords(c, refs), MakeObject(c, refs, w)
        PROVE  Collector!Use
    BY <1>2, <1>4 DEF MakeObject
  <1>5. ASSUME NEW o \in Objects, header[o].class # Cons,
               phase = "run", UNCHANGED <<phase, header, free_lists>>,
               namespaces \subseteq namespaces',
               links' = links \/ \E refs : links' = [links EXCEPT ![o] = refs]
        PROVE  Collector!Use
    <2>1. Objects' = Objects /\ Conses' = Conses /\ phase' = "run"
      BY <1>5 DEF Objects, Conses, OfClass
    <2>2. \A p \in Conses \ {} : links'[p] = links[p]
      BY <1>1, <1>5 DEF TypeOK, Conses, OfClass
    <2>3. Free(Cons)' = Free(Cons) \ {}
      BY <1>5 DEF Free
    <2>4. phase = "run" /\ namespaces \subseteq namespaces'
      BY <1>5
    <2> QED
      BY <2>1, <2>2, <2>3, <2>4, UseRefines
  <1>6. ASSUME NEW ns \in Objects, NEW list \in Objects, SetExterns(ns, list)
        PROVE  Collector!Use
    BY <1>5, <1>6, HeapAssumption DEF SetExterns, OfClass
  <1>7. ASSUME NEW s \in Objects, NEW o \in Objects, SetValue(s, o)
        PROVE  Collector!Use
    BY <1>5, <1>7, HeapAssumption DEF SetValue, OfClass
  <1>8. ASSUME NEW ns \in Objects, AddNamespace(ns) PROVE Collector!Use
    BY <1>5, <1>8, HeapAssumption DEF AddNamespace, OfClass
  <1> QED
    BY <1>3, <1>4, <1>6, <1>7, <1>8

\* When the sweep has passed every object, every cons is free.
LEMMA EndRefines ==
    ASSUME HeapInv, SweptInv, GcSweep, phase' = "run"
    PROVE  Collector!End
  <1> USE DEF memory, program
  <1>1. /\ phase = "sweep" /\ cursor \in Objects /\ AdvanceCursor("run")
        /\ UNCHANGED <<header, links>>
    BY DEF GcSweep
  <1>2. Objects' = Objects /\ Conses' = Conses /\ Cons \in Classes
    BY <1>1, HeapAssumption DEF Objects, Conses, OfClass
  <1>3. TypeOK /\ FreeListsSound /\ NoHeaderMarked
    BY DEF HeapInv, SweepInv
  <1>4. \A o \in Objects : o <= cursor
    BY <1>1, <1>3, CursorPast DEF HeapInv
  <1>5. Conses \subseteq Free(Cons)'
    BY <1>2, <1>4, SweptSoFar DEF Conses, OfClass
  <1>6. Free(Cons)' \subseteq Conses
    <2>1. Free(Cons)' = Free(Cons) \cup {o \in OfClass(Cons) : o = cursor}
      BY <1>2, <1>3, SweepFree
    <2>2. Free(Cons) \subseteq Conses
      BY <1>2, <1>3, FreeType DEF Conses
    <2> QED
      BY <2>1, <2>2 DEF Conses
  <1>7. Process = "collecting" /\ Process' = "running" /\ Looping' = FALSE
    BY <1>1 DEF Looping, Process
  <1>8. Reusable' = Conses
    BY <1>5, <1>6, <1>7 DEF Reusable
  <1> QED
    BY <1>1, <1>2, <1>7, <1>8 DEF Collector!End, Conses, Reusable, Process

\* The three loops of (gc) are, to the program, one collection: when it ends
\* every cons is on the free list, whoever refers to it, unless the process
\* ends first; between collections the program overwrites no cons but the free
\* one that cons takes (env-env.cc:113, heap.cc:47-65).  That the loops end is
\* left to TLC.
THEOREM LoopsAreOneCollection == ObjectsFit => (Spec => Collector!Spec)
  <1>1. Init => Collector!Init
    <2> SUFFICES ASSUME Init PROVE Collector!Init
      OBVIOUS
    <2>1. Objects = {Uninterned, System} /\ Looping = FALSE
      BY DEF Init, Objects, Looping
    <2>2. Conses = {}
      BY <2>1, HeapAssumption DEF Init, Conses, OfClass, HeapInfo
    <2>3. Free(Cons) = {}
      BY HeapAssumption DEF Init, Free
    <2> QED
      BY <2>1, <2>2, <2>3 DEF Init, Collector!Init, Conses
  <1>2. HeapInv /\ SweptInv /\ [Next]_vars => [Collector!Next]_(Collector!vars)
    <2> SUFFICES ASSUME HeapInv, SweptInv, [Next]_vars
                 PROVE  \/ Collector!Use \/ Collector!Begin
                        \/ Collector!End \/ Collector!Die
                        \/ UNCHANGED <<Objects, Conses, links, Reusable, Process>>
      BY DEF Collector!Next, Collector!vars, Conses, Reusable, Process
    <2> USE DEF memory, program, collector
    <2>1. CASE Gc
      <3>1. /\ UNCHANGED <<Objects, Conses, links>>
            /\ Process = "running" /\ Process' = "collecting" /\ Reusable' = {}
        BY <2>1 DEF Gc, Objects, Conses, OfClass, Looping, Process, Reusable
      <3> QED
        BY <3>1 DEF Collector!Begin, Conses, Process, Reusable
    <2>2. ASSUME UNCHANGED <<Objects, Conses, links>>, Looping, Looping'
          PROVE  UNCHANGED <<Objects, Conses, links, Reusable, Process>>
      BY <2>2 DEF Reusable, Process
    <2>3. CASE Clear
      <3>1. cursor \in Objects /\ header' = [header EXCEPT ![cursor].ref = 0]
        BY <2>3 DEF Clear
      <3>2. Objects' = Objects /\ \A o \in Objects : header'[o].class = header[o].class
        <4>1. header[cursor] \in Headers
          BY <3>1 DEF HeapInv, TypeOK
        <4>2. [header[cursor] EXCEPT !.ref = 0].class = header[cursor].class
          BY <4>1 DEF Headers
        <4> QED
          BY <3>1, <4>2 DEF HeapInv, TypeOK, Objects
      <3>3. Conses' = Conses
        BY <3>2 DEF Conses, OfClass
      <3>4. UNCHANGED links
        BY <2>3 DEF Clear
      <3>5. Looping /\ Looping'
        BY <2>3, CursorPast DEF Clear, Looping, HeapInv
      <3> QED
        BY <2>2, <3>2, <3>3, <3>4, <3>5
    <2>4. CASE Marked \/ \E o \in Objects : Mark(o)
      BY <2>2, <2>4 DEF Marked, Mark, Objects, Conses, OfClass, Looping
    <2>5. CASE GcSweep
      <3>1. phase' = "run" \/ (Looping /\ Looping')
        BY <2>5, CursorPast DEF GcSweep, Looping, HeapInv
      <3>2. UNCHANGED <<Objects, Conses, links>>
        BY <2>5 DEF GcSweep, Objects, Conses, OfClass
      <3> QED
        BY <2>2, <2>5, <3>1, <3>2, EndRefines
    <2>6. CASE \/ HeapExhausted
               \/ \E o \in Objects : UseTypeless(o) \/ MarkReference(o) \/ MarkTypeless(o)
      BY <2>6, DieRefines DEF HeapExhausted, UseTypeless, MarkReference, MarkTypeless
    <2>7. CASE (\E o \in Objects : Load(o) \/ Release(o)) \/ UNCHANGED vars
      <3>1. UNCHANGED <<header, links, free_lists, phase>>
        BY <2>7 DEF Load, Release, vars
      <3> QED
        BY <3>1 DEF Objects, Conses, OfClass, Reusable, Free, Looping, Process
    <2> QED
      BY <2>1, <2>3, <2>4, <2>5, <2>6, <2>7, ProgramRefines DEF Next, Collecting
  <1> SUFFICES ASSUME ObjectsFit PROVE Spec => Collector!Spec
    OBVIOUS
  <1> QED
    BY <1>1, <1>2, SweptInvariant, PTL DEF Spec, Collector!Spec
=============================================================================
