------------------------------- MODULE MuHeap -------------------------------
(***************************************************************************)
(* The mapped heap of libmu and its mark-and-sweep collector.              *)
(*                                                                         *)
(* The heap is an array of 64 bit words below an allocation barrier.  Each *)
(* object is a HeapInfo header word followed by its payload; the header    *)
(* holds the object's size in words, ref bits and its class, and whoever   *)
(* walks the heap finds the next header by adding the size.  An object is  *)
(* named by the offset of its header.                                      *)
(*                                                                         *)
(* (gc) clears the ref bits of all headers, visits what the registered     *)
(* namespaces lead to, and puts every object with clear ref bits on the    *)
(* free list of its class; it moves nothing.  Only conses are ever taken   *)
(* from a free list.                                                       *)
(*                                                                         *)
(* The visits do not touch headers.  What GcMark and IsGcMarked map a tag  *)
(* to is the object's payload and one byte (mapped.h:87), so the ref bits  *)
(* they set and test are the third byte of the object's first word: data   *)
(* of the object.  The model keeps of that word what this depends on.      *)
(*                                                                         *)
(* Of the program that uses the heap the model keeps which references it   *)
(* holds (in frames, C++ variables and compiler tables), which it can load *)
(* and which it stores.                                                    *)
(***************************************************************************)
EXTENDS Integers, Sequences, FiniteSets

CONSTANTS
    Capacity,     \* words in the heap (page_size * n_pages / 8)
    SizeModulus,  \* the size field of a header counts words modulo this
    Classes,      \* SYS_CLASS of the objects a program allocates
    Cons, Symbol, Namespace,
    Vector,       \* vectors of type :t
    Untraced,     \* classes whose Gc visits nothing: other vectors, streams
    Payload,      \* class -> possible payloads, in words
    Period,       \* of so many word offsets, references to the first
    Window,       \* so many (backwards) have a third byte of zero
    MaxHeld       \* bound: references the program holds at one time

\* Whether every object with its header fits the size field (heap.h:36).
ObjectsFit == \A c \in Classes : \A n \in Payload[c] : n + 1 < SizeModulus

ASSUME HeapAssumption ==
    /\ Capacity \in Nat /\ SizeModulus \in Nat \ {0}
    /\ Cons \in Classes /\ Symbol \in Classes /\ Namespace \in Classes
    /\ Cons # Symbol /\ Cons # Namespace /\ Symbol # Namespace
    /\ Vector \in Classes \ {Cons, Symbol, Namespace}
    /\ Untraced \subseteq Classes \ {Cons, Symbol, Namespace, Vector}
    /\ Payload \in [Classes -> SUBSET Nat]
    /\ \E n \in Payload[Namespace] : Payload[Namespace] = {n}
    /\ Period \in Nat \ {0} /\ Window \in Nat
    /\ MaxHeld \in Nat

VARIABLES
    barrier,     \* alloc_barrier, as a word offset
    header,      \* offset of an object -> its HeapInfo
    links,       \* offset of an object -> the objects its payload refers to
    first,       \* offset of an object -> the first word of its payload: the
                 \* object it refers to, or whether its third byte is zero
    free_lists,  \* class -> offsets, the next one to reuse at the end
    namespaces,  \* env.namespaces: the registered namespaces
    held,        \* references in the hands of the program
    phase,       \* what the process is doing
    cursor,      \* heapinfo_iter's current
    pending,     \* references Env::Gc has still to visit
    written      \* history: what GcMark has been called for in this (gc)

vars == <<barrier, header, links, first, free_lists, namespaces, held,
          phase, cursor, pending, written>>

memory == <<barrier, header, links, first>>
program == <<namespaces, held>>
collector == <<phase, cursor, pending, written>>

-----------------------------------------------------------------------------
Objects == DOMAIN header
OfClass(c) == {o \in Objects : header[o].class = c}

\* Mutant: the size leaves the header itself out.
HeapInfoOfPayload(words, c) ==
    [size |-> (words - 1) % SizeModulus, ref |-> 0, class |-> c]

HeapInfo(words, c) == [size |-> words % SizeModulus, ref |-> 0, class |-> c]

\* The payload a class of one size has.
PayloadOf(c) == CHOOSE n \in Payload[c] : TRUE
FirstWords == 2 * (1 + PayloadOf(Namespace))

\* The first words that are no references to heap objects: the third byte is
\* zero in small numbers, texts of one character and the keyword :t, and not
\* in longer texts, nil and the other types of vectors.
Blank == -1
Filled == -2

\* The payload of o is o + 1 words above the heap's address; its tag holds the
\* negated distance in bytes above six other bits (heap-mapped.cc:116,
\* type.h:120), so bits 16 to 23 of the tag are bits 7 to 14 of the distance
\* in words: Window is 2^7 and Period 2^15.
BlankReference(o) == (-(o + 1)) % Period < Window

\* The first words a new object can have: car, type of a vector, name of a
\* namespace, arity of a function...  A cons whose car refers to nothing has
\* at most one reference.
NewWords(c, refs) ==
    CASE c = Cons      -> refs \cup (IF Cardinality(refs) <= 1 THEN {Blank, Filled} ELSE {})
      [] c = Vector    -> {Blank}
      [] c \in Untraced -> {Filled}
      [] OTHER         -> {Blank, Filled}

\* The Env constructor allocates the namespaces, env.uninterned with an empty
\* name; it enters the others in env.namespaces.
Uninterned == 0
System == 1 + PayloadOf(Namespace)

Init ==
    /\ FirstWords <= Capacity
    /\ barrier = FirstWords
    /\ header = [o \in {Uninterned, System} |->
                    HeapInfo(1 + PayloadOf(Namespace), Namespace)]
    /\ links = [o \in {Uninterned, System} |-> {}]
    /\ first = [o \in {Uninterned, System} |-> IF o = System THEN Filled ELSE Blank]
    /\ free_lists = [c \in Classes |-> <<>>]
    /\ namespaces = {System}
    /\ held = {}
    /\ phase = "run"
    /\ cursor = 0
    /\ pending = {}
    /\ written = {}

\* What the program can name: what it holds, the registered namespaces
\* (env:find-ns) and the uninterned one (the designator ()).
Known == held \cup namespaces \cup {Uninterned}

\* The objects that chains of references in P lead to from R.
ClosedIn(S, P) == \A o \in S : links[o] \cap P \subseteq S

ReachableIn(R, P) == {o \in P : \A S \in SUBSET P :
                         R \cap P \subseteq S /\ ClosedIn(S, P) => o \in S}

Reachable(R) == ReachableIn(R, Objects)

-----------------------------------------------------------------------------
(* Allocation.                                                             *)

\* Mutant: the limit forgets the header.
AllocPastLimit(n, c, refs, w) ==
    /\ barrier + n <= Capacity
    /\ header' = [o \in Objects \cup {barrier} |->
                    IF o = barrier THEN HeapInfo(1 + n, c) ELSE header[o]]
    /\ links' = [o \in Objects \cup {barrier} |->
                    IF o = barrier THEN refs ELSE links[o]]
    /\ first' = [o \in Objects \cup {barrier} |->
                    IF o = barrier THEN w ELSE first[o]]
    /\ barrier' = barrier + (1 + n)
    /\ held' = held \cup {barrier}
    /\ UNCHANGED free_lists

\* Mapped::Alloc at the barrier.
Alloc(n, c, refs, w) ==
    /\ barrier + (1 + n) <= Capacity
    /\ header' = [o \in Objects \cup {barrier} |->
                    IF o = barrier THEN HeapInfo(1 + n, c) ELSE header[o]]
    /\ links' = [o \in Objects \cup {barrier} |->
                    IF o = barrier THEN refs ELSE links[o]]
    /\ first' = [o \in Objects \cup {barrier} |->
                    IF o = barrier THEN w ELSE first[o]]
    /\ barrier' = barrier + (1 + n)
    /\ held' = held \cup {barrier}
    /\ UNCHANGED free_lists

\* Mutant: the entry stays on the free list.
ReuseKeepingEntry(refs, w) ==
    /\ free_lists[Cons] # <<>>
    /\ LET list == free_lists[Cons]
           free == list[Len(list)]
       IN  /\ links' = [links EXCEPT ![free] = refs]
           /\ first' = [first EXCEPT ![free] = w]
           /\ held' = held \cup {free}
    /\ UNCHANGED <<barrier, header, free_lists>>

\* Heap::GcAlloc when the free list of conses is not empty: the header stays
\* as it is, the payload is overwritten.
Reuse(refs, w) ==
    /\ free_lists[Cons] # <<>>
    /\ LET list == free_lists[Cons]
           free == list[Len(list)]
       IN  /\ free_lists' = [free_lists EXCEPT ![Cons] = SubSeq(list, 1, Len(list) - 1)]
           /\ links' = [links EXCEPT ![free] = refs]
           /\ first' = [first EXCEPT ![free] = w]
           /\ held' = held \cup {free}
    /\ UNCHANGED <<barrier, header>>

GcAlloc(n, refs, w) ==
    \/ Reuse(refs, w)
    \/ free_lists[Cons] = <<>> /\ Alloc(n, Cons, refs, w)

\* (cons car cdr).
MakeCons(refs, w) ==
    /\ phase = "run"
    /\ Cardinality(held) < MaxHeld
    /\ refs \subseteq held /\ Cardinality(refs) <= 2
    /\ w \in NewWords(Cons, refs)
    /\ \E n \in Payload[Cons] : GcAlloc(n, refs, w)
    /\ UNCHANGED <<namespaces, collector>>

\* A symbol, namespace, function, exception, vector or stream.
MakeObject(c, refs, w) ==
    /\ phase = "run"
    /\ Cardinality(held) < MaxHeld
    /\ c \in Classes \ {Cons}
    /\ refs \subseteq held
    /\ c \in Untraced \cup {Namespace} => refs = {}
    /\ c = Symbol => Cardinality(refs) <= 1
    /\ w \in NewWords(c, refs)
    /\ \E n \in Payload[c] : Alloc(n, c, refs, w)
    /\ UNCHANGED <<namespaces, collector>>

\* "heap exhausted" is a runtime_error: no handler of libmu survives it.
HeapExhausted ==
    /\ phase = "run"
    /\ \E c \in Classes : \E n \in Payload[c] :
          /\ c = Cons => free_lists[Cons] = <<>>
          /\ barrier + (1 + n) > Capacity
    /\ phase' = "stopped"
    /\ UNCHANGED <<memory, program, free_lists, cursor, pending, written>>

-----------------------------------------------------------------------------
(* The program's other uses of the heap.                                   *)

\* find-ns, car, cdr, symbol-value, ns-syms...: loading a reference.  Nothing
\* answers env.uninterned itself.
Load(o) ==
    /\ phase = "run"
    /\ Cardinality(held) < MaxHeld
    /\ o \in namespaces \/ \E k \in Known : o \in links[k]
    /\ held' = held \cup {o}
    /\ UNCHANGED <<memory, namespaces, free_lists, collector>>

\* The frame, or the C++ variable, that held o is gone.
Release(o) ==
    /\ phase = "run"
    /\ o \in held
    /\ held' = held \ {o}
    /\ UNCHANGED <<memory, namespaces, free_lists, collector>>

\* Namespace::externs: the list `list', whose tail is the list so far.
SetExterns(ns, list) ==
    /\ phase = "run"
    /\ ns \in Known \cap OfClass(Namespace)
    /\ list \in held \cap OfClass(Cons)
    /\ links[ns] \subseteq links[list]
    /\ links' = [links EXCEPT ![ns] = {list}]
    /\ UNCHANGED <<barrier, header, first, program, free_lists, collector>>

\* Symbol::set_value of a symbol without a value.
SetValue(s, o) ==
    /\ phase = "run"
    /\ s \in held \cap OfClass(Symbol) /\ links[s] = {}
    /\ o \in held
    /\ links' = [links EXCEPT ![s] = {o}]
    /\ UNCHANGED <<barrier, header, first, program, free_lists, collector>>

\* (env:ns ns): AddNamespace.
AddNamespace(ns) ==
    /\ phase = "run"
    /\ ns \in held \cap OfClass(Namespace)
    /\ namespaces' = namespaces \cup {ns}
    /\ UNCHANGED <<memory, held, free_lists, collector>>

\* GcMark has written over the type of the vector: Vector::TypeOf finds no
\* class for the keyword it reads.
TypeGone(o) == header[o].class = Vector /\ first[o] # Blank

\* The process ends in Type::MapSymbolClass when the program uses one.
UseTypeless(o) ==
    /\ phase = "run"
    /\ o \in held /\ TypeGone(o)
    /\ phase' = "stopped"
    /\ UNCHANGED <<memory, program, free_lists, cursor, pending, written>>

-----------------------------------------------------------------------------
(* (gc).  The three loops run one object at a time.                        *)

AfterCursor == cursor + header[cursor].size

\* The iterator's ++, and what follows the loop.
AdvanceCursor(next) ==
    IF AfterCursor >= barrier
      THEN cursor' = 0 /\ phase' = next
      ELSE cursor' = AfterCursor /\ phase' = phase

\* Mutant: the free lists of the last collection are kept.
GcKeepingLists ==
    /\ phase = "run"
    /\ phase' = "clear"
    /\ cursor' = 0
    /\ UNCHANGED <<memory, program, free_lists, pending, written>>

Gc ==
    /\ phase = "run"
    /\ free_lists' = [c \in Classes |-> <<>>]
    /\ phase' = "clear"
    /\ cursor' = 0
    /\ UNCHANGED <<memory, program, pending, written>>

\* Heap::Gc zeroes the ref bits of the headers.
Clear ==
    /\ phase = "clear"
    /\ cursor \in Objects
    /\ header' = [header EXCEPT ![cursor].ref = 0]
    /\ AdvanceCursor("mark")
    /\ pending' = IF phase' = "mark" THEN namespaces ELSE pending
    /\ UNCHANGED <<barrier, links, first, program, free_lists, written>>

\* Whether the third byte of the first word is not zero.
IsGcMarked(o) == IF first[o] \in Nat THEN ~BlankReference(first[o])
                                     ELSE first[o] = Filled

\* Mutant: Cons::Gc does not visit car and cdr.
MarkConsOnly(o) ==
    /\ phase = "mark"
    /\ o \in pending /\ ~TypeGone(o)
    /\ IF header[o].class \in Untraced \/ IsGcMarked(o)
         THEN pending' = pending \ {o} /\ UNCHANGED <<first, written>>
         ELSE /\ first[o] = Blank
              /\ pending' = (pending \ {o}) \cup
                     (IF header[o].class = Cons THEN {} ELSE links[o])
              /\ first' = [first EXCEPT ![o] = Filled]
              /\ written' = written \cup {o}
    /\ UNCHANGED <<barrier, header, links, program, free_lists, phase, cursor>>

\* Env::Gc of one reference; the code's recursion visits them depth first.
\* GcMark changes the object's first word.
Mark(o) ==
    /\ phase = "mark"
    /\ o \in pending /\ ~TypeGone(o)
    /\ IF header[o].class \in Untraced \/ IsGcMarked(o)
         THEN pending' = pending \ {o} /\ UNCHANGED <<first, written>>
         ELSE /\ first[o] = Blank
              /\ pending' = (pending \ {o}) \cup links[o]
              /\ first' = [first EXCEPT ![o] = Filled]
              /\ written' = written \cup {o}
    /\ UNCHANGED <<barrier, header, links, program, free_lists, phase, cursor>>

\* The car that GcMark changes is a reference: Cons::Gc goes on to what lies
\* 2^7 words before the object, whatever that is.  The model ends here.
MarkReference(o) ==
    /\ phase = "mark"
    /\ o \in pending
    /\ first[o] \in Nat /\ ~IsGcMarked(o)
    /\ phase' = "astray"
    /\ UNCHANGED <<memory, program, free_lists, cursor, pending, written>>

\* The second visit of a vector, in this collection or a later one.
MarkTypeless(o) ==
    /\ phase = "mark"
    /\ o \in pending /\ TypeGone(o)
    /\ phase' = "stopped"
    /\ UNCHANGED <<memory, program, free_lists, cursor, pending, written>>

Marked ==
    /\ phase = "mark"
    /\ pending = {}
    /\ phase' = "sweep"
    /\ written' = {}
    /\ UNCHANGED <<memory, program, free_lists, cursor, pending>>

GcSweep ==
    /\ phase = "sweep"
    /\ cursor \in Objects
    /\ free_lists' = IF header[cursor].ref = 0
                       THEN [free_lists EXCEPT ![header[cursor].class] =
                                Append(@, cursor)]
                       ELSE free_lists
    /\ AdvanceCursor("run")
    /\ UNCHANGED <<memory, program, pending, written>>

\* The collector, once called, runs to its end.
Collecting ==
    \/ Clear
    \/ \E o \in Objects : Mark(o) \/ MarkReference(o) \/ MarkTypeless(o)
    \/ Marked
    \/ GcSweep

Next ==
    \/ \E refs \in SUBSET held : \E w \in NewWords(Cons, refs) : MakeCons(refs, w)
    \/ \E c \in Classes, refs \in SUBSET held :
          \E w \in NewWords(c, refs) : MakeObject(c, refs, w)
    \/ HeapExhausted
    \/ \E o \in Objects : Load(o)
    \/ \E o \in Objects : Release(o)
    \/ \E ns, list \in Objects : SetExterns(ns, list)
    \/ \E s, o \in Objects : SetValue(s, o)
    \/ \E ns \in Objects : AddNamespace(ns)
    \/ \E o \in Objects : UseTypeless(o)
    \/ Gc
    \/ Collecting

Spec == Init /\ [][Next]_vars

\* Between the loops of (gc) the thread waits for nothing.
FairSpec == Spec /\ WF_vars(Collecting)

-----------------------------------------------------------------------------
(* Properties.                                                             *)

Headers == [size : 0 .. SizeModulus - 1, ref : {0, 1}, class : Classes]

\* Every variable has the shape the code gives it; references are to objects.
TypeOK ==
    /\ barrier \in 0 .. Capacity
    /\ Objects \subseteq 0 .. barrier - 1
    /\ header \in [Objects -> Headers]
    /\ links \in [Objects -> SUBSET Objects]
    /\ first \in [Objects -> Objects \cup {Blank, Filled}]
    /\ free_lists \in [Classes -> Seq(Objects)]
    /\ namespaces \subseteq Objects
    /\ held \subseteq Objects
    /\ phase \in {"run", "clear", "mark", "sweep", "stopped", "astray"}
    /\ cursor \in Nat
    /\ pending \subseteq Objects
    /\ written \subseteq Objects

\* The headers tile the heap below the barrier: from the first one, adding
\* sizes leads from each object to the next and past the last to the barrier,
\* so that a walk of the heap meets every object and nothing else
\* (mapped.h:144, heap-mapped.cc:100).
HeadersTile ==
    /\ 0 \in Objects
    /\ \A o \in Objects :
          LET after == o + header[o].size
          IN  /\ after > o
              /\ after \in Objects \cup {barrier}
              /\ \A p \in Objects : o < p => after <= p

\* A free list holds objects of its class, each once: no object can be handed
\* out twice between two collections (heap.cc:59, heap.cc:73).
FreeListsSound ==
    \A c \in Classes :
        /\ \A i \in DOMAIN free_lists[c] : free_lists[c][i] \in OfClass(c)
        /\ \A i, j \in DOMAIN free_lists[c] :
              free_lists[c][i] = free_lists[c][j] => i = j

\* The objects that did not look marked when the collection began.
Unmarked == {o \in Objects : /\ header[o].class \notin Untraced
                             /\ o \in written \/ ~IsGcMarked(o)}

\* When the visits are over GcMark has changed the first words of exactly the
\* objects that the registered namespaces reach through objects that did not
\* look marked, in whatever order they were visited: behind an object that
\* happens to look marked, as system, mu and env do, nothing is visited
\* (env-env.cc:118, env.cc:211, heap.cc:53).
MarksReachable ==
    phase = "mark" /\ pending = {} => written = ReachableIn(namespaces, Unmarked)

\* No cons that the program can still reach is on the free list, where the
\* next call of cons would overwrite it (eko.md:36, heap.cc:77).
LiveNotFree ==
    \A i \in DOMAIN free_lists[Cons] : free_lists[Cons][i] \notin Reachable(Known)

\* No cons that a registered namespace reaches is on the free list: the ref
\* bits of its header would keep it off (env-env.cc:118, heap.h:39).
RegisteredNotFree ==
    \A i \in DOMAIN free_lists[Cons] : free_lists[Cons][i] \notin Reachable(namespaces)

\* The three loops of (gc) together do what MuCollector says: they end, and
\* leave every cons on the free list once, or the process ends; between
\* collections nothing but a cons of the free list is overwritten
\* (env-env.cc:113, heap.cc:47-65).
Free(c) == {free_lists[c][i] : i \in DOMAIN free_lists[c]}
Looping == phase \in {"clear", "mark", "sweep"}

Collector == INSTANCE MuCollector WITH
    objects <- Objects,
    conses  <- OfClass(Cons),
    free    <- IF Looping THEN {} ELSE Free(Cons),
    process <- IF Looping THEN "collecting"
               ELSE IF phase = "run" THEN "running" ELSE "ended"

ImplementsCollector == Collector!FairSpec
=============================================================================
