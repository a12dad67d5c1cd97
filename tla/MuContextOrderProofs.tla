------------------------ MODULE MuContextOrderProofs ------------------------
(***************************************************************************)
(* TLAPS proofs about the order of the entries of MuContext's lexical      *)
(* stacks, for every set of lambdas and closures and every bound.  While   *)
(* no exception has cut short an activation of a lambda, its stack lists   *)
(* exactly the entries still to be popped, in the order they were made:    *)
(* a lex-ref reaches the innermost frame.  Where nothing raises, that is   *)
(* true of every lambda, no entry is of a frame that is gone, and lex-pop  *)
(* deletes the frame it pops.                                              *)
(***************************************************************************)
EXTENDS MuContextProofs

-----------------------------------------------------------------------------
(* Counting.                                                               *)

\* A set gains an element.
LEMMA OneMore ==
    ASSUME NEW S, IsFiniteSet(S), NEW x, x \notin S
    PROVE  /\ IsFiniteSet(S \cup {x})
           /\ Cardinality(S \cup {x}) = Cardinality(S) + 1
           /\ Cardinality(S) \in Nat
  BY FS_AddElement, FS_CardinalityType

\* A set loses an element.
LEMMA OneLess ==
    ASSUME NEW S, IsFiniteSet(S), NEW x \in S
    PROVE  /\ IsFiniteSet(S \ {x})
           /\ Cardinality(S \ {x}) = Cardinality(S) - 1
           /\ Cardinality(S) \in Nat /\ Cardinality(S) >= 1
  <1>1. /\ IsFiniteSet(S \ {x}) /\ Cardinality(S \ {x}) = Cardinality(S) - 1
        /\ Cardinality(S) \in Nat /\ Cardinality(S \ {x}) \in Nat
    BY FS_RemoveElement, FS_CardinalityType
  <1> QED
    BY <1>1

\* A part of a set that counts as much as the set may count is the set.
LEMMA WholePart ==
    ASSUME NEW S, IsFiniteSet(S), NEW T \in SUBSET S,
           Cardinality(S) <= Cardinality(T)
    PROVE  T = S
  <1>1. /\ IsFiniteSet(T) /\ Cardinality(T) <= Cardinality(S)
        /\ Cardinality(T) = Cardinality(S) => S = T
    BY FS_Subset
  <1>2. Cardinality(S) \in Nat /\ Cardinality(T) \in Nat
    BY <1>1, FS_CardinalityType
  <1> QED
    BY <1>1, <1>2

\* A nonempty set of positions counts as at least one of them.
LEMMA CountPositive ==
    ASSUME NEW S, IsFiniteSet(S), NEW x \in S
    PROVE  Cardinality(S) \in Nat /\ Cardinality(S) >= 1
  BY OneLess

-----------------------------------------------------------------------------
(* Entries and their frames.                                               *)

\* The captured frames that are entered on the stack of f.
FramesOf(f) == {fr \in Captured : CapturedFns[fr[1]][fr[2]] = f}

\* No exception has cut short an activation of f.
Uncut(f) == Len(lexical[f]) = Cardinality(Held(f))

\* Two different entries, the first made before the second.
Before(d, e) == Precedes(d, e) /\ d # e

\* The captured frame of an entry that is not an activation's own.
FrameOf(e) == <<control[e[1]].fn, e[2]>>

\* Sequence s lists the set of entries H in the order in which they were made,
\* each by its frame F[e].
ListedAs(s, H, F) ==
    \E q \in [1 .. Len(s) -> H] :
        /\ \A e \in H : \E n \in 1 .. Len(s) : q[n] = e
        /\ \A m, n \in 1 .. Len(s) : m < n => Before(q[m], q[n])
        /\ \A n \in 1 .. Len(s) : s[n] = F[q[n]]

\* The stack of f is the frames of the entries still to be popped, in the
\* order in which they were made.
Lists(f) == ListedAs(lexical[f], Held(f), [e \in Held(f) |-> EntryFrame(e)])

\* So is each stack of captured frames of f.
Exact(f) ==
    \A fr \in FramesOf(f) : Len(closures[fr]) = Cardinality(Holders(fr))

\* InnermostBinding speaks of the last entry only and is not inductive: what a
\* pop uncovers is the entry below.
OrderInv == \A f \in Lambdas : Uncut(f) => Lists(f) /\ Exact(f)

\* Positions and slots are numbers.
LEMMA SlotNumbersNat == SlotNumbers \subseteq Nat
  <1> SUFFICES ASSUME NEW k \in SlotNumbers PROVE k \in Nat
    OBVIOUS
  <1>1. CASE k = 0
    BY <1>1
  <1>2. ASSUME NEW c \in Closures, k \in Slots(c) PROVE k \in Nat
    BY <1>2, SlotTypes
  <1> QED
    BY <1>1, <1>2 DEF SlotNumbers

\* What a held entry is.
LEMMA HeldType ==
    ASSUME TypeOK, NEW f \in Lambdas, NEW e \in Held(f)
    PROVE  /\ e = <<e[1], e[2]>>
           /\ e[1] \in 1 .. Len(control) /\ e[2] \in SlotNumbers
           /\ e[1] \in Nat /\ e[2] \in Nat
           /\ e[2] \in Entered(control[e[1]])
           /\ LambdaOf(control[e[1]], e[2]) = f
           /\ control[e[1]] \in Activations
           /\ e[2] # 0 => /\ control[e[1]].op = "closure"
                          /\ FrameOf(e) \in FramesOf(f)
                          /\ e[1] \in Holders(FrameOf(e))
  <1>1. /\ e \in (1 .. Len(control)) \X SlotNumbers
        /\ e[2] \in Entered(control[e[1]])
        /\ LambdaOf(control[e[1]], e[2]) = f
    BY DEF Held
  <1>2. /\ e = <<e[1], e[2]>> /\ e[1] \in 1 .. Len(control)
        /\ e[2] \in SlotNumbers /\ e[1] \in Nat /\ e[2] \in Nat
    <2>1. e = <<e[1], e[2]>> /\ e[1] \in 1 .. Len(control) /\ e[2] \in SlotNumbers
      BY <1>1
    <2>2. Len(control) \in Nat
      BY DEF TypeOK
    <2> QED
      BY <2>1, <2>2, SlotNumbersNat
  <1>3. control[e[1]] \in Activations
    BY <1>2, ElementOfSeq DEF TypeOK
  <1>4. ASSUME e[2] # 0
        PROVE  /\ control[e[1]].op = "closure"
               /\ FrameOf(e) \in FramesOf(f)
               /\ e[1] \in Holders(FrameOf(e))
    <2> DEFINE a == control[e[1]]
    <2>1. a.op = "closure"
      <3>1. a.op # "lambda" /\ a.op \notin {"plain", "with"}
        BY <1>1, <1>3, <1>4, EnteredCases
      <3> QED
        BY <1>3, <3>1, ActivationOps
    <2>2. a.fn \in Closures /\ a.mark \in Nat /\ a.phase \in {"push", "pop"}
      BY <1>3, <2>1, ActivationOps
    <2>3. a.mark <= NumSlots(a) /\ NumSlots(a) \in Nat /\ Slots(a.fn) = 1 .. NumSlots(a)
      BY <1>2, <2>1, <2>2, SlotTypes DEF TypeOK, NumSlots
    <2>4. Entered(a) = 0 .. a.mark \/ Entered(a) = {0} \cup (a.mark + 1 .. NumSlots(a))
      BY <1>3, <2>1, <2>2, EnteredCases
    <2>5. e[2] \in Slots(a.fn)
      BY <1>1, <1>2, <1>4, <2>2, <2>3, <2>4
    <2>6. <<a.fn, e[2]>> \in Captured /\ CapturedFns[a.fn][e[2]] = f
      BY <1>1, <1>4, <2>2, <2>5, SlotTypes DEF LambdaOf
    <2> QED
      BY <1>1, <1>2, <2>1, <2>6 DEF FramesOf, FrameOf, Holders
  <1> QED
    BY <1>1, <1>2, <1>3, <1>4

\* The live activations that hold a captured frame are those with the entry.
LEMMA HoldersAre ==
    ASSUME TypeOK, NEW f \in Lambdas, NEW fr \in FramesOf(f)
    PROVE  /\ fr \in Captured /\ fr = <<fr[1], fr[2]>> /\ fr[2] # 0
           /\ Holders(fr) =
                {i \in 1 .. Len(control) : /\ control[i].op = "closure"
                                           /\ control[i].fn = fr[1]
                                           /\ <<i, fr[2]>> \in Held(f)}
  <1>1. PICK c \in Closures : fr \in {c} \X Slots(c)
    BY DEF FramesOf, Captured
  <1>2. fr[1] = c /\ fr[2] \in Slots(c) /\ fr = <<fr[1], fr[2]>>
    BY <1>1
  <1>3. fr[2] \in SlotNumbers /\ fr[2] # 0
    BY <1>2, SlotTypes
  <1>4. ASSUME NEW i \in 1 .. Len(control), control[i].fn = fr[1]
        PROVE  fr[2] \in Entered(control[i]) <=> <<i, fr[2]>> \in Held(f)
    BY <1>3, <1>4 DEF Held, LambdaOf, FramesOf
  <1> QED
    BY <1>2, <1>3, <1>4 DEF Holders, FramesOf

\* Entries are made one after the other.
LEMMA PrecedesOnce ==
    ASSUME TypeOK, NEW f \in Lambdas, NEW d \in Held(f), NEW e \in Held(f),
           Precedes(d, e), Precedes(e, d)
    PROVE  d = e
  <1>1. d = <<d[1], d[2]>> /\ d[1] \in Nat /\ d[2] \in Nat
    BY HeldType
  <1>2. e = <<e[1], e[2]>> /\ e[1] \in Nat /\ e[2] \in Nat
    BY HeldType
  <1>3. d[1] = e[1] /\ d[2] = e[2]
    BY <1>1, <1>2 DEF Precedes
  <1> QED
    BY <1>1, <1>2, <1>3

\* The entry that was made last is the last one on the stack.
LEMMA LastEntry ==
    ASSUME TypeOK, NEW f \in Lambdas, Lists(f), NEW e \in Held(f),
           \A d \in Held(f) : Precedes(d, e)
    PROVE  /\ Len(lexical[f]) \in Nat /\ Len(lexical[f]) >= 1
           /\ lexical[f][Len(lexical[f])] = EntryFrame(e)
  <1> DEFINE n == Len(lexical[f])
  <1>1. n \in Nat
    BY LexicalLengths
  <1>2. PICK q \in [1 .. n -> Held(f)] :
           /\ \A d \in Held(f) : \E m \in 1 .. n : q[m] = d
           /\ \A m, k \in 1 .. n : m < k => Before(q[m], q[k])
           /\ \A m \in 1 .. n : lexical[f][m] = EntryFrame(q[m])
    BY DEF Lists, ListedAs
  <1>3. PICK m \in 1 .. n : q[m] = e
    BY <1>2
  <1>4. n >= 1 /\ n \in 1 .. n
    BY <1>1, <1>3
  <1>5. m = n
    <2> SUFFICES ASSUME m < n PROVE FALSE
      BY <1>1, <1>3
    <2>1. Before(e, q[n]) /\ q[n] \in Held(f)
      BY <1>2, <1>3, <1>4
    <2>2. Precedes(q[n], e)
      BY <2>1
    <2> QED
      BY <2>1, <2>2, PrecedesOnce DEF Before
  <1> QED
    BY <1>1, <1>2, <1>3, <1>4, <1>5

-----------------------------------------------------------------------------
(* A list of entries grows and shrinks at its end.                         *)

\* An entry made after all the others is listed after them.
LEMMA ListAppend ==
    ASSUME NEW S, NEW s \in Seq(S), NEW x \in S,
           NEW H, NEW F, NEW e, e \notin H, NEW F2,
           ListedAs(s, H, F), \A d \in H : Precedes(d, e),
           \A d \in H : F2[d] = F[d], F2[e] = x
    PROVE  ListedAs(Append(s, x), H \cup {e}, F2)
  <1> DEFINE n == Len(s)
             t == Append(s, x)
  <1>1. n \in Nat
    OBVIOUS
  <1>2. /\ Len(t) = n + 1 /\ t[n + 1] = x
        /\ \A i \in 1 .. n : t[i] = s[i]
    BY AppendProperties
  <1>3. PICK q \in [1 .. n -> H] :
           /\ \A d \in H : \E m \in 1 .. n : q[m] = d
           /\ \A m, k \in 1 .. n : m < k => Before(q[m], q[k])
           /\ \A m \in 1 .. n : s[m] = F[q[m]]
    BY DEF ListedAs
  <1> DEFINE r == [m \in 1 .. n + 1 |-> IF m = n + 1 THEN e ELSE q[m]]
  <1> HIDE DEF n, t
  <1>4. \A m \in 1 .. n + 1 : m \in 1 .. n \/ m = n + 1
    BY <1>1
  <1>5. \A m \in 1 .. n : m \in 1 .. n + 1 /\ m # n + 1
    BY <1>1
  <1>6. n + 1 \in 1 .. n + 1
    BY <1>1
  <1>7. r[n + 1] = e /\ \A m \in 1 .. n : r[m] = q[m] /\ q[m] \in H
    BY <1>3, <1>5, <1>6
  <1>8. r \in [1 .. n + 1 -> H \cup {e}]
    BY <1>3, <1>4, <1>5
  <1> HIDE DEF r
  <1>9. \A d \in H \cup {e} : \E m \in 1 .. n + 1 : r[m] = d
    <2> TAKE d \in H \cup {e}
    <2>1. CASE d = e
      BY <2>1, <1>6, <1>7
    <2>2. CASE d \in H
      <3>1. PICK m \in 1 .. n : q[m] = d
        BY <1>3, <2>2
      <3> QED
        BY <3>1, <1>5, <1>7
    <2> QED
      BY <2>1, <2>2
  <1>10. ASSUME NEW m \in 1 .. n + 1, NEW k \in 1 .. n + 1, m < k
         PROVE  Before(r[m], r[k])
    <2>1. m \in 1 .. n
      BY <1>1, <1>10
    <2>2. CASE k = n + 1
      BY <2>1, <2>2, <1>7 DEF Before
    <2>3. CASE k \in 1 .. n
      BY <1>3, <1>7, <1>10, <2>1, <2>3
    <2> QED
      BY <1>4, <2>2, <2>3
  <1>11. \A m \in 1 .. n + 1 : t[m] = F2[r[m]]
    <2> TAKE m \in 1 .. n + 1
    <2>1. CASE m = n + 1
      BY <2>1, <1>2, <1>7
    <2>2. CASE m \in 1 .. n
      BY <2>2, <1>2, <1>3, <1>7
    <2> QED
      BY <1>4, <2>1, <2>2
  <1>12. \E z \in [1 .. Len(t) -> H \cup {e}] :
           /\ \A d \in H \cup {e} : \E m \in 1 .. Len(t) : z[m] = d
           /\ \A m, k \in 1 .. Len(t) : m < k => Before(z[m], z[k])
           /\ \A m \in 1 .. Len(t) : t[m] = F2[z[m]]
    <2>1. 1 .. Len(t) = 1 .. n + 1
      BY <1>2
    <2>2. r \in [1 .. Len(t) -> H \cup {e}]
      BY <1>8, <2>1
    <2> WITNESS r \in [1 .. Len(t) -> H \cup {e}]
    <2> QED
      BY <1>9, <1>10, <1>11, <2>1
  <1> QED
    BY <1>12 DEF ListedAs, t

\* The entry made last is listed last, and goes first.
LEMMA ListDropLast ==
    ASSUME NEW S, NEW s \in Seq(S),
           NEW H, NEW F, NEW e \in H, NEW F2, ListedAs(s, H, F),
           \A d \in H : Precedes(d, e),
           \A d \in H : Precedes(e, d) => d = e,
           \A d \in H \ {e} : F2[d] = F[d]
    PROVE  ListedAs(DropLast(s), H \ {e}, F2)
  <1> DEFINE n == Len(s)
             t == DropLast(s)
  <1>1. n \in Nat
    OBVIOUS
  <1>3. PICK q \in [1 .. n -> H] :
           /\ \A d \in H : \E m \in 1 .. n : q[m] = d
           /\ \A m, k \in 1 .. n : m < k => Before(q[m], q[k])
           /\ \A m \in 1 .. n : s[m] = F[q[m]]
    BY DEF ListedAs
  <1>4. PICK l \in 1 .. n : q[l] = e
    BY <1>3
  <1>5. n >= 1 /\ n \in 1 .. n /\ s # <<>>
    BY <1>1, <1>4, EmptySeq
  <1>6. Len(t) = n - 1 /\ \A i \in 1 .. n - 1 : t[i] = s[i]
    BY <1>5, DropLastSeq
  <1> HIDE DEF n, t
  <1>7. q[n] = e
    <2>1. CASE l = n
      BY <2>1, <1>4
    <2>2. CASE l < n
      <3>1. Before(e, q[n]) /\ q[n] \in H
        BY <1>3, <1>4, <1>5, <2>2
      <3> QED
        BY <3>1 DEF Before
    <2> QED
      BY <1>1, <1>4, <2>1, <2>2
  <1>8. \A m \in 1 .. n - 1 : m \in 1 .. n /\ m < n
    BY <1>1
  <1>9. \A m \in 1 .. n - 1 : q[m] \in H \ {e}
    BY <1>3, <1>5, <1>7, <1>8 DEF Before
  <1> DEFINE r == [m \in 1 .. n - 1 |-> q[m]]
  <1>10. r \in [1 .. n - 1 -> H \ {e}] /\ \A m \in 1 .. n - 1 : r[m] = q[m]
    BY <1>9
  <1> HIDE DEF r
  <1>11. \A d \in H \ {e} : \E m \in 1 .. n - 1 : r[m] = d
    <2> TAKE d \in H \ {e}
    <2>1. PICK m \in 1 .. n : q[m] = d
      BY <1>3
    <2>2. m \in 1 .. n - 1
      BY <1>1, <1>7, <2>1
    <2> QED
      BY <1>10, <2>1, <2>2
  <1>12. \A m, k \in 1 .. n - 1 : m < k => Before(r[m], r[k])
    BY <1>3, <1>8, <1>10
  <1>13. \A m \in 1 .. n - 1 : t[m] = F2[r[m]]
    BY <1>3, <1>6, <1>8, <1>9, <1>10
  <1>14. \E z \in [1 .. Len(t) -> H \ {e}] :
           /\ \A d \in H \ {e} : \E m \in 1 .. Len(t) : z[m] = d
           /\ \A m, k \in 1 .. Len(t) : m < k => Before(z[m], z[k])
           /\ \A m \in 1 .. Len(t) : t[m] = F2[z[m]]
    <2>1. 1 .. Len(t) = 1 .. n - 1
      BY <1>6
    <2>2. r \in [1 .. Len(t) -> H \ {e}]
      BY <1>10, <2>1
    <2> WITNESS r \in [1 .. Len(t) -> H \ {e}]
    <2> QED
      BY <1>11, <1>12, <1>13, <2>1
  <1> QED
    BY <1>14 DEF ListedAs, t

-----------------------------------------------------------------------------
(* What each step does to the held entries, exactly: MuContextProofs bounds *)
(* them from above, which the counts need; these bound them from below.     *)

\* No step turns an activation that stays into another.
Persist ==
    \A i \in 1 .. Len(control) :
        i <= Len(control') =>
            control'[i].op = control[i].op /\ control'[i].fn = control[i].fn

LEMMA PersistStep == TypeOK /\ [Next]_vars => Persist
  <1> SUFFICES ASSUME TypeOK, [Next]_vars PROVE Persist
    OBVIOUS
  <1> DEFINE n == Len(control)
  <1>a. n \in Nat
    BY DEF TypeOK
  <1>b. ASSUME NEW a \in Activations, Enter(a), a.op = "closure" => a.mark <= NumSlots(a)
        PROVE  Persist
    BY <1>b, EnterControl, CallerType DEF Persist
  <1>1. ASSUME NEW f \in Lambdas, CallLambda(f) PROVE Persist
    BY <1>1, <1>b, NewActivations DEF CallLambda, Lambda
  <1>2. CASE CallPlain
    BY <1>2, <1>b, NewActivations DEF CallPlain, Plain
  <1>3. CASE CallWith
    <2>1. Len(dynamic) + 1 \in Nat
      BY DEF TypeOK
    <2>2. With(Len(dynamic) + 1) \in Activations /\ With(Len(dynamic) + 1).op # "closure"
      BY <2>1, NewActivations DEF With
    <2> QED
      BY <1>3, <1>b, <2>2 DEF CallWith
  <1>4. ASSUME NEW c \in Closures, CallClosure(c) PROVE Persist
    <2>1. Closure(c) \in Activations /\ Closure(c).mark <= NumSlots(Closure(c))
      BY NewActivations, SlotTypes DEF Closure, NumSlots
    <2> QED
      BY <1>4, <1>b, <2>1 DEF CallClosure
  <1>5. CASE Return
    <2>1. Len(control') = n - 1 /\ \A i \in 1 .. n - 1 : control'[i] = control[i]
      BY <1>5, ReturnControl
    <2> QED
      BY <1>a, <2>1 DEF Persist
  <1>6. ASSUME control' = control PROVE Persist
    BY <1>6 DEF Persist
  <1>7. ASSUME control # <<>>, Top.op = "closure", Top.mark < NumSlots(Top), Advance
        PROVE  Persist
    <2>1. /\ Len(control') = n /\ n \in Nat \ {0}
          /\ control'[n].op = "closure" /\ control'[n].fn = Top.fn
          /\ \A i \in 1 .. n - 1 : control'[i] = control[i]
      BY <1>7, AdvanceControl
    <2>2. \A i \in 1 .. n : i = n \/ i \in 1 .. n - 1
      BY <2>1
    <2> QED
      BY <1>7, <2>1, <2>2 DEF Persist, Top
  <1>8. CASE RaiseCaught
    <2>1. PICK h \in 1 .. n :
             /\ control[h].op = "with" /\ Len(control') = h
             /\ control'[h] = [control[h] EXCEPT !.phase = "caught"]
             /\ control'[h].op = "with"
             /\ \A i \in 1 .. h - 1 : control'[i] = control[i]
      BY <1>8, CaughtControl
    <2>2. control[h] \in Activations
      BY ElementOfSeq DEF TypeOK
    <2>3. control[h] \in [op : {"with"}, fn : {NoFn}, mark : Nat,
                          phase : {"begin", "try", "caught", "handle"}]
      BY <2>1, <2>2 DEF Activations, Plain, Lambda
    <2>4. control'[h].fn = control[h].fn
      BY <2>1, <2>3
    <2>5. \A i \in 1 .. n : i <= h => i = h \/ i \in 1 .. h - 1
      BY <1>a
    <2> QED
      BY <2>1, <2>4, <2>5 DEF Persist
  <1>9. ASSUME NEW throwp \in BOOLEAN, RaiseUncaught(throwp) PROVE Persist
    <2>1. Len(control') = 0
      BY <1>9, EmptySeq DEF RaiseUncaught
    <2> QED
      BY <1>a, <2>1 DEF Persist
  <1> QED
    BY <1>1, <1>2, <1>3, <1>4, <1>5, <1>6, <1>7, <1>8, <1>9
    DEF Next, MakeClosure, FramePush, FramePop, PopThroughDeadFrame, vars

\* A call leaves everything held, and enters its own frame.
LEMMA EnterKeeps ==
    ASSUME TypeOK, NEW a \in Activations, Enter(a),
           a.op = "closure" => a.mark <= NumSlots(a), NEW f \in Lambdas
    PROVE  LET e == <<Len(control) + 1, 0>>
           IN  /\ Held(f) \subseteq Held(f)'
               /\ e \notin Held(f) /\ \A d \in Held(f) : Precedes(d, e)
               /\ 0 \in Entered(a) /\ ReturnedLambda(a) = f => e \in Held(f)'
               /\ \A fr \in Captured : Holders(fr) \subseteq Holders(fr)'
  <1> DEFINE n == Len(control)
  <1>1. n \in Nat /\ Len(control') = n + 1 /\ control'[n + 1] = a
        /\ \A i \in 1 .. n : control'[i] = Caller[i]
    BY EnterControl DEF TypeOK
  <1>2. \A i \in 1 .. n :
          /\ Entered(control'[i]) = Entered(control[i])
          /\ \A k : LambdaOf(control'[i], k) = LambdaOf(control[i], k)
          /\ control'[i].op = control[i].op /\ control'[i].fn = control[i].fn
          /\ i \in 1 .. n + 1
    <2>1. \A i \in 1 .. n : i \in 1 .. n + 1
      BY <1>1
    <2> QED
      BY <1>1, <2>1, CallerEntered, CallerType DEF Enter
  <1>3. ASSUME NEW d \in Held(f) PROVE d \in Held(f)'
    <2>1. PICK i \in 1 .. n, k \in SlotNumbers :
             d = <<i, k>> /\ k \in Entered(control[i]) /\ LambdaOf(control[i], k) = f
      BY <1>3 DEF Held
    <2> QED
      BY <1>1, <1>2, <2>1 DEF Held, SlotNumbers
  <1>4. \A fr \in Captured : Holders(fr) \subseteq Holders(fr)'
    BY <1>1, <1>2 DEF Holders
  <1>5. ASSUME NEW d \in Held(f) PROVE d[1] < n + 1
    BY <1>1, <1>5, HeldType
  <1>6. <<n + 1, 0>> \notin Held(f)
    BY <1>1, <1>5
  <1>7. ASSUME 0 \in Entered(a), ReturnedLambda(a) = f PROVE <<n + 1, 0>> \in Held(f)'
    <2>1. n + 1 \in 1 .. n + 1 /\ 0 \in SlotNumbers
      BY <1>1 DEF SlotNumbers
    <2> QED
      BY <1>1, <1>7, <2>1 DEF Held, LambdaOf, SlotNumbers
  <1> QED
    BY <1>3, <1>4, <1>5, <1>6, <1>7 DEF Precedes

\* A return gives back the frame of the activation that returns, the last one
\* entered for its lambda, and nothing else.
LEMMA ReturnKeeps ==
    ASSUME TypeOK, Return, NEW f \in Lambdas
    PROVE  LET e == <<Len(control), 0>>
           IN  /\ Held(f) \ {e} \subseteq Held(f)'
               /\ \A d \in Held(f) : Precedes(d, e)
               /\ Top.op \notin {"lambda", "closure"} \/ ReturnedLambda(Top) # f =>
                    Held(f) \subseteq Held(f)'
               /\ \A fr \in Captured : Holders(fr) \subseteq Holders(fr)'
  <1> DEFINE n == Len(control)
  <1>1. /\ n \in Nat \ {0} /\ Len(control') = n - 1
        /\ Top = control[n] /\ Top \in Activations
        /\ \A i \in 1 .. n - 1 : control'[i] = control[i]
    BY ReturnControl
  <1>2. \A i \in 1 .. n : i = n \/ i \in 1 .. n - 1
    BY <1>1
  <1>3. Entered(Top) \subseteq {0} /\ (Top.op \notin {"lambda", "closure"} => Entered(Top) = {})
    <2>1. CanReturn(Top)
      BY DEF Return
    <2>2. CASE Top.op = "closure"
      <3>1. Top.phase = "pop" /\ Top.mark = NumSlots(Top) /\ NumSlots(Top) \in Nat
        BY <1>1, <2>1, <2>2, ActivationOps, SlotTypes DEF CanReturn, NumSlots
      <3>2. Entered(Top) = {0} \cup (NumSlots(Top) + 1 .. NumSlots(Top))
        BY <1>1, <2>2, <3>1, EnteredCases
      <3> QED
        BY <2>2, <3>1, <3>2
    <2>3. CASE Top.op # "closure"
      BY <1>1, <2>3, EnteredCases, ActivationOps
    <2> QED
      BY <2>2, <2>3
  <1>4. ASSUME NEW d \in Held(f)
        PROVE  /\ d \in Held(f)' \/ d = <<n, 0>>
               /\ d[1] < n \/ d = <<n, 0>>
               /\ d = <<n, 0>> => /\ Top.op \in {"lambda", "closure"}
                                  /\ ReturnedLambda(Top) = f
    <2>1. PICK i \in 1 .. n, k \in SlotNumbers :
             d = <<i, k>> /\ k \in Entered(control[i]) /\ LambdaOf(control[i], k) = f
      BY <1>4 DEF Held
    <2>2. CASE i = n
      BY <1>1, <1>3, <2>1, <2>2 DEF LambdaOf
    <2>3. CASE i \in 1 .. n - 1
      BY <1>1, <2>1, <2>3 DEF Held, SlotNumbers
    <2> QED
      BY <1>2, <2>2, <2>3
  <1>5. ASSUME NEW fr \in Captured, NEW i \in Holders(fr) PROVE i \in Holders(fr)'
    <2>1. PICK c \in Closures : fr[1] = c /\ fr[2] \in Slots(c)
      BY DEF Captured
    <2>2. fr[2] # 0
      BY <2>1, SlotTypes
    <2>3. /\ i \in 1 .. n /\ control[i].op = "closure" /\ control[i].fn = fr[1]
          /\ fr[2] \in Entered(control[i])
      BY <1>5 DEF Holders
    <2>4. i \in 1 .. n - 1
      BY <1>1, <1>2, <1>3, <2>2, <2>3
    <2> QED
      BY <1>1, <2>3, <2>4 DEF Holders
  <1>6. \A d \in Held(f) : Precedes(d, <<n, 0>>)
    BY <1>4 DEF Precedes
  <1> QED
    BY <1>4, <1>5, <1>6

\* lex-psh enters the captured frame after everything that is held.
LEMMA PushKeeps ==
    ASSUME TypeOK, control # <<>>, Top.op = "closure", Top.phase = "push",
           Top.mark < NumSlots(Top), Advance, NEW f \in Lambdas
    PROVE  LET m == Top.mark + 1
               e == <<Len(control), m>>
           IN  /\ Held(f) \subseteq Held(f)'
               /\ e \notin Held(f) /\ \A d \in Held(f) : Precedes(d, e)
               /\ f = CapturedFns[Top.fn][m] => e \in Held(f)'
               /\ \A fr \in Captured :
                    /\ Holders(fr) \subseteq Holders(fr)'
                    /\ fr = <<Top.fn, m>> =>
                         Len(control) \notin Holders(fr) /\ Len(control) \in Holders(fr)'
  <1> DEFINE n == Len(control)
             m == Top.mark + 1
             t == control'[n]
  <1>1. /\ n \in Nat \ {0} /\ Len(control') = n
        /\ t \in Activations /\ t.op = "closure" /\ t.phase = "push"
        /\ t.fn = Top.fn /\ t.mark = m
        /\ \A i \in 1 .. n - 1 : control'[i] = control[i]
    BY AdvanceControl, ElementOfSeq
  <1>2. /\ Top = control[n] /\ Top \in Activations /\ Top.mark \in Nat
        /\ m \in SlotNumbers
    BY <1>1, NextSlot, ElementOfSeq DEF Top, TypeOK
  <1>3. Entered(t) = 0 .. m /\ Entered(Top) = 0 .. Top.mark
    BY <1>1, <1>2, EnteredCases
  <1>4. /\ \A k \in Entered(Top) : k \in Entered(t) /\ k < m
        /\ m \in Entered(t) /\ m \notin Entered(Top) /\ m # 0
    BY <1>2, <1>3
  <1>5. \A k : LambdaOf(t, k) = LambdaOf(Top, k)
    BY <1>1 DEF LambdaOf, ReturnedLambda
  <1>6. LambdaOf(t, m) = CapturedFns[Top.fn][m]
    BY <1>1, <1>4 DEF LambdaOf
  <1>7. \A i \in 1 .. n : i \in 1 .. n - 1 \/ i = n
    BY <1>1
  <1>8. ASSUME NEW d \in Held(f)
        PROVE  d \in Held(f)' /\ (d[1] < n \/ (d[1] = n /\ d[2] < m))
    <2>1. PICK i \in 1 .. n, k \in SlotNumbers :
             d = <<i, k>> /\ k \in Entered(control[i]) /\ LambdaOf(control[i], k) = f
      BY <1>8 DEF Held
    <2>2. CASE i \in 1 .. n - 1
      BY <1>1, <2>1, <2>2 DEF Held, SlotNumbers
    <2>3. CASE i = n
      BY <1>1, <1>2, <1>4, <1>5, <2>1, <2>3 DEF Held, SlotNumbers
    <2> QED
      BY <1>7, <2>2, <2>3
  <1>9. <<n, m>> \notin Held(f) /\ \A d \in Held(f) : Precedes(d, <<n, m>>)
    <2>1. m \in Nat
      BY <1>2
    <2> HIDE DEF m
    <2>2. ASSUME NEW d \in Held(f) PROVE Precedes(d, <<n, m>>) /\ d # <<n, m>>
      <3>1. d[1] \in Nat /\ d[2] \in Nat /\ (d[1] < n \/ (d[1] = n /\ d[2] < m))
        BY <1>8, HeldType
      <3>2. d[1] < n \/ (d[1] = n /\ d[2] <= m)
        BY <1>1, <2>1, <3>1
      <3> QED
        BY <1>1, <2>1, <3>1, <3>2 DEF Precedes
    <2> QED
      BY <2>2
  <1>10. n \in 1 .. n
    BY <1>1
  <1>11. f = CapturedFns[Top.fn][m] => <<n, m>> \in Held(f)'
    BY <1>1, <1>2, <1>4, <1>6, <1>10 DEF Held, SlotNumbers
  <1>12. ASSUME NEW fr \in Captured
         PROVE  /\ Holders(fr) \subseteq Holders(fr)'
                /\ fr = <<Top.fn, m>> => n \notin Holders(fr) /\ n \in Holders(fr)'
    <2>1. ASSUME NEW i \in Holders(fr) PROVE i \in Holders(fr)'
      <3>1. /\ i \in 1 .. n /\ control[i].op = "closure" /\ control[i].fn = fr[1]
            /\ fr[2] \in Entered(control[i])
        BY <2>1 DEF Holders
      <3>2. CASE i \in 1 .. n - 1
        BY <1>1, <3>1, <3>2 DEF Holders
      <3>3. CASE i = n
        BY <1>1, <1>2, <1>4, <3>1, <3>3 DEF Holders
      <3> QED
        BY <1>7, <3>1, <3>2, <3>3
    <2>2. fr = <<Top.fn, m>> => n \notin Holders(fr) /\ n \in Holders(fr)'
      BY <1>1, <1>2, <1>4, <1>10 DEF Holders
    <2> QED
      BY <2>1, <2>2
  <1> QED
    BY <1>8, <1>9, <1>11, <1>12

\* lex-pop gives back the last entry of the captured lambda, and nothing else.
LEMMA PopKeeps ==
    ASSUME TypeOK, control # <<>>, Top.op = "closure", Top.phase = "pop",
           Top.mark < NumSlots(Top), Advance, NEW f \in Lambdas
    PROVE  LET m == Top.mark + 1
               e == <<Len(control), m>>
           IN  /\ Held(f) \ {e} \subseteq Held(f)'
               /\ f = CapturedFns[Top.fn][m] => \A d \in Held(f) : Precedes(d, e)
               /\ f # CapturedFns[Top.fn][m] => Held(f) \subseteq Held(f)'
               /\ \A fr \in Captured :
                    /\ Holders(fr) \ {Len(control)} \subseteq Holders(fr)'
                    /\ fr # <<Top.fn, m>> => Holders(fr) \subseteq Holders(fr)'
  <1> DEFINE n == Len(control)
             m == Top.mark + 1
             t == control'[n]
  <1>1. /\ n \in Nat \ {0} /\ Len(control') = n
        /\ t \in Activations /\ t.op = "closure" /\ t.phase = "pop"
        /\ t.fn = Top.fn /\ t.mark = m
        /\ \A i \in 1 .. n - 1 : control'[i] = control[i]
    BY AdvanceControl, ElementOfSeq
  <1>2. /\ Top = control[n] /\ Top \in Activations /\ Top.mark \in Nat
        /\ NumSlots(Top) \in Nat /\ m \in Slots(Top.fn) /\ Top.fn \in Closures
    BY <1>1, NextSlot, ElementOfSeq DEF Top, TypeOK
  <1>3. /\ Entered(t) = {0} \cup (m + 1 .. NumSlots(Top))
        /\ Entered(Top) = {0} \cup (m .. NumSlots(Top))
    BY <1>1, <1>2, EnteredCases DEF NumSlots
  <1>4. \A k \in Entered(Top) : k \in Entered(t) \/ k = m
    BY <1>2, <1>3
  <1>5. \A k : LambdaOf(t, k) = LambdaOf(Top, k)
    BY <1>1 DEF LambdaOf, ReturnedLambda
  <1>6. m # 0 /\ LambdaOf(Top, m) = CapturedFns[Top.fn][m]
    BY <1>1, <1>2 DEF LambdaOf
  <1>7. \A i \in 1 .. n : i \in 1 .. n - 1 \/ i = n
    BY <1>1
  <1>8. ASSUME NEW d \in Held(f)
        PROVE  /\ d \in Held(f)' \/ (d = <<n, m>> /\ f = CapturedFns[Top.fn][m])
               /\ f = CapturedFns[Top.fn][m] =>
                    d[1] < n \/ (d[1] = n /\ d[2] \in {0, m})
    <2>1. PICK i \in 1 .. n, k \in SlotNumbers :
             d = <<i, k>> /\ k \in Entered(control[i]) /\ LambdaOf(control[i], k) = f
      BY <1>8 DEF Held
    <2>2. CASE i \in 1 .. n - 1
      BY <1>1, <2>1, <2>2 DEF Held, SlotNumbers
    <2>3. CASE i = n
      <3>1. d \in Held(f)' \/ (d = <<n, m>> /\ f = CapturedFns[Top.fn][m])
        BY <1>1, <1>2, <1>4, <1>5, <1>6, <2>1, <2>3 DEF Held, SlotNumbers
      <3>2. ASSUME f = CapturedFns[Top.fn][m], k # 0 PROVE k = m
        <4>1. k \in m .. NumSlots(Top) /\ LambdaOf(Top, k) = f
          BY <1>2, <1>3, <2>1, <2>3, <3>2
        <4>2. k \in Slots(Top.fn)
          BY <1>2, <4>1, SlotTypes DEF NumSlots
        <4>3. CapturedFns[Top.fn][k] = f
          BY <3>2, <4>1 DEF LambdaOf
        <4> QED
          BY <1>2, <3>2, <4>2, <4>3, ContextAssumption DEF Slots
      <3> QED
        BY <2>1, <2>3, <3>1, <3>2
    <2> QED
      BY <1>7, <2>2, <2>3
  <1>9. f = CapturedFns[Top.fn][m] => \A d \in Held(f) : Precedes(d, <<n, m>>)
    <2>1. m \in Nat /\ 0 <= m /\ m <= m
      BY <1>2
    <2> HIDE DEF m
    <2> QED
      BY <1>8, <2>1 DEF Precedes
  <1>10. ASSUME NEW fr \in Captured, NEW i \in Holders(fr)
         PROVE  i \in Holders(fr)' \/ (i = n /\ fr = <<Top.fn, m>>)
    <2>1. fr = <<fr[1], fr[2]>>
      BY DEF Captured
    <2>2. /\ i \in 1 .. n /\ control[i].op = "closure" /\ control[i].fn = fr[1]
          /\ fr[2] \in Entered(control[i])
      BY <1>10 DEF Holders
    <2>3. CASE i \in 1 .. n - 1
      BY <1>1, <2>2, <2>3 DEF Holders
    <2>4. CASE i = n
      BY <1>1, <1>2, <1>4, <2>1, <2>2, <2>4 DEF Holders
    <2> QED
      BY <1>7, <2>2, <2>3, <2>4
  <1> QED
    BY <1>8, <1>9, <1>10

-----------------------------------------------------------------------------
(* The kinds of step.                                                      *)

\* What a step may do to a stack of captured frames.
FrameStep(fr) ==
    \/ closures'[fr] = closures[fr] /\ Holders(fr)' = Holders(fr)
    \/ /\ Len(control) \notin Holders(fr)
       /\ Holders(fr)' = Holders(fr) \cup {Len(control)}
       /\ \E h \in HeapAddrs : closures'[fr] = Append(closures[fr], h)
    \/ /\ Len(control) \in Holders(fr)
       /\ Holders(fr)' = Holders(fr) \ {Len(control)}
       /\ closures'[fr] = DropLast(closures[fr])

\* What a step may do to the stack of f: nothing, enter a frame after those
\* that are held, or give back the last.
LambdaStep(f) ==
    \/ lexical'[f] = lexical[f] /\ Held(f)' = Held(f)
    \/ \E e : \E addr \in StackAddrs \cup HeapAddrs :
         /\ e \notin Held(f) /\ \A d \in Held(f) : Precedes(d, e)
         /\ Held(f)' = Held(f) \cup {e}
         /\ lexical'[f] = Append(lexical[f], addr)
         /\ Exact(f) => addr = EntryFrame(e)'
    \/ \E e \in Held(f) :
         /\ \A d \in Held(f) : Precedes(d, e)
         /\ Held(f)' = Held(f) \ {e}
         /\ lexical'[f] = DropLast(lexical[f])

Orderly(f) == LambdaStep(f) /\ \A fr \in FramesOf(f) : FrameStep(fr)

\* An exception forgets activations and leaves the stacks alone.
CutShort(f) ==
    /\ Raising /\ UNCHANGED <<lexical, closures>>
    /\ Held(f)' \subseteq Held(f)
    /\ \A fr \in FramesOf(f) : Holders(fr)' \subseteq Holders(fr)

\* A call is orderly.
LEMMA EnterOrderly ==
    ASSUME TypeOK, NEW a \in Activations, Enter(a), Entered(a) \subseteq {0},
           a.op = "closure" => a.mark <= NumSlots(a), closures' = closures,
           \/ Entered(a) = {} /\ lexical' = lexical
           \/ /\ 0 \in Entered(a) /\ ReturnedLambda(a) \in Lambdas
              /\ LexicalContextPush(ReturnedLambda(a), Len(control) + 1),
           NEW f \in Lambdas
    PROVE  Orderly(f)
  <1> DEFINE n == Len(control)
  <1>0. PICK e : e = <<n + 1, 0>>
    OBVIOUS
  <1>1. ASSUME NEW fr \in FramesOf(f) PROVE FrameStep(fr)
    <2>1. fr \in Captured
      BY DEF FramesOf
    <2>2. Holders(fr)' = Holders(fr)
      BY <2>1, HeldEnter, EnterKeeps
    <2> QED
      BY <2>2 DEF FrameStep
  <1>2. CASE Entered(a) = {} /\ lexical' = lexical
    <2>1. Held(f)' = Held(f)
      BY <1>2, HeldEnter, EnterKeeps
    <2> QED
      BY <1>1, <1>2, <2>1 DEF Orderly, LambdaStep
  <1>3. ASSUME 0 \in Entered(a), ReturnedLambda(a) \in Lambdas,
               LexicalContextPush(ReturnedLambda(a), n + 1)
        PROVE  LambdaStep(f)
    <2>1. CASE f # ReturnedLambda(a)
      <3>1. Held(f)' = Held(f)
        BY <2>1, HeldEnter, EnterKeeps
      <3>2. lexical'[f] = lexical[f]
        BY <1>3, <2>1 DEF LexicalContextPush, TypeOK
      <3> QED
        BY <3>1, <3>2 DEF LambdaStep
    <2>2. CASE f = ReturnedLambda(a)
      <3>1. n + 1 \in StackAddrs \cup HeapAddrs
        BY ContextAssumption DEF Enter, StackAddrs, TypeOK
      <3>2. e \notin Held(f) /\ \A d \in Held(f) : Precedes(d, e)
        BY <1>0, EnterKeeps
      <3>3. Held(f)' = Held(f) \cup {e}
        <4>1. Held(f)' \subseteq Held(f) \cup {e}
          BY <1>0, HeldEnter
        <4>2. Held(f) \subseteq Held(f)' /\ e \in Held(f)'
          BY <1>0, <1>3, <2>2, EnterKeeps
        <4> QED
          BY <4>1, <4>2
      <3>4. lexical'[f] = Append(lexical[f], n + 1)
        BY <1>3, <2>2 DEF LexicalContextPush, TypeOK
      <3>5. EntryFrame(e)' = n + 1
        BY <1>0 DEF EntryFrame
      <3> QED
        BY <3>1, <3>2, <3>3, <3>4, <3>5 DEF LambdaStep
    <2> QED
      BY <2>1, <2>2
  <1> QED
    BY <1>1, <1>2, <1>3 DEF Orderly

\* A return is orderly.
LEMMA ReturnOrderly ==
    ASSUME TypeOK, Return, NEW f \in Lambdas
    PROVE  Orderly(f)
  <1> DEFINE e == <<Len(control), 0>>
  <1>1. closures' = closures
    BY DEF Return
  <1>2. ASSUME NEW fr \in FramesOf(f) PROVE FrameStep(fr)
    <2>1. fr \in Captured
      BY DEF FramesOf
    <2>2. Holders(fr)' = Holders(fr)
      BY <2>1, HeldReturn, ReturnKeeps
    <2> QED
      BY <1>1, <2>2 DEF FrameStep
  <1>3. CASE Top.op \in {"lambda", "closure"} /\ f = ReturnedLambda(Top)
    <2>1. e \in Held(f) /\ Held(f)' \subseteq Held(f) \ {e}
      BY <1>3, HeldReturn
    <2>2. Held(f) \ {e} \subseteq Held(f)' /\ \A d \in Held(f) : Precedes(d, e)
      BY ReturnKeeps
    <2>3. lexical'[f] = DropLast(lexical[f])
      BY <1>3 DEF Return, LexicalContextPop, TypeOK
    <2>4. Held(f)' = Held(f) \ {e}
      BY <2>1, <2>2
    <2> QED
      BY <1>2, <2>1, <2>2, <2>3, <2>4 DEF Orderly, LambdaStep
  <1>4. CASE ~ (Top.op \in {"lambda", "closure"} /\ f = ReturnedLambda(Top))
    <2>1. Held(f)' = Held(f)
      BY <1>4, HeldReturn, ReturnKeeps
    <2>2. lexical'[f] = lexical[f]
      <3>1. CASE Top.op \in {"lambda", "closure"}
        BY <1>4, <3>1, ReturnControl DEF Return, LexicalContextPop, TypeOK
      <3>2. CASE Top.op \notin {"lambda", "closure"}
        BY <3>2 DEF Return
      <3> QED
        BY <3>1, <3>2
    <2> QED
      BY <1>2, <2>1, <2>2 DEF Orderly, LambdaStep
  <1> QED
    BY <1>3, <1>4

\* lex-psh is orderly.
LEMMA PushOrderly ==
    ASSUME TypeOK, CountInv, FramePush, NEW f \in Lambdas
    PROVE  Orderly(f)
  <1> DEFINE n == Len(control)
  <1>1. /\ control # <<>> /\ Top.op = "closure" /\ Top.phase = "push"
        /\ Top.mark < NumSlots(Top) /\ Advance
    BY DEF FramePush
  <1>2. PICK m \in SlotNumbers, g \in Lambdas, fr \in Captured :
           /\ m = Top.mark + 1 /\ g = CapturedFns[Top.fn][m] /\ fr = <<Top.fn, m>>
           /\ m # 0
    BY <1>1, NextSlot
  <1>3. PICK h \in HeapAddrs :
           /\ closures' = [closures EXCEPT ![fr] = Append(closures[fr], h)]
           /\ LexicalContextPush(g, h)
    BY <1>2 DEF FramePush
  <1>4. Holders(fr)' = Holders(fr) \cup {n} /\ n \notin Holders(fr)
    <2>1. Holders(fr)' \subseteq Holders(fr) \cup {n}
      BY <1>1, HeldPush
    <2>2. Holders(fr) \subseteq Holders(fr)' /\ n \notin Holders(fr) /\ n \in Holders(fr)'
      BY <1>1, <1>2, PushKeeps
    <2> QED
      BY <2>1, <2>2
  <1>5. closures'[fr] = Append(closures[fr], h)
    BY <1>3 DEF TypeOK
  <1>6. ASSUME NEW r \in FramesOf(f) PROVE FrameStep(r)
    <2>1. CASE r = fr
      BY <1>4, <1>5, <2>1 DEF FrameStep
    <2>2. CASE r # fr
      <3>1. r \in Captured
        BY DEF FramesOf
      <3>2. Holders(r)' = Holders(r)
        <4>1. Holders(r)' \subseteq Holders(r)
          BY <1>1, <1>2, <2>2, <3>1, HeldPush
        <4>2. Holders(r) \subseteq Holders(r)'
          BY <1>1, <1>2, <2>2, <3>1, PushKeeps
        <4> QED
          BY <4>1, <4>2
      <3>3. closures'[r] = closures[r]
        BY <1>3, <2>2, <3>1 DEF TypeOK
      <3> QED
        BY <3>2, <3>3 DEF FrameStep
    <2> QED
      BY <2>1, <2>2
  <1>7. CASE f # g
    <2>1. Held(f)' = Held(f)
      <3>1. Held(f)' \subseteq Held(f)
        BY <1>1, <1>2, <1>7, HeldPush
      <3>2. Held(f) \subseteq Held(f)'
        BY <1>1, PushKeeps
      <3> QED
        BY <3>1, <3>2
    <2>2. lexical'[f] = lexical[f]
      BY <1>3, <1>7 DEF LexicalContextPush, TypeOK
    <2> QED
      BY <1>6, <2>1, <2>2 DEF Orderly, LambdaStep
  <1>8. CASE f = g
    <2>0. PICK e : e = <<n, m>>
      OBVIOUS
    <2>1. e \notin Held(f) /\ \A d \in Held(f) : Precedes(d, e)
      BY <1>1, <1>2, <2>0, PushKeeps
    <2>2. Held(f)' = Held(f) \cup {e}
      <3>1. Held(f)' \subseteq Held(f) \cup {e}
        BY <1>1, <1>2, <2>0, HeldPush
      <3>2. Held(f) \subseteq Held(f)' /\ e \in Held(f)'
        BY <1>1, <1>2, <1>8, <2>0, PushKeeps
      <3> QED
        BY <3>1, <3>2
    <2>3. lexical'[f] = Append(lexical[f], h)
      BY <1>3, <1>8 DEF LexicalContextPush, TypeOK
    <2>4. ASSUME Exact(f) PROVE h = EntryFrame(e)'
      <3>1. fr \in FramesOf(f)
        BY <1>2, <1>8 DEF FramesOf
      <3>2. Len(closures[fr]) = Cardinality(Holders(fr)) /\ IsFiniteSet(Holders(fr))
        BY <2>4, <3>1 DEF Exact, CountInv
      <3>3. Cardinality(Holders(fr)') = Len(closures[fr]) + 1
        BY <1>4, <3>2, OneMore
      <3>4. /\ n \in Nat \ {0} /\ Len(control') = n
            /\ control'[n].fn = Top.fn
        BY <1>1, AdvanceControl
      <3>5. {i \in Holders(fr)' : i <= n} = Holders(fr)'
        BY <3>4 DEF Holders
      <3>6. EntryFrame(e)' = closures'[fr][Cardinality({i \in Holders(fr)' : i <= n})]
        <4>1. e[1] = n /\ e[2] = m
          BY <2>0
        <4>2. <<control'[e[1]].fn, e[2]>> = fr /\ e[2] # 0
          BY <1>2, <3>4, <4>1
        <4> HIDE DEF n
        <4> QED
          BY <4>1, <4>2 DEF EntryFrame
      <3>7. closures[fr] \in Seq(HeapAddrs)
        BY DEF TypeOK
      <3>8. closures'[fr][Len(closures[fr]) + 1] = h
        BY <1>5, <3>7, AppendProperties
      <3> QED
        BY <3>3, <3>5, <3>6, <3>8
    <2> QED
      BY <1>6, <2>1, <2>2, <2>3, <2>4 DEF Orderly, LambdaStep
  <1> QED
    BY <1>7, <1>8

\* lex-pop is orderly.
LEMMA PopOrderly ==
    ASSUME TypeOK, FramePop, NEW f \in Lambdas
    PROVE  Orderly(f)
  <1> DEFINE n == Len(control)
  <1>1. /\ control # <<>> /\ Top.op = "closure" /\ Top.phase = "pop"
        /\ Top.mark < NumSlots(Top) /\ Advance
    BY DEF FramePop
  <1>2. PICK m \in SlotNumbers, g \in Lambdas, fr \in Captured :
           m = Top.mark + 1 /\ g = CapturedFns[Top.fn][m] /\ fr = <<Top.fn, m>>
    BY <1>1, NextSlot
  <1>3. /\ closures' = [closures EXCEPT ![fr] = DropLast(closures[fr])]
        /\ LexicalContextPop(g)
    BY <1>2 DEF FramePop
  <1>4. n \in Holders(fr) /\ Holders(fr)' = Holders(fr) \ {n}
    <2>1. n \in Holders(fr) /\ Holders(fr)' \subseteq Holders(fr) \ {n}
      BY <1>1, <1>2, HeldPop
    <2>2. Holders(fr) \ {n} \subseteq Holders(fr)'
      BY <1>1, <1>2, PopKeeps
    <2> QED
      BY <2>1, <2>2
  <1>5. closures'[fr] = DropLast(closures[fr])
    BY <1>3 DEF TypeOK
  <1>6. ASSUME NEW r \in FramesOf(f) PROVE FrameStep(r)
    <2>1. CASE r = fr
      BY <1>4, <1>5, <2>1 DEF FrameStep
    <2>2. CASE r # fr
      <3>1. r \in Captured
        BY DEF FramesOf
      <3>2. Holders(r)' = Holders(r)
        <4>1. Holders(r)' \subseteq Holders(r)
          BY <1>1, <1>2, <2>2, <3>1, HeldPop
        <4>2. Holders(r) \subseteq Holders(r)'
          BY <1>1, <1>2, <2>2, <3>1, PopKeeps
        <4> QED
          BY <4>1, <4>2
      <3>3. closures'[r] = closures[r]
        BY <1>3, <2>2, <3>1 DEF TypeOK
      <3> QED
        BY <3>2, <3>3 DEF FrameStep
    <2> QED
      BY <2>1, <2>2
  <1>7. CASE f # g
    <2>1. Held(f)' = Held(f)
      <3>1. Held(f)' \subseteq Held(f)
        BY <1>1, HeldPop
      <3>2. Held(f) \subseteq Held(f)'
        BY <1>1, <1>2, <1>7, PopKeeps
      <3> QED
        BY <3>1, <3>2
    <2>2. lexical'[f] = lexical[f]
      BY <1>3, <1>7 DEF LexicalContextPop, TypeOK
    <2> QED
      BY <1>6, <2>1, <2>2 DEF Orderly, LambdaStep
  <1>8. CASE f = g
    <2> DEFINE e == <<n, m>>
    <2>1. e \in Held(f) /\ Held(f)' \subseteq Held(f) \ {e}
      BY <1>1, <1>2, <1>8, HeldPop
    <2>2. Held(f) \ {e} \subseteq Held(f)' /\ \A d \in Held(f) : Precedes(d, e)
      BY <1>1, <1>2, <1>8, PopKeeps
    <2>3. lexical'[f] = DropLast(lexical[f])
      BY <1>3, <1>8 DEF LexicalContextPop, TypeOK
    <2>4. Held(f)' = Held(f) \ {e}
      BY <2>1, <2>2
    <2> QED
      BY <1>6, <2>1, <2>2, <2>3, <2>4 DEF Orderly, LambdaStep
  <1> QED
    BY <1>7, <1>8

\* Only an exception is not orderly.
LEMMA StepKinds ==
    ASSUME TypeOK, CountInv, [Next]_vars, NEW f \in Lambdas
    PROVE  Orderly(f) \/ CutShort(f)
  <1>1. ASSUME NEW g \in Lambdas, CallLambda(g) PROVE Orderly(f)
    <2> DEFINE a == Lambda(g)
    <2>1. /\ a \in Activations /\ a.op = "lambda" /\ a.fn = g /\ Enter(a)
          /\ LexicalContextPush(g, Len(control) + 1) /\ closures' = closures
      BY <1>1, NewActivations DEF CallLambda, Lambda
    <2>2. Entered(a) = {0} /\ ReturnedLambda(a) = g
      BY <2>1, EnteredCases DEF ReturnedLambda
    <2> HIDE DEF a
    <2> QED
      BY <2>1, <2>2, EnterOrderly
  <1>2. CASE CallPlain
    <2>1. Plain \in Activations /\ Plain.op = "plain" /\ Enter(Plain)
          /\ lexical' = lexical /\ closures' = closures
      BY <1>2, NewActivations DEF CallPlain, Plain
    <2>2. Entered(Plain) = {}
      BY <2>1, EnteredCases
    <2> QED
      BY <2>1, <2>2, EnterOrderly
  <1>3. CASE CallWith
    <2> DEFINE a == With(Len(dynamic) + 1)
    <2>1. /\ a \in Activations /\ a.op = "with" /\ Enter(a)
          /\ lexical' = lexical /\ closures' = closures
      <3>1. Len(dynamic) + 1 \in Nat
        BY DEF TypeOK
      <3>2. a \in Activations
        BY <3>1, NewActivations
      <3> QED
        BY <1>3, <3>2 DEF CallWith, With
    <2>2. Entered(a) = {}
      BY <2>1, EnteredCases
    <2> HIDE DEF a
    <2> QED
      BY <2>1, <2>2, EnterOrderly
  <1>4. ASSUME NEW c \in Closures, CallClosure(c) PROVE Orderly(f)
    <2> DEFINE a == Closure(c)
    <2>1. /\ a \in Activations /\ a.op = "closure" /\ a.phase = "push" /\ a.mark = 0
          /\ a.mark <= NumSlots(a) /\ FuncallClosure \in Lambdas
          /\ Enter(a) /\ LexicalContextPush(FuncallClosure, Len(control) + 1)
          /\ closures' = closures
      BY <1>4, NewActivations, SlotTypes, ContextAssumption
      DEF CallClosure, Closure, NumSlots
    <2>2. Entered(a) = {0} /\ ReturnedLambda(a) = FuncallClosure
      BY <2>1, EnteredCases DEF ReturnedLambda
    <2> HIDE DEF a
    <2> QED
      BY <2>1, <2>2, EnterOrderly
  <1>5. CASE Return
    BY <1>5, ReturnOrderly
  <1>6. ASSUME control' = control, lexical' = lexical, closures' = closures
        PROVE  Orderly(f)
    <2>1. Held(f)' = Held(f) /\ \A fr \in FramesOf(f) : Holders(fr)' = Holders(fr)
      BY <1>6 DEF Held, Holders
    <2> QED
      BY <1>6, <2>1 DEF Orderly, LambdaStep, FrameStep
  <1>7. CASE FramePush
    BY <1>7, PushOrderly
  <1>8. CASE FramePop
    BY <1>8, PopOrderly
  <1>9. CASE RaiseCaught
    BY <1>9, HeldCaught DEF RaiseCaught, CanRaise, CutShort, FramesOf
  <1>10. ASSUME NEW throwp \in BOOLEAN, RaiseUncaught(throwp) PROVE CutShort(f)
    <2>1. Len(control') = 0
      BY <1>10, EmptySeq DEF RaiseUncaught
    <2>2. Held(f)' = {} /\ \A fr \in FramesOf(f) : Holders(fr)' = {}
      BY <2>1 DEF Held, Holders
    <2> QED
      BY <1>10, <2>2 DEF RaiseUncaught, CanRaise, CutShort
  <1> QED
    BY <1>1, <1>2, <1>3, <1>4, <1>5, <1>6, <1>7, <1>8, <1>9, <1>10
    DEF Next, MakeClosure, PopThroughDeadFrame, vars

-----------------------------------------------------------------------------
(* Every kind of step keeps the order.                                     *)

\* An orderly step moves no frame of an entry that stays.
LEMMA EntryKept ==
    ASSUME TypeOK, CountInv, Persist, NEW f \in Lambdas,
           \A fr \in FramesOf(f) : FrameStep(fr),
           NEW e \in Held(f), e \in Held(f)'
    PROVE  EntryFrame(e)' = EntryFrame(e)
  <1>1. CASE e[2] = 0
    BY <1>1 DEF EntryFrame
  <1>2. CASE e[2] # 0
    <2> DEFINE n == Len(control)
    <2>1. /\ e[1] \in 1 .. n /\ e[1] \in Nat /\ control[e[1]].op = "closure"
          /\ FrameOf(e) \in FramesOf(f) /\ e[1] \in Holders(FrameOf(e))
      BY <1>2, HeldType
    <2>2. PICK j, fr : j = e[1] /\ fr = FrameOf(e)
      OBVIOUS
    <2>3. /\ fr \in Captured /\ fr[1] = control[j].fn /\ fr[2] = e[2]
          /\ j \in Holders(fr) /\ FrameStep(fr)
      BY <2>1, <2>2 DEF FramesOf, FrameOf
    <2>4. j \in 1 .. Len(control') /\ e[2] \in Entered(control'[j])
      BY <2>2 DEF Held
    <2>5. control'[j].op = "closure" /\ control'[j].fn = fr[1] /\ j <= n /\ n \in Nat
      BY <2>1, <2>2, <2>3, <2>4 DEF Persist, TypeOK
    <2>6. j \in Holders(fr)'
      BY <2>3, <2>4, <2>5 DEF Holders
    <2>7. <<control'[j].fn, e[2]>> = fr
      BY <2>2, <2>5 DEF FrameOf
    <2>8. /\ EntryFrame(e) = closures[fr][Cardinality({i \in Holders(fr) : i <= j})]
          /\ EntryFrame(e)' = closures'[fr][Cardinality({i \in Holders(fr)' : i <= j})]
      BY <1>2, <2>2, <2>7 DEF EntryFrame, FrameOf
    <2> DEFINE H == Holders(fr)
               R == {i \in H : i <= j}
               k == Cardinality(R)
    <2>9. /\ closures[fr] \in Seq(HeapAddrs) /\ Len(closures[fr]) \in Nat
          /\ IsFiniteSet(H) /\ Cardinality(H) <= Len(closures[fr])
      BY <2>3 DEF TypeOK, CountInv
    <2>10. R \in SUBSET H /\ j \in R
      BY <2>1, <2>2, <2>3
    <2>11. \A i \in H : i \in 1 .. n
      BY DEF Holders
    <2>12. H' = Holders(fr)'
      OBVIOUS
    <2>13. \/ closures'[fr] = closures[fr] /\ Holders(fr)' = H
           \/ /\ n \notin H /\ Holders(fr)' = H \cup {n}
              /\ \E h \in HeapAddrs : closures'[fr] = Append(closures[fr], h)
           \/ n \in H /\ Holders(fr)' = H \ {n} /\ closures'[fr] = DropLast(closures[fr])
      BY <2>3 DEF FrameStep
    <2> HIDE DEF H, n
    <2>14. {i \in Holders(fr)' : i <= j} = R
      <3>1. n \notin H \/ n \notin Holders(fr)' => j < n
        BY <2>2, <2>1, <2>5, <2>6, <2>10
      <3> QED
        BY <2>5, <2>13, <2>1, <2>2, <3>1
    <2>15. IsFiniteSet(R) /\ k \in Nat /\ k >= 1 /\ k <= Cardinality(H)
           /\ Cardinality(H) \in Nat
      <3>1. IsFiniteSet(R) /\ k <= Cardinality(H)
        BY <2>9, <2>10, FS_Subset
      <3> HIDE DEF R
      <3> QED
        BY <2>9, <2>10, <3>1, CountPositive, FS_CardinalityType
    <2>16. k \in 1 .. Len(closures[fr])
      BY <2>9, <2>15
    <2>17. closures'[fr][k] = closures[fr][k]
      <3>1. CASE closures'[fr] = closures[fr]
        BY <3>1
      <3>2. ASSUME NEW h \in HeapAddrs, closures'[fr] = Append(closures[fr], h)
            PROVE  closures'[fr][k] = closures[fr][k]
        BY <2>9, <2>16, <3>2, AppendProperties
      <3>3. CASE n \in H /\ Holders(fr)' = H \ {n} /\ closures'[fr] = DropLast(closures[fr])
        <4>1. IsFiniteSet(H \ {n}) /\ Cardinality(H \ {n}) = Cardinality(H) - 1
          BY <2>9, <3>3, OneLess
        <4>2. R \in SUBSET (H \ {n})
          BY <2>10, <2>14, <3>3
        <4>3. k <= Cardinality(H) - 1
          BY <4>1, <4>2, FS_Subset
        <4>4. k \in 1 .. Len(closures[fr]) - 1
          BY <2>9, <2>15, <4>3
        <4> QED
          BY <2>9, <3>3, <4>4, DropLastSeq
      <3> QED
        BY <2>13, <3>1, <3>2, <3>3
    <2> QED
      BY <2>8, <2>14, <2>17 DEF H
  <1> QED
    BY <1>1, <1>2

\* An exception that leaves the stack of f with no more entries than live ones
\* has forgotten no activation of f.
LEMMA CutNothing ==
    ASSUME TypeOK, CountInv, Persist, NEW f \in Lambdas, CutShort(f), Uncut(f)'
    PROVE  Orderly(f)
  <1>1. Held(f)' = Held(f)
    <2>1. /\ IsFiniteSet(Held(f)) /\ Cardinality(Held(f)) <= Len(lexical[f])
          /\ Len(lexical[f]) = Cardinality(Held(f)')
      BY DEF CountInv, Uncut, CutShort
    <2>2. Held(f)' \in SUBSET Held(f)
      BY DEF CutShort
    <2> HIDE DEF Held
    <2> QED
      BY <2>1, <2>2, WholePart
  <1>2. ASSUME NEW fr \in FramesOf(f) PROVE FrameStep(fr)
    <2>1. Holders(fr)' \subseteq Holders(fr) /\ closures' = closures
      BY DEF CutShort
    <2>2. ASSUME NEW i \in Holders(fr) PROVE i \in Holders(fr)'
      <3>1. /\ i \in 1 .. Len(control) /\ control[i].op = "closure"
            /\ control[i].fn = fr[1] /\ <<i, fr[2]>> \in Held(f)
        BY <2>2, HoldersAre
      <3>2. i \in 1 .. Len(control') /\ fr[2] \in Entered(control'[i])
        <4>1. <<i, fr[2]>> \in Held(f)'
          BY <1>1, <3>1
        <4> QED
          BY <4>1 DEF Held
      <3>3. control'[i].op = "closure" /\ control'[i].fn = fr[1]
        BY <3>1, <3>2 DEF Persist
      <3> QED
        BY <3>2, <3>3 DEF Holders
    <2> QED
      BY <2>1, <2>2 DEF FrameStep
  <1> QED
    BY <1>1, <1>2 DEF Orderly, LambdaStep, CutShort

\* An orderly step cuts nothing short and repairs nothing.
LEMMA OrderlyUncut ==
    ASSUME TypeOK, CountInv, NEW f \in Lambdas, Orderly(f)
    PROVE  Uncut(f)' <=> Uncut(f)
  <1>1. /\ lexical[f] \in Seq(StackAddrs \cup HeapAddrs) /\ Len(lexical[f]) \in Nat
        /\ IsFiniteSet(Held(f)) /\ Cardinality(Held(f)) <= Len(lexical[f])
        /\ Cardinality(Held(f)) \in Nat
    BY FS_CardinalityType DEF TypeOK, CountInv
  <1>2. CASE lexical'[f] = lexical[f] /\ Held(f)' = Held(f)
    BY <1>2 DEF Uncut
  <1>3. ASSUME NEW e, NEW addr \in StackAddrs \cup HeapAddrs,
               e \notin Held(f), Held(f)' = Held(f) \cup {e},
               lexical'[f] = Append(lexical[f], addr)
        PROVE  Uncut(f)' <=> Uncut(f)
    <2>1. Cardinality(Held(f)') = Cardinality(Held(f)) + 1
      BY <1>1, <1>3, OneMore
    <2>2. Len(lexical'[f]) = Len(lexical[f]) + 1
      BY <1>1, <1>3, AppendProperties
    <2> QED
      BY <1>1, <2>1, <2>2 DEF Uncut
  <1>4. ASSUME NEW e \in Held(f), Held(f)' = Held(f) \ {e},
               lexical'[f] = DropLast(lexical[f])
        PROVE  Uncut(f)' <=> Uncut(f)
    <2>1. Cardinality(Held(f)') = Cardinality(Held(f)) - 1 /\ Cardinality(Held(f)) >= 1
      BY <1>1, <1>4, OneLess
    <2>2. Len(lexical'[f]) = Len(lexical[f]) - 1
      BY <1>1, <1>4, <2>1, DropLastSeq, EmptySeq
    <2> QED
      BY <1>1, <2>1, <2>2 DEF Uncut
  <1> QED
    BY <1>2, <1>3, <1>4 DEF Orderly, LambdaStep

\* An orderly step keeps the count of the captured frames exact.
LEMMA OrderlyExact ==
    ASSUME TypeOK, CountInv, NEW f \in Lambdas, Orderly(f), Exact(f)
    PROVE  Exact(f)'
  <1> SUFFICES ASSUME NEW fr \in FramesOf(f)
               PROVE  Len(closures'[fr]) = Cardinality(Holders(fr)')
    BY DEF Exact, FramesOf, Captured, Slots
  <1>1. /\ closures[fr] \in Seq(HeapAddrs) /\ Len(closures[fr]) \in Nat
        /\ IsFiniteSet(Holders(fr)) /\ Len(closures[fr]) = Cardinality(Holders(fr))
    BY DEF TypeOK, CountInv, FramesOf, Exact
  <1>2. CASE closures'[fr] = closures[fr] /\ Holders(fr)' = Holders(fr)
    BY <1>1, <1>2
  <1>3. ASSUME NEW h \in HeapAddrs, Len(control) \notin Holders(fr),
               Holders(fr)' = Holders(fr) \cup {Len(control)},
               closures'[fr] = Append(closures[fr], h)
        PROVE  Len(closures'[fr]) = Cardinality(Holders(fr)')
    <2>1. Cardinality(Holders(fr)') = Cardinality(Holders(fr)) + 1
      BY <1>1, <1>3, OneMore
    <2>2. Len(closures'[fr]) = Len(closures[fr]) + 1
      BY <1>1, <1>3, AppendProperties
    <2> QED
      BY <1>1, <2>1, <2>2
  <1>4. ASSUME Len(control) \in Holders(fr),
               Holders(fr)' = Holders(fr) \ {Len(control)},
               closures'[fr] = DropLast(closures[fr])
        PROVE  Len(closures'[fr]) = Cardinality(Holders(fr)')
    <2>1. /\ Cardinality(Holders(fr)') = Cardinality(Holders(fr)) - 1
          /\ Cardinality(Holders(fr)) >= 1
      BY <1>1, <1>4, OneLess
    <2>2. Len(closures'[fr]) = Len(closures[fr]) - 1
      BY <1>1, <1>4, <2>1, DropLastSeq, EmptySeq
    <2> QED
      BY <1>1, <2>1, <2>2
  <1> QED
    BY <1>2, <1>3, <1>4 DEF Orderly, FrameStep

\* An orderly step keeps the list.
LEMMA OrderlyLists ==
    ASSUME TypeOK, CountInv, Persist, NEW f \in Lambdas, Orderly(f),
           Lists(f), Exact(f)
    PROVE  Lists(f)'
  <1> DEFINE A == StackAddrs \cup HeapAddrs
             F == [e \in Held(f) |-> EntryFrame(e)]
             G == [e \in Held(f)' |-> EntryFrame(e)']
  <1> SUFFICES ListedAs(lexical'[f], Held(f)', G)
    BY DEF Lists, ListedAs
  <1>1. lexical[f] \in Seq(A) /\ ListedAs(lexical[f], Held(f), F)
    BY DEF TypeOK, Lists
  <1>2. \A e \in Held(f) : e \in Held(f)' => G[e] = F[e]
    BY EntryKept DEF Orderly
  <1>3. CASE lexical'[f] = lexical[f] /\ Held(f)' = Held(f)
    <2>1. G = F
      BY <1>2, <1>3
    <2> QED
      BY <1>1, <1>3, <2>1
  <1>4. ASSUME NEW e, NEW addr \in A,
               e \notin Held(f), \A d \in Held(f) : Precedes(d, e),
               Held(f)' = Held(f) \cup {e},
               lexical'[f] = Append(lexical[f], addr), addr = EntryFrame(e)'
        PROVE  ListedAs(lexical'[f], Held(f)', G)
    <2>1. G[e] = addr /\ \A d \in Held(f) : G[d] = F[d]
      BY <1>2, <1>4
    <2> HIDE DEF A, F, G
    <2>2. ListedAs(Append(lexical[f], addr), Held(f) \cup {e}, G)
      BY <1>1, <1>4, <2>1, ListAppend
    <2> QED
      BY <1>4, <2>2
  <1>5. ASSUME NEW e \in Held(f), \A d \in Held(f) : Precedes(d, e),
               Held(f)' = Held(f) \ {e}, lexical'[f] = DropLast(lexical[f])
        PROVE  ListedAs(lexical'[f], Held(f)', G)
    <2>1. \A d \in Held(f) \ {e} : G[d] = F[d]
      BY <1>2, <1>5
    <2>2. \A d \in Held(f) : Precedes(e, d) => d = e
      BY <1>5, PrecedesOnce
    <2> HIDE DEF A, F, G
    <2>3. ListedAs(DropLast(lexical[f]), Held(f) \ {e}, G)
      BY <1>1, <1>5, <2>1, <2>2, ListDropLast
    <2> QED
      BY <1>5, <2>3
  <1> HIDE DEF G
  <1> QED
    BY <1>3, <1>4, <1>5 DEF Orderly, LambdaStep

-----------------------------------------------------------------------------
(* The invariants.                                                         *)

\* Where nothing raises, no activation is ever cut short.
UncutInv == Raising = FALSE => \A f \in Lambdas : Uncut(f)

\* The empty context lists nothing.
LEMMA OrderInit == Init => OrderInv /\ UncutInv
  <1> SUFFICES ASSUME Init, NEW f \in Lambdas
               PROVE  Uncut(f) /\ Lists(f) /\ Exact(f)
    BY DEF OrderInv, UncutInv
  <1>1. Len(control) = 0 /\ lexical[f] = <<>> /\ Len(lexical[f]) = 0
        /\ \A fr \in FramesOf(f) : Len(closures[fr]) = 0
    BY EmptySeq DEF Init, FramesOf
  <1>2. Held(f) = {} /\ \A fr \in FramesOf(f) : Holders(fr) = {}
    BY <1>1 DEF Held, Holders
  <1>3. Cardinality({}) = 0
    BY FS_EmptySet
  <1>4. Lists(f)
    <2> DEFINE q == [n \in 1 .. 0 |-> 0]
    <2>1. 1 .. 0 = {} /\ q \in [1 .. 0 -> {}]
      OBVIOUS
    <2> HIDE DEF q
    <2> QED
      BY <1>1, <1>2, <2>1 DEF Lists, ListedAs
  <1>5. Uncut(f)
    BY <1>1, <1>2, <1>3 DEF Uncut
  <1>6. Exact(f)
    BY <1>1, <1>2, <1>3 DEF Exact
  <1> QED
    BY <1>4, <1>5, <1>6

\* No step puts the stack of a lambda that is not cut short out of order.
LEMMA OrderStep == TypeOK /\ CountInv /\ OrderInv /\ [Next]_vars => OrderInv'
  <1> SUFFICES ASSUME TypeOK, CountInv, OrderInv, [Next]_vars,
                      NEW f \in Lambdas, Uncut(f)'
               PROVE  Lists(f)' /\ Exact(f)'
    BY DEF OrderInv
  <1>1. Persist
    BY PersistStep
  <1>2. Orderly(f)
    BY <1>1, StepKinds, CutNothing
  <1>3. Uncut(f)
    BY <1>2, OrderlyUncut
  <1>4. Lists(f) /\ Exact(f)
    BY <1>3 DEF OrderInv
  <1> QED
    BY <1>1, <1>2, <1>4, OrderlyLists, OrderlyExact

\* Without exceptions every step is orderly.
LEMMA UncutStep == TypeOK /\ CountInv /\ UncutInv /\ [Next]_vars => UncutInv'
  <1> SUFFICES ASSUME TypeOK, CountInv, UncutInv, [Next]_vars,
                      Raising = FALSE, NEW f \in Lambdas
               PROVE  Uncut(f)'
    BY DEF UncutInv
  <1>1. Orderly(f)
    BY StepKinds DEF CutShort
  <1> QED
    BY <1>1, OrderlyUncut DEF UncutInv

\* The order holds together with the types and the counts it needs.
LEMMA Ordered == Spec => [](TypeOK /\ CountInv /\ OrderInv /\ UncutInv)
  <1> QED
    BY StackTyped, CountInit, CountStep, OrderInit, OrderStep, UncutStep, PTL DEF Spec

\* A set of entries that is listed has a last one, whose frame is on top.
LEMMA OrderInnermost == TypeOK /\ CountInv /\ OrderInv => InnermostBinding
  <1> SUFFICES ASSUME TypeOK, CountInv, OrderInv, NEW f \in Lambdas,
                      Held(f) # {}, Uncut(f)
               PROVE  \E e \in Held(f) :
                        /\ \A d \in Held(f) : Precedes(d, e)
                        /\ MapLexicalContext(f) = EntryFrame(e)
    BY DEF InnermostBinding, Uncut
  <1> DEFINE n == Len(lexical[f])
  <1>1. n \in Nat /\ Lists(f)
    BY LexicalLengths DEF OrderInv
  <1>2. PICK q \in [1 .. n -> Held(f)] :
           /\ \A d \in Held(f) : \E m \in 1 .. n : q[m] = d
           /\ \A m, k \in 1 .. n : m < k => Before(q[m], q[k])
           /\ \A m \in 1 .. n : lexical[f][m] = EntryFrame(q[m])
    BY <1>1 DEF Lists, ListedAs
  <1>3. n \in 1 .. n
    BY <1>1, <1>2
  <1>4. q[n] \in Held(f) /\ lexical[f][n] = EntryFrame(q[n])
    BY <1>2, <1>3
  <1>5. ASSUME NEW d \in Held(f) PROVE Precedes(d, q[n])
    <2>1. PICK m \in 1 .. n : q[m] = d
      BY <1>2
    <2>2. CASE m < n
      BY <1>2, <1>3, <2>1, <2>2 DEF Before
    <2>3. CASE m = n
      <3>1. d[2] \in Nat /\ d[2] <= d[2]
        BY HeldType
      <3> QED
        BY <2>1, <2>3, <3>1 DEF Precedes
    <2> QED
      BY <1>1, <2>1, <2>2, <2>3
  <1> QED
    BY <1>4, <1>5 DEF MapLexicalContext

\* Whatever has been called, closed, returned and raised, a lex-ref of a lambda
\* none of whose activations an exception has cut short reaches the frame of
\* the innermost one (env-frame.cc:46, compile.cc:61).
THEOREM InnermostIsBound == Spec => []InnermostBinding
  <1> QED
    BY Ordered, OrderInnermost, PTL

\* A listed entry is a live activation's own frame or an allocated one.
LEMMA OrderNoStale ==
    Raising = FALSE /\ TypeOK /\ CountInv /\ OrderInv /\ UncutInv => NoStaleFrames
  <1> SUFFICES ASSUME Raising = FALSE, TypeOK, CountInv, OrderInv, UncutInv,
                      NEW f \in Lambdas, NEW n \in DOMAIN lexical[f]
               PROVE  \/ \E e \in Held(f) : e[2] = 0 /\ e[1] = lexical[f][n]
                      \/ lexical[f][n] \in Allocated
    BY DEF NoStaleFrames
  <1>1. n \in 1 .. Len(lexical[f])
    BY DEF TypeOK
  <1>2. Lists(f)
    BY DEF UncutInv, OrderInv
  <1>3. PICK e \in Held(f) : lexical[f][n] = EntryFrame(e)
    BY <1>1, <1>2 DEF Lists, ListedAs
  <1>4. CASE e[2] = 0
    BY <1>3, <1>4 DEF EntryFrame
  <1>5. CASE e[2] # 0
    <2> DEFINE fr == FrameOf(e)
               R == {i \in Holders(fr) : i <= e[1]}
    <2>1. fr \in Captured /\ e[1] \in Holders(fr) /\ e[1] \in Nat
      BY <1>5, HeldType DEF FramesOf
    <2>2. lexical[f][n] = closures[fr][Cardinality(R)]
      BY <1>3, <1>5 DEF EntryFrame, FrameOf
    <2>3. /\ closures[fr] \in Seq(HeapAddrs) /\ Len(closures[fr]) \in Nat
          /\ IsFiniteSet(Holders(fr)) /\ Cardinality(Holders(fr)) <= Len(closures[fr])
      BY <2>1 DEF TypeOK, CountInv
    <2>4. R \in SUBSET Holders(fr) /\ e[1] \in R
      BY <2>1
    <2> HIDE DEF R, fr
    <2>5. /\ IsFiniteSet(R) /\ Cardinality(R) <= Cardinality(Holders(fr))
          /\ Cardinality(R) \in Nat /\ Cardinality(R) >= 1
          /\ Cardinality(Holders(fr)) \in Nat
      BY <2>3, <2>4, FS_Subset, CountPositive, FS_CardinalityType
    <2>6. Cardinality(R) \in DOMAIN closures[fr]
      BY <2>3, <2>5
    <2> QED
      BY <2>1, <2>2, <2>6 DEF Allocated
  <1> QED
    BY <1>4, <1>5

\* Without exceptions no stack ever holds the address of a frame that is gone.
\* The hypothesis is needed: with-ex repairs ctx.dynamic only, so that an
\* exception leaves such entries (the run context_raise does not check this).
THEOREM NothingStale == Raising = FALSE => (Spec => []NoStaleFrames)
  <1> SUFFICES ASSUME Raising = FALSE PROVE Spec => []NoStaleFrames
    OBVIOUS
  <1>1. TypeOK /\ CountInv /\ OrderInv /\ UncutInv => NoStaleFrames
    BY OrderNoStale
  <1> QED
    BY <1>1, Ordered, PTL

\* The frame that lex-pop deletes is the last of its own stack.
LEMMA PopIsLast ==
    ASSUME TypeOK, CountInv, OrderInv, FramePop,
           Uncut(CapturedFns[Top.fn][Top.mark + 1])
    PROVE  LET i == Top.mark + 1
               deleted == closures[<<Top.fn, i>>]
           IN  MapLexicalContext(CapturedFns[Top.fn][i]) = deleted[Len(deleted)]
  <1> DEFINE n == Len(control)
  <1>1. /\ control # <<>> /\ Top.op = "closure" /\ Top.phase = "pop"
        /\ Top.mark < NumSlots(Top) /\ Advance
    BY DEF FramePop
  <1>2. PICK m \in SlotNumbers, f \in Lambdas, fr \in Captured :
           /\ m = Top.mark + 1 /\ f = CapturedFns[Top.fn][m] /\ fr = <<Top.fn, m>>
           /\ m # 0
    BY <1>1, NextSlot
  <1>3. PICK e : e = <<n, m>>
    OBVIOUS
  <1>4. e \in Held(f) /\ \A d \in Held(f) : Precedes(d, e)
    BY <1>1, <1>2, <1>3, HeldPop, PopKeeps
  <1>5. Lists(f) /\ Exact(f)
    BY <1>2 DEF OrderInv
  <1>6. MapLexicalContext(f) = EntryFrame(e)
    BY <1>4, <1>5, LastEntry DEF MapLexicalContext
  <1>7. Top = control[n]
    BY DEF Top
  <1>8. {i \in Holders(fr) : i <= n} = Holders(fr)
    BY DEF Holders, TypeOK
  <1>9. EntryFrame(e) = closures[fr][Cardinality(Holders(fr))]
    BY <1>2, <1>3, <1>7, <1>8 DEF EntryFrame
  <1>10. Len(closures[fr]) = Cardinality(Holders(fr))
    BY <1>2, <1>5 DEF Exact, FramesOf
  <1> QED
    BY <1>2, <1>6, <1>9, <1>10

\* Without exceptions lex-pop deletes the frame it takes off the stack of the
\* captured lambda, whatever the closures it is nested in (env-frame.cc:140).
THEOREM PopDeletes == Raising = FALSE => (Spec => PopDeletesItsFrame)
  <1> SUFFICES ASSUME Raising = FALSE PROVE Spec => PopDeletesItsFrame
    OBVIOUS
  <1> DEFINE Deletes ==
        FramePop =>
          LET i == Top.mark + 1
              deleted == closures[<<Top.fn, i>>]
          IN  MapLexicalContext(CapturedFns[Top.fn][i]) = deleted[Len(deleted)]
  <1>1. TypeOK /\ CountInv /\ OrderInv /\ UncutInv /\ [Next]_vars => [Deletes]_vars
    <2> SUFFICES ASSUME TypeOK, CountInv, OrderInv, UncutInv, FramePop
                 PROVE  Deletes
      OBVIOUS
    <2>1. CapturedFns[Top.fn][Top.mark + 1] \in Lambdas
      BY NextSlot DEF FramePop
    <2>2. Uncut(CapturedFns[Top.fn][Top.mark + 1])
      BY <2>1 DEF UncutInv
    <2> QED
      BY <2>2, PopIsLast
  <1>2. [][Deletes]_vars => PopDeletesItsFrame
    BY DEF PopDeletesItsFrame, Deletes
  <1> HIDE DEF Deletes
  <1> QED
    BY <1>1, <1>2, Ordered, PTL DEF Spec

=============================================================================
