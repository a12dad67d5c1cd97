-------------------------- MODULE MuContextProofs --------------------------
(***************************************************************************)
(* TLAPS proofs about MuContext, for every set of lambdas and closures and *)
(* every bound: type correctness, the control stack, and that no pop of    *)
(* the lexical or closure stacks ever meets an empty one.                  *)
(***************************************************************************)
EXTENDS MuContext, FiniteSetTheorems, SequenceTheorems,
        WellFoundedInduction, TLAPS

-----------------------------------------------------------------------------
(* Sequences.                                                              *)

\* A nonempty set of positions has a last one.
LEMMA GreatestElement ==
    ASSUME NEW n \in Nat, NEW S \in SUBSET (1 .. n), S # {}
    PROVE  \E i \in S : \A j \in S : j <= i
  <1> DEFINE T == {n - i : i \in S}
             R == OpToRel(<, Nat)
  <1>1. T \subseteq Nat /\ T # {}
    <2>1. \A i \in S : i \in Nat /\ n - i \in Nat
      OBVIOUS
    <2> QED
      BY <2>1
  <1>2. IsWellFoundedOn(R, Nat)
    BY NatLessThanWellFounded
  <1> HIDE DEF T, R
  <1>3. \E m \in T : \A k \in T : ~ (<<k, m>> \in R)
    BY <1>1, <1>2, WFMin
  <1>4. PICK m \in T : \A k \in T : ~ (<<k, m>> \in R)
    BY <1>3
  <1>5. \A k \in T : ~ (k < m)
    BY <1>1, <1>4 DEF R, OpToRel
  <1>6. PICK i \in S : m = n - i
    BY DEF T
  <1>7. \A j \in S : n - j \in T
    BY DEF T
  <1> QED
    BY <1>5, <1>6, <1>7

\* DropLast returns a sequence one shorter with the same entries.
LEMMA DropLastSeq ==
    ASSUME NEW S, NEW s \in Seq(S)
    PROVE  /\ DropLast(s) \in Seq(S)
           /\ s # <<>> => Len(DropLast(s)) = Len(s) - 1
           /\ \A i \in 1 .. Len(s) - 1 : DropLast(s)[i] = s[i]
  <1>1. Len(s) \in Nat /\ (s # <<>> => Len(s) >= 1)
    BY EmptySeq
  <1>2. \A i \in 1 .. Len(s) - 1 : s[i] \in S
    BY ElementOfSeq, <1>1
  <1> DEFINE n == Len(s) - 1
             t == SubSeq(s, 1, n)
  <1>3. n \in Int /\ n = Len(s) - 1
    BY <1>1
  <1>4. DropLast(s) = t
    BY DEF DropLast
  <1>5. \A i \in 1 .. n : s[i] \in S
    BY <1>2
  <1> HIDE DEF n
  <1>6. /\ t \in Seq(S)
        /\ Len(t) = IF 1 <= n THEN n - 1 + 1 ELSE 0
        /\ \A i \in 1 .. n - 1 + 1 : t[i] = s[1 + i - 1]
    BY <1>3, <1>5, SubSeqProperties
  <1> HIDE DEF t
  <1>7. \A i \in 1 .. n : t[i] = s[i]
    <2> TAKE i \in 1 .. n
    <2>1. i \in 1 .. n - 1 + 1 /\ 1 + i - 1 = i
      BY <1>3
    <2> QED
      BY <2>1, <1>6
  <1>8. s # <<>> => Len(t) = n
    BY <1>1, <1>3, <1>6
  <1> QED
    BY <1>3, <1>4, <1>6, <1>7, <1>8

\* Called moves an activation to another legal one of the same kind.
LEMMA CalledType ==
    ASSUME NEW a \in Activations
    PROVE  /\ Called(a) \in Activations
           /\ Called(a).op = a.op /\ Called(a).fn = a.fn
           /\ a.op = "with" => Called(a).mark = a.mark
           /\ a.op = "closure" => Called(a).mark \in {0, a.mark}
  <1>1. CASE a \in {Plain} \cup {Lambda(f) : f \in Lambdas}
    BY <1>1 DEF Called, Activations, Plain, Lambda
  <1>2. CASE a \in [op : {"with"}, fn : {NoFn}, mark : Nat,
                    phase : {"begin", "try", "caught", "handle"}]
    <2>1. Called(a) \in [op : {"with"}, fn : {NoFn}, mark : Nat,
                         phase : {"begin", "try", "caught", "handle"}]
      BY <1>2 DEF Called
    <2> QED
      BY <1>2, <2>1 DEF Called, Activations
  <1>3. CASE a \in [op : {"closure"}, fn : Closures, mark : Nat,
                    phase : {"push", "pop"}]
    <2>1. Called(a) \in [op : {"closure"}, fn : Closures, mark : Nat,
                         phase : {"push", "pop"}]
      BY <1>3 DEF Called
    <2> QED
      BY <1>3, <2>1 DEF Called, Activations
  <1> QED
    BY <1>1, <1>2, <1>3 DEF Activations

\* The kinds of activation, and the phases each can be in.
LEMMA ActivationOps ==
    ASSUME NEW a \in Activations
    PROVE  /\ a.op \in {"plain", "lambda", "with", "closure"}
           /\ a.op = "lambda" => a.fn \in Lambdas
           /\ a.op = "closure" => a.fn \in Closures /\ a.mark \in Nat
                                  /\ a.phase \in {"push", "pop"}
           /\ a.op = "with" => a.mark \in Nat
                               /\ a.phase \in {"begin", "try", "caught", "handle"}
           /\ a.phase \in {"begin", "try", "caught", "handle"} => a.op = "with"
           /\ a.phase \in {"push", "pop"} => a.op = "closure"
  BY DEF Activations, Plain, Lambda, NoFn

\* What Funcall enters on the stack is an activation.
LEMMA NewActivations ==
    /\ Plain \in Activations
    /\ \A f \in Lambdas : Lambda(f) \in Activations
    /\ \A m \in Nat : With(m) \in Activations
    /\ \A c \in Closures : Closure(c) \in Activations
  BY DEF Activations, Plain, Lambda, With, Closure, NoFn

\* The caller's record is the only one a call touches.
LEMMA CallerType ==
    ASSUME TypeOK
    PROVE  /\ Caller \in Seq(Activations)
           /\ Len(Caller) = Len(control)
           /\ \A i \in 1 .. Len(control) :
                /\ Caller[i] \in Activations
                /\ Caller[i].op = control[i].op /\ Caller[i].fn = control[i].fn
                /\ i # Len(control) => Caller[i] = control[i]
                /\ i = Len(control) => Caller[i] = Called(control[i])
  <1>1. \A i \in 1 .. Len(control) : control[i] \in Activations
    BY DEF TypeOK
  <1>2. \A i \in 1 .. Len(control) : Called(control[i]) \in Activations
    BY <1>1, CalledType
  <1>3. Len(control) \in Nat
    BY DEF TypeOK
  <1>4. Caller \in Seq(Activations) /\ Len(Caller) = Len(control)
    BY <1>1, <1>2, <1>3 DEF Caller
  <1> QED
    BY <1>1, <1>2, <1>4, CalledType DEF Caller

\* Every captured function of a closure is a lambda.
LEMMA SlotTypes ==
    ASSUME NEW c \in Closures
    PROVE  /\ Len(CapturedFns[c]) \in Nat
           /\ Slots(c) = 1 .. Len(CapturedFns[c])
           /\ \A i \in Slots(c) : CapturedFns[c][i] \in Lambdas
           /\ \A i \in Slots(c) : <<c, i>> \in Captured
           /\ \A i \in Slots(c) : i \in SlotNumbers /\ i # 0
  <1>1. CapturedFns[c] \in Seq(Lambdas)
    BY ContextAssumption
  <1> QED
    BY <1>1 DEF Slots, Captured, SlotNumbers

-----------------------------------------------------------------------------
(* The C++ stack under each kind of step.                                  *)

\* Pushing an activation leaves the others what they were, up to the caller's
\* own phase.
LEMMA EnterControl ==
    ASSUME TypeOK, NEW a \in Activations, Enter(a),
           a.op = "closure" => a.mark <= NumSlots(a)
    PROVE  /\ control' \in Seq(Activations)
           /\ Len(control') = Len(control) + 1
           /\ Len(control') <= MaxDepth
           /\ control'[Len(control) + 1] = a
           /\ \A i \in 1 .. Len(control) : control'[i] = Caller[i]
           /\ \A i \in 1 .. Len(control') :
                 control'[i].op = "closure" => control'[i].mark <= NumSlots(control'[i])
           /\ dynamic' \in Seq(StackAddrs)
           /\ Len(dynamic') = Len(dynamic) + 1
           /\ dynamic'[Len(dynamic) + 1] = Len(control) + 1
           /\ \A i \in 1 .. Len(dynamic) : dynamic'[i] = dynamic[i]
  <1>1. Len(control) \in Nat /\ Len(control) < MaxDepth /\ MaxDepth \in Nat
    BY ContextAssumption DEF TypeOK, Enter
  <1>2. Len(control) + 1 \in StackAddrs
    BY <1>1 DEF StackAddrs
  <1>3. /\ control' \in Seq(Activations)
        /\ Len(control') = Len(control) + 1
        /\ control'[Len(control) + 1] = a
        /\ \A i \in 1 .. Len(control) : control'[i] = Caller[i]
    BY CallerType, AppendProperties DEF Enter
  <1>4. /\ dynamic' \in Seq(StackAddrs)
        /\ Len(dynamic') = Len(dynamic) + 1
        /\ dynamic'[Len(dynamic) + 1] = Len(control) + 1
        /\ \A i \in 1 .. Len(dynamic) : dynamic'[i] = dynamic[i]
    BY <1>2, AppendProperties DEF Enter, DynamicContextPush, TypeOK
  <1>5. ASSUME NEW i \in 1 .. Len(control), Caller[i].op = "closure"
        PROVE  Caller[i].mark <= NumSlots(Caller[i])
    <2>1. /\ control[i] \in Activations /\ control[i].op = "closure"
          /\ control[i].mark <= NumSlots(control[i]) /\ Caller[i].fn = control[i].fn
      BY <1>5, CallerType DEF TypeOK
    <2>2. Caller[i].mark \in {0, control[i].mark}
      BY <2>1, CallerType, CalledType
    <2>3. control[i].fn \in Closures /\ control[i].mark \in Nat
      BY <2>1, ActivationOps
    <2>4. Len(CapturedFns[control[i].fn]) \in Nat
      BY <2>3, SlotTypes
    <2> QED
      BY <2>1, <2>2, <2>3, <2>4 DEF NumSlots
  <1>6. \A i \in 1 .. Len(control') :
          control'[i].op = "closure" => control'[i].mark <= NumSlots(control'[i])
    <2> TAKE i \in 1 .. Len(control')
    <2>1. CASE i = Len(control) + 1
      BY <2>1, <1>3
    <2>2. CASE i \in 1 .. Len(control)
      BY <2>2, <1>3, <1>5
    <2> QED
      BY <1>1, <1>3, <2>1, <2>2
  <1> QED
    BY <1>1, <1>3, <1>4, <1>6

\* Counting one more lex-psh or lex-pop touches the top activation only.
LEMMA AdvanceControl ==
    ASSUME TypeOK, control # <<>>, Top.op = "closure", Top.mark < NumSlots(Top),
           Advance
    PROVE  /\ control' \in Seq(Activations)
           /\ Len(control') = Len(control)
           /\ Len(control) \in Nat \ {0}
           /\ control'[Len(control)] = [Top EXCEPT !.mark = @ + 1]
           /\ control'[Len(control)].op = "closure"
           /\ control'[Len(control)].fn = Top.fn
           /\ control'[Len(control)].phase = Top.phase
           /\ control'[Len(control)].mark = Top.mark + 1
           /\ \A i \in 1 .. Len(control) - 1 : control'[i] = control[i]
           /\ \A i \in 1 .. Len(control') :
                 control'[i].op = "closure" => control'[i].mark <= NumSlots(control'[i])
  <1> DEFINE n == Len(control)
  <1>1. control \in Seq(Activations) /\ n \in Nat \ {0}
    BY EmptySeq DEF TypeOK
  <1>2. Top \in Activations /\ Top = control[n]
    BY <1>1 DEF Top
  <1>3. Top \in [op : {"closure"}, fn : Closures, mark : Nat, phase : {"push", "pop"}]
    BY <1>2 DEF Activations, Plain, Lambda
  <1> DEFINE a == [Top EXCEPT !.mark = @ + 1]
  <1>4. /\ a \in [op : {"closure"}, fn : Closures, mark : Nat, phase : {"push", "pop"}]
        /\ a.op = "closure" /\ a.fn = Top.fn /\ a.phase = Top.phase
        /\ a.mark = Top.mark + 1
    BY <1>3
  <1>5. a \in Activations
    BY <1>4 DEF Activations
  <1>6. control' = [control EXCEPT ![n] = a]
    BY <1>2 DEF Advance
  <1> HIDE DEF a, n
  <1>7. n = Len(control)
    BY DEF n
  <1>8. /\ control' \in Seq(Activations) /\ Len(control') = n
        /\ control'[n] = a
        /\ \A i \in 1 .. n - 1 : control'[i] = control[i]
    BY <1>1, <1>5, <1>6, <1>7, ExceptSeq
  <1>9. Len(CapturedFns[Top.fn]) \in Nat /\ Top.mark \in Nat
    BY <1>3, SlotTypes
  <1>10. a.mark <= NumSlots(a)
    BY <1>4, <1>9 DEF NumSlots
  <1>11. \A i \in 1 .. n :
           control'[i].op = "closure" => control'[i].mark <= NumSlots(control'[i])
    <2> SUFFICES ASSUME NEW i \in 1 .. n, control'[i].op = "closure"
                 PROVE  control'[i].mark <= NumSlots(control'[i])
      OBVIOUS
    <2>1. CASE i = n
      BY <1>8, <1>10, <2>1
    <2>2. CASE i # n
      <3>1. control'[i] = control[i] /\ i \in 1 .. Len(control)
        BY <1>1, <1>7, <1>8, <2>2
      <3> QED
        BY <3>1 DEF TypeOK
    <2> QED
      BY <2>1, <2>2
  <1>12. a = [Top EXCEPT !.mark = @ + 1]
    BY DEF a
  <1> QED
    BY <1>1, <1>4, <1>7, <1>8, <1>11, <1>12

\* A caught exception keeps the activations up to the handler's.
LEMMA CaughtControl ==
    ASSUME TypeOK, RaiseCaught
    PROVE  \E h \in 1 .. Len(control) :
             /\ control[h].op = "with" /\ control[h].phase \in {"begin", "try"}
             /\ control' \in Seq(Activations)
             /\ Len(control') = h
             /\ control'[h] = [control[h] EXCEPT !.phase = "caught"]
             /\ control'[h].op = "with" /\ control'[h].mark = control[h].mark
             /\ control[h].mark \in Nat
             /\ \A i \in 1 .. h - 1 : control'[i] = control[i]
             /\ dynamic' = SubSeq(dynamic, 1, control[h].mark)
  <1> DEFINE h == Innermost(Handlers)
  <1>1. control \in Seq(Activations) /\ Len(control) \in Nat
    BY DEF TypeOK
  <1>2. \E i \in Handlers : \A j \in Handlers : j <= i
    <2>1. Handlers \subseteq 1 .. Len(control) /\ Handlers # {}
      BY DEF Handlers, RaiseCaught
    <2> QED
      BY <1>1, <2>1, GreatestElement
  <1>3. h \in Handlers
    BY <1>2 DEF Innermost
  <1>4. /\ h \in 1 .. Len(control) /\ control[h] \in Activations
        /\ control[h].op = "with" /\ control[h].phase \in {"begin", "try"}
    BY <1>1, <1>3 DEF Handlers
  <1> DEFINE a == [control[h] EXCEPT !.phase = "caught"]
             s == SubSeq(control, 1, h)
  <1>5. control' = [s EXCEPT ![h] = a] /\ dynamic' = SubSeq(dynamic, 1, control[h].mark)
    <2>1. control' = [s EXCEPT ![h].phase = "caught"]
      BY DEF RaiseCaught
    <2>2. s[h] = control[h]
      BY <1>1, <1>4
    <2> QED
      BY <2>1, <2>2 DEF RaiseCaught
  <1>6. control[h] \in [op : {"with"}, fn : {NoFn}, mark : Nat,
                        phase : {"begin", "try", "caught", "handle"}]
    BY <1>4 DEF Activations, Plain, Lambda
  <1>7. /\ a \in [op : {"with"}, fn : {NoFn}, mark : Nat,
                  phase : {"begin", "try", "caught", "handle"}]
        /\ a.op = "with" /\ a.mark = control[h].mark /\ control[h].mark \in Nat
    BY <1>6
  <1>8. a \in Activations
    BY <1>7 DEF Activations
  <1>9. s \in Seq(Activations) /\ Len(s) = h /\ \A i \in 1 .. h : s[i] = control[i]
    BY <1>1, <1>4
  <1> HIDE DEF a, s, h
  <1>10. /\ control' \in Seq(Activations) /\ Len(control') = h
         /\ control'[h] = a
         /\ \A i \in 1 .. h - 1 : control'[i] = control[i]
    BY <1>4, <1>5, <1>8, <1>9, ExceptSeq
  <1> QED
    BY <1>4, <1>5, <1>7, <1>10 DEF a

\* A return removes the top activation and its dynamic entry.
LEMMA ReturnControl ==
    ASSUME TypeOK, Return
    PROVE  /\ Len(control) \in Nat \ {0}
           /\ Top = control[Len(control)] /\ Top \in Activations
           /\ control' \in Seq(Activations)
           /\ Len(control') = Len(control) - 1
           /\ \A i \in 1 .. Len(control) - 1 : control'[i] = control[i]
           /\ dynamic' = DropLast(dynamic)
           /\ ReturnedLambda(Top) \in Lambdas
  <1>1. control \in Seq(Activations) /\ control # <<>> /\ Len(control) \in Nat \ {0}
    BY EmptySeq DEF TypeOK, Return
  <1>2. Top = control[Len(control)] /\ Top \in Activations
    BY <1>1, ElementOfSeq DEF Top
  <1>3. control' = DropLast(control) /\ dynamic' = DropLast(dynamic)
    BY DEF Return, DynamicContextPop
  <1>4. ReturnedLambda(Top) \in Lambdas
    BY <1>2, ActivationOps, ContextAssumption DEF ReturnedLambda
  <1> QED
    BY <1>1, <1>2, <1>3, <1>4, DropLastSeq

-----------------------------------------------------------------------------
(* Type correctness, together with the shape of the control stack: the     *)
(* type of ctx.dynamic after with-ex's resize depends on the saved mark.   *)

\* ctx.dynamic ends with the frames of the live activations, and every with-ex
\* has saved the position of its own frame.
StackInv ==
    /\ ControlStack
    /\ \A i \in 1 .. Len(control) :
          control[i].op = "with" => control[i].mark = Len(dynamic) - Len(control) + i

\* The pushes and pops of a lexical or closure stack keep its type.
LEMMA LexicalType ==
    ASSUME TypeOK, NEW f \in Lambdas
    PROVE  /\ \A addr \in StackAddrs \cup HeapAddrs :
                 LexicalContextPush(f, addr) =>
                   lexical' \in [Lambdas -> Seq(StackAddrs \cup HeapAddrs)]
           /\ LexicalContextPop(f) =>
                 lexical' \in [Lambdas -> Seq(StackAddrs \cup HeapAddrs)]
  <1> DEFINE A == StackAddrs \cup HeapAddrs
  <1>1. lexical \in [Lambdas -> Seq(A)] /\ lexical[f] \in Seq(A)
    BY DEF TypeOK
  <1>2. \A addr \in A : Append(lexical[f], addr) \in Seq(A)
    BY <1>1, AppendProperties
  <1>3. DropLast(lexical[f]) \in Seq(A)
    BY <1>1, DropLastSeq
  <1> QED
    BY <1>1, <1>2, <1>3 DEF LexicalContextPush, LexicalContextPop

\* ctx.closures keeps its type when one of its stacks is replaced.
LEMMA ClosuresType ==
    ASSUME TypeOK, NEW fr \in Captured
    PROVE  /\ \A h \in HeapAddrs :
                 [closures EXCEPT ![fr] = Append(closures[fr], h)]
                    \in [Captured -> Seq(HeapAddrs)]
           /\ [closures EXCEPT ![fr] = DropLast(closures[fr])]
                    \in [Captured -> Seq(HeapAddrs)]
  <1>1. closures \in [Captured -> Seq(HeapAddrs)] /\ closures[fr] \in Seq(HeapAddrs)
    BY DEF TypeOK
  <1>2. \A h \in HeapAddrs : Append(closures[fr], h) \in Seq(HeapAddrs)
    BY <1>1, AppendProperties
  <1>3. DropLast(closures[fr]) \in Seq(HeapAddrs)
    BY <1>1, DropLastSeq
  <1> QED
    BY <1>1, <1>2, <1>3

\* The captured frame a lex-psh or lex-pop is about to handle.
LEMMA NextSlot ==
    ASSUME TypeOK, control # <<>>, Top.op = "closure", Top.mark < NumSlots(Top)
    PROVE  /\ Top.fn \in Closures /\ Top.mark \in Nat
           /\ Top.mark + 1 \in Slots(Top.fn)
           /\ CapturedFns[Top.fn][Top.mark + 1] \in Lambdas
           /\ <<Top.fn, Top.mark + 1>> \in Captured
           /\ NumSlots(Top) \in Nat
           /\ Top.mark + 1 \in SlotNumbers
  <1>1. Top \in Activations
    BY ElementOfSeq, EmptySeq DEF Top, TypeOK
  <1>2. Top.fn \in Closures /\ Top.mark \in Nat
    BY <1>1, ActivationOps
  <1>3. NumSlots(Top) \in Nat /\ Slots(Top.fn) = 1 .. NumSlots(Top)
    BY <1>2, SlotTypes DEF NumSlots
  <1>4. Top.mark + 1 \in Slots(Top.fn)
    BY <1>2, <1>3
  <1> QED
    BY <1>2, <1>3, <1>4, SlotTypes

\* An empty context has the right types.
LEMMA TypeInit == Init => TypeOK
  <1> SUFFICES ASSUME Init PROVE TypeOK
    OBVIOUS
  <1>1. Len(<<>>) = 0 /\ \A S : <<>> \in Seq(S)
    BY EmptySeq
  <1>2. MaxDepth \in Nat
    BY ContextAssumption
  <1> QED
    BY <1>1, <1>2 DEF Init, TypeOK

\* No operation of the context breaks a type.
LEMMA TypeStep == TypeOK /\ StackInv /\ [Next]_vars => TypeOK'
  <1> SUFFICES ASSUME TypeOK, StackInv, [Next]_vars PROVE TypeOK'
    OBVIOUS
  <1>a. Len(control) \in Nat /\ Len(dynamic) \in Nat
    BY DEF TypeOK
  <1>b. ASSUME NEW act, Enter(act) PROVE Len(control) + 1 \in StackAddrs
    BY <1>a, <1>b, ContextAssumption DEF Enter, StackAddrs
  <1>1. ASSUME NEW f \in Lambdas, CallLambda(f) PROVE TypeOK'
    <2>1. Lambda(f) \in Activations /\ Lambda(f).op = "lambda" /\ Enter(Lambda(f))
      BY <1>1, NewActivations DEF CallLambda, Lambda
    <2>2. lexical' \in [Lambdas -> Seq(StackAddrs \cup HeapAddrs)]
      BY <1>1, <1>b, <2>1, LexicalType DEF CallLambda
    <2> QED
      BY <1>1, <2>1, <2>2, EnterControl DEF TypeOK, CallLambda
  <1>2. CASE CallPlain
    <2>1. Plain \in Activations /\ Plain.op = "plain" /\ Enter(Plain)
      BY <1>2, NewActivations DEF CallPlain, Plain
    <2> QED
      BY <1>2, <2>1, EnterControl DEF TypeOK, CallPlain
  <1>3. CASE CallWith
    <2> DEFINE m == Len(dynamic) + 1
    <2>1. With(m) \in Activations /\ With(m).op = "with" /\ Enter(With(m))
      BY <1>3, <1>a, NewActivations DEF CallWith, With
    <2> QED
      BY <1>3, <2>1, EnterControl DEF TypeOK, CallWith
  <1>4. ASSUME NEW c \in Closures, CallClosure(c) PROVE TypeOK'
    <2>1. /\ Closure(c) \in Activations /\ Enter(Closure(c))
          /\ Closure(c).mark <= NumSlots(Closure(c))
      BY <1>4, NewActivations, SlotTypes DEF CallClosure, Closure, NumSlots
    <2>2. lexical' \in [Lambdas -> Seq(StackAddrs \cup HeapAddrs)]
      BY <1>4, <1>b, <2>1, LexicalType, ContextAssumption DEF CallClosure
    <2> QED
      BY <1>4, <2>1, <2>2, EnterControl DEF TypeOK, CallClosure
  <1>5. CASE Return
    <2>1. dynamic' \in Seq(StackAddrs)
      BY <1>5, ReturnControl, DropLastSeq DEF TypeOK
    <2>2. lexical' \in [Lambdas -> Seq(StackAddrs \cup HeapAddrs)]
      <3>1. CASE Top.op \in {"lambda", "closure"}
        BY <1>5, <3>1, ReturnControl, LexicalType DEF Return
      <3>2. CASE Top.op \notin {"lambda", "closure"}
        BY <1>5, <3>2 DEF Return, TypeOK
      <3> QED
        BY <3>1, <3>2
    <2>3. Len(control') <= MaxDepth
      BY <1>5, <1>a, ReturnControl, ContextAssumption DEF TypeOK
    <2>4. \A i \in 1 .. Len(control') :
            control'[i].op = "closure" => control'[i].mark <= NumSlots(control'[i])
      <3> TAKE i \in 1 .. Len(control')
      <3>1. i \in 1 .. Len(control) /\ control'[i] = control[i]
        BY <1>5, ReturnControl
      <3> QED
        BY <3>1 DEF TypeOK, NumSlots
    <2> QED
      BY <1>5, <2>1, <2>2, <2>3, <2>4, ReturnControl DEF TypeOK, Return
  <1>6. ASSUME NEW c \in Closures, MakeClosure(c) PROVE TypeOK'
    BY <1>6 DEF MakeClosure, TypeOK, Captured
  <1>7. CASE FramePush
    <2>1. /\ control # <<>> /\ Top.op = "closure" /\ Top.mark < NumSlots(Top)
          /\ Advance
      BY <1>7 DEF FramePush
    <2> DEFINE i == Top.mark + 1
               f == CapturedFns[Top.fn][i]
               fr == <<Top.fn, i>>
    <2>2. f \in Lambdas /\ fr \in Captured
      BY <2>1, NextSlot
    <2>3. PICK h \in HeapAddrs :
             /\ closures' = [closures EXCEPT ![fr] = Append(closures[fr], h)]
             /\ LexicalContextPush(f, h)
      BY <1>7 DEF FramePush
    <2>4. closures' \in [Captured -> Seq(HeapAddrs)]
      BY <2>2, <2>3, ClosuresType
    <2>5. lexical' \in [Lambdas -> Seq(StackAddrs \cup HeapAddrs)]
      BY <2>2, <2>3, LexicalType
    <2> QED
      BY <1>7, <2>1, <2>4, <2>5, AdvanceControl DEF FramePush, TypeOK
  <1>8. CASE FramePop
    <2>1. /\ control # <<>> /\ Top.op = "closure" /\ Top.mark < NumSlots(Top)
          /\ Advance
      BY <1>8 DEF FramePop
    <2> DEFINE i == Top.mark + 1
               f == CapturedFns[Top.fn][i]
               fr == <<Top.fn, i>>
    <2>2. f \in Lambdas /\ fr \in Captured
      BY <2>1, NextSlot
    <2>3. /\ closures' = [closures EXCEPT ![fr] = DropLast(closures[fr])]
          /\ LexicalContextPop(f)
      BY <1>8 DEF FramePop
    <2>4. closures' \in [Captured -> Seq(HeapAddrs)]
      BY <2>2, <2>3, ClosuresType
    <2>5. lexical' \in [Lambdas -> Seq(StackAddrs \cup HeapAddrs)]
      BY <2>2, <2>3, LexicalType
    <2> QED
      BY <1>8, <2>1, <2>4, <2>5, AdvanceControl DEF FramePop, TypeOK
  <1>9. CASE RaiseCaught
    <2>1. PICK h \in 1 .. Len(control) :
             /\ control[h].op = "with"
             /\ control' \in Seq(Activations) /\ Len(control') = h
             /\ control'[h].op = "with" /\ control[h].mark \in Nat
             /\ \A i \in 1 .. h - 1 : control'[i] = control[i]
             /\ dynamic' = SubSeq(dynamic, 1, control[h].mark)
      BY <1>9, CaughtControl
    <2>2. Len(control') <= MaxDepth
      BY <1>a, <2>1, ContextAssumption DEF TypeOK
    <2>3. \A i \in 1 .. Len(control') :
            control'[i].op = "closure" => control'[i].mark <= NumSlots(control'[i])
      <3>1. \A i \in 1 .. Len(control) :
              control[i].op = "closure" => control[i].mark <= NumSlots(control[i])
        BY <1>a DEF TypeOK
      <3>2. Len(control) \in Nat
        BY <1>a, LenProperties DEF TypeOK
      <3>3. \A i \in 1 .. Len(control') :
              control'[i].op = "with" \/ (i \in 1 .. Len(control) /\ control'[i] = control[i])
        BY <2>1, <3>2
      <3> QED
        BY <3>1, <3>3
    <2>4. control[h].mark <= Len(dynamic)
      BY <1>a, <2>1 DEF StackInv, ControlStack
    <2>5. \A i \in 1 .. control[h].mark : dynamic[i] \in StackAddrs
      BY <1>a, <2>1, <2>4, ElementOfSeq DEF TypeOK
    <2>6. dynamic' \in Seq(StackAddrs)
      BY <2>1, <2>5, SubSeqProperties
    <2> QED
      BY <1>9, <2>1, <2>2, <2>3, <2>6 DEF TypeOK, RaiseCaught
  <1>10. ASSUME NEW throwp \in BOOLEAN, RaiseUncaught(throwp) PROVE TypeOK'
    <2>1. Len(<<>>) = 0 /\ <<>> \in Seq(Activations) /\ 0 <= MaxDepth
      BY EmptySeq, ContextAssumption
    <2> QED
      BY <1>10, <2>1 DEF TypeOK, RaiseUncaught
  <1>11. CASE PopThroughDeadFrame \/ UNCHANGED vars
    BY <1>11 DEF PopThroughDeadFrame, vars, TypeOK, NumSlots
  <1> QED
    BY <1>1, <1>2, <1>3, <1>4, <1>5, <1>6, <1>7, <1>8, <1>9, <1>10, <1>11 DEF Next

\* The empty control stack is exact.
LEMMA StackInit == Init => StackInv
  <1> SUFFICES ASSUME Init PROVE StackInv
    OBVIOUS
  <1>1. Len(control) = 0 /\ Len(dynamic) = 0
    BY EmptySeq DEF Init
  <1> QED
    BY <1>1 DEF StackInv, ControlStack

\* A call pushes on both stacks at once, with-ex with the right mark.
LEMMA StackEnter ==
    ASSUME TypeOK, StackInv, NEW a \in Activations, Enter(a),
           a.op = "closure" => a.mark <= NumSlots(a),
           a.op = "with" => a.mark = Len(dynamic) + 1
    PROVE  StackInv'
  <1> DEFINE n == Len(control)
             d == Len(dynamic)
  <1>1. n \in Nat /\ d \in Nat /\ n <= d
    BY DEF TypeOK, StackInv, ControlStack
  <1>2. /\ Len(control') = n + 1 /\ Len(dynamic') = d + 1
        /\ control'[n + 1] = a
        /\ \A i \in 1 .. n : control'[i] = Caller[i]
        /\ dynamic'[d + 1] = n + 1
        /\ \A i \in 1 .. d : dynamic'[i] = dynamic[i]
    BY EnterControl
  <1>3. ASSUME NEW i \in 1 .. n
        PROVE  /\ dynamic'[d - n + i] = i
               /\ Caller[i].op = "with" => Caller[i].mark = d - n + i
    <2>1. dynamic[d - n + i] = i /\ d - n + i \in 1 .. d
      BY <1>1 DEF StackInv, ControlStack
    <2>2. control[i] \in Activations
      BY DEF TypeOK
    <2>3. Caller[i].op = "with" => Caller[i].mark = control[i].mark
      BY <2>2, CallerType, CalledType
    <2> QED
      BY <1>2, <2>1, <2>3, CallerType DEF StackInv
  <1> HIDE DEF n, d
  <1>4. a.op = "with" => a.mark = d + 1
    BY DEF d
  <1>5. \A i \in 1 .. n + 1 : i \in 1 .. n \/ i = n + 1
    BY <1>1
  <1>6. \A i \in 1 .. n + 1 : dynamic'[(d + 1) - (n + 1) + i] = i
    <2> TAKE i \in 1 .. n + 1
    <2>1. (d + 1) - (n + 1) + i = d - n + i /\ (i = n + 1 => d - n + i = d + 1)
      BY <1>1
    <2> QED
      BY <1>2, <1>3, <1>5, <2>1
  <1>7. \A i \in 1 .. n + 1 :
          control'[i].op = "with" => control'[i].mark = (d + 1) - (n + 1) + i
    <2> TAKE i \in 1 .. n + 1
    <2>1. (d + 1) - (n + 1) + i = d - n + i /\ (i = n + 1 => d - n + i = d + 1)
      BY <1>1
    <2> QED
      BY <1>2, <1>3, <1>4, <1>5, <2>1
  <1> QED
    BY <1>1, <1>2, <1>6, <1>7 DEF StackInv, ControlStack

\* Every call, return and raise keeps the control stack exact.
LEMMA StackStep == TypeOK /\ StackInv /\ [Next]_vars => StackInv'
  <1> SUFFICES ASSUME TypeOK, StackInv, [Next]_vars PROVE StackInv'
    OBVIOUS
  <1>a. Len(control) \in Nat /\ Len(dynamic) \in Nat
    BY DEF TypeOK
  <1>1. ASSUME NEW f \in Lambdas, CallLambda(f) PROVE StackInv'
    <2>1. Lambda(f) \in Activations /\ Lambda(f).op = "lambda" /\ Enter(Lambda(f))
      BY <1>1, NewActivations DEF CallLambda, Lambda
    <2> QED
      BY <2>1, StackEnter
  <1>2. CASE CallPlain
    <2>1. Plain \in Activations /\ Plain.op = "plain" /\ Enter(Plain)
      BY <1>2, NewActivations DEF CallPlain, Plain
    <2> QED
      BY <2>1, StackEnter
  <1>3. CASE CallWith
    <2> DEFINE m == Len(dynamic) + 1
    <2>1. /\ With(m) \in Activations /\ With(m).op = "with" /\ With(m).mark = m
          /\ Enter(With(m))
      BY <1>3, <1>a, NewActivations DEF CallWith, With
    <2> QED
      BY <2>1, StackEnter
  <1>4. ASSUME NEW c \in Closures, CallClosure(c) PROVE StackInv'
    <2>1. /\ Closure(c) \in Activations /\ Closure(c).op = "closure"
          /\ Enter(Closure(c)) /\ Closure(c).mark <= NumSlots(Closure(c))
      BY <1>4, NewActivations, SlotTypes DEF CallClosure, Closure, NumSlots
    <2> QED
      BY <2>1, StackEnter
  <1>5. CASE Return
    <2>1. dynamic # <<>> /\ Len(control) >= 1
      BY <1>5, <1>a, EmptySeq, ReturnControl DEF StackInv, ControlStack
    <2>2. /\ Len(dynamic') = Len(dynamic) - 1
          /\ \A i \in 1 .. Len(dynamic) - 1 : dynamic'[i] = dynamic[i]
      BY <1>5, <2>1, ReturnControl, DropLastSeq DEF TypeOK
    <2> DEFINE n == Len(control')
               b == Len(dynamic) - Len(control)
    <2>3. n \in Nat /\ n + 1 = Len(control) /\ Len(dynamic') - n = b /\ b \in Nat
      <3>1. n = Len(control) - 1
        BY <1>5, ReturnControl
      <3>2. Len(control) <= Len(dynamic)
        BY DEF StackInv, ControlStack
      <3> QED
        BY <1>a, <2>1, <2>2, <3>1, <3>2
    <2>4. ASSUME NEW i \in 1 .. n
          PROVE  /\ control'[i] = control[i] /\ i \in 1 .. Len(control)
                 /\ dynamic'[b + i] = dynamic[b + i]
      <3>1. i \in 1 .. Len(control) /\ i \in 1 .. Len(control) - 1
        BY <1>a, <2>3
      <3>2. b + i \in 1 .. Len(dynamic) - 1
        BY <1>a, <2>1, <2>2, <2>3
      <3>3. control'[i] = control[i]
        BY <1>5, <3>1, ReturnControl
      <3> QED
        BY <2>2, <3>1, <3>2, <3>3
    <2>5. ASSUME NEW i \in 1 .. n
          PROVE  /\ dynamic[b + i] = i
                 /\ control'[i].op = "with" => control'[i].mark = b + i
      BY <2>4 DEF StackInv, ControlStack
    <2>6. n <= Len(dynamic')
      BY <2>1, <2>2, <2>3
    <2> HIDE DEF b
    <2> QED
      BY <2>3, <2>4, <2>5, <2>6 DEF StackInv, ControlStack
  <1>6. ASSUME NEW c \in Closures, MakeClosure(c) PROVE StackInv'
    BY <1>6 DEF MakeClosure, StackInv, ControlStack
  <1>7. ASSUME control # <<>>, Top.op = "closure", Top.mark < NumSlots(Top),
               Advance, UNCHANGED dynamic
        PROVE  StackInv'
    <2>1. \A i \in 1 .. Len(control) : i # Len(control) => i \in 1 .. Len(control) - 1
      BY <1>a
    <2> QED
      BY <1>7, <2>1, AdvanceControl DEF StackInv, ControlStack
  <1>8. CASE FramePush
    BY <1>7, <1>8 DEF FramePush
  <1>9. CASE FramePop
    BY <1>7, <1>9 DEF FramePop
  <1>10. CASE RaiseCaught
    <2> DEFINE b == Len(dynamic) - Len(control)
    <2>1. PICK h \in 1 .. Len(control) :
             /\ control[h].op = "with"
             /\ Len(control') = h
             /\ control'[h].op = "with" /\ control'[h].mark = control[h].mark
             /\ \A i \in 1 .. h - 1 : control'[i] = control[i]
             /\ dynamic' = SubSeq(dynamic, 1, control[h].mark)
      BY <1>10, CaughtControl
    <2>2. control[h].mark = b + h /\ b \in Nat
      BY <1>a, <2>1 DEF StackInv, ControlStack
    <2>3. b + h \in 1 .. Len(dynamic)
      BY <1>a, <2>2
    <2>4. /\ Len(dynamic') = b + h
          /\ \A i \in 1 .. b + h : dynamic'[i] = dynamic[i]
      BY <1>a, <2>1, <2>2, <2>3 DEF TypeOK
    <2>5. \A i \in 1 .. h : dynamic[b + i] = i /\ b + i \in 1 .. b + h
      BY <1>a, <2>2 DEF StackInv, ControlStack
    <2>6. \A i \in 1 .. h :
            control'[i].op = "with" => control'[i].mark = b + i
      <3> TAKE i \in 1 .. h
      <3>1. CASE i = h
        BY <2>1, <2>2, <3>1
      <3>2. CASE i \in 1 .. h - 1
        <4>1. control'[i] = control[i] /\ i \in 1 .. Len(control)
          BY <1>a, <2>1, <3>2
        <4> QED
          BY <4>1 DEF StackInv
      <3> QED
        BY <1>a, <3>1, <3>2
    <2> HIDE DEF b
    <2>7. Len(dynamic') - Len(control') = b /\ h <= b + h
      BY <1>a, <2>1, <2>2, <2>4
    <2> QED
      BY <2>1, <2>2, <2>4, <2>5, <2>6, <2>7 DEF StackInv, ControlStack
  <1>11. ASSUME NEW throwp \in BOOLEAN, RaiseUncaught(throwp) PROVE StackInv'
    <2>1. Len(control') = 0 /\ Len(dynamic') \in Nat
      BY <1>11, <1>a, EmptySeq DEF RaiseUncaught
    <2> QED
      BY <2>1 DEF StackInv, ControlStack
  <1>12. CASE PopThroughDeadFrame \/ UNCHANGED vars
    BY <1>12 DEF PopThroughDeadFrame, vars, StackInv, ControlStack
  <1> QED
    BY <1>1, <1>2, <1>3, <1>4, <1>5, <1>6, <1>8, <1>9, <1>10, <1>11, <1>12 DEF Next

\* Types and the control stack, which need each other, hold together.
LEMMA StackTyped == Spec => [](TypeOK /\ StackInv)
  <1> QED
    BY TypeInit, TypeStep, StackInit, StackStep, PTL DEF Spec

\* The context's stacks always hold what the code puts in them, and no closure
\* call counts past its captured frames.
THEOREM TypeCorrect == Spec => []TypeOK
  <1> QED
    BY StackTyped, PTL

\* Calls, returns and caught exceptions in any order leave in ctx.dynamic, above
\* what mu_with_exception abandoned, exactly the live activations.
THEOREM ControlStackCorrect == Spec => []ControlStack
  <1>1. StackInv => ControlStack
    BY DEF StackInv
  <1> QED
    BY <1>1, StackTyped, PTL

-----------------------------------------------------------------------------
(* No pop meets an empty stack.  PopsHaveFrames is not inductive: that a    *)
(* stack is not empty says nothing of the entries below.  What the steps    *)
(* preserve is a count: a stack has at least as many entries as there are   *)
(* live activations that still have to pop one.  Exceptions only forget     *)
(* activations, which keeps the inequality and loses the equality.          *)

CountInv ==
    /\ \A f \in Lambdas :
          IsFiniteSet(Held(f)) /\ Cardinality(Held(f)) <= Len(lexical[f])
    /\ \A fr \in Captured :
          IsFiniteSet(Holders(fr)) /\ Cardinality(Holders(fr)) <= Len(closures[fr])

\* A part of a set counts no more.
LEMMA CountSubset ==
    ASSUME NEW S, NEW T, T \subseteq S, NEW n \in Nat,
           IsFiniteSet(S), Cardinality(S) <= n
    PROVE  IsFiniteSet(T) /\ Cardinality(T) <= n /\ Cardinality(T) \in Nat
  <1>1. T \in SUBSET S
    OBVIOUS
  <1>2. IsFiniteSet(T) /\ Cardinality(T) <= Cardinality(S)
    BY <1>1, FS_Subset
  <1>3. Cardinality(S) \in Nat /\ Cardinality(T) \in Nat
    BY <1>2, FS_CardinalityType
  <1> QED
    BY <1>2, <1>3

\* A set that gains at most one element counts at most one more.
LEMMA CountAdd ==
    ASSUME NEW S, NEW x, NEW T, T \subseteq S \cup {x}, NEW n \in Nat,
           IsFiniteSet(S), Cardinality(S) <= n
    PROVE  IsFiniteSet(T) /\ Cardinality(T) <= n + 1
  <1>1. Cardinality(S) \in Nat
    BY FS_CardinalityType
  <1>2. /\ IsFiniteSet(S \cup {x})
        /\ Cardinality(S \cup {x}) =
             IF x \in S THEN Cardinality(S) ELSE Cardinality(S) + 1
    BY FS_AddElement
  <1>3. Cardinality(S \cup {x}) <= n + 1 /\ n + 1 \in Nat
    BY <1>1, <1>2
  <1> QED
    BY <1>2, <1>3, CountSubset

\* A set that loses an element counts one less.
LEMMA CountRemove ==
    ASSUME NEW S, NEW x \in S, NEW T, T \subseteq S \ {x}, NEW n \in Nat,
           IsFiniteSet(S), Cardinality(S) <= n
    PROVE  IsFiniteSet(T) /\ Cardinality(T) <= n - 1 /\ n >= 1
  <1>1. /\ IsFiniteSet(S \ {x}) /\ Cardinality(S \ {x}) = Cardinality(S) - 1
        /\ Cardinality(S) \in Nat /\ Cardinality(S \ {x}) \in Nat
    BY FS_RemoveElement, FS_CardinalityType
  <1>2. n - 1 \in Nat /\ Cardinality(S \ {x}) <= n - 1
    BY <1>1
  <1> QED
    BY <1>1, <1>2, CountSubset

\* What each kind of activation has entered on the lexical stacks.
LEMMA EnteredCases ==
    ASSUME NEW a \in Activations
    PROVE  /\ a.op = "lambda" => Entered(a) = {0}
           /\ a.op \in {"plain", "with"} => Entered(a) = {}
           /\ a.op = "closure" /\ a.phase = "push" => Entered(a) = 0 .. a.mark
           /\ a.op = "closure" /\ a.phase = "pop" =>
                Entered(a) = {0} \cup (a.mark + 1 .. NumSlots(a))
  <1>1. "lambda" # "closure" /\ "plain" # "closure" /\ "with" # "closure"
        /\ "plain" # "lambda" /\ "with" # "lambda" /\ "push" # "pop"
    OBVIOUS
  <1> QED
    BY <1>1 DEF Entered

\* A call does not change what the caller has entered: funcall-closure, when it
\* calls the function, stops pushing and has everything still to pop.
LEMMA CallerEntered ==
    ASSUME TypeOK, Calling, NEW i \in 1 .. Len(control)
    PROVE  /\ Entered(Caller[i]) = Entered(control[i])
           /\ \A k : LambdaOf(Caller[i], k) = LambdaOf(control[i], k)
  <1> DEFINE a == control[i]
             b == Caller[i]
  <1>1. /\ a \in Activations /\ b \in Activations /\ b.op = a.op /\ b.fn = a.fn
        /\ i # Len(control) => b = a
        /\ i = Len(control) => b = Called(a)
    BY CallerType DEF TypeOK
  <1>2. \A k : LambdaOf(b, k) = LambdaOf(a, k)
    BY <1>1 DEF LambdaOf, ReturnedLambda
  <1>3. Entered(b) = Entered(a)
    <2>1. CASE i # Len(control)
      BY <1>1, <2>1
    <2>2. CASE i = Len(control) /\ a.op # "closure"
      <3>1. a.op \in {"plain", "lambda", "with"} /\ b.op \in {"plain", "lambda", "with"}
        BY <1>1, <2>2, ActivationOps
      <3> QED
        BY <1>1, <3>1, EnteredCases
    <2>3. CASE i = Len(control) /\ a.op = "closure"
      <3>1. MayCall(a)
        BY <2>3, EmptySeq DEF Calling, Top, TypeOK
      <3>2. a.phase = "push" /\ a.mark = NumSlots(a)
        BY <2>3, <3>1 DEF MayCall
      <3>3. a \in [op : {"closure"}, fn : Closures, mark : Nat, phase : {"push", "pop"}]
        BY <1>1, <2>3 DEF Activations, Plain, Lambda
      <3>4. b = [a EXCEPT !.phase = "pop", !.mark = 0]
        BY <1>1, <2>3, <3>2 DEF Called
      <3>5. b.op = "closure" /\ b.phase = "pop" /\ b.mark = 0 /\ NumSlots(b) = NumSlots(a)
        BY <3>3, <3>4 DEF NumSlots
      <3>6. NumSlots(a) \in Nat
        BY <3>3, SlotTypes DEF NumSlots
      <3>7. Entered(a) = 0 .. NumSlots(a)
        BY <1>1, <2>3, <3>2, EnteredCases
      <3>8. Entered(b) = {0} \cup (0 + 1 .. NumSlots(a))
        BY <1>1, <3>5, EnteredCases
      <3> QED
        BY <3>6, <3>7, <3>8
    <2> QED
      BY <2>1, <2>2, <2>3
  <1> QED
    BY <1>2, <1>3

\* An activation that starts with at most its own frame entered.
LEMMA HeldEnter ==
    ASSUME TypeOK, NEW a \in Activations, Enter(a), Entered(a) \subseteq {0},
           a.op = "closure" => a.mark <= NumSlots(a)
    PROVE  /\ \A f \in Lambdas :
                 /\ Held(f)' \subseteq Held(f) \cup {<<Len(control) + 1, 0>>}
                 /\ Entered(a) = {} \/ ReturnedLambda(a) # f => Held(f)' \subseteq Held(f)
           /\ \A fr \in Captured : Holders(fr)' \subseteq Holders(fr)
  <1> DEFINE n == Len(control)
  <1>1. n \in Nat /\ Len(control') = n + 1 /\ control'[n + 1] = a
        /\ \A i \in 1 .. n : control'[i] = Caller[i]
    BY EnterControl DEF TypeOK
  <1>2. \A i \in 1 .. n :
          /\ Entered(control'[i]) = Entered(control[i])
          /\ \A k : LambdaOf(control'[i], k) = LambdaOf(control[i], k)
          /\ control'[i].op = control[i].op /\ control'[i].fn = control[i].fn
    BY <1>1, CallerEntered, CallerType DEF Enter
  <1>3. \A i \in 1 .. n + 1 : i \in 1 .. n \/ i = n + 1
    BY <1>1
  <1>4. ASSUME NEW f \in Lambdas, NEW e \in Held(f)'
        PROVE  /\ e \in Held(f) \/ e = <<n + 1, 0>>
               /\ Entered(a) = {} \/ ReturnedLambda(a) # f => e \in Held(f)
    <2>1. PICK i \in 1 .. n + 1, k \in SlotNumbers :
             e = <<i, k>> /\ k \in Entered(control'[i]) /\ LambdaOf(control'[i], k) = f
      BY <1>1, <1>4 DEF Held
    <2>2. CASE i \in 1 .. n
      BY <1>2, <2>1, <2>2 DEF Held
    <2>3. CASE i = n + 1
      <3>1. k = 0 /\ LambdaOf(a, 0) = f /\ Entered(a) # {}
        BY <1>1, <2>1, <2>3
      <3> QED
        BY <2>1, <2>3, <3>1 DEF LambdaOf
    <2> QED
      BY <1>3, <2>2, <2>3
  <1>5. ASSUME NEW fr \in Captured, NEW i \in Holders(fr)'
        PROVE  i \in Holders(fr)
    <2>1. PICK c \in Closures : fr[1] = c /\ fr[2] \in Slots(c)
      BY DEF Captured
    <2>2. fr[2] # 0
      BY <2>1, SlotTypes
    <2>3. /\ i \in 1 .. n + 1 /\ control'[i].op = "closure" /\ control'[i].fn = fr[1]
          /\ fr[2] \in Entered(control'[i])
      BY <1>1, <1>5 DEF Holders
    <2>4. i # n + 1
      BY <1>1, <2>2, <2>3
    <2> QED
      BY <1>2, <1>3, <2>3, <2>4 DEF Holders
  <1> QED
    BY <1>4, <1>5

\* An activation returns with at most its own frame to give back.
LEMMA HeldReturn ==
    ASSUME TypeOK, Return
    PROVE  /\ \A f \in Lambdas : Held(f)' \subseteq Held(f)
           /\ \A f \in Lambdas :
                Top.op \in {"lambda", "closure"} /\ f = ReturnedLambda(Top) =>
                  /\ <<Len(control), 0>> \in Held(f)
                  /\ Held(f)' \subseteq Held(f) \ {<<Len(control), 0>>}
           /\ \A fr \in Captured : Holders(fr)' \subseteq Holders(fr)
  <1> DEFINE n == Len(control)
  <1>1. /\ n \in Nat \ {0} /\ Len(control') = n - 1
        /\ Top = control[n] /\ Top \in Activations
        /\ \A i \in 1 .. n - 1 : control'[i] = control[i]
        /\ ReturnedLambda(Top) \in Lambdas
    BY ReturnControl
  <1>2. \A i \in 1 .. n - 1 : i \in 1 .. n /\ i # n
    BY <1>1
  <1>3. ASSUME NEW f \in Lambdas, NEW e \in Held(f)'
        PROVE  e \in Held(f) /\ e[1] # n
    <2>1. PICK i \in 1 .. n - 1, k \in SlotNumbers :
             e = <<i, k>> /\ k \in Entered(control'[i]) /\ LambdaOf(control'[i], k) = f
      BY <1>1, <1>3 DEF Held
    <2> QED
      BY <1>1, <1>2, <2>1 DEF Held
  <1>4. ASSUME Top.op \in {"lambda", "closure"}
        PROVE  <<n, 0>> \in Held(ReturnedLambda(Top))
    <2>1. 0 \in Entered(Top)
      BY <1>1, <1>4, EnteredCases, ActivationOps DEF Return, CanReturn
    <2>2. n \in 1 .. n /\ 0 \in SlotNumbers
      BY <1>1 DEF SlotNumbers
    <2> QED
      BY <1>1, <2>1, <2>2 DEF Held, LambdaOf
  <1>5. \A fr \in Captured : Holders(fr)' \subseteq Holders(fr)
    BY <1>1, <1>2 DEF Holders
  <1>6. \A f \in Lambdas : Held(f)' \subseteq Held(f) \ {<<n, 0>>}
    <2> SUFFICES ASSUME NEW f \in Lambdas, NEW e \in Held(f)'
                 PROVE  e \in Held(f) /\ e # <<n, 0>>
      OBVIOUS
    <2>1. e \in Held(f) /\ e[1] # n
      BY <1>3
    <2> QED
      BY <2>1
  <1>7. \A f \in Lambdas : Held(f)' \subseteq Held(f)
    BY <1>6
  <1> QED
    BY <1>1, <1>4, <1>5, <1>6, <1>7

\* lex-psh enters the next captured frame and no other.
LEMMA HeldPush ==
    ASSUME TypeOK, control # <<>>, Top.op = "closure", Top.phase = "push",
           Top.mark < NumSlots(Top), Advance
    PROVE  LET m == Top.mark + 1
           IN  /\ \A f \in Lambdas :
                    /\ Held(f)' \subseteq Held(f) \cup {<<Len(control), m>>}
                    /\ f # CapturedFns[Top.fn][m] => Held(f)' \subseteq Held(f)
               /\ \A fr \in Captured :
                    /\ Holders(fr)' \subseteq Holders(fr) \cup {Len(control)}
                    /\ fr # <<Top.fn, m>> => Holders(fr)' \subseteq Holders(fr)
  <1> DEFINE n == Len(control)
             m == Top.mark + 1
             t == control'[n]
  <1>1. /\ n \in Nat \ {0} /\ Len(control') = n
        /\ t \in Activations /\ t.op = "closure" /\ t.phase = "push"
        /\ t.fn = Top.fn /\ t.mark = m
        /\ \A i \in 1 .. n - 1 : control'[i] = control[i]
    BY AdvanceControl, ElementOfSeq
  <1>2. Top = control[n] /\ Top \in Activations /\ Top.mark \in Nat
    BY <1>1, NextSlot, ElementOfSeq DEF Top, TypeOK
  <1>3. Entered(t) = 0 .. m /\ Entered(Top) = 0 .. Top.mark
    BY <1>1, <1>2, EnteredCases
  <1>4. \A k \in Entered(t) : k \in Entered(Top) \/ k = m
    BY <1>2, <1>3
  <1>5. \A k : LambdaOf(t, k) = LambdaOf(Top, k)
    BY <1>1 DEF LambdaOf, ReturnedLambda
  <1>6. LambdaOf(t, m) = CapturedFns[Top.fn][m]
    BY <1>1, <1>2 DEF LambdaOf
  <1>7. \A i \in 1 .. n : i \in 1 .. n - 1 \/ i = n
    BY <1>1
  <1>8. ASSUME NEW f \in Lambdas, NEW e \in Held(f)'
        PROVE  e \in Held(f) \/ (e = <<n, m>> /\ f = CapturedFns[Top.fn][m])
    <2>1. PICK i \in 1 .. n, k \in SlotNumbers :
             e = <<i, k>> /\ k \in Entered(control'[i]) /\ LambdaOf(control'[i], k) = f
      BY <1>1, <1>8 DEF Held
    <2>2. CASE i \in 1 .. n - 1
      BY <1>1, <2>1, <2>2 DEF Held
    <2>3. CASE i = n
      <3>1. k \in Entered(Top) \/ k = m
        BY <1>4, <2>1, <2>3
      <3> QED
        BY <1>2, <1>5, <1>6, <2>1, <2>3, <3>1 DEF Held
    <2> QED
      BY <1>7, <2>2, <2>3
  <1>9. ASSUME NEW fr \in Captured, NEW i \in Holders(fr)'
        PROVE  i \in Holders(fr) \/ (i = n /\ fr = <<Top.fn, m>>)
    <2>1. fr = <<fr[1], fr[2]>>
      BY DEF Captured
    <2>2. /\ i \in 1 .. n /\ control'[i].op = "closure" /\ control'[i].fn = fr[1]
          /\ fr[2] \in Entered(control'[i])
      BY <1>1, <1>9 DEF Holders
    <2>3. CASE i \in 1 .. n - 1
      BY <1>1, <2>2, <2>3 DEF Holders
    <2>4. CASE i = n
      BY <1>1, <1>2, <1>4, <2>1, <2>2, <2>4 DEF Holders
    <2> QED
      BY <1>7, <2>2, <2>3, <2>4
  <1> QED
    BY <1>8, <1>9

\* lex-pop gives back the next captured frame and no other.
LEMMA HeldPop ==
    ASSUME TypeOK, control # <<>>, Top.op = "closure", Top.phase = "pop",
           Top.mark < NumSlots(Top), Advance
    PROVE  LET m == Top.mark + 1
               e == <<Len(control), m>>
           IN  /\ \A f \in Lambdas :
                    /\ Held(f)' \subseteq Held(f)
                    /\ f = CapturedFns[Top.fn][m] =>
                         e \in Held(f) /\ Held(f)' \subseteq Held(f) \ {e}
               /\ \A fr \in Captured :
                    /\ Holders(fr)' \subseteq Holders(fr)
                    /\ fr = <<Top.fn, m>> =>
                         /\ Len(control) \in Holders(fr)
                         /\ Holders(fr)' \subseteq Holders(fr) \ {Len(control)}
  <1> DEFINE n == Len(control)
             m == Top.mark + 1
             t == control'[n]
  <1>1. /\ n \in Nat \ {0} /\ Len(control') = n
        /\ t \in Activations /\ t.op = "closure" /\ t.phase = "pop"
        /\ t.fn = Top.fn /\ t.mark = m
        /\ \A i \in 1 .. n - 1 : control'[i] = control[i]
    BY AdvanceControl, ElementOfSeq
  <1>2. /\ Top = control[n] /\ Top \in Activations /\ Top.mark \in Nat
        /\ NumSlots(Top) \in Nat /\ m \in SlotNumbers
        /\ CapturedFns[Top.fn][m] \in Lambdas /\ <<Top.fn, m>> \in Captured
    BY <1>1, NextSlot, ElementOfSeq DEF Top, TypeOK
  <1>3. /\ Entered(t) = {0} \cup (m + 1 .. NumSlots(Top))
        /\ Entered(Top) = {0} \cup (m .. NumSlots(Top))
    BY <1>1, <1>2, EnteredCases DEF NumSlots
  <1>4. /\ \A k \in Entered(t) : k \in Entered(Top) /\ k # m
        /\ m \in Entered(Top)
    BY <1>2, <1>3
  <1>5. \A k : LambdaOf(t, k) = LambdaOf(Top, k)
    BY <1>1 DEF LambdaOf, ReturnedLambda
  <1>6. LambdaOf(Top, m) = CapturedFns[Top.fn][m]
    BY <1>1, <1>2 DEF LambdaOf
  <1>7. \A i \in 1 .. n : i \in 1 .. n - 1 \/ i = n
    BY <1>1
  <1>8. ASSUME NEW f \in Lambdas, NEW e \in Held(f)'
        PROVE  e \in Held(f) /\ e # <<n, m>>
    <2>1. PICK i \in 1 .. n, k \in SlotNumbers :
             e = <<i, k>> /\ k \in Entered(control'[i]) /\ LambdaOf(control'[i], k) = f
      BY <1>1, <1>8 DEF Held
    <2>2. CASE i \in 1 .. n - 1
      BY <1>1, <2>1, <2>2 DEF Held
    <2>3. CASE i = n
      BY <1>2, <1>4, <1>5, <2>1, <2>3 DEF Held
    <2> QED
      BY <1>7, <2>2, <2>3
  <1>9. ASSUME NEW fr \in Captured, NEW i \in Holders(fr)'
        PROVE  i \in Holders(fr) /\ (fr = <<Top.fn, m>> => i # n)
    <2>1. /\ i \in 1 .. n /\ control'[i].op = "closure" /\ control'[i].fn = fr[1]
          /\ fr[2] \in Entered(control'[i])
      BY <1>1, <1>9 DEF Holders
    <2>2. CASE i \in 1 .. n - 1
      BY <1>1, <2>1, <2>2 DEF Holders
    <2>3. CASE i = n
      BY <1>1, <1>2, <1>4, <2>1, <2>3 DEF Holders
    <2> QED
      BY <1>7, <2>1, <2>2, <2>3
  <1>10. n \in 1 .. n
    BY <1>1
  <1>11. <<n, m>> \in Held(CapturedFns[Top.fn][m]) /\ n \in Holders(<<Top.fn, m>>)
    BY <1>2, <1>4, <1>6, <1>10 DEF Held, Holders
  <1>12. \A f \in Lambdas : Held(f)' \subseteq Held(f) \ {<<n, m>>}
    BY <1>8
  <1>13. \A fr \in Captured :
           /\ Holders(fr)' \subseteq Holders(fr)
           /\ fr = <<Top.fn, m>> => Holders(fr)' \subseteq Holders(fr) \ {n}
    BY <1>9
  <1>14. \A f \in Lambdas : Held(f)' \subseteq Held(f)
    BY <1>12
  <1> QED
    BY <1>11, <1>12, <1>13, <1>14

\* A caught exception only forgets activations.
LEMMA HeldCaught ==
    ASSUME TypeOK, RaiseCaught
    PROVE  /\ \A f \in Lambdas : Held(f)' \subseteq Held(f)
           /\ \A fr \in Captured : Holders(fr)' \subseteq Holders(fr)
  <1>1. PICK h \in 1 .. Len(control) :
           /\ control' \in Seq(Activations) /\ Len(control') = h
           /\ control'[h].op = "with"
           /\ \A i \in 1 .. h - 1 : control'[i] = control[i]
    BY CaughtControl
  <1>2. Len(control) \in Nat
    BY DEF TypeOK
  <1>3. \A i \in 1 .. h : i = h \/ i \in 1 .. h - 1
    BY <1>2
  <1>4. \A i \in 1 .. h - 1 : i \in 1 .. Len(control)
    BY <1>2
  <1>5. control'[h] \in Activations /\ Entered(control'[h]) = {}
    <2>1. control'[h] \in Activations
      BY <1>1, <1>2, ElementOfSeq
    <2> QED
      BY <1>1, <2>1, EnteredCases
  <1>6. ASSUME NEW f \in Lambdas, NEW e \in Held(f)' PROVE e \in Held(f)
    <2>1. PICK i \in 1 .. h, k \in SlotNumbers :
             e = <<i, k>> /\ k \in Entered(control'[i]) /\ LambdaOf(control'[i], k) = f
      BY <1>1, <1>6 DEF Held
    <2>2. i \in 1 .. h - 1
      BY <1>3, <1>5, <2>1
    <2> QED
      BY <1>1, <1>4, <2>1, <2>2 DEF Held
  <1>7. ASSUME NEW fr \in Captured, NEW i \in Holders(fr)' PROVE i \in Holders(fr)
    <2>1. /\ i \in 1 .. h /\ control'[i].op = "closure" /\ control'[i].fn = fr[1]
          /\ fr[2] \in Entered(control'[i])
      BY <1>1, <1>7 DEF Holders
    <2>2. i \in 1 .. h - 1
      BY <1>3, <1>5, <2>1
    <2> QED
      BY <1>1, <1>4, <2>1, <2>2 DEF Holders
  <1> QED
    BY <1>6, <1>7

\* The lengths of the stacks after a push or a pop.
LEMMA LexicalLengths ==
    ASSUME TypeOK, NEW f \in Lambdas
    PROVE  /\ \A g \in Lambdas : Len(lexical[g]) \in Nat
           /\ \A addr \in StackAddrs \cup HeapAddrs : LexicalContextPush(f, addr) =>
                /\ Len(lexical'[f]) = Len(lexical[f]) + 1
                /\ \A g \in Lambdas : g # f => lexical'[g] = lexical[g]
           /\ LexicalContextPop(f) =>
                /\ Len(lexical[f]) >= 1 => Len(lexical'[f]) = Len(lexical[f]) - 1
                /\ \A g \in Lambdas : g # f => lexical'[g] = lexical[g]
  <1> DEFINE A == StackAddrs \cup HeapAddrs
  <1>1. lexical \in [Lambdas -> Seq(A)] /\ \A g \in Lambdas : lexical[g] \in Seq(A)
    BY DEF TypeOK
  <1>2. \A g \in Lambdas : Len(lexical[g]) \in Nat
    BY <1>1
  <1>3. \A addr \in A : Len(Append(lexical[f], addr)) = Len(lexical[f]) + 1
    BY <1>1, AppendProperties
  <1>4. Len(lexical[f]) >= 1 => Len(DropLast(lexical[f])) = Len(lexical[f]) - 1
    BY <1>1, DropLastSeq, EmptySeq
  <1> QED
    BY <1>1, <1>2, <1>3, <1>4 DEF LexicalContextPush, LexicalContextPop

\* The empty context has no held entry.
LEMMA CountInit == Init => CountInv
  <1> SUFFICES ASSUME Init PROVE CountInv
    OBVIOUS
  <1>1. Len(control) = 0
    BY EmptySeq DEF Init
  <1>2. ASSUME NEW f \in Lambdas PROVE Held(f) = {} /\ Len(lexical[f]) = 0
    BY <1>1, EmptySeq DEF Init, Held
  <1>3. ASSUME NEW fr \in Captured PROVE Holders(fr) = {} /\ Len(closures[fr]) = 0
    BY <1>1, EmptySeq DEF Init, Holders
  <1>4. IsFiniteSet({}) /\ Cardinality({}) = 0 /\ 0 <= 0
    BY FS_EmptySet
  <1>5. ASSUME NEW f \in Lambdas
        PROVE  IsFiniteSet(Held(f)) /\ Cardinality(Held(f)) <= Len(lexical[f])
    <2>1. Held(f) = {} /\ Len(lexical[f]) = 0
      BY <1>2
    <2> QED
      BY <1>4, <2>1
  <1>6. ASSUME NEW fr \in Captured
        PROVE  IsFiniteSet(Holders(fr)) /\ Cardinality(Holders(fr)) <= Len(closures[fr])
    <2>1. Holders(fr) = {} /\ Len(closures[fr]) = 0
      BY <1>3
    <2> QED
      BY <1>4, <2>1
  <1> QED
    BY <1>5, <1>6 DEF CountInv

\* Steps after which no stack has shrunk and no activation holds more.
LEMMA CountLess ==
    ASSUME TypeOK, CountInv, UNCHANGED <<lexical, closures>>,
           \A f \in Lambdas : Held(f)' \subseteq Held(f),
           \A fr \in Captured : Holders(fr)' \subseteq Holders(fr)
    PROVE  CountInv'
  <1>1. ASSUME NEW f \in Lambdas
        PROVE  IsFiniteSet(Held(f)') /\ Cardinality(Held(f)') <= Len(lexical'[f])
    BY LexicalLengths, CountSubset DEF CountInv
  <1>2. ASSUME NEW fr \in Captured
        PROVE  IsFiniteSet(Holders(fr)') /\ Cardinality(Holders(fr)') <= Len(closures'[fr])
    <2>1. Len(closures[fr]) \in Nat
      BY DEF TypeOK
    <2> QED
      BY <2>1, CountSubset DEF CountInv
  <1> QED
    BY <1>1, <1>2 DEF CountInv, Captured, Slots

\* Steps that push an entry of f and let one more be held.
LEMMA CountPush ==
    ASSUME TypeOK, CountInv, NEW f \in Lambdas, NEW e,
           NEW addr \in StackAddrs \cup HeapAddrs, LexicalContextPush(f, addr),
           \A g \in Lambdas :
              /\ Held(g)' \subseteq Held(g) \cup {e}
              /\ g # f => Held(g)' \subseteq Held(g)
    PROVE  \A g \in Lambdas :
             IsFiniteSet(Held(g)') /\ Cardinality(Held(g)') <= Len(lexical'[g])
  <1> TAKE g \in Lambdas
  <1>1. Len(lexical[g]) \in Nat /\ IsFiniteSet(Held(g)) /\ Cardinality(Held(g)) <= Len(lexical[g])
    BY LexicalLengths DEF CountInv
  <1>2. CASE g = f
    <2>1. Len(lexical'[g]) = Len(lexical[g]) + 1
      BY <1>2, LexicalLengths
    <2>2. IsFiniteSet(Held(g)') /\ Cardinality(Held(g)') <= Len(lexical[g]) + 1
      <3>1. Held(g)' \subseteq Held(g) \cup {e}
        OBVIOUS
      <3> HIDE DEF Held
      <3> QED
        BY ONLY <1>1, <3>1, CountAdd
    <2> QED
      BY <2>1, <2>2
  <1>3. CASE g # f
    <2>1. lexical'[g] = lexical[g]
      BY <1>3, LexicalLengths
    <2>2. IsFiniteSet(Held(g)') /\ Cardinality(Held(g)') <= Len(lexical[g])
      <3>1. Held(g)' \subseteq Held(g)
        BY <1>3
      <3> QED
        BY ONLY <1>1, <3>1, CountSubset
    <2> QED
      BY <2>1, <2>2
  <1> QED
    BY <1>2, <1>3

\* Steps that pop an entry of f that an activation held.
LEMMA CountPop ==
    ASSUME TypeOK, CountInv, NEW f \in Lambdas, NEW e \in Held(f),
           LexicalContextPop(f), Held(f)' \subseteq Held(f) \ {e},
           \A g \in Lambdas : Held(g)' \subseteq Held(g)
    PROVE  \A g \in Lambdas :
             IsFiniteSet(Held(g)') /\ Cardinality(Held(g)') <= Len(lexical'[g])
  <1> TAKE g \in Lambdas
  <1>1. Len(lexical[g]) \in Nat /\ IsFiniteSet(Held(g)) /\ Cardinality(Held(g)) <= Len(lexical[g])
    BY LexicalLengths DEF CountInv
  <1>2. CASE g = f
    <2>1. IsFiniteSet(Held(g)') /\ Cardinality(Held(g)') <= Len(lexical[g]) - 1
          /\ Len(lexical[g]) >= 1
      BY <1>1, <1>2, CountRemove
    <2>2. Len(lexical'[g]) = Len(lexical[g]) - 1
      BY <1>2, <2>1, LexicalLengths
    <2> QED
      BY <2>1, <2>2
  <1>3. CASE g # f
    <2>1. lexical'[g] = lexical[g]
      BY <1>3, LexicalLengths
    <2>2. IsFiniteSet(Held(g)') /\ Cardinality(Held(g)') <= Len(lexical[g])
      BY <1>1, CountSubset
    <2> QED
      BY <2>1, <2>2
  <1> QED
    BY <1>2, <1>3

\* The closure stacks are untouched and no activation holds more of them.
LEMMA CountClosures ==
    ASSUME TypeOK, CountInv, closures' = closures,
           \A fr \in Captured : Holders(fr)' \subseteq Holders(fr)
    PROVE  \A fr \in Captured :
             IsFiniteSet(Holders(fr)') /\ Cardinality(Holders(fr)') <= Len(closures'[fr])
  <1> TAKE fr \in Captured
  <1>1. Len(closures[fr]) \in Nat
    BY DEF TypeOK
  <1> QED
    BY <1>1, CountSubset DEF CountInv

\* No operation leaves more held entries than stack entries.
LEMMA CountStep == TypeOK /\ CountInv /\ [Next]_vars => CountInv'
  <1> SUFFICES ASSUME TypeOK, CountInv, [Next]_vars PROVE CountInv'
    OBVIOUS
  <1> DEFINE n == Len(control)
             Lexicals == \A g \in Lambdas :
               IsFiniteSet(Held(g)') /\ Cardinality(Held(g)') <= Len(lexical'[g])
             Frames == \A fr \in Captured :
               IsFiniteSet(Holders(fr)') /\ Cardinality(Holders(fr)') <= Len(closures'[fr])
  <1>a. Lexicals /\ Frames => CountInv'
    BY DEF CountInv, Captured, Slots
  <1>b. ASSUME NEW a, Enter(a) PROVE n + 1 \in StackAddrs
    BY <1>b, ContextAssumption DEF Enter, StackAddrs, TypeOK
  <1>1. ASSUME NEW f \in Lambdas, CallLambda(f) PROVE CountInv'
    <2>1. /\ Lambda(f) \in Activations /\ Lambda(f).op = "lambda" /\ Lambda(f).fn = f
          /\ Enter(Lambda(f)) /\ LexicalContextPush(f, n + 1) /\ closures' = closures
      BY <1>1, NewActivations DEF CallLambda, Lambda
    <2>2. Entered(Lambda(f)) \subseteq {0} /\ ReturnedLambda(Lambda(f)) = f
      BY <2>1, EnteredCases DEF ReturnedLambda
    <2>3. /\ \A g \in Lambdas :
               /\ Held(g)' \subseteq Held(g) \cup {<<n + 1, 0>>}
               /\ g # f => Held(g)' \subseteq Held(g)
          /\ \A fr \in Captured : Holders(fr)' \subseteq Holders(fr)
      BY <2>1, <2>2, HeldEnter
    <2>4. Lexicals
      <3>1. n + 1 \in StackAddrs \cup HeapAddrs
        BY <1>b, <2>1
      <3> QED
        BY <1>1, <2>1, <2>3, <3>1, CountPush
    <2>5. Frames
      BY <2>1, <2>3, CountClosures
    <2> QED
      BY <1>a, <2>4, <2>5
  <1>2. CASE CallPlain
    <2>1. Plain \in Activations /\ Plain.op = "plain" /\ Enter(Plain)
          /\ UNCHANGED <<lexical, closures>>
      BY <1>2, NewActivations DEF CallPlain, Plain
    <2>2. Entered(Plain) = {}
      BY <2>1, EnteredCases
    <2> QED
      BY <2>1, <2>2, HeldEnter, CountLess
  <1>3. CASE CallWith
    <2> DEFINE a == With(Len(dynamic) + 1)
    <2>1. a \in Activations /\ a.op = "with" /\ Enter(a) /\ UNCHANGED <<lexical, closures>>
      BY <1>3, NewActivations, SMTT(30) DEF CallWith, With, TypeOK
    <2>2. Entered(a) = {}
      BY <2>1, EnteredCases
    <2> QED
      BY <2>1, <2>2, HeldEnter, CountLess
  <1>4. ASSUME NEW c \in Closures, CallClosure(c) PROVE CountInv'
    <2> DEFINE a == Closure(c)
               f == FuncallClosure
    <2>1. /\ a \in Activations /\ a.op = "closure" /\ a.phase = "push" /\ a.mark = 0
          /\ a.mark <= NumSlots(a) /\ f \in Lambdas
          /\ Enter(a) /\ LexicalContextPush(f, n + 1) /\ closures' = closures
      BY <1>4, NewActivations, SlotTypes, ContextAssumption
      DEF CallClosure, Closure, NumSlots
    <2>2. Entered(a) \subseteq {0} /\ ReturnedLambda(a) = f
      BY <2>1, EnteredCases DEF ReturnedLambda
    <2>3. /\ \A g \in Lambdas :
               /\ Held(g)' \subseteq Held(g) \cup {<<n + 1, 0>>}
               /\ g # f => Held(g)' \subseteq Held(g)
          /\ \A fr \in Captured : Holders(fr)' \subseteq Holders(fr)
      BY <2>1, <2>2, HeldEnter
    <2>4. Lexicals
      <3>1. n + 1 \in StackAddrs \cup HeapAddrs
        BY <1>b, <2>1
      <3> QED
        BY <1>4, <2>1, <2>3, <3>1, CountPush
    <2>5. Frames
      BY <2>1, <2>3, CountClosures
    <2> QED
      BY <1>a, <2>4, <2>5
  <1>5. CASE Return
    <2>1. /\ \A f \in Lambdas : Held(f)' \subseteq Held(f)
          /\ \A fr \in Captured : Holders(fr)' \subseteq Holders(fr)
          /\ closures' = closures
      BY <1>5, HeldReturn DEF Return
    <2>2. CASE Top.op \in {"lambda", "closure"}
      <3>1. PICK f \in Lambdas : f = ReturnedLambda(Top)
        BY <1>5, ReturnControl
      <3>2. LexicalContextPop(f) /\ <<n, 0>> \in Held(f)
            /\ Held(f)' \subseteq Held(f) \ {<<n, 0>>}
        BY <1>5, <2>2, <3>1, HeldReturn DEF Return
      <3> QED
        BY <1>a, <2>1, <3>2, CountPop, CountClosures
    <2>3. CASE Top.op \notin {"lambda", "closure"}
      BY <1>5, <2>1, <2>3, CountLess DEF Return
    <2> QED
      BY <2>2, <2>3
  <1>6. ASSUME NEW c \in Closures, MakeClosure(c) PROVE CountInv'
    <2>1. \A f \in Lambdas : Held(f)' = Held(f)
      BY <1>6 DEF MakeClosure, Held
    <2>2. \A fr \in Captured : Holders(fr)' = Holders(fr)
      BY <1>6 DEF MakeClosure, Holders
    <2> QED
      BY <1>6, <2>1, <2>2, CountLess DEF MakeClosure
  <1>7. CASE FramePush
    <2>1. /\ control # <<>> /\ Top.op = "closure" /\ Top.phase = "push"
          /\ Top.mark < NumSlots(Top) /\ Advance
      BY <1>7 DEF FramePush
    <2>2. PICK m \in SlotNumbers, f \in Lambdas, fr \in Captured :
             m = Top.mark + 1 /\ f = CapturedFns[Top.fn][m] /\ fr = <<Top.fn, m>>
      BY <2>1, NextSlot
    <2>3. PICK h \in HeapAddrs :
             /\ closures' = [closures EXCEPT ![fr] = Append(closures[fr], h)]
             /\ LexicalContextPush(f, h)
      BY <1>7, <2>2 DEF FramePush
    <2>4. Lexicals
      BY <2>1, <2>2, <2>3, HeldPush, CountPush
    <2>5. Frames
      <3> SUFFICES ASSUME NEW r \in Captured
                   PROVE  /\ IsFiniteSet(Holders(r)')
                          /\ Cardinality(Holders(r)') <= Len(closures'[r])
        OBVIOUS
      <3>1. /\ Len(closures[r]) \in Nat /\ closures[r] \in Seq(HeapAddrs)
            /\ closures \in [Captured -> Seq(HeapAddrs)]
            /\ IsFiniteSet(Holders(r)) /\ Cardinality(Holders(r)) <= Len(closures[r])
        BY DEF TypeOK, CountInv
      <3>2. CASE r = fr
        <4>1. Len(closures'[r]) = Len(closures[r]) + 1
          BY <2>3, <3>1, <3>2, AppendProperties
        <4>2. Holders(r)' \subseteq Holders(r) \cup {n}
          BY <2>1, HeldPush
        <4>3. IsFiniteSet(Holders(r)') /\ Cardinality(Holders(r)') <= Len(closures[r]) + 1
          BY ONLY <3>1, <4>2, CountAdd
        <4> QED
          BY <4>1, <4>3
      <3>3. CASE r # fr
        <4>1. closures'[r] = closures[r]
          BY <2>3, <3>1, <3>3
        <4>2. Holders(r)' \subseteq Holders(r)
          BY <2>1, <2>2, <3>3, HeldPush
        <4> QED
          BY <3>1, <4>1, <4>2, CountSubset
      <3> QED
        BY <3>2, <3>3
    <2> QED
      BY <1>a, <2>4, <2>5
  <1>8. CASE FramePop
    <2>1. /\ control # <<>> /\ Top.op = "closure" /\ Top.phase = "pop"
          /\ Top.mark < NumSlots(Top) /\ Advance
      BY <1>8 DEF FramePop
    <2>2. PICK m \in SlotNumbers, f \in Lambdas, fr \in Captured :
             m = Top.mark + 1 /\ f = CapturedFns[Top.fn][m] /\ fr = <<Top.fn, m>>
      BY <2>1, NextSlot
    <2>3. /\ closures' = [closures EXCEPT ![fr] = DropLast(closures[fr])]
          /\ LexicalContextPop(f)
      BY <1>8, <2>2 DEF FramePop
    <2>4. Lexicals
      BY <2>1, <2>2, <2>3, HeldPop, CountPop
    <2>5. Frames
      <3> SUFFICES ASSUME NEW r \in Captured
                   PROVE  /\ IsFiniteSet(Holders(r)')
                          /\ Cardinality(Holders(r)') <= Len(closures'[r])
        OBVIOUS
      <3>1. /\ Len(closures[r]) \in Nat /\ closures[r] \in Seq(HeapAddrs)
            /\ closures \in [Captured -> Seq(HeapAddrs)]
            /\ IsFiniteSet(Holders(r)) /\ Cardinality(Holders(r)) <= Len(closures[r])
        BY DEF TypeOK, CountInv
      <3>2. CASE r = fr
        <4>1. n \in Holders(r) /\ Holders(r)' \subseteq Holders(r) \ {n}
          BY <2>1, <2>2, <3>2, HeldPop
        <4>2. IsFiniteSet(Holders(r)') /\ Cardinality(Holders(r)') <= Len(closures[r]) - 1
              /\ Len(closures[r]) >= 1
          BY <3>1, <4>1, CountRemove
        <4>3. closures'[r] = DropLast(closures[r]) /\ closures[r] # <<>>
          BY <2>3, <3>1, <3>2, <4>2, EmptySeq
        <4>4. Len(closures'[r]) = Len(closures[r]) - 1
          BY <3>1, <4>3, DropLastSeq
        <4> QED
          BY <4>2, <4>4
      <3>3. CASE r # fr
        <4>1. closures'[r] = closures[r]
          BY <2>3, <3>1, <3>3
        <4>2. Holders(r)' \subseteq Holders(r)
          BY <2>1, HeldPop
        <4> QED
          BY <3>1, <4>1, <4>2, CountSubset
      <3> QED
        BY <3>2, <3>3
    <2> QED
      BY <1>a, <2>4, <2>5
  <1>9. CASE RaiseCaught
    BY <1>9, HeldCaught, CountLess DEF RaiseCaught
  <1>10. ASSUME NEW throwp \in BOOLEAN, RaiseUncaught(throwp) PROVE CountInv'
    <2>1. Len(control') = 0
      BY <1>10, EmptySeq DEF RaiseUncaught
    <2>2. /\ \A f \in Lambdas : Held(f)' = {}
          /\ \A fr \in Captured : Holders(fr)' = {}
      BY <2>1 DEF Held, Holders
    <2> QED
      BY <1>10, <2>2, CountLess DEF RaiseUncaught
  <1>11. CASE PopThroughDeadFrame \/ UNCHANGED vars
    <2>1. UNCHANGED <<control, dynamic, lexical, closures>>
      BY <1>11 DEF PopThroughDeadFrame, vars
    <2>2. \A f \in Lambdas : Held(f)' = Held(f)
      BY <2>1 DEF Held
    <2>3. \A fr \in Captured : Holders(fr)' = Holders(fr)
      BY <2>1 DEF Holders
    <2> QED
      BY <2>1, <2>2, <2>3, CountLess
  <1> QED
    BY <1>1, <1>2, <1>3, <1>4, <1>5, <1>6, <1>7, <1>8, <1>9, <1>10, <1>11 DEF Next

\* Whatever calls, closure calls, returns and exceptions have happened, no pop
\* that an activation still has to make meets an empty vector: up to the first
\* closure call that reads what it has to pop through the frame of a call an
\* exception cut short, where the program's own memory ceases to be defined.
THEOREM PopsNeverUnderflow == Spec => []PopsHaveFrames
  <1>1. TypeOK /\ CountInv => PopsHaveFrames
    <2> SUFFICES ASSUME TypeOK, CountInv PROVE PopsHaveFrames
      OBVIOUS
    <2>1. ASSUME NEW f \in Lambdas, Held(f) # {} PROVE lexical[f] # <<>>
      <3>1. Cardinality(Held(f)) \in Nat /\ Cardinality(Held(f)) # 0
        BY <2>1, FS_EmptySet, FS_CardinalityType DEF CountInv
      <3>2. Len(lexical[f]) # 0
        BY <3>1, LexicalLengths DEF CountInv
      <3> QED
        BY <3>2, EmptySeq
    <2>2. ASSUME NEW fr \in Captured, Holders(fr) # {} PROVE closures[fr] # <<>>
      <3>1. Cardinality(Holders(fr)) \in Nat /\ Cardinality(Holders(fr)) # 0
        BY <2>2, FS_EmptySet, FS_CardinalityType DEF CountInv
      <3>2. Len(closures[fr]) # 0
        BY <3>1 DEF CountInv, TypeOK
      <3> QED
        BY <3>2, EmptySeq
    <2> QED
      BY <2>1, <2>2 DEF PopsHaveFrames
  <1> QED
    BY <1>1, StackTyped, CountInit, CountStep, PTL DEF Spec

=============================================================================
