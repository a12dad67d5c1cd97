----------------------------- MODULE MuContext -----------------------------
(***************************************************************************)
(* The control and lexical stacks of a libmu execution context.            *)
(*                                                                         *)
(* Env::Funcall recurses on the C++ stack.  Every invocation owns one      *)
(* Frame there, and enters its ADDRESS in ctx.dynamic and, for a lambda    *)
(* with required arguments, in ctx.lexical[frame id].  env:lex-psh enters  *)
(* heap-allocated frames for the variables a closure captured; lex-pop     *)
(* deletes them.  A libmu exception is a C++ throw: it destroys C++ stack  *)
(* frames without running the pops that follow the calls in Funcall, and   *)
(* with-ex repairs only ctx.dynamic.                                       *)
(*                                                                         *)
(* A running program is abstracted to what it may do next: call something, *)
(* return, raise, make a closure.  What is passed and returned is not kept:*)
(* the properties are about which frame a lex-ref reaches.                 *)
(***************************************************************************)
EXTENDS Integers, Sequences, FiniteSets

CONSTANTS
    Lambdas,         \* functions with required arguments: each has a frame id
    FuncallClosure,  \* core::funcall-closure, the lambda that runs closures
    Closures,        \* closure functions a program can make
    CapturedFns,     \* Closures -> Seq(Lambdas): the lambda-env of each closure
    HeapAddrs,       \* addresses `new Frame` can return
    MaxDepth,        \* bound: nested Funcalls
    MaxDynamic,      \* bound: entries of ctx.dynamic
    MaxStack,        \* bound: entries of one of the other stacks
    Raising          \* whether the programs of this instance raise exceptions

ASSUME ContextAssumption ==
    /\ FuncallClosure \in Lambdas
    /\ IsFiniteSet(Lambdas)
    /\ CapturedFns \in [Closures -> Seq(Lambdas)]
    \* an env holds one descriptor per enclosing lambda (compile-add-env)
    /\ \A c \in Closures : \A i, j \in DOMAIN CapturedFns[c] :
          CapturedFns[c][i] = CapturedFns[c][j] => i = j
    \* core:compile makes the closures, mu's compiler funcall-closure
    /\ \A c \in Closures : \A i \in DOMAIN CapturedFns[c] :
          CapturedFns[c][i] # FuncallClosure
    /\ MaxDepth \in Nat \ {0}
    /\ MaxDynamic \in Nat /\ MaxStack \in Nat
    /\ Raising \in BOOLEAN
    /\ HeapAddrs \cap Int = {}

VARIABLES
    control,   \* the C++ stack: one record per Funcall that has not returned
    dynamic,   \* ctx.dynamic: addresses of frames on the C++ stack
    lexical,   \* ctx.lexical: frame id -> addresses of frames
    closures,  \* ctx.closures: captured frame -> addresses of heap frames
    made,      \* closure functions that exist, with their captured frames
    running    \* FALSE once the process or the model has ended

vars == <<control, dynamic, lexical, closures, made, running>>

-----------------------------------------------------------------------------
(* Activations. fn is the lambda of a "lambda", the closure of a "closure"; *)
(* mark is with-ex's saved depth, or a closure's count of lex-psh/lex-pop.  *)

NoFn == FuncallClosure   \* filler for records that name no function

\* An address is the depth of a C++ stack frame or an address of the heap.
StackAddrs == 1 .. MaxDepth

\* The captured frames (cons function argv) of closure c, one per function.
Slots(c) == DOMAIN CapturedFns[c]
Captured == UNION {{c} \X Slots(c) : c \in Closures}

Plain     == [op |-> "plain", fn |-> NoFn, phase |-> "run", mark |-> 0]
Lambda(f) == [op |-> "lambda", fn |-> f, phase |-> "run", mark |-> 0]
With(m)   == [op |-> "with", fn |-> NoFn, phase |-> "begin", mark |-> m]
Closure(c) == [op |-> "closure", fn |-> c, phase |-> "push", mark |-> 0]

Top == control[Len(control)]
NumSlots(a) == Len(CapturedFns[a.fn])

\* The activation on top of the C++ stack may perform a call at this point.
MayCall(a) ==
    \/ a.op \in {"plain", "lambda"}
    \/ a.op = "with" /\ a.phase \in {"begin", "caught"}
    \/ a.op = "closure" /\ a.phase = "push" /\ a.mark = NumSlots(a)

\* With nothing on the stack it is the client of the library that evaluates.
Calling == control # <<>> => MayCall(Top)

\* Compiled code runs and may call anything; a native caller is more limited.
RunsCode == control # <<>> => Top.op \in {"plain", "lambda"}

\* The caller's own progress when it performs a call.
Called(a) ==
    CASE a.phase = "begin"  -> [a EXCEPT !.phase = "try"]
      [] a.phase = "caught" -> [a EXCEPT !.phase = "handle"]
      [] a.phase = "push"   -> [a EXCEPT !.phase = "pop", !.mark = 0]
      [] OTHER              -> a

Caller == [i \in 1 .. Len(control) |->
              IF i = Len(control) THEN Called(control[i]) ELSE control[i]]

-----------------------------------------------------------------------------
(* Stack primitives of core/context.h.                                     *)

DropLast(s) == SubSeq(s, 1, Len(s) - 1)

\* Mutant: a return path without ContextPop.
DynamicContextNoPop == UNCHANGED dynamic

DynamicContextPush(addr) == dynamic' = Append(dynamic, addr)
DynamicContextPop        == dynamic' = DropLast(dynamic)

\* Mutants: one frame per frame id, and a push at the other end.
LexicalContextReplace(f, addr) == lexical' = [lexical EXCEPT ![f] = <<addr>>]
LexicalContextPushFront(f, addr) ==
    lexical' = [lexical EXCEPT ![f] = <<addr>> \o lexical[f]]

LexicalContextPush(f, addr) ==
    lexical' = [lexical EXCEPT ![f] = Append(lexical[f], addr)]
LexicalContextPop(f) == lexical' = [lexical EXCEPT ![f] = DropLast(lexical[f])]

\* Mutant: the frame of the outermost call.
MapOldestContext(f) == lexical[f][1]

\* What a lex-ref of frame id f reads (offset 0: the newest frame).
MapLexicalContext(f) == lexical[f][Len(lexical[f])]

Init ==
    /\ control = <<>>
    /\ dynamic = <<>>
    /\ lexical = [f \in Lambdas |-> <<>>]
    /\ closures = [fr \in Captured |-> <<>>]
    /\ made = {}
    /\ running = TRUE

-----------------------------------------------------------------------------
(* Env::Funcall: the frame of the new activation is at the next depth of   *)
(* the C++ stack.  A "closure" activation stands for the nest of lambdas   *)
(* that core::funcall-closure is, with the frame that holds its `closure'. *)

Enter(a) ==
    /\ running /\ Calling
    /\ Len(control) < MaxDepth /\ Len(dynamic) < MaxDynamic
    /\ control' = Append(Caller, a)
    /\ DynamicContextPush(Len(control) + 1)

\* A lambda with required arguments; with-ex gives its thunk none, and its
\* handler one.
CallLambda(f) ==
    /\ f # FuncallClosure
    /\ control # <<>> => Top.phase # "begin"
    /\ Len(lexical[f]) < MaxStack
    /\ Enter(Lambda(f))
    /\ LexicalContextPush(f, Len(control) + 1)
    /\ UNCHANGED <<closures, made, running>>

\* A lambda of no arguments (a thunk, an `if' branch), or a native function.
CallPlain ==
    /\ Enter(Plain)
    /\ UNCHANGED <<lexical, closures, made, running>>

\* Mutants: the mark is taken before with-ex's own frame is entered, or names
\* the caller's frame.
CallWithMark(m) ==
    /\ RunsCode
    /\ Len(control) + 1 < MaxDepth
    /\ Enter(With(m))
    /\ UNCHANGED <<lexical, closures, made, running>>
CallWithEarlyMark  == CallWithMark(Len(dynamic))
CallWithCallerMark == CallWithMark(Len(dynamic) - 1)

\* mu:with-ex: mark is the dynamic depth, its own frame included.
CallWith ==
    /\ RunsCode
    /\ Len(control) + 1 < MaxDepth   \* bound: leaves room for the thunk
    /\ Enter(With(Len(dynamic) + 1))
    /\ UNCHANGED <<lexical, closures, made, running>>

\* core::funcall-closure applied to a function that has been closed.
CallClosure(c) ==
    /\ c \in made /\ RunsCode
    /\ Len(control) + 1 < MaxDepth   \* bound: leaves room for the function
    /\ Len(lexical[FuncallClosure]) < MaxStack
    /\ Enter(Closure(c))
    /\ LexicalContextPush(FuncallClosure, Len(control) + 1)
    /\ UNCHANGED <<closures, made, running>>

\* The frame ids an activation gives back when it returns.
ReturnedLambda(a) == IF a.op = "lambda" THEN a.fn ELSE FuncallClosure

CanReturn(a) ==
    \/ a.op \in {"plain", "lambda"}
    \/ a.op = "with" /\ a.phase \in {"try", "handle"}
    \/ a.op = "closure" /\ a.phase = "pop" /\ a.mark = NumSlots(a)

\* Mutant: core::funcall-closure's own frame is not given back.
ReturnKeepingClosure ==
    /\ running /\ control # <<>> /\ CanReturn(Top)
    /\ control' = DropLast(control)
    /\ DynamicContextPop
    /\ IF Top.op = "lambda" THEN LexicalContextPop(Top.fn) ELSE UNCHANGED lexical
    /\ UNCHANGED <<closures, made, running>>

Return ==
    /\ running /\ control # <<>> /\ CanReturn(Top)
    /\ control' = DropLast(control)
    /\ DynamicContextPop
    /\ IF Top.op \in {"lambda", "closure"}
         THEN LexicalContextPop(ReturnedLambda(Top))
         ELSE UNCHANGED lexical
    /\ UNCHANGED <<closures, made, running>>

-----------------------------------------------------------------------------
(* core::closure, env:lex-psh and env:lex-pop.                             *)

\* fnv-lex copies the newest frame of each enclosing function; it raises
\* "unbound" (see Raise) when one has none.
MakeClosure(c) ==
    /\ running /\ control # <<>> /\ RunsCode
    /\ c \notin made
    /\ \A i \in Slots(c) : lexical[CapturedFns[c][i]] # <<>>
    /\ made' = made \cup {c}
    /\ UNCHANGED <<control, dynamic, lexical, closures, running>>

Allocated == UNION {{closures[fr][i] : i \in DOMAIN closures[fr]} : fr \in Captured}

Advance == control' = [control EXCEPT ![Len(control)].mark = @ + 1]

FramePush ==
    /\ running /\ control # <<>>
    /\ Top.op = "closure" /\ Top.phase = "push" /\ Top.mark < NumSlots(Top)
    /\ LET i == Top.mark + 1
           f == CapturedFns[Top.fn][i]
           fr == <<Top.fn, i>>
       IN  /\ Len(lexical[f]) < MaxStack /\ Len(closures[fr]) < MaxStack
           /\ \E frame \in HeapAddrs \ Allocated :
                /\ closures' = [closures EXCEPT ![fr] = Append(closures[fr], frame)]
                /\ LexicalContextPush(f, frame)
    /\ Advance
    /\ UNCHANGED <<dynamic, made, running>>

\* Before it pops, core::funcall-closure reads `closure' again, by a lex-ref.
\* An exception caught in the call may have left the frame of another closure
\* call above its own.
ReadsItsClosure == MapLexicalContext(FuncallClosure) = Len(control)

FramePop ==
    /\ running /\ control # <<>>
    /\ Top.op = "closure" /\ Top.phase = "pop" /\ Top.mark < NumSlots(Top)
    /\ Top.mark = 0 => ReadsItsClosure
    /\ LET i == Top.mark + 1
           fr == <<Top.fn, i>>
       IN  /\ closures' = [closures EXCEPT ![fr] = DropLast(closures[fr])]
           /\ LexicalContextPop(CapturedFns[Top.fn][i])
    /\ Advance
    /\ UNCHANGED <<dynamic, made, running>>

\* What an abandoned frame names is freed memory: what lex-pop is given then,
\* and what becomes of the process, is undefined, and the model ends.
PopThroughDeadFrame ==
    /\ running /\ control # <<>>
    /\ Top.op = "closure" /\ Top.phase = "pop" /\ Top.mark = 0 /\ NumSlots(Top) > 0
    /\ ~ReadsItsClosure
    /\ running' = FALSE
    /\ UNCHANGED <<control, dynamic, lexical, closures, made>>

-----------------------------------------------------------------------------
(* Exceptions.                                                             *)

\* Activations whose try block is open.
Handlers == {i \in 1 .. Len(control) :
                control[i].op = "with" /\ control[i].phase \in {"begin", "try"}}

Innermost(S) == CHOOSE i \in S : \A j \in S : j <= i

\* Whoever may call may throw: an unbound symbol, a type error, an arity.
CanRaise == running /\ Raising /\ Calling

\* Mutant: the handler empties the lexical context.
RaiseCaughtClearing ==
    /\ CanRaise /\ Handlers # {}
    /\ LET h == Innermost(Handlers)
       IN  /\ control' = [SubSeq(control, 1, h) EXCEPT ![h].phase = "caught"]
           /\ dynamic' = SubSeq(dynamic, 1, control[h].mark)
    /\ lexical' = [f \in Lambdas |-> <<>>]
    /\ UNCHANGED <<closures, made, running>>

\* Caught by the innermost with-ex: ctx.dynamic.resize(mark), nothing else.
RaiseCaught ==
    /\ CanRaise /\ Handlers # {}
    /\ LET h == Innermost(Handlers)
       IN  /\ control' = [SubSeq(control, 1, h) EXCEPT ![h].phase = "caught"]
           /\ dynamic' = SubSeq(dynamic, 1, control[h].mark)
    /\ UNCHANGED <<lexical, closures, made, running>>

\* Caught by mu_with_exception, which repairs nothing and either returns to
\* the library's client or, with throwp, throws out of main.
RaiseUncaught(throwp) ==
    /\ CanRaise /\ Handlers = {}
    /\ control' = <<>>
    /\ running' = ~throwp
    /\ UNCHANGED <<dynamic, lexical, closures, made>>

Next ==
    \/ \E f \in Lambdas : CallLambda(f)
    \/ CallPlain
    \/ CallWith
    \/ \E c \in Closures : CallClosure(c)
    \/ Return
    \/ \E c \in Closures : MakeClosure(c)
    \/ FramePush
    \/ FramePop
    \/ PopThroughDeadFrame
    \/ RaiseCaught
    \/ \E throwp \in BOOLEAN : RaiseUncaught(throwp)

Spec == Init /\ [][Next]_vars

-----------------------------------------------------------------------------
(* Properties.                                                             *)

\* What a Funcall in progress can be, and where it can be.
Activations ==
    {Plain} \cup {Lambda(f) : f \in Lambdas}
    \cup [op : {"with"}, fn : {NoFn}, mark : Nat,
          phase : {"begin", "try", "caught", "handle"}]
    \cup [op : {"closure"}, fn : Closures, mark : Nat, phase : {"push", "pop"}]

\* Every variable has the shape the code gives it, and a closure call never
\* counts past the closure's captured frames.
TypeOK ==
    /\ control \in Seq(Activations)
    /\ Len(control) <= MaxDepth
    /\ \A i \in 1 .. Len(control) :
          control[i].op = "closure" => control[i].mark <= NumSlots(control[i])
    /\ dynamic \in Seq(StackAddrs)
    /\ lexical \in [Lambdas -> Seq(StackAddrs \cup HeapAddrs)]
    /\ closures \in [Captured -> Seq(HeapAddrs)]
    /\ made \subseteq Closures
    /\ running \in BOOLEAN

\* The lexical entries an activation has made and not yet given back: slot 0
\* is its own frame, slot k > 0 the k-th captured frame of its closure.
Entered(a) ==
    CASE a.op = "lambda" -> {0}
      [] a.op = "closure" /\ a.phase = "push" -> 0 .. a.mark
      [] a.op = "closure" /\ a.phase = "pop" -> {0} \cup (a.mark + 1 .. NumSlots(a))
      [] OTHER -> {}

LambdaOf(a, k) == IF k = 0 THEN ReturnedLambda(a) ELSE CapturedFns[a.fn][k]

SlotNumbers == {0} \cup UNION {Slots(c) : c \in Closures}

\* All entries <<activation, slot>> of frame id f that still have to be popped.
Held(f) == {e \in (1 .. Len(control)) \X SlotNumbers :
               /\ e[2] \in Entered(control[e[1]])
               /\ LambdaOf(control[e[1]], e[2]) = f}

\* The live activations that have pushed the captured frame fr.
Holders(fr) == {i \in 1 .. Len(control) :
                  /\ control[i].op = "closure" /\ control[i].fn = fr[1]
                  /\ fr[2] \in Entered(control[i])}

\* ctx.dynamic ends with exactly the frames of the live activations, in order,
\* whatever exceptions with-ex has caught (context.h:52, mu-exception.cc:84);
\* only what mu_with_exception abandoned lies below them.
ControlStack ==
    /\ Len(control) <= Len(dynamic)
    /\ \A i \in 1 .. Len(control) :
          dynamic[Len(dynamic) - Len(control) + i] = i

\* Funcall, lex-pop and return pop vectors without a test: after exceptions too,
\* an activation that still has to pop finds an entry to pop, as long as no
\* closure call has read what it pops through the frame of another that an
\* exception cut short (context.h:79, env-frame.cc:140, eval.l:19).
PopsHaveFrames ==
    /\ \A f \in Lambdas : Held(f) # {} => lexical[f] # <<>>
    /\ \A fr \in Captured : Holders(fr) # {} => closures[fr] # <<>>

\* The order in which the entries were made.
Precedes(d, e) == d[1] < e[1] \/ (d[1] = e[1] /\ d[2] <= e[2])

\* The frame of entry e, whose captured frame is the n-th on its own stack.
EntryFrame(e) ==
    IF e[2] = 0 THEN e[1]
    ELSE LET fr == <<control[e[1]].fn, e[2]>>
         IN  closures[fr][Cardinality({i \in Holders(fr) : i <= e[1]})]

\* As long as no exception has cut short an activation of f (lexical[f] has no
\* more entries than live ones), a lex-ref of f reaches the innermost one: the
\* latest call of f, or the captured frame a closure call pushed since
\* (env-frame.cc:46, compile.cc:61).  A closure call that cannot say what it
\* has to pop, for a nested one was cut short, leaves this open.
InnermostBinding ==
    \A f \in Lambdas :
        Held(f) # {} /\ Len(lexical[f]) = Cardinality(Held(f))
          => \E e \in Held(f) :
                /\ \A d \in Held(f) : Precedes(d, e)
                /\ MapLexicalContext(f) = EntryFrame(e)

\* A stack holds no address of a frame that has been destroyed: each entry is
\* the frame of a live activation of that lambda or an allocated captured one.
NoStaleFrames ==
    \A f \in Lambdas : \A n \in DOMAIN lexical[f] :
        \/ \E e \in Held(f) : e[2] = 0 /\ e[1] = lexical[f][n]
        \/ lexical[f][n] \in Allocated

\* lex-pop deletes the frame at the back of one stack and pops the back of
\* another (env-frame.cc:140-142): it is the same frame.
PopDeletesItsFrame ==
    [][FramePop =>
         LET i == Top.mark + 1
             deleted == closures[<<Top.fn, i>>]
         IN  MapLexicalContext(CapturedFns[Top.fn][i]) = deleted[Len(deleted)]]_vars
=============================================================================
