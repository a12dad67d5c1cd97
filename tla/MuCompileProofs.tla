-------------------------- MODULE MuCompileProofs --------------------------
(***************************************************************************)
(* TLAPS proofs about MuCompile, for any symbols and every bound: type      *)
(* correctness, distinct frame ids, the lexical environment, and how        *)
(* symbols are resolved in it.                                             *)
(*                                                                         *)
(* The actions are first put into four kinds (Kinds): those that make a     *)
(* lambda, those that end one, errors, and all others, which neither touch  *)
(* the lexical environment nor the lambdas on the stack.                   *)
(***************************************************************************)
EXTENDS MuCompile, FiniteSetTheorems, SequenceTheorems, WellFoundedInduction, TLAPS

-----------------------------------------------------------------------------
(* Stacks.                                                                 *)

\* What the stack holds when n functions have been made.
Cell(n) == [at : Places, fn : {NoFn}] \cup [at : BodyPlaces, fn : 1 .. n]

\* The parts of TypeOK that the proofs use.
LEMMA Typing ==
    ASSUME TypeOK
    PROVE  /\ control \in Seq(Cell(Len(functions)))
           /\ Len(control) \in Nat /\ Len(lexicals) \in Nat /\ Len(functions) \in Nat
           /\ DOMAIN control = 1 .. Len(control)
           /\ DOMAIN lexicals = 1 .. Len(lexicals)
           /\ DOMAIN functions = 1 .. Len(functions)
           /\ \A i \in DOMAIN lexicals :
                 lexicals[i] \in DOMAIN functions /\ Params(lexicals[i]) # <<>>
           /\ \A i \in DOMAIN control :
                 /\ control[i] \in Cell(Len(functions))
                 /\ control[i].fn \in 0 .. Len(functions)
           /\ \A f \in DOMAIN functions :
                 functions[f] \in [id : 1 .. FrameIds, params : LambdaLists]
  <1>1. control \in Seq(Cell(Len(functions)))
    BY DEF TypeOK, Cell
  <1>2. lexicals \in Seq({fn \in 1 .. Len(functions) : Params(fn) # <<>>})
    BY DEF TypeOK
  <1>3. functions \in Seq([id : 1 .. FrameIds, params : LambdaLists])
    BY DEF TypeOK
  <1>4. /\ Len(control) \in Nat /\ Len(lexicals) \in Nat /\ Len(functions) \in Nat
        /\ DOMAIN control = 1 .. Len(control)
        /\ DOMAIN lexicals = 1 .. Len(lexicals)
        /\ DOMAIN functions = 1 .. Len(functions)
    BY <1>1, <1>2, <1>3, LenProperties
  <1>5. \A i \in DOMAIN lexicals :
           lexicals[i] \in {fn \in 1 .. Len(functions) : Params(fn) # <<>>}
    BY <1>2, <1>4, ElementOfSeq
  <1>6. \A i \in DOMAIN control : control[i] \in Cell(Len(functions))
    BY <1>1, <1>4, ElementOfSeq
  <1>7. \A c \in Cell(Len(functions)) : c.fn \in 0 .. Len(functions)
    BY <1>4 DEF Cell, NoFn
  <1>8. \A f \in DOMAIN functions :
           functions[f] \in [id : 1 .. FrameIds, params : LambdaLists]
    BY <1>3, <1>4, ElementOfSeq
  <1> QED
    BY <1>1, <1>4, <1>5, <1>6, <1>7, <1>8

\* More functions leave the entries of a stack entries of a stack.
LEMMA CellsGrow ==
    ASSUME NEW n \in Nat, NEW s \in Seq(Cell(n))
    PROVE  s \in Seq(Cell(n + 1))
  <1>1. Cell(n) \subseteq Cell(n + 1)
    BY DEF Cell
  <1> QED
    BY <1>1, SeqMonotonic

LEMMA PlaceCell ==
    ASSUME NEW n \in Nat
    PROVE  /\ \A at \in Places : Place(at, NoFn) \in Cell(n) /\ Place(at, NoFn).fn = NoFn
           /\ \A at \in BodyPlaces : \A f \in 1 .. n :
                 Place(at, f) \in Cell(n) /\ Place(at, f).fn = f
  BY DEF Place, Cell

\* The innermost call, and the stack below it.
LEMMA TopAndBelow ==
    ASSUME TypeOK, control # <<>>
    PROVE  /\ Len(control) \in Nat \ {0}
           /\ Below \in Seq(Cell(Len(functions)))
           /\ Len(Below) = Len(control) - 1
           /\ \A i \in 1 .. Len(control) - 1 : Below[i] = control[i]
           /\ Top \in Cell(Len(functions))
           /\ Top.at \in Places => Top.fn = NoFn
           /\ Top.at \in BodyPlaces => Top.fn \in 1 .. Len(functions)
  <1>1. Len(control) \in Nat \ {0} /\ control \in Seq(Cell(Len(functions)))
    BY Typing, EmptySeq
  <1>2. \A i \in 1 .. Len(control) : control[i] \in Cell(Len(functions))
    BY <1>1, ElementOfSeq
  <1>3. /\ Below \in Seq(Cell(Len(functions)))
        /\ Len(Below) = Len(control) - 1
        /\ \A i \in 1 .. Len(control) - 1 : Below[i] = control[i]
    <2> DEFINE n == Len(control) - 1
               t == SubSeq(control, 1, n)
    <2>1. n \in Nat /\ \A i \in 1 .. n : control[i] \in Cell(Len(functions))
      BY <1>1, <1>2
    <2>2. Below = t
      BY DEF Below
    <2> HIDE DEF n
    <2>3. /\ t \in Seq(Cell(Len(functions)))
          /\ Len(t) = IF 1 <= n THEN n - 1 + 1 ELSE 0
          /\ \A i \in 1 .. n - 1 + 1 : t[i] = control[1 + i - 1]
      BY <2>1, SubSeqProperties
    <2> HIDE DEF t
    <2>4. Len(t) = n
      BY <2>1, <2>3
    <2>5. \A i \in 1 .. n : t[i] = control[i]
      BY <2>1, <2>3
    <2> QED
      BY <2>2, <2>3, <2>4, <2>5 DEF n
  <1>4. Top \in Cell(Len(functions))
    BY <1>1, <1>2 DEF Top
  <1>5. /\ Top.at \in Places => Top.fn = NoFn
        /\ Top.at \in BodyPlaces => Top.fn \in 1 .. Len(functions)
    BY <1>4 DEF Cell, Places, BodyPlaces
  <1> QED
    BY <1>1, <1>3, <1>4, <1>5

\* The stack after a call from where the innermost one stands, moved or not.
LEMMA Stacks ==
    ASSUME TypeOK, control # <<>>, NEW at \in Places, NEW n \in {Len(functions), Len(functions) + 1}
    PROVE  /\ GoTo(at) \in Seq(Cell(n)) /\ Len(GoTo(at)) = Len(control)
           /\ \A i \in 1 .. Len(control) - 1 : GoTo(at)[i] = control[i]
           /\ GoTo(at)[Len(control)].fn = NoFn
  <1>1. n \in Nat /\ Below \in Seq(Cell(n))
    BY Typing, TopAndBelow, CellsGrow
  <1>2. Place(at, NoFn) \in Cell(n) /\ Place(at, NoFn).fn = NoFn
    BY <1>1, PlaceCell
  <1>3. /\ GoTo(at) \in Seq(Cell(n))
        /\ Len(GoTo(at)) = Len(Below) + 1
        /\ \A i \in 1 .. Len(Below) : GoTo(at)[i] = Below[i]
        /\ GoTo(at)[Len(Below) + 1] = Place(at, NoFn)
    BY <1>1, <1>2, AppendProperties DEF GoTo
  <1> QED
    BY <1>2, <1>3, TopAndBelow

LEMMA CallStack ==
    ASSUME NEW n \in Nat, NEW stack \in Seq(Cell(n)), NEW at \in Places
    PROVE  /\ Call(stack, at) \in Seq(Cell(n)) /\ Len(Call(stack, at)) = Len(stack) + 1
           /\ \A i \in 1 .. Len(stack) : Call(stack, at)[i] = stack[i]
           /\ Call(stack, at)[Len(stack) + 1].fn = NoFn
  <1>1. Place(at, NoFn) \in Cell(n) /\ Place(at, NoFn).fn = NoFn
    BY PlaceCell
  <1> QED
    BY <1>1, AppendProperties DEF Call

-----------------------------------------------------------------------------
(* The four kinds of steps.                                                *)

\* The stack changes only above its first n entries, where no lambda is.
KeepsLambdas ==
    /\ UNCHANGED <<lexicals, functions, frame_id, errors>>
    /\ control' \in Seq(Cell(Len(functions)))
    /\ \E n \in 0 .. Len(control) :
          /\ n <= Len(control')
          /\ \A i \in 1 .. n : control'[i].fn = control[i].fn
          /\ \A i \in n + 1 .. Len(control) : control[i].fn = NoFn
          /\ \A i \in n + 1 .. Len(control') : control'[i].fn = NoFn

\* A new lambda is on top of the stack, in the place of a call that was none.
MakesLambda ==
    \E params \in LambdaLists :
        /\ frame_id <= FrameIds
        /\ functions' = Append(functions, [id |-> frame_id, params |-> params])
        /\ frame_id' = NextFrameId
        /\ lexicals' = Enter(params)
        /\ UNCHANGED errors
        /\ control # <<>> /\ Top.fn = NoFn
        /\ control' \in Seq(Cell(Len(functions) + 1))
        /\ Len(control') >= Len(control)
        /\ \A i \in 1 .. Len(control) - 1 : control'[i].fn = control[i].fn
        /\ \A i \in Len(control) .. Len(control') - 1 : control'[i].fn = NoFn
        /\ control'[Len(control')].fn = Len(functions) + 1

EndsLambda ==
    /\ control # <<>> /\ Top.fn # NoFn
    /\ control' = Below
    /\ lexicals' = Leave(Top.fn)
    /\ UNCHANGED <<functions, frame_id, errors>>

Fails ==
    /\ control' = <<>>
    /\ errors < MaxErrors /\ errors' = errors + 1
    /\ UNCHANGED <<lexicals, functions, frame_id>>

LEMMA ReturnKeeps ==
    ASSUME TypeOK, At(Places), NEW v, Return(v)
    PROVE  KeepsLambdas
  <1>1. control # <<>> /\ Top.at \in Places /\ control' = Below
    BY DEF At, Return
  <1>2. /\ Len(control) \in Nat \ {0}
        /\ Below \in Seq(Cell(Len(functions))) /\ Len(Below) = Len(control) - 1
        /\ \A i \in 1 .. Len(control) - 1 : Below[i] = control[i]
        /\ Top.fn = NoFn
    BY <1>1, TopAndBelow
  <1> DEFINE n == Len(control) - 1
  <1>3. n \in 0 .. Len(control) /\ n <= Len(control')
    BY <1>1, <1>2
  <1>4. \A i \in 1 .. n : control'[i].fn = control[i].fn
    BY <1>1, <1>2
  <1>5. /\ \A i \in n + 1 .. Len(control) : control[i].fn = NoFn
        /\ \A i \in n + 1 .. Len(control') : control'[i].fn = NoFn
    BY <1>1, <1>2 DEF Top
  <1>6. /\ UNCHANGED <<lexicals, functions, frame_id, errors>>
        /\ control' \in Seq(Cell(Len(functions)))
    BY <1>1, <1>2 DEF Return
  <1> QED
    BY <1>3, <1>4, <1>5, <1>6 DEF KeepsLambdas

\* From one of these places the innermost call moves, and may call another.
LEMMA MoveKeeps ==
    ASSUME TypeOK, At(Places), NEW at \in Places, NEW then \in Places,
           UNCHANGED <<lexicals, functions, frame_id, errors>>,
           control' = GoTo(at) \/ control' = Call(GoTo(at), then)
    PROVE  KeepsLambdas
  <1> DEFINE n == Len(control) - 1
             stack == GoTo(at)
  <1>1. Len(control) \in Nat \ {0} /\ Top.fn = NoFn /\ Len(functions) \in Nat
    BY TopAndBelow, Typing DEF At
  <1>2. /\ stack \in Seq(Cell(Len(functions))) /\ Len(stack) = Len(control)
        /\ \A i \in 1 .. Len(control) - 1 : stack[i] = control[i]
        /\ stack[Len(control)].fn = NoFn
    BY Stacks DEF At
  <1>3. /\ Call(stack, then) \in Seq(Cell(Len(functions)))
        /\ Len(Call(stack, then)) = Len(control) + 1
        /\ \A i \in 1 .. Len(control) : Call(stack, then)[i] = stack[i]
        /\ Call(stack, then)[Len(control) + 1].fn = NoFn
    BY <1>1, <1>2, CallStack
  <1> HIDE DEF stack
  <1>4. n \in 0 .. Len(control) /\ n <= Len(control')
    BY <1>1, <1>2, <1>3 DEF stack
  <1>5. \A i \in 1 .. n : control'[i].fn = control[i].fn
    BY <1>1, <1>2, <1>3 DEF stack
  <1>6. \A i \in n + 1 .. Len(control) : control[i].fn = NoFn
    BY <1>1 DEF Top
  <1>7. \A i \in n + 1 .. Len(control') : control'[i].fn = NoFn
    BY <1>1, <1>2, <1>3 DEF stack
  <1>8. control' \in Seq(Cell(Len(functions)))
    BY <1>2, <1>3 DEF stack
  <1> QED
    BY <1>4, <1>5, <1>6, <1>7, <1>8 DEF KeepsLambdas

\* A call on top of the stack, or of one with the same lambdas.
LEMMA CallKeeps ==
    ASSUME TypeOK, NEW at \in Places, NEW stack \in Seq(Cell(Len(functions))),
           Len(stack) = Len(control),
           \A i \in 1 .. Len(control) : stack[i].fn = control[i].fn,
           UNCHANGED <<lexicals, functions, frame_id, errors>>,
           control' = Call(stack, at)
    PROVE  KeepsLambdas
  <1> DEFINE n == Len(control)
  <1>1. Len(control) \in Nat /\ Len(functions) \in Nat
    BY Typing
  <1>2. /\ Call(stack, at) \in Seq(Cell(Len(functions)))
        /\ Len(Call(stack, at)) = Len(control) + 1
        /\ \A i \in 1 .. Len(control) : Call(stack, at)[i] = stack[i]
        /\ Call(stack, at)[Len(control) + 1].fn = NoFn
    BY <1>1, CallStack
  <1>3. n \in 0 .. Len(control) /\ n <= Len(control')
    BY <1>1, <1>2
  <1>4. \A i \in 1 .. n : control'[i].fn = control[i].fn
    BY <1>2
  <1>5. /\ \A i \in n + 1 .. Len(control) : control[i].fn = NoFn
        /\ \A i \in n + 1 .. Len(control') : control'[i].fn = NoFn
    BY <1>1, <1>2
  <1> QED
    BY <1>2, <1>3, <1>4, <1>5 DEF KeepsLambdas

\* Nothing but the flag of the process changes.
LEMMA DeadKeeps ==
    ASSUME TypeOK, UNCHANGED <<control, lexicals, functions, frame_id, errors>>
    PROVE  KeepsLambdas
  <1> DEFINE n == Len(control)
  <1>1. Len(control) \in Nat /\ control \in Seq(Cell(Len(functions)))
    BY Typing
  <1>2. n \in 0 .. Len(control) /\ n <= Len(control')
    BY <1>1
  <1>3. \A i \in n + 1 .. n : control[i].fn = NoFn
    BY <1>1
  <1> QED
    BY <1>1, <1>2, <1>3 DEF KeepsLambdas

LEMMA MakeMakes ==
    ASSUME TypeOK, At(Places), NEW params \in LambdaLists, NEW at \in BodyPlaces,
           NEW then \in Places, NEW stack, stack = Below \/ stack = GoTo(then),
           MakeLambda(params, stack, at)
    PROVE  KeepsLambdas \/ MakesLambda
  <1>1. CASE frame_id > FrameIds
    BY <1>1, DeadKeeps DEF MakeLambda
  <1>2. CASE ~(frame_id > FrameIds)
    <2> DEFINE n == Len(functions) + 1
               new == Place(at, n)
    <2>1. /\ functions' = Append(functions, [id |-> frame_id, params |-> params])
          /\ frame_id' = NextFrameId
          /\ lexicals' = Enter(params)
          /\ control' = Append(stack, new)
          /\ UNCHANGED errors
      BY <1>2 DEF MakeLambda
    <2>2. frame_id <= FrameIds
      BY <1>2, CompileAssumption DEF TypeOK
    <2>3. /\ control # <<>> /\ Top.fn = NoFn
          /\ Len(control) \in Nat \ {0} /\ n \in Nat /\ Len(functions) \in Nat
      BY TopAndBelow, Typing DEF At
    <2>4. new \in Cell(n) /\ new.fn = n
      BY <2>3, PlaceCell
    <2>5. /\ Below \in Seq(Cell(n)) /\ Len(Below) = Len(control) - 1
          /\ \A i \in 1 .. Len(control) - 1 : Below[i] = control[i]
      BY <2>3, TopAndBelow, CellsGrow
    <2>6. /\ GoTo(then) \in Seq(Cell(n)) /\ Len(GoTo(then)) = Len(control)
          /\ \A i \in 1 .. Len(control) - 1 : GoTo(then)[i] = control[i]
          /\ GoTo(then)[Len(control)].fn = NoFn
      BY <2>3, Stacks
    <2>7. /\ stack \in Seq(Cell(n)) /\ Len(stack) \in {Len(control) - 1, Len(control)}
          /\ \A i \in 1 .. Len(control) - 1 : stack[i] = control[i]
          /\ Len(stack) = Len(control) => stack[Len(control)].fn = NoFn
      BY <2>3, <2>5, <2>6
    <2> HIDE DEF n, new
    <2>8. /\ control' \in Seq(Cell(n)) /\ Len(control') = Len(stack) + 1
          /\ \A i \in 1 .. Len(stack) : control'[i] = stack[i]
          /\ control'[Len(stack) + 1] = new
      BY <2>1, <2>4, <2>7, AppendProperties
    <2>9. /\ Len(control') >= Len(control)
          /\ \A i \in 1 .. Len(control) - 1 : control'[i].fn = control[i].fn
          /\ \A i \in Len(control) .. Len(control') - 1 : control'[i].fn = NoFn
          /\ control'[Len(control')].fn = n
      BY <2>3, <2>4, <2>7, <2>8
    <2> QED
      BY <2>1, <2>2, <2>3, <2>8, <2>9 DEF MakesLambda, n
  <1> QED
    BY <1>1, <1>2

LEMMA RaiseFails ==
    ASSUME Raise
    PROVE  Fails
  BY DEF Raise, Fails

LEMMA EmptyListIsLambdaList ==
    <<>> \in LambdaLists
  <1>1. 0 \in 0 .. MaxParams
    BY CompileAssumption
  <1>2. <<>> \in [1 .. 0 -> Symbols \cup {NoSymbol}]
    OBVIOUS
  <1> QED
    BY <1>1, <1>2 DEF LambdaLists

\* Every step is of one of the four kinds.
LEMMA Kinds ==
    ASSUME TypeOK, Next
    PROVE  KeepsLambdas \/ MakesLambda \/ EndsLambda \/ Fails
  <1>1. CASE Compile
    <2>1. /\ control = <<>> /\ control' = Call(<<>>, "form")
          /\ UNCHANGED <<lexicals, functions, frame_id, errors>>
      BY <1>1 DEF Compile, Go
    <2>2. "form" \in Places /\ <<>> \in Seq(Cell(Len(functions)))
      BY EmptySeq DEF Places
    <2> QED
      BY <2>1, <2>2, CallKeeps
  <1>2. CASE Constant \/ (\E s \in Symbols : Symbol(s)) \/ Quote \/ EndList \/ EndIf
    <2>1. PICK v : Return(v)
      BY <1>2 DEF Constant, Symbol, Quote, EndList, EndIf
    <2>2. At(Places)
      BY <1>2 DEF Constant, Symbol, Quote, EndList, EndIf, At, Places
    <2> QED
      BY <2>1, <2>2, ReturnKeeps
  <1>3. CASE \/ \E s \in Symbols : CallSymbol(s)
             \/ CallFunction \/ CallList \/ If \/ (Called /\ value.is = "function")
    <2>1. PICK at \in {"list", "head", "if"}, then \in {"form", "cons"} :
             control' = GoTo(at) \/ control' = Call(GoTo(at), then)
      BY <1>3 DEF CallSymbol, CallFunction, CallList, If, Called, Go
    <2>2. At(Places) /\ UNCHANGED <<lexicals, functions, frame_id, errors>>
      BY <1>3 DEF CallSymbol, CallFunction, CallList, If, Called, Go, At, Places
    <2>3. at \in Places /\ then \in Places
      BY DEF Places
    <2> QED
      BY <2>1, <2>2, <2>3, MoveKeeps
  <1>4. CASE NextForm
    <2>1. /\ control' = Call(control, "form")
          /\ UNCHANGED <<lexicals, functions, frame_id, errors>>
      BY <1>4 DEF NextForm, Go
    <2>2. "form" \in Places /\ control \in Seq(Cell(Len(functions)))
      BY Typing DEF Places
    <2> QED
      BY <2>1, <2>2, CallKeeps
  <1>5. CASE Branch
    <2> DEFINE stack == Append(Below, Place("last", Top.fn))
    <2>1. /\ control # <<>> /\ Top.at = "branch" /\ control' = Call(stack, "form")
          /\ UNCHANGED <<lexicals, functions, frame_id, errors>>
      BY <1>5 DEF Branch, Go, At
    <2>2. /\ Len(control) \in Nat \ {0} /\ Len(functions) \in Nat
          /\ Top.fn \in 1 .. Len(functions)
          /\ Below \in Seq(Cell(Len(functions))) /\ Len(Below) = Len(control) - 1
          /\ \A i \in 1 .. Len(control) - 1 : Below[i] = control[i]
      BY <2>1, TopAndBelow, Typing DEF BodyPlaces
    <2>3. /\ Place("last", Top.fn) \in Cell(Len(functions))
          /\ Place("last", Top.fn).fn = Top.fn
      BY <2>2, PlaceCell DEF BodyPlaces
    <2>4. /\ stack \in Seq(Cell(Len(functions))) /\ Len(stack) = Len(Below) + 1
          /\ \A i \in 1 .. Len(Below) : stack[i] = Below[i]
          /\ stack[Len(Below) + 1] = Place("last", Top.fn)
      BY <2>2, <2>3, AppendProperties
    <2> HIDE DEF stack
    <2>5. Len(stack) = Len(control) /\ \A i \in 1 .. Len(control) : stack[i].fn = control[i].fn
      BY <2>2, <2>3, <2>4 DEF Top
    <2>6. "form" \in Places
      BY DEF Places
    <2> QED
      BY <2>1, <2>4, <2>5, <2>6, CallKeeps
  <1>6. CASE Tested \/ Chosen
    <2>1. PICK then \in {"then", "else"} : MakeLambda(<<>>, GoTo(then), "branch")
      BY <1>6 DEF Tested, Chosen
    <2>2. At(Places) /\ then \in Places /\ "branch" \in BodyPlaces
      BY <1>6 DEF Tested, Chosen, At, Places, BodyPlaces
    <2> QED
      BY <2>1, <2>2, MakeMakes, EmptyListIsLambdaList
  <1>7. CASE (\E list \in LambdaLists : Lambda(list)) \/ Malformed \/ Called
    <2>1. CASE Fails
      BY <2>1
    <2>2. CASE Called /\ value.is = "function"
      BY <2>2, <1>3
    <2>3. CASE \E list \in LambdaLists : Lambda(list) /\ ~Raise
      <3>1. PICK list \in LambdaLists : MakeLambda(list, Below, "body")
        BY <2>3 DEF Lambda
      <3>2. At(Places) /\ "form" \in Places /\ "body" \in BodyPlaces
        BY <2>3 DEF Lambda, At, Places, BodyPlaces
      <3> QED
        BY <3>1, <3>2, MakeMakes
    <2> QED
      BY <1>7, <2>1, <2>2, <2>3, RaiseFails DEF Malformed, Called
  <1>8. CASE EndBody
    <2>1. /\ control # <<>> /\ Top.at \in BodyPlaces /\ control' = Below
          /\ lexicals' = Leave(Top.fn) /\ UNCHANGED <<functions, frame_id, errors>>
      BY <1>8 DEF EndBody, At, BodyPlaces
    <2>2. Top.fn # NoFn
      BY <2>1, TopAndBelow, Typing DEF NoFn
    <2> QED
      BY <2>1, <2>2 DEF EndsLambda
  <1> QED
    BY <1>1, <1>2, <1>3, <1>4, <1>5, <1>6, <1>7, <1>8 DEF Next

-----------------------------------------------------------------------------
(* Resolution of a symbol in the lexical environment.                      *)

\* A nonempty set of positions has a last one.
LEMMA LastPosition ==
    ASSUME NEW n \in Nat, NEW S \in SUBSET (1 .. n), S # {}
    PROVE  \E i \in S : \A j \in S : i >= j
  <1> DEFINE T == {n - i : i \in S}
  <1>1. T \subseteq Nat /\ T # {}
    <2>1. \A i \in S : n - i \in Nat
      OBVIOUS
    <2> QED
      BY <2>1
  <1> HIDE DEF T
  <1>2. PICK m \in T : \A k \in T : ~ (<<k, m>> \in OpToRel(<, Nat))
    BY <1>1, NatLessThanWellFounded, WFMin
  <1>3. \A k \in T : ~ (k < m)
    BY <1>1, <1>2 DEF OpToRel
  <1>4. PICK i \in S : m = n - i
    BY DEF T
  <1>5. \A j \in S : n - j \in T
    BY DEF T
  <1> QED
    BY <1>3, <1>4, <1>5

\* A parameter of a function that has been made, at its offset.
LEMMA Offsets ==
    ASSUME TypeOK, NEW fn \in DOMAIN functions, NEW s, Binds(fn, s)
    PROVE  /\ OffsetOf(fn, s) \in 1 .. MaxParams
           /\ Params(fn)[OffsetOf(fn, s)] = s
           /\ Params(fn) # <<>>
  <1>1. functions[fn].params \in LambdaLists
    BY Typing
  <1>2. PICK n \in 0 .. MaxParams : Params(fn) \in [1 .. n -> Symbols \cup {NoSymbol}]
    BY <1>1 DEF LambdaLists, Params
  <1>3. DOMAIN Params(fn) = 1 .. n
    BY <1>2
  <1>4. OffsetOf(fn, s) \in DOMAIN Params(fn) /\ Params(fn)[OffsetOf(fn, s)] = s
    BY DEF Binds, OffsetOf
  <1>5. OffsetOf(fn, s) \in 1 .. MaxParams
    BY <1>2, <1>3, <1>4, CompileAssumption
  <1>6. Params(fn) # <<>>
    <2> SUFFICES ASSUME Params(fn) = <<>> PROVE FALSE
      OBVIOUS
    <2>1. DOMAIN Params(fn) = {}
      OBVIOUS
    <2> QED
      BY <1>4, <2>1
  <1> QED
    BY <1>4, <1>5, <1>6

\* What map_lexical_symbol finds: the last lambda of the lexical environment that
\* binds the symbol, and its parameter.
LEMMA Resolution ==
    ASSUME TypeOK, NEW s \in Symbols
    PROVE  LET hits == {i \in DOMAIN lexicals : Binds(lexicals[i], s)}
           IN /\ hits = {} => MapLexicalSymbol(s) = Same
              /\ hits # {} =>
                    \E m \in hits :
                       /\ \A j \in hits : m >= j
                       /\ MapLexicalSymbol(s) =
                             LexRef(lexicals[m], OffsetOf(lexicals[m], s) - 1)
  <1> DEFINE hits == {i \in DOMAIN lexicals : Binds(lexicals[i], s)}
             m == CHOOSE i \in hits : \A j \in hits : i >= j
  <1>1. hits = {} => MapLexicalSymbol(s) = Same
    BY DEF MapLexicalSymbol
  <1>2. ASSUME hits # {}
        PROVE  /\ m \in hits /\ \A j \in hits : m >= j
               /\ MapLexicalSymbol(s) = LexRef(lexicals[m], OffsetOf(lexicals[m], s) - 1)
    <2>1. Len(lexicals) \in Nat /\ DOMAIN lexicals = 1 .. Len(lexicals)
      BY Typing
    <2>2. hits \in SUBSET (1 .. Len(lexicals))
      BY <2>1
    <2>3. MapLexicalSymbol(s) = LexRef(lexicals[m], OffsetOf(lexicals[m], s) - 1)
      BY <1>2 DEF MapLexicalSymbol
    <2> HIDE DEF hits
    <2>4. \E i \in hits : \A j \in hits : i >= j
      BY <1>2, <2>1, <2>2, LastPosition
    <2> QED
      BY <2>3, <2>4
  <1> QED
    BY <1>1, <1>2

-----------------------------------------------------------------------------
(* Type correctness.                                                       *)

ValueOf(n) == [is : {"same", "function", "list", "lex-ref"}, fn : 0 .. n, offset : 0 .. MaxParams]

LEMMA ResolutionType ==
    ASSUME TypeOK, NEW s \in Symbols
    PROVE  MapLexicalSymbol(s) \in ValueOf(Len(functions))
  <1> DEFINE hits == {i \in DOMAIN lexicals : Binds(lexicals[i], s)}
  <1>1. CASE hits = {}
    BY <1>1, Resolution, Typing, CompileAssumption DEF Same, ValueOf, NoFn
  <1>2. CASE hits # {}
    <2>1. PICK m \in hits :
             MapLexicalSymbol(s) = LexRef(lexicals[m], OffsetOf(lexicals[m], s) - 1)
      BY <1>2, Resolution
    <2>2. /\ Len(functions) \in Nat
          /\ lexicals[m] \in DOMAIN functions /\ lexicals[m] \in 1 .. Len(functions)
      BY Typing
    <2>3. OffsetOf(lexicals[m], s) \in 1 .. MaxParams
      BY <2>2, Offsets
    <2>4. OffsetOf(lexicals[m], s) - 1 \in 0 .. MaxParams
      BY <2>3, CompileAssumption
    <2> QED
      BY <2>1, <2>2, <2>4 DEF LexRef, ValueOf
  <1> QED
    BY <1>1, <1>2

LEMMA ValueType ==
    ASSUME TypeOK, Next
    PROVE  value' = value \/ value' \in ValueOf(Len(functions))
  <1>1. Len(functions) \in Nat /\ MaxParams \in Nat
    BY Typing, CompileAssumption
  <1>2. Same \in ValueOf(Len(functions)) /\ List \in ValueOf(Len(functions))
    BY <1>1 DEF Same, List, ValueOf, NoFn
  <1>3. CASE EndBody
    <2>1. value' = Function(Top.fn) /\ Top.fn \in 1 .. Len(functions)
      BY <1>3, TopAndBelow DEF EndBody, At, BodyPlaces
    <2> QED
      BY <1>1, <2>1 DEF Function, ValueOf
  <1>4. CASE \E s \in Symbols : Symbol(s) \/ CallSymbol(s)
    BY <1>4, ResolutionType DEF Symbol, CallSymbol, Return
  <1>5. CASE Constant \/ Quote \/ EndList \/ EndIf
    BY <1>2, <1>5 DEF Constant, Quote, EndList, EndIf, Return
  <1>6. CASE Compile \/ CallFunction \/ CallList \/ NextForm \/ If \/ Branch
    BY <1>6 DEF Compile, CallFunction, CallList, NextForm, If, Branch, Go
  <1>7. CASE Tested \/ Chosen \/ Called \/ Malformed \/ (\E list \in LambdaLists : Lambda(list))
    BY <1>7 DEF Tested, Chosen, Called, Malformed, Lambda, MakeLambda, Raise, Go
  <1> QED
    BY <1>3, <1>4, <1>5, <1>6, <1>7 DEF Next

LEMMA CounterTypes ==
    ASSUME TypeOK, Next
    PROVE  forms' \in 0 .. MaxForms /\ alive' \in BOOLEAN
  <1>1. forms \in 0 .. MaxForms /\ alive \in BOOLEAN /\ MaxForms \in Nat
    BY CompileAssumption DEF TypeOK
  <1>2. forms' = forms \/ Looks
    BY DEF Next, Compile, Constant, Symbol, CallSymbol, CallFunction, CallList, Called, NextForm,
           EndList, Lambda, EndBody, Quote, If, Tested, Chosen, Branch, EndIf, Malformed
  <1>3. alive' = alive \/ alive' = FALSE
    <2>1. CASE Tested \/ Chosen \/ (\E list \in LambdaLists : Lambda(list))
      BY <2>1 DEF Tested, Chosen, Lambda, MakeLambda, Raise
    <2>2. CASE Compile \/ CallFunction \/ CallList \/ NextForm \/ If \/ Branch
               \/ Called \/ Malformed
      BY <2>2 DEF Compile, CallFunction, CallList, NextForm, If, Branch, Called, Malformed,
                  Go, Raise
    <2>3. CASE \/ Constant \/ Quote \/ EndList \/ EndIf \/ EndBody
               \/ (\E s \in Symbols : Symbol(s) \/ CallSymbol(s))
      BY <2>3 DEF Constant, Quote, EndList, EndIf, EndBody, Symbol, CallSymbol, Return
    <2> QED
      BY <2>1, <2>2, <2>3 DEF Next
  <1>4. forms' \in 0 .. MaxForms
    BY <1>1, <1>2 DEF Looks
  <1>5. alive' \in BOOLEAN
    BY <1>1, <1>3
  <1> QED
    BY <1>4, <1>5

\* The functions made so far stay, and a new one comes after them.
LEMMA FunctionsGrow ==
    ASSUME TypeOK, MakesLambda
    PROVE  /\ Len(functions) \in Nat /\ Len(functions') = Len(functions) + 1
           /\ functions' \in Seq([id : 1 .. FrameIds, params : LambdaLists])
           /\ DOMAIN functions' = 1 .. Len(functions) + 1
           /\ \A f \in 1 .. Len(functions) : functions'[f] = functions[f]
           /\ functions'[Len(functions) + 1].id = frame_id
           /\ frame_id \in 1 .. FrameIds
           /\ lexicals' = IF functions'[Len(functions) + 1].params = <<>> THEN lexicals
                          ELSE Append(lexicals, Len(functions) + 1)
  <1> DEFINE Made == [id : 1 .. FrameIds, params : LambdaLists]
  <1>1. functions \in Seq(Made) /\ Len(functions) \in Nat
    BY Typing DEF TypeOK
  <1>2. PICK params \in LambdaLists :
           /\ frame_id <= FrameIds
           /\ functions' = Append(functions, [id |-> frame_id, params |-> params])
           /\ lexicals' = Enter(params)
    BY DEF MakesLambda
  <1> DEFINE new == [id |-> frame_id, params |-> params]
  <1>3. frame_id \in 1 .. FrameIds
    BY <1>2, CompileAssumption DEF TypeOK
  <1>4. new \in Made /\ new.id = frame_id /\ new.params = params
    BY <1>3
  <1> HIDE DEF new, Made
  <1>5. /\ functions' \in Seq(Made) /\ Len(functions') = Len(functions) + 1
        /\ \A f \in 1 .. Len(functions) : functions'[f] = functions[f]
        /\ functions'[Len(functions) + 1] = new
    BY <1>1, <1>2, <1>4, AppendProperties DEF new
  <1>6. DOMAIN functions' = 1 .. Len(functions')
    BY <1>5, LenProperties
  <1> QED
    BY <1>1, <1>2, <1>3, <1>4, <1>5, <1>6 DEF Enter, Made

LEMMA TypeStep ==
    ASSUME TypeOK, [Next]_vars
    PROVE  TypeOK'
  <1>1. CASE UNCHANGED vars
    BY <1>1 DEF TypeOK, vars, Params, LambdaLists
  <1>2. CASE Next
    <2> USE <1>2
    <2>1. /\ Len(functions) \in Nat
          /\ functions \in Seq([id : 1 .. FrameIds, params : LambdaLists])
          /\ lexicals \in Seq({fn \in 1 .. Len(functions) : Params(fn) # <<>>})
          /\ frame_id \in 1 .. FrameIds + 1 /\ errors \in 0 .. MaxErrors
          /\ FrameIds \in Nat /\ MaxErrors \in Nat
      BY Typing, CompileAssumption DEF TypeOK
    <2>2. /\ control' \in Seq(Cell(Len(functions')))
          /\ lexicals' \in Seq({fn \in 1 .. Len(functions') : functions'[fn].params # <<>>})
          /\ functions' \in Seq([id : 1 .. FrameIds, params : LambdaLists])
          /\ frame_id' \in 1 .. FrameIds + 1
          /\ errors' \in 0 .. MaxErrors
          /\ Len(functions') \in Nat /\ Len(functions') >= Len(functions)
      <3>1. CASE KeepsLambdas
        BY <2>1, <3>1 DEF KeepsLambdas, Params
      <3>2. CASE MakesLambda
        <4> DEFINE n == Len(functions) + 1
                   Entered == {fn \in 1 .. n : functions'[fn].params # <<>>}
        <4>1. /\ Len(functions') = n
              /\ functions' \in Seq([id : 1 .. FrameIds, params : LambdaLists])
              /\ \A f \in 1 .. Len(functions) : functions'[f] = functions[f]
              /\ frame_id \in 1 .. FrameIds
              /\ lexicals' = IF functions'[n].params = <<>> THEN lexicals
                             ELSE Append(lexicals, n)
          BY <3>2, FunctionsGrow
        <4>2. /\ frame_id' = frame_id + 1 /\ errors' = errors
              /\ control' \in Seq(Cell(n))
          BY <3>2 DEF MakesLambda, NextFrameId
        <4>3. {fn \in 1 .. Len(functions) : Params(fn) # <<>>} \subseteq Entered
          BY <2>1, <4>1 DEF Params
        <4>4. functions'[n].params # <<>> => n \in Entered
          BY <2>1
        <4> HIDE DEF Entered, n
        <4>5. lexicals \in Seq(Entered)
          BY <2>1, <4>3, SeqMonotonic
        <4>6. lexicals' \in Seq(Entered)
          BY <4>1, <4>4, <4>5, AppendProperties
        <4>7. frame_id' \in 1 .. FrameIds + 1
          BY <2>1, <4>1, <4>2
        <4>8. n \in Nat /\ n >= Len(functions)
          BY <2>1 DEF n
        <4> QED
          BY <2>1, <4>1, <4>2, <4>6, <4>7, <4>8 DEF Entered
      <3>3. CASE EndsLambda
        <4>1. lexicals' = lexicals \/ lexicals' = SubSeq(lexicals, 1, Len(lexicals) - 1)
          BY <3>3 DEF EndsLambda, Leave
        <4> DEFINE Entered == {fn \in 1 .. Len(functions) : Params(fn) # <<>>}
                   k == Len(lexicals) - 1
        <4>2. k \in Int /\ \A i \in 1 .. k : lexicals[i] \in Entered
          BY Typing
        <4>3. lexicals \in Seq(Entered) /\ k = Len(lexicals) - 1
          BY <2>1
        <4> HIDE DEF Entered, k
        <4>4. SubSeq(lexicals, 1, k) \in Seq(Entered)
          BY <4>2, SubSeqProperties
        <4>5. lexicals' \in Seq(Entered)
          BY <4>1, <4>3, <4>4
        <4>6. /\ control' \in Seq(Cell(Len(functions)))
              /\ UNCHANGED <<functions, frame_id, errors>>
          BY <3>3, TopAndBelow DEF EndsLambda
        <4> QED
          BY <2>1, <4>5, <4>6 DEF Entered, Params
      <3>4. CASE Fails
        BY <2>1, <3>4, EmptySeq DEF Fails, Params
      <3> QED
        BY <3>1, <3>2, <3>3, <3>4, Kinds
    <2>3. value' \in ValueOf(Len(functions'))
      <3>1. value \in ValueOf(Len(functions))
        BY DEF TypeOK, ValueOf
      <3>2. ValueOf(Len(functions)) \subseteq ValueOf(Len(functions'))
        BY <2>1, <2>2 DEF ValueOf
      <3> QED
        BY <3>1, <3>2, ValueType
    <2>4. forms' \in 0 .. MaxForms /\ alive' \in BOOLEAN
      BY CounterTypes
    <2>5. LambdaLists' = LambdaLists
      BY DEF LambdaLists
    <2> QED
      BY <2>2, <2>3, <2>4, <2>5 DEF TypeOK, Cell, ValueOf, Params
  <1> QED
    BY <1>1, <1>2

LEMMA TypeInit ==
    ASSUME Init
    PROVE  TypeOK
  <1>1. /\ control \in Seq([at : Places, fn : {NoFn}]
                            \cup [at : BodyPlaces, fn : 1 .. Len(functions)])
        /\ lexicals \in Seq({fn \in 1 .. Len(functions) : Params(fn) # <<>>})
        /\ functions \in Seq([id : 1 .. FrameIds, params : LambdaLists])
    BY EmptySeq DEF Init
  <1>2. frame_id \in 1 .. FrameIds + 1 /\ forms \in 0 .. MaxForms /\ errors \in 0 .. MaxErrors
    BY CompileAssumption DEF Init
  <1>3. /\ value \in [is : {"same", "function", "list", "lex-ref"},
                      fn : 0 .. Len(functions), offset : 0 .. MaxParams]
        /\ alive \in BOOLEAN
    BY CompileAssumption, EmptySeq DEF Init, Same, NoFn
  <1> QED
    BY <1>1, <1>2, <1>3 DEF TypeOK

\* The compiler's stack, its lexical environment and its functions keep their
\* shape: a lambda being compiled is one that was made, only lambdas with
\* parameters are entered, and a reference names a function and an offset.
THEOREM CompilerTypeCorrect == Spec => []TypeOK
  <1>1. Init => TypeOK
    BY TypeInit
  <1>2. TypeOK /\ [Next]_vars => TypeOK'
    BY TypeStep
  <1> QED
    BY <1>1, <1>2, PTL DEF Spec

-----------------------------------------------------------------------------
(* Frame ids.                                                              *)

\* The counter is above every id it has given.
IdsBelowCounter == \A f \in DOMAIN functions : functions[f].id < frame_id

LEMMA IdsStep ==
    ASSUME TypeOK, IdsBelowCounter, FrameIdsDistinct, [Next]_vars
    PROVE  IdsBelowCounter' /\ FrameIdsDistinct'
  <1>1. CASE UNCHANGED <<functions, frame_id>>
    BY <1>1 DEF IdsBelowCounter, FrameIdsDistinct
  <1>2. CASE MakesLambda
    <2>1. /\ DOMAIN functions = 1 .. Len(functions) /\ Len(functions) \in Nat
          /\ frame_id \in Int
          /\ \A f \in DOMAIN functions : functions[f].id \in Int
      BY Typing DEF TypeOK
    <2>2. /\ DOMAIN functions' = 1 .. Len(functions) + 1
          /\ \A f \in 1 .. Len(functions) : functions'[f] = functions[f]
          /\ functions'[Len(functions) + 1].id = frame_id
      BY <1>2, FunctionsGrow
    <2>3. frame_id' = frame_id + 1
      BY <1>2 DEF MakesLambda, NextFrameId
    <2>4. \A f \in 1 .. Len(functions) + 1 :
             functions'[f].id = IF f = Len(functions) + 1 THEN frame_id ELSE functions[f].id
      BY <2>1, <2>2
    <2>5. IdsBelowCounter'
      BY <2>1, <2>2, <2>3, <2>4 DEF IdsBelowCounter
    <2>6. FrameIdsDistinct'
      BY <2>1, <2>2, <2>4 DEF FrameIdsDistinct, IdsBelowCounter
    <2> QED
      BY <2>5, <2>6
  <1> QED
    BY <1>1, <1>2, Kinds DEF KeepsLambdas, EndsLambda, Fails, vars

\* No two lambdas get the same frame id: the counter only grows, and the assertion
\* on its digits ends the process before it could start again.
THEOREM FrameIdsStayDistinct == Spec => []FrameIdsDistinct
  <1>1. Init => IdsBelowCounter /\ FrameIdsDistinct
    BY DEF Init, IdsBelowCounter, FrameIdsDistinct
  <1>2. TypeOK /\ IdsBelowCounter /\ FrameIdsDistinct /\ [Next]_vars
        => IdsBelowCounter' /\ FrameIdsDistinct'
    BY IdsStep
  <1> QED
    BY <1>1, <1>2, CompilerTypeCorrect, PTL DEF Spec

-----------------------------------------------------------------------------
(* The lambdas around the form that is compiled, before and after a step.   *)

Rest == Len(lexicals) - Cardinality(Enclosing)

\* Depths number them from the outermost one.
LEMMA Depths ==
    ASSUME TypeOK
    PROVE  /\ Enclosing \subseteq 1 .. Len(control) /\ IsFiniteSet(Enclosing)
           /\ Cardinality(Enclosing) \in Nat
           /\ \A i \in Enclosing : Depth(i) \in 1 .. Cardinality(Enclosing)
           /\ \A i, j \in Enclosing : i <= j => Depth(i) <= Depth(j)
  <1> DEFINE upTo(i) == {j \in Enclosing : j <= i}
  <1>1. Len(control) \in Nat /\ Enclosing \subseteq 1 .. Len(control)
    BY Typing DEF Enclosing
  <1>2. IsFiniteSet(Enclosing) /\ Cardinality(Enclosing) \in Nat
    <2>1. IsFiniteSet(1 .. Len(control))
      BY <1>1, FS_Interval
    <2> QED
      BY <1>1, <2>1, FS_Subset, FS_CardinalityType
  <1>3. \A i : /\ IsFiniteSet(upTo(i)) /\ Cardinality(upTo(i)) \in Nat
               /\ Cardinality(upTo(i)) <= Cardinality(Enclosing)
    <2>1. \A i : upTo(i) \in SUBSET Enclosing
      OBVIOUS
    <2> QED
      BY <1>2, <2>1, FS_Subset, FS_CardinalityType
  <1>4. ASSUME NEW i \in Enclosing
        PROVE  Depth(i) \in 1 .. Cardinality(Enclosing)
    <2>1. upTo(i) # {}
      BY <1>1
    <2>2. Cardinality(upTo(i)) # 0
      BY <1>3, <2>1, FS_EmptySet
    <2>3. Depth(i) = Cardinality(upTo(i))
      BY DEF Depth
    <2> QED
      BY <1>2, <1>3, <2>2, <2>3
  <1>5. ASSUME NEW i \in Enclosing, NEW j \in Enclosing, i <= j
        PROVE  Depth(i) <= Depth(j)
    <2>1. \A x \in Enclosing : x <= i => x <= j
      BY <1>1, <1>5
    <2>2. upTo(i) \in SUBSET upTo(j)
      BY <2>1
    <2> QED
      BY <1>3, <2>2, FS_Subset DEF Depth
  <1> QED
    BY <1>1, <1>2, <1>4, <1>5

\* Steps that are not about lambdas with parameters leave them as they are.
SameEnclosing ==
    /\ Enclosing' = Enclosing
    /\ \A i \in Enclosing : control'[i].fn = control[i].fn

\* The part of the stack above n holds no lambda with parameters, before or after.
LEMMA EnclosingBelow ==
    ASSUME TypeOK, TypeOK', NEW n \in 0 .. Len(control), n <= Len(control'),
           \A f \in DOMAIN functions : functions'[f] = functions[f],
           \A i \in 1 .. n : control'[i].fn = control[i].fn,
           \A i \in n + 1 .. Len(control) : ~ IsEnclosing(control[i]),
           \A i \in n + 1 .. Len(control') : ~ (IsEnclosing(control[i])')
    PROVE  SameEnclosing
  <1>1. /\ Len(control) \in Nat /\ DOMAIN control = 1 .. Len(control)
        /\ DOMAIN functions = 1 .. Len(functions) /\ Len(functions) \in Nat
        /\ \A i \in DOMAIN control : control[i].fn \in 0 .. Len(functions)
    BY Typing
  <1>2. Len(control') \in Nat /\ DOMAIN control' = 1 .. Len(control')
    <2>1. (Len(control) \in Nat /\ DOMAIN control = 1 .. Len(control))'
      BY Typing, PTL
    <2> QED
      BY <2>1
  <1>3. \A i \in 1 .. n : IsEnclosing(control[i])' <=> IsEnclosing(control[i])
    BY <1>1 DEF IsEnclosing, Params, NoFn
  <1>4. \A i : i \in Enclosing <=> i \in 1 .. n /\ IsEnclosing(control[i])
    BY <1>1 DEF Enclosing
  <1>5. \A i : i \in Enclosing' <=> i \in 1 .. n /\ IsEnclosing(control[i])'
    BY <1>1, <1>2 DEF Enclosing
  <1> QED
    BY <1>3, <1>4, <1>5 DEF SameEnclosing

LEMMA KeepsEnclosing ==
    ASSUME TypeOK, TypeOK', KeepsLambdas
    PROVE  SameEnclosing
  <1>1. PICK n \in 0 .. Len(control) :
           /\ n <= Len(control')
           /\ \A i \in 1 .. n : control'[i].fn = control[i].fn
           /\ \A i \in n + 1 .. Len(control) : control[i].fn = NoFn
           /\ \A i \in n + 1 .. Len(control') : control'[i].fn = NoFn
    BY DEF KeepsLambdas
  <1>2. \A i \in n + 1 .. Len(control) : ~ IsEnclosing(control[i])
    BY <1>1 DEF IsEnclosing
  <1>3. \A i \in n + 1 .. Len(control') : ~ (IsEnclosing(control[i])')
    BY <1>1 DEF IsEnclosing
  <1>4. \A f \in DOMAIN functions : functions'[f] = functions[f]
    BY DEF KeepsLambdas
  <1> QED
    BY <1>1, <1>2, <1>3, <1>4, EnclosingBelow

\* A lambda with parameters that is made is the innermost one afterwards.
LEMMA MakesEnclosing ==
    ASSUME TypeOK, TypeOK', MakesLambda
    PROVE  \/ SameEnclosing /\ lexicals' = lexicals
           \/ /\ Enclosing' = Enclosing \cup {Len(control')}
              /\ \A i \in Enclosing : i < Len(control') /\ control'[i].fn = control[i].fn
              /\ lexicals' = Append(lexicals, control'[Len(control')].fn)
  <1>1. /\ Len(control) \in Nat /\ DOMAIN control = 1 .. Len(control)
        /\ DOMAIN functions = 1 .. Len(functions) /\ Len(functions) \in Nat
        /\ \A i \in DOMAIN control : control[i].fn \in 0 .. Len(functions)
    BY Typing
  <1>2. PICK p \in Nat : p = Len(control') /\ DOMAIN control' = 1 .. p
    <2>1. (Len(control) \in Nat /\ DOMAIN control = 1 .. Len(control))'
      BY Typing, PTL
    <2> QED
      BY <2>1
  <1>3. PICK n \in Nat : n = Len(functions) + 1
    BY <1>1
  <1>4. /\ control # <<>> /\ Top.fn = NoFn /\ p >= Len(control)
        /\ \A i \in 1 .. Len(control) - 1 : control'[i].fn = control[i].fn
        /\ \A i \in Len(control) .. p - 1 : control'[i].fn = NoFn
        /\ control'[p].fn = n
    BY <1>2, <1>3 DEF MakesLambda
  <1>5. /\ \A f \in 1 .. Len(functions) : functions'[f] = functions[f]
        /\ lexicals' = IF functions'[n].params = <<>> THEN lexicals ELSE Append(lexicals, n)
    BY <1>3, FunctionsGrow
  <1>6. Len(control) >= 1 /\ control[Len(control)].fn = NoFn
    BY <1>1, <1>4, TopAndBelow DEF Top
  <1>7. PICK k \in 0 .. Len(control) : k = Len(control) - 1 /\ k <= p
    <2>1. Len(control) - 1 \in 0 .. Len(control)
      BY <1>1, <1>6
    <2>2. Len(control) - 1 <= p
      BY <1>1, <1>4
    <2> QED
      BY <2>1, <2>2
  <1>8. \A i \in k + 1 .. Len(control) : ~ IsEnclosing(control[i])
    BY <1>1, <1>6, <1>7 DEF IsEnclosing
  <1>9. \A i \in k + 1 .. p - 1 : ~ (IsEnclosing(control[i])')
    BY <1>1, <1>4, <1>7 DEF IsEnclosing
  <1>10. CASE functions'[n].params = <<>>
    <2>1. ~ (IsEnclosing(control[p])')
      BY <1>4, <1>10 DEF IsEnclosing, Params
    <2>2. \A i \in k + 1 .. p : ~ (IsEnclosing(control[i])')
      BY <1>1, <1>2, <1>7, <1>9, <2>1
    <2>3. SameEnclosing
      BY <1>1, <1>2, <1>4, <1>5, <1>7, <1>8, <2>2, EnclosingBelow
    <2> QED
      BY <1>5, <1>10, <2>3
  <1>11. CASE functions'[n].params # <<>>
    <2>1. IsEnclosing(control[p])'
      BY <1>1, <1>4, <1>11, <1>3 DEF IsEnclosing, Params, NoFn
    <2>2. \A i \in 1 .. k : IsEnclosing(control[i])' <=> IsEnclosing(control[i])
      <3>1. \A i \in 1 .. k :
               control'[i].fn = control[i].fn /\ control[i].fn \in 0 .. Len(functions)
        <4>1. Len(control) \in Nat /\ k = Len(control) - 1
          BY <1>1, <1>7
        <4>2. \A i \in 1 .. k : i \in 1 .. Len(control) - 1 /\ i \in DOMAIN control
          BY <1>1, <4>1
        <4> QED
          BY <1>1, <1>4, <4>2
      <3>2. \A f \in 0 .. Len(functions) : f # NoFn => functions'[f] = functions[f]
        BY <1>1, <1>5 DEF NoFn
      <3> QED
        BY <3>1, <3>2 DEF IsEnclosing, Params
    <2>3. \A i : i \in Enclosing <=> i \in 1 .. k /\ IsEnclosing(control[i])
      <3>1. \A i : i \in 1 .. Len(control) <=> i \in 1 .. k \/ i \in k + 1 .. Len(control)
        BY <1>1, <1>6, <1>7
      <3>2. \A i : i \in Enclosing <=> i \in 1 .. Len(control) /\ IsEnclosing(control[i])
        BY <1>1 DEF Enclosing
      <3> QED
        BY <1>8, <3>1, <3>2
    <2>4. \A i : i \in Enclosing' <=> i \in 1 .. p /\ IsEnclosing(control[i])'
      BY <1>2 DEF Enclosing
    <2>5. \A i : i \in Enclosing' <=> (i \in 1 .. k /\ IsEnclosing(control[i])) \/ i = p
      <3>1. \A i \in 1 .. p : i \in 1 .. k \/ i \in k + 1 .. p - 1 \/ i = p
        BY <1>1, <1>2, <1>7
      <3>2. p \in 1 .. p /\ \A i \in 1 .. k : i \in 1 .. p
        BY <1>1, <1>2, <1>4, <1>6, <1>7
      <3> QED
        BY <1>9, <2>1, <2>2, <2>4, <3>1, <3>2
    <2>6. Enclosing' = Enclosing \cup {p}
      BY <2>3, <2>5
    <2>7. \A i \in Enclosing : i < p /\ control'[i].fn = control[i].fn
      <3>1. Len(control) \in Nat /\ k = Len(control) - 1 /\ p >= Len(control)
        BY <1>1, <1>4, <1>7
      <3>2. \A i \in 1 .. k : i < p /\ i \in 1 .. Len(control) - 1
        BY <3>1
      <3> QED
        BY <1>4, <2>3, <3>2
    <2> QED
      BY <1>2, <1>4, <1>5, <1>11, <2>6, <2>7
  <1> QED
    BY <1>10, <1>11

\* The lambda that ends was the innermost one, if it is one with parameters.
LEMMA EndsEnclosing ==
    ASSUME TypeOK, TypeOK', EndsLambda
    PROVE  \/ SameEnclosing /\ lexicals' = lexicals
           \/ /\ Len(control) \in Enclosing /\ Enclosing' = Enclosing \ {Len(control)}
              /\ \A i \in Enclosing' : control'[i].fn = control[i].fn
              /\ lexicals' = SubSeq(lexicals, 1, Len(lexicals) - 1)
  <1>1. PICK p \in Nat \ {0} :
           p = Len(control) /\ DOMAIN control = 1 .. p /\ control # <<>> /\ Top.fn # NoFn
    BY Typing, TopAndBelow DEF EndsLambda
  <1>2. PICK k \in Nat : k = p - 1
    BY <1>1
  <1>3. /\ Len(control') = k
        /\ \A i \in 1 .. k : control'[i] = control[i]
        /\ UNCHANGED functions
        /\ lexicals' = Leave(Top.fn)
    BY <1>1, <1>2, TopAndBelow DEF EndsLambda
  <1>4. DOMAIN control' = 1 .. k
    <2>1. (DOMAIN control = 1 .. Len(control))'
      BY Typing, PTL
    <2> QED
      BY <1>3, <2>1
  <1>5. CASE Params(Top.fn) = <<>>
    <2>1. k \in 0 .. p /\ k <= Len(control')
      BY <1>1, <1>2, <1>3
    <2>2. \A i \in k + 1 .. p : ~ IsEnclosing(control[i])
      BY <1>1, <1>2, <1>5 DEF IsEnclosing, Top
    <2>3. \A i \in k + 1 .. Len(control') : ~ (IsEnclosing(control[i])')
      BY <1>1, <1>2, <1>3
    <2>4. SameEnclosing
      BY <1>1, <1>2, <1>3, <2>1, <2>2, <2>3, EnclosingBelow
    <2> QED
      BY <1>5, <1>3, <2>4 DEF Leave
  <1>6. CASE Params(Top.fn) # <<>>
    <2>1. p \in Enclosing
      BY <1>1, <1>6 DEF Enclosing, IsEnclosing, Top
    <2>2. \A i \in 1 .. k : IsEnclosing(control[i])' <=> IsEnclosing(control[i])
      BY <1>3 DEF IsEnclosing, Params
    <2>3. \A i : i \in Enclosing' <=> i \in 1 .. k /\ IsEnclosing(control[i])
      BY <1>4, <2>2 DEF Enclosing
    <2>4. \A i : i \in 1 .. k <=> i \in 1 .. p /\ i # p
      BY <1>1, <1>2
    <2>5. Enclosing' = Enclosing \ {p}
      BY <1>1, <2>3, <2>4 DEF Enclosing
    <2>6. \A i \in Enclosing' : control'[i].fn = control[i].fn
      BY <1>3, <2>3
    <2> QED
      BY <1>1, <1>6, <1>3, <2>1, <2>5, <2>6 DEF Leave
  <1> QED
    BY <1>5, <1>6

-----------------------------------------------------------------------------
(* The lexical environment.                                                *)

\* There is nothing between two of the lambdas around the form.
EnclosingAreLexicals ==
    \A k \in Rest + 1 .. Len(lexicals) : \E i \in Enclosing : k = Rest + Depth(i)

LexicalInv == LexicalsAreEnclosing /\ EnclosingAreLexicals

\* What an invariant of numbers says, with the lengths in it.
LEMMA LexicalFacts ==
    ASSUME TypeOK, LexicalInv
    PROVE  /\ Rest \in Nat /\ Len(lexicals) = Rest + Cardinality(Enclosing)
           /\ \A i \in Enclosing : lexicals[Rest + Depth(i)] = control[i].fn
           /\ errors = 0 => Rest = 0
           /\ \A k \in Rest + 1 .. Len(lexicals) : \E i \in Enclosing : k = Rest + Depth(i)
  <1>1. Cardinality(Enclosing) \in Nat /\ Len(lexicals) \in Nat
    BY Depths, Typing
  <1>2. /\ Rest >= 0
        /\ \A i \in Enclosing : lexicals[Rest + Depth(i)] = control[i].fn
        /\ errors = 0 => Rest = 0
    BY DEF LexicalInv, LexicalsAreEnclosing, Rest
  <1>3. Rest \in Nat /\ Len(lexicals) = Rest + Cardinality(Enclosing)
    BY <1>1, <1>2 DEF Rest
  <1> QED
    BY <1>2, <1>3 DEF LexicalInv, EnclosingAreLexicals

LEMMA LexicalSame ==
    ASSUME LexicalInv, SameEnclosing, UNCHANGED <<lexicals, errors>>
    PROVE  LexicalInv'
  <1>1. Enclosing' = Enclosing /\ \A i \in Enclosing : control'[i].fn = control[i].fn
    BY DEF SameEnclosing
  <1>2. \A i : Depth(i)' = Depth(i)
    BY <1>1 DEF Depth
  <1>3. Rest' = Rest
    BY <1>1 DEF Rest
  <1>4. LexicalsAreEnclosing'
    BY <1>1, <1>2 DEF LexicalInv, LexicalsAreEnclosing
  <1>5. EnclosingAreLexicals'
    BY <1>1, <1>2, <1>3 DEF LexicalInv, EnclosingAreLexicals
  <1> QED
    BY <1>4, <1>5 DEF LexicalInv

LEMMA LexicalEnter ==
    ASSUME TypeOK, TypeOK', LexicalInv, UNCHANGED errors,
           NEW p \in Nat, Enclosing' = Enclosing \cup {p},
           \A i \in Enclosing : i < p /\ control'[i].fn = control[i].fn,
           lexicals' = Append(lexicals, control'[p].fn)
    PROVE  LexicalInv'
  <1> DEFINE C == Cardinality(Enclosing)
             L == Len(lexicals)
  <1>1. /\ Enclosing \subseteq Nat /\ IsFiniteSet(Enclosing) /\ C \in Nat
        /\ \A i \in Enclosing : Depth(i) \in 1 .. C
    <2>1. Len(control) \in Nat
      BY Typing
    <2> QED
      BY <2>1, Depths
  <1>2. /\ Rest \in Nat /\ L = Rest + C
        /\ \A i \in Enclosing : lexicals[Rest + Depth(i)] = control[i].fn
        /\ errors = 0 => Rest = 0
        /\ \A k \in Rest + 1 .. L : \E i \in Enclosing : k = Rest + Depth(i)
    BY LexicalFacts
  <1>3. Cardinality(Enclosing') = C + 1
    <2>1. p \notin Enclosing
      BY <1>1
    <2> QED
      BY <1>1, <2>1, FS_AddElement
  <1>4. \A i \in Enclosing : Depth(i)' = Depth(i)
    <2>1. \A i \in Enclosing : {j \in Enclosing' : j <= i} = {j \in Enclosing : j <= i}
      BY <1>1
    <2> QED
      BY <2>1 DEF Depth
  <1>5. Depth(p)' = C + 1
    <2>1. \A j \in Enclosing : j < p /\ j \in Nat
      BY <1>1
    <2>2. \A j \in Enclosing \cup {p} : j <= p
      BY <2>1
    <2>3. {j \in Enclosing' : j <= p} = Enclosing'
      BY <2>2
    <2> QED
      BY <1>3, <2>3 DEF Depth
  <1>6. /\ Len(lexicals') = L + 1 /\ lexicals'[L + 1] = control'[p].fn
        /\ \A k \in 1 .. L : lexicals'[k] = lexicals[k]
    <2>1. lexicals \in Seq(Nat)
      <3>1. lexicals \in Seq({fn \in 1 .. Len(functions) : Params(fn) # <<>>})
        BY DEF TypeOK
      <3>2. {fn \in 1 .. Len(functions) : Params(fn) # <<>>} \subseteq Nat
        BY Typing
      <3> QED
        BY <3>1, <3>2, SeqMonotonic
    <2>2. control'[p].fn \in Nat
      <3>1. (/\ \A i \in DOMAIN control :
                   /\ control[i] \in Cell(Len(functions))
                   /\ control[i].fn \in 0 .. Len(functions)
             /\ Len(functions) \in Nat)'
        BY Typing, PTL
      <3>2. p \in DOMAIN control'
        BY DEF Enclosing
      <3> QED
        BY <3>1, <3>2
    <2> QED
      BY <2>1, <2>2, AppendProperties
  <1> HIDE DEF C, L
  <1>7. Rest' = Rest
    <2>1. Rest' = Len(lexicals') - Cardinality(Enclosing')
      BY DEF Rest
    <2>2. L \in Nat
      BY <1>1, <1>2
    <2> QED
      BY <1>1, <1>2, <1>3, <1>6, <2>1, <2>2
  <1>8. \A i \in Enclosing' : lexicals'[Rest' + Depth(i)'] = control'[i].fn
    <2>1. ASSUME NEW i \in Enclosing
          PROVE  lexicals'[Rest' + Depth(i)'] = control'[i].fn
      <3>1. Rest + Depth(i) \in 1 .. L
        <4>1. Rest \in Nat /\ C \in Nat /\ L = Rest + C /\ Depth(i) \in 1 .. C
          BY <1>1, <1>2
        <4> QED
          BY <4>1
      <3> QED
        BY <1>2, <1>4, <1>6, <1>7, <3>1
    <2>2. lexicals'[Rest' + Depth(p)'] = control'[p].fn
      <3>1. Rest + (C + 1) = L + 1
        BY <1>1, <1>2
      <3> QED
        BY <1>5, <1>6, <1>7, <3>1
    <2> QED
      BY <2>1, <2>2
  <1>9. \A k \in Rest' + 1 .. Len(lexicals') : \E i \in Enclosing' : k = Rest' + Depth(i)'
    <2>1. ASSUME NEW k \in Rest + 1 .. L + 1
          PROVE  \E i \in Enclosing' : k = Rest + Depth(i)'
      <3>1. CASE k \in Rest + 1 .. L
        BY <1>2, <1>4, <3>1
      <3>2. CASE k = Rest + (C + 1)
        BY <1>5, <3>2
      <3> QED
        BY <1>1, <1>2, <2>1, <3>1, <3>2
    <2> QED
      BY <1>6, <1>7, <2>1
  <1>10. LexicalsAreEnclosing'
    <2>1. Rest' >= 0 /\ (errors' = 0 => Rest' = 0)
      BY <1>2, <1>7
    <2> QED
      BY <1>8, <2>1 DEF LexicalsAreEnclosing, Rest
  <1> QED
    BY <1>9, <1>10 DEF LexicalInv, EnclosingAreLexicals

LEMMA LexicalLeave ==
    ASSUME TypeOK, TypeOK', LexicalInv, UNCHANGED errors,
           NEW p \in Enclosing, p = Len(control), Enclosing' = Enclosing \ {p},
           \A i \in Enclosing' : control'[i].fn = control[i].fn,
           lexicals' = SubSeq(lexicals, 1, Len(lexicals) - 1)
    PROVE  LexicalInv'
  <1> DEFINE C == Cardinality(Enclosing)
             L == Len(lexicals)
  <1>1. /\ Enclosing \subseteq 1 .. p /\ p \in Nat
        /\ IsFiniteSet(Enclosing) /\ C \in Nat
        /\ \A i \in Enclosing : Depth(i) \in 1 .. C
    <2>1. Len(control) \in Nat
      BY Typing
    <2> QED
      BY <2>1, Depths
  <1>2. /\ Rest \in Nat /\ L = Rest + C
        /\ \A i \in Enclosing : lexicals[Rest + Depth(i)] = control[i].fn
        /\ errors = 0 => Rest = 0
        /\ \A k \in Rest + 1 .. L : \E i \in Enclosing : k = Rest + Depth(i)
    BY LexicalFacts
  <1>3. Cardinality(Enclosing') = C - 1
    BY <1>1, FS_RemoveElement
  <1>4. \A i \in Enclosing' : Depth(i)' = Depth(i)
    <2>1. \A i \in Enclosing' : {j \in Enclosing' : j <= i} = {j \in Enclosing : j <= i}
      BY <1>1
    <2> QED
      BY <2>1 DEF Depth
  <1>5. Depth(p) = C
    <2>1. \A j \in Enclosing : j <= p
      BY <1>1
    <2>2. {j \in Enclosing : j <= p} = Enclosing
      BY <2>1
    <2> QED
      BY <2>2 DEF Depth
  <1>6. \A i \in Enclosing' : Depth(i) \in 1 .. C - 1
    <2>1. (\A i \in Enclosing : Depth(i) \in 1 .. Cardinality(Enclosing))'
      BY Depths, PTL
    <2> QED
      BY <1>3, <1>4, <2>1
  <1>7. Len(lexicals') = L - 1 /\ \A k \in 1 .. L - 1 : lexicals'[k] = lexicals[k]
    <2> DEFINE n == Len(lexicals) - 1
               t == SubSeq(lexicals, 1, n)
               S == {fn \in 1 .. Len(functions) : Params(fn) # <<>>}
    <2>1. n \in Nat
      BY <1>1, <1>2, <1>5
    <2>2. \A i \in 1 .. n : lexicals[i] \in S
      BY <2>1, Typing
    <2>3. lexicals' = t /\ n = L - 1
      OBVIOUS
    <2> HIDE DEF n, S
    <2>4. Len(t) = (IF 1 <= n THEN n - 1 + 1 ELSE 0)
          /\ \A i \in 1 .. n - 1 + 1 : t[i] = lexicals[1 + i - 1]
      BY <2>1, <2>2, SubSeqProperties
    <2> HIDE DEF t
    <2>5. Len(t) = n /\ \A i \in 1 .. n : t[i] = lexicals[i]
      BY <2>1, <2>4
    <2> QED
      BY <2>3, <2>5
  <1> HIDE DEF C, L
  <1>8. Rest' = Rest
    <2>1. Rest' = Len(lexicals') - Cardinality(Enclosing')
      BY DEF Rest
    <2> QED
      BY <1>1, <1>2, <1>3, <1>7, <2>1
  <1>9. \A i \in Enclosing' : lexicals'[Rest' + Depth(i)'] = control'[i].fn
    <2>1. ASSUME NEW i \in Enclosing'
          PROVE  lexicals'[Rest' + Depth(i)'] = control'[i].fn
      <3>1. i \in Enclosing
        OBVIOUS
      <3>2. Depth(i) \in 1 .. C - 1
        BY <1>6
      <3>3. Rest + Depth(i) \in 1 .. L - 1
        <4>1. Rest \in Nat /\ C \in Nat /\ L = Rest + C
          BY <1>1, <1>2
        <4> QED
          BY <3>2, <4>1
      <3> QED
        BY <1>2, <1>4, <1>7, <1>8, <3>1, <3>3
    <2> QED
      BY <2>1
  <1>10. \A k \in Rest' + 1 .. Len(lexicals') : \E i \in Enclosing' : k = Rest' + Depth(i)'
    <2>1. ASSUME NEW k \in Rest + 1 .. L - 1
          PROVE  \E i \in Enclosing' : k = Rest + Depth(i)'
      <3>1. PICK i \in Enclosing : k = Rest + Depth(i)
        BY <1>1, <1>2
      <3>2. i # p
        BY <1>1, <1>2, <1>5, <3>1
      <3> QED
        BY <1>4, <3>1, <3>2
    <2> QED
      BY <1>7, <1>8, <2>1
  <1>11. LexicalsAreEnclosing'
    <2>1. Rest' >= 0 /\ (errors' = 0 => Rest' = 0)
      BY <1>2, <1>8
    <2> QED
      BY <1>9, <2>1 DEF LexicalsAreEnclosing, Rest
  <1> QED
    BY <1>10, <1>11 DEF LexicalInv, EnclosingAreLexicals

\* After an error no form is being compiled, and what was entered stays.
LEMMA LexicalFails ==
    ASSUME TypeOK, Fails
    PROVE  LexicalInv'
  <1>1. Enclosing' = {}
    BY DEF Fails, Enclosing
  <1>2. /\ Len(lexicals') \in Nat /\ Cardinality(Enclosing') = 0
        /\ errors' # 0
    BY <1>1, Typing, FS_EmptySet DEF Fails, TypeOK
  <1>3. Rest' = Len(lexicals')
    <2>1. Rest' = Len(lexicals') - Cardinality(Enclosing')
      BY DEF Rest
    <2> QED
      BY <1>2, <2>1
  <1>4. LexicalsAreEnclosing'
    BY <1>1, <1>2, <1>3 DEF LexicalsAreEnclosing, Rest
  <1>5. EnclosingAreLexicals'
    BY <1>2, <1>3 DEF EnclosingAreLexicals
  <1> QED
    BY <1>4, <1>5 DEF LexicalInv

LEMMA LexicalStep ==
    ASSUME TypeOK, TypeOK', LexicalInv, [Next]_vars
    PROVE  LexicalInv'
  <1>1. CASE UNCHANGED vars
    BY <1>1, LexicalSame DEF vars, SameEnclosing, Enclosing, IsEnclosing, Params
  <1>2. CASE KeepsLambdas
    BY <1>2, KeepsEnclosing, LexicalSame DEF KeepsLambdas
  <1>3. CASE MakesLambda
    <2>1. PICK p \in Nat : p = Len(control')
      <3>1. (Len(control) \in Nat)'
        BY Typing, PTL
      <3> QED
        BY <3>1
    <2>2. errors' = errors
      BY <1>3 DEF MakesLambda
    <2> QED
      BY <1>3, <2>1, <2>2, MakesEnclosing, LexicalSame, LexicalEnter
  <1>4. CASE EndsLambda
    <2>1. errors' = errors
      BY <1>4 DEF EndsLambda
    <2>2. CASE SameEnclosing /\ lexicals' = lexicals
      BY <2>1, <2>2, LexicalSame
    <2>3. CASE ~ (SameEnclosing /\ lexicals' = lexicals)
      <3>1. PICK p \in Enclosing : p = Len(control) /\ Enclosing' = Enclosing \ {p}
        BY <1>4, <2>3, EndsEnclosing
      <3> QED
        BY <1>4, <2>1, <2>3, <3>1, EndsEnclosing, LexicalLeave
    <2> QED
      BY <2>2, <2>3
  <1>5. CASE Fails
    BY <1>5, LexicalFails
  <1> QED
    BY <1>1, <1>2, <1>3, <1>4, <1>5, Kinds

LEMMA LexicalInit ==
    ASSUME Init
    PROVE  LexicalInv
  <1>1. Enclosing = {} /\ Cardinality(Enclosing) = 0 /\ Len(lexicals) = 0
    BY FS_EmptySet, EmptySeq DEF Init, Enclosing
  <1>2. Rest = 0
    BY <1>1 DEF Rest
  <1>3. LexicalsAreEnclosing
    BY <1>1, <1>2 DEF LexicalsAreEnclosing, Rest
  <1>4. EnclosingAreLexicals
    BY <1>1, <1>2 DEF EnclosingAreLexicals
  <1> QED
    BY <1>3, <1>4 DEF LexicalInv

\* While a form is compiled the innermost entries of the lexical environment are
\* the lambdas around it, in their order and with no other between them, whatever
\* errors have left below.
LEMMA LexicalInvariant == Spec => []LexicalInv
  <1>1. Init => LexicalInv
    BY LexicalInit
  <1>2. TypeOK /\ TypeOK' /\ LexicalInv /\ [Next]_vars => LexicalInv'
    BY LexicalStep
  <1> QED
    BY <1>1, <1>2, CompilerTypeCorrect, PTL DEF Spec

\* Each lambda with parameters is entered before its body is compiled and left
\* after it; only an error leaves one, below those of later compilations.
THEOREM LexicalsStayEnclosing == Spec => []LexicalsAreEnclosing
  <1>1. LexicalInv => LexicalsAreEnclosing
    BY DEF LexicalInv
  <1> QED
    BY <1>1, LexicalInvariant, PTL

-----------------------------------------------------------------------------
(* Symbols.                                                                *)

LEMMA ResolutionInnermost ==
    ASSUME TypeOK, LexicalInv, NEW s \in Symbols, value' = MapLexicalSymbol(s)
    PROVE  LET binders == {i \in DOMAIN control :
                              control[i].fn # NoFn /\ Binds(control[i].fn, s)}
           IN /\ \A i \in binders :
                    (\A j \in binders : i >= j)
                       => /\ value'.is = "lex-ref"
                          /\ value'.fn = control[i].fn
                          /\ Params(value'.fn)[value'.offset + 1] = s
              /\ binders = {} /\ errors = 0 => value' = Same
  <1> DEFINE binders == {i \in DOMAIN control :
                            control[i].fn # NoFn /\ Binds(control[i].fn, s)}
             hits == {i \in DOMAIN lexicals : Binds(lexicals[i], s)}
  <1>1. /\ Len(lexicals) \in Nat /\ Len(functions) \in Nat /\ Len(control) \in Nat
        /\ DOMAIN control = 1 .. Len(control)
        /\ DOMAIN lexicals = 1 .. Len(lexicals)
        /\ DOMAIN functions = 1 .. Len(functions)
        /\ \A i \in DOMAIN lexicals : lexicals[i] \in DOMAIN functions
        /\ \A i \in DOMAIN control : control[i].fn \in 0 .. Len(functions)
    BY Typing
  <1>2. /\ Enclosing \subseteq 1 .. Len(control) /\ Cardinality(Enclosing) \in Nat
        /\ \A i \in Enclosing : Depth(i) \in 1 .. Cardinality(Enclosing)
        /\ \A i, j \in Enclosing : i <= j => Depth(i) <= Depth(j)
    BY Depths
  <1>3. /\ Rest \in Nat /\ Len(lexicals) = Rest + Cardinality(Enclosing)
        /\ \A i \in Enclosing : lexicals[Rest + Depth(i)] = control[i].fn
        /\ errors = 0 => Rest = 0
        /\ \A k \in Rest + 1 .. Len(lexicals) : \E i \in Enclosing : k = Rest + Depth(i)
    BY LexicalFacts
  <1>4. \A i \in binders : i \in Enclosing
    <2> SUFFICES ASSUME NEW i \in binders PROVE i \in Enclosing
      OBVIOUS
    <2>1. control[i].fn \in DOMAIN functions
      BY <1>1 DEF NoFn
    <2>2. Params(control[i].fn) # <<>>
      BY <2>1, Offsets
    <2> QED
      BY <2>2 DEF Enclosing, IsEnclosing
  \* A hit above what errors have left is a lambda around the form.
  <1>5. ASSUME NEW m \in hits, m > Rest
        PROVE  \E i \in binders : m = Rest + Depth(i) /\ lexicals[m] = control[i].fn
    <2>1. m \in Rest + 1 .. Len(lexicals)
      BY <1>1, <1>3, <1>5
    <2>2. PICK i \in Enclosing : m = Rest + Depth(i)
      BY <1>3, <2>1
    <2>3. lexicals[m] = control[i].fn
      BY <1>3, <2>2
    <2>4. i \in binders
      BY <2>3 DEF Enclosing, IsEnclosing
    <2> QED
      BY <2>2, <2>3, <2>4
  <1>6. ASSUME NEW i \in binders, \A j \in binders : i >= j
        PROVE  /\ value'.is = "lex-ref"
               /\ value'.fn = control[i].fn
               /\ Params(value'.fn)[value'.offset + 1] = s
    <2>1. /\ i \in Enclosing /\ Depth(i) \in 1 .. Cardinality(Enclosing)
          /\ lexicals[Rest + Depth(i)] = control[i].fn
      BY <1>2, <1>3, <1>4
    <2>2. Rest + Depth(i) \in hits
      <3>1. Rest + Depth(i) \in 1 .. Len(lexicals)
        BY <1>2, <1>3, <2>1
      <3> QED
        BY <1>1, <2>1, <3>1
    <2>3. PICK m \in hits :
             /\ \A j \in hits : m >= j
             /\ MapLexicalSymbol(s) = LexRef(lexicals[m], OffsetOf(lexicals[m], s) - 1)
      BY <2>2, Resolution
    <2>4. m >= Rest + Depth(i) /\ m > Rest
      BY <1>1, <1>2, <1>3, <2>1, <2>2, <2>3
    <2>5. PICK j \in binders : m = Rest + Depth(j) /\ lexicals[m] = control[j].fn
      BY <1>5, <2>4
    <2>6. Depth(j) <= Depth(i)
      BY <1>2, <1>4, <1>6, <2>5
    <2>7. lexicals[m] = control[i].fn
      <3>1. Depth(j) \in 1 .. Cardinality(Enclosing)
        BY <1>2, <1>4
      <3>2. Depth(j) = Depth(i)
        BY <1>2, <1>3, <2>1, <2>4, <2>5, <2>6, <3>1
      <3> QED
        BY <2>1, <2>5, <3>2
    <2>8. lexicals[m] \in DOMAIN functions /\ Binds(lexicals[m], s)
      BY <1>1
    <2>9. /\ OffsetOf(lexicals[m], s) \in 1 .. MaxParams
          /\ Params(lexicals[m])[OffsetOf(lexicals[m], s)] = s
      BY <2>8, Offsets
    <2>10. /\ value'.is = "lex-ref" /\ value'.fn = lexicals[m]
           /\ value'.offset = OffsetOf(lexicals[m], s) - 1
      BY <2>3 DEF LexRef
    <2>11. value'.offset + 1 = OffsetOf(lexicals[m], s)
      BY <2>9, <2>10, CompileAssumption
    <2> QED
      BY <2>7, <2>9, <2>10, <2>11
  <1>7. ASSUME binders = {}, errors = 0
        PROVE  value' = Same
    <2>1. \A m \in hits : m > Rest
      BY <1>1, <1>3, <1>7
    <2>2. hits = {}
      BY <1>5, <1>7, <2>1
    <2> QED
      BY <2>2, Resolution
  <1> QED
    BY <1>6, <1>7

\* A symbol that a lambda around it binds becomes a reference to the innermost of
\* these and to its own place in its parameters, after any number of errors.
THEOREM SymbolsResolveInnermost == Spec => ResolvesInnermost
  <1> DEFINE A == \A s \in Symbols :
                     LET binders == {i \in DOMAIN control :
                                        control[i].fn # NoFn /\ Binds(control[i].fn, s)}
                     IN Symbol(s) \/ CallSymbol(s) =>
                           /\ \A i \in binders :
                                 (\A j \in binders : i >= j)
                                    => /\ value'.is = "lex-ref"
                                       /\ value'.fn = control[i].fn
                                       /\ Params(value'.fn)[value'.offset + 1] = s
                           /\ binders = {} /\ errors = 0 => value' = Same
  <1>1. ASSUME TypeOK, LexicalInv
        PROVE  A
    <2>1. ASSUME NEW s \in Symbols, Symbol(s) \/ CallSymbol(s)
          PROVE  value' = MapLexicalSymbol(s)
      BY <2>1 DEF Symbol, CallSymbol, Return
    <2> QED
      BY <1>1, <2>1, ResolutionInnermost
  <1>2. TypeOK /\ LexicalInv => [A]_vars
    BY <1>1
  <1> HIDE DEF A
  <1>3. [][A]_vars => ResolvesInnermost
    BY PTL DEF ResolvesInnermost, A
  <1> QED
    BY <1>2, <1>3, CompilerTypeCorrect, LexicalInvariant, PTL

=============================================================================
