----------------------------- MODULE MuCompile -----------------------------
(***************************************************************************)
(* The compiler of libmu, core/compile.cc: Compile::Form and what it calls. *)
(* It is recursive; `control' is its C++ stack.  A form is chosen piece by  *)
(* piece as the compiler looks at it: that a place is a cons is known       *)
(* before what its elements are.  A symbol is resolved in env.compiler's    *)
(* `lexicals', the lambdas being compiled that have parameters.  An error   *)
(* is a C++ throw: it empties the C++ stack, and lexicals stays as it is.   *)
(*                                                                         *)
(* The compiler runs no code of the program, so one compilation does not    *)
(* start inside another; the next one starts from what the last one left.   *)
(***************************************************************************)
EXTENDS Integers, Sequences, FiniteSets

CONSTANTS
    Symbols,       \* symbols that are no keywords, env:lex-ref not among them
    NoSymbol,      \* a keyword or constant in a lambda list
    MaxParams,     \* bound: parameters of a lambda
    FrameIds,      \* frame ids that are keywords: 9999999 in the program
    MaxForms,      \* bound: forms compiled in a behaviour
    MaxErrors      \* bound: compilations that end with an error

ASSUME CompileAssumption ==
    /\ NoSymbol \notin Symbols
    /\ {MaxParams, FrameIds, MaxForms, MaxErrors} \subseteq Nat

VARIABLES
    control,    \* the C++ stack of the compilation, the innermost call last
    lexicals,   \* env.compiler->lexicals: lambdas, the innermost last
    functions,  \* lambdas made so far: frame id and parameters
    frame_id,   \* env.compiler->frame_id
    value,      \* what the last call of Form returned
    forms,      \* forms looked at so far
    errors,     \* compilations that ended with an error
    alive       \* FALSE once an assertion has failed

vars == <<control, lexicals, functions, frame_id, value, forms, errors, alive>>

-----------------------------------------------------------------------------
(* Calls and values.  A place is where a call is: at a form of any kind, at  *)
(* one that is a cons, or between two of its parts.                         *)

Place(at, fn) == [at |-> at, fn |-> fn]
NoFn == 0
Places == {"form", "cons", "head", "list", "if", "then", "else"}
BodyPlaces == {"body", "branch", "last"}

Top == control[Len(control)]
Below == SubSeq(control, 1, Len(control) - 1)
GoTo(at) == Append(Below, Place(at, NoFn))
Call(stack, at) == Append(stack, Place(at, NoFn))

At(places) == alive /\ control # <<>> /\ Top.at \in places

Same == [is |-> "same", fn |-> NoFn, offset |-> 0]
Function(fn) == [is |-> "function", fn |-> fn, offset |-> 0]
List == [is |-> "list", fn |-> NoFn, offset |-> 0]
\* (env:lex-ref frame-id offset), with the frame id of fn.
LexRef(fn, offset) == [is |-> "lex-ref", fn |-> fn, offset |-> offset]

Return(v) ==
    /\ control' = Below
    /\ value' = v
    /\ UNCHANGED <<lexicals, functions, frame_id, errors, alive>>

Raise ==
    /\ errors < MaxErrors
    /\ errors' = errors + 1
    /\ control' = <<>>
    /\ UNCHANGED <<lexicals, functions, frame_id, value, alive>>

\* The stack becomes `stack'; nothing else changes.
Go(stack) ==
    /\ control' = stack
    /\ UNCHANGED <<lexicals, functions, frame_id, value, errors, alive>>

Looks == forms < MaxForms /\ forms' = forms + 1

-----------------------------------------------------------------------------
(* The lexical environment.                                                *)

Params(fn) == functions[fn].params
Binds(fn, s) == \E i \in DOMAIN Params(fn) : Params(fn)[i] = s
OffsetOf(fn, s) == CHOOSE i \in DOMAIN Params(fn) : Params(fn)[i] = s

\* Mutant: the outermost lambda that binds a symbol.
MapOldestSymbol(s) ==
    LET hits == {i \in DOMAIN lexicals : Binds(lexicals[i], s)}
        fn == lexicals[CHOOSE i \in hits : \A j \in hits : i <= j]
    IN IF hits = {} THEN Same ELSE LexRef(fn, OffsetOf(fn, s) - 1)

\* map_lexical_symbol, and the form a symbol compiles to.
MapLexicalSymbol(s) ==
    LET hits == {i \in DOMAIN lexicals : Binds(lexicals[i], s)}
        fn == lexicals[CHOOSE i \in hits : \A j \in hits : i >= j]
    IN IF hits = {} THEN Same ELSE LexRef(fn, OffsetOf(fn, s) - 1)

\* Mutant: the counter starts again when it has no more digits.
NextFrameIdAgain == IF frame_id = FrameIds THEN 1 ELSE frame_id + 1

\* Compile::frameid
NextFrameId == frame_id + 1

\* Mutant: a lambda without parameters is entered as well.
EnterAlways(params) == Append(lexicals, Len(functions) + 1)

Enter(params) == IF params = <<>> THEN lexicals ELSE Append(lexicals, Len(functions) + 1)

\* Mutant: the lambda stays in the environment of what follows it.
LeaveNot(fn) == lexicals

Leave(fn) ==
    IF Params(fn) = <<>> THEN lexicals ELSE SubSeq(lexicals, 1, Len(lexicals) - 1)

-----------------------------------------------------------------------------
(* Special forms.                                                          *)

\* def_lambda up to its body: a function with a frame id of its own, entered
\* as a lambda being compiled if it has parameters.  The constructor of a
\* keyword asserts that the frame id fits into a word.
MakeLambda(params, stack, at) ==
    IF frame_id > FrameIds
    THEN /\ alive' = FALSE
         /\ UNCHANGED <<control, lexicals, functions, frame_id, value, errors>>
    ELSE /\ functions' = Append(functions, [id |-> frame_id, params |-> params])
         /\ frame_id' = NextFrameId
         /\ lexicals' = Enter(params)
         /\ control' = Append(stack, Place(at, Len(functions) + 1))
         /\ UNCHANGED <<value, errors, alive>>

\* parse_lambda: parameters are symbols and differ.
Parses(list) ==
    /\ \A i \in DOMAIN list : list[i] # NoSymbol
    /\ \A i, j \in DOMAIN list : list[i] = list[j] => i = j

LambdaLists == UNION {[1 .. n -> Symbols \cup {NoSymbol}] : n \in 0 .. MaxParams}

Lambda(list) ==
    /\ At({"form", "cons"}) /\ Looks
    /\ IF Parses(list) THEN MakeLambda(list, Below, "body") ELSE Raise

\* def_quote returns the form it is given.
Quote == At({"form", "cons"}) /\ Looks /\ Return(List)

\* def_conditional compiles its test, and its branches as bodies of lambdas.
If == At({"form", "cons"}) /\ Looks /\ Go(Call(GoTo("if"), "form"))
Tested == At({"if"}) /\ MakeLambda(<<>>, GoTo("then"), "branch") /\ UNCHANGED forms
Chosen == At({"then"}) /\ MakeLambda(<<>>, GoTo("else"), "branch") /\ UNCHANGED forms
EndIf == At({"else"}) /\ Return(List) /\ UNCHANGED forms

\* Wrong number of elements, a lambda list that is none, a keyword or a
\* constant in the place of a function.
Malformed == At({"form", "cons"}) /\ Looks /\ Raise

-----------------------------------------------------------------------------
(* Compile::Form of atoms and calls.                                       *)

\* Keywords, numbers, strings, functions and so on are their own values.
Constant == At({"form"}) /\ Looks /\ Return(Same)

Symbol(s) == At({"form"}) /\ Looks /\ Return(MapLexicalSymbol(s))

\* A symbol in the place of the function, which compile_list compiles first.
CallSymbol(s) ==
    /\ At({"form", "cons"}) /\ Looks
    /\ control' = GoTo("list")
    /\ value' = MapLexicalSymbol(s)
    /\ UNCHANGED <<lexicals, functions, frame_id, errors, alive>>

\* A function in the place of the function.
CallFunction == At({"form", "cons"}) /\ Looks /\ Go(GoTo("list"))

\* A list in the place of the function, which has to become a function.
CallList == At({"form", "cons"}) /\ Looks /\ Go(Call(GoTo("head"), "cons"))
Called ==
    /\ At({"head"}) /\ UNCHANGED forms
    /\ IF value.is = "function" THEN Go(GoTo("list")) ELSE Raise

-----------------------------------------------------------------------------
(* compile_list, of the rest of a call, of the body of a lambda and of the   *)
(* one form of a branch.                                                    *)

NextForm == At({"list", "body"}) /\ Go(Call(control, "form")) /\ UNCHANGED forms
EndList == At({"list"}) /\ Return(List) /\ UNCHANGED forms

Branch ==
    /\ At({"branch"}) /\ UNCHANGED forms
    /\ Go(Call(Append(Below, Place("last", Top.fn)), "form"))

\* def_lambda after its body: the function gets its form.
EndBody ==
    /\ At({"body", "last"}) /\ UNCHANGED forms
    /\ control' = Below
    /\ lexicals' = Leave(Top.fn)
    /\ value' = Function(Top.fn)
    /\ UNCHANGED <<functions, frame_id, errors, alive>>

\* (eval form) and (compile form), from the program or the repl.
Compile ==
    /\ alive /\ control = <<>> /\ forms < MaxForms
    /\ Go(Call(<<>>, "form")) /\ UNCHANGED forms

Init ==
    /\ control = <<>>
    /\ lexicals = <<>>
    /\ functions = <<>>
    /\ frame_id = 1
    /\ value = Same
    /\ forms = 0
    /\ errors = 0
    /\ alive = TRUE

Next ==
    \/ Compile
    \/ Constant \/ (\E s \in Symbols : Symbol(s) \/ CallSymbol(s))
    \/ CallFunction \/ CallList \/ Called \/ NextForm \/ EndList
    \/ (\E list \in LambdaLists : Lambda(list)) \/ EndBody
    \/ Quote \/ If \/ Tested \/ Chosen \/ Branch \/ EndIf
    \/ Malformed

Spec == Init /\ [][Next]_vars

-----------------------------------------------------------------------------
(* Properties.                                                             *)

TypeOK ==
    /\ control \in Seq([at : Places, fn : {NoFn}]
                        \cup [at : BodyPlaces, fn : 1 .. Len(functions)])
    /\ lexicals \in Seq({fn \in 1 .. Len(functions) : Params(fn) # <<>>})
    /\ functions \in Seq([id : 1 .. FrameIds, params : LambdaLists])
    /\ frame_id \in 1 .. FrameIds + 1
    /\ value \in [is : {"same", "function", "list", "lex-ref"},
                  fn : 0 .. Len(functions), offset : 0 .. MaxParams]
    /\ forms \in 0 .. MaxForms /\ errors \in 0 .. MaxErrors /\ alive \in BOOLEAN

\* Where on the stack the bodies of lambdas with parameters are compiled, and
\* how many of these lambdas are around the i-th place.
IsEnclosing(place) == place.fn # NoFn /\ Params(place.fn) # <<>>
Enclosing == {i \in DOMAIN control : IsEnclosing(control[i])}
Depth(i) == Cardinality({j \in Enclosing : j <= i})

\* The innermost lambdas of the lexical environment are those around the form
\* that is compiled, in their order; there are no others unless an error has
\* left some (def_lambda's push and pop, core/compile.cc:137 and :142).
LexicalsAreEnclosing ==
    LET rest == Len(lexicals) - Cardinality(Enclosing)
    IN /\ rest >= 0
       /\ \A i \in Enclosing : lexicals[rest + Depth(i)] = control[i].fn
       /\ errors = 0 => rest = 0

\* A symbol that lambdas around it bind becomes a reference to the innermost of
\* them, whatever earlier errors have left; one that none of them binds stays
\* itself, unless an error has left a lambda that binds it
\* (map_lexical_symbol, core/compile.cc:61).
ResolvesInnermost ==
    [][\A s \in Symbols :
          LET binders == {i \in DOMAIN control :
                             control[i].fn # NoFn /\ Binds(control[i].fn, s)}
          IN Symbol(s) \/ CallSymbol(s) =>
                /\ \A i \in binders :
                      (\A j \in binders : i >= j)
                         => /\ value'.is = "lex-ref"
                            /\ value'.fn = control[i].fn
                            /\ Params(value'.fn)[value'.offset + 1] = s
                /\ binders = {} /\ errors = 0 => value' = Same
      ]_vars

\* No two lambdas have the same frame id: Context::lexical has a stack of frames
\* for each (Compile::frameid, core/compile.cc:187).
FrameIdsDistinct ==
    \A f, g \in DOMAIN functions : functions[f].id = functions[g].id => f = g

=============================================================================
