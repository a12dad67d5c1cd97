----------------------------- MODULE MuReader -----------------------------
(***************************************************************************)
(* The reader of libmu (core/read.cc, with Cons::Read and the readers of   *)
(* vectors and strings) on one input stream, and a client that calls read, *)
(* rd-char, un-char and close in any order.                                *)
(*                                                                         *)
(* The reader is recursive C++.  stack holds the callers of Env::Read that *)
(* wait for an object, innermost last; pc is where the innermost function  *)
(* stands, and next is where ReadWSUntilEof returns to or what the atom    *)
(* being read is for.  A step is one character or one return.  An          *)
(* exception drops the stack.  A failed assertion, a key missing from a    *)
(* table and undefined behaviour end the process: pc is "dead".            *)
(*                                                                         *)
(* A member of Letters may stand for a run of letters, such as the name of *)
(* a vector type.  Floats, signs, bytes and the length limits of atoms and *)
(* strings are left out.                                                   *)
(***************************************************************************)
EXTENDS MuStream, FiniteSets

CONSTANTS Letters,    \* characters of names
          Digits,     \* characters of numbers
          Untyped,    \* characters missing from the reader's type map
          MaxChars    \* bound on the client's calls of rd-char and un-char

VARIABLES in,         \* the stream that is read
          began,      \* history: where the last read began, 0 after another call
          outcome,    \* how the last read ended
          chars,      \* history: the calls of rd-char and un-char
          stack, pc, next,
          buf,        \* the characters of the atom or string being read
          value       \* the last object read

client == <<began, outcome, chars>>
vars == <<in, began, outcome, chars, stack, pc, next, buf, value>>

-----------------------------------------------------------------------------
(* The read table.                                                         *)

\* "grave" is the backquote.
WSpace == {" ", "\n"}
SyntaxChars == {"\"", "#", "grave", "(", ")", ",", ".", ":", ";", "'", "\\", "|", "}"}
Constituents == Letters \cup Digits \cup {".", ":", "}", "<", ">"}

\* IsCharSyntaxCharAny has the closing brace and MapSyntaxChar does not.
Unmapped == {"}"}

ASSUME TableAssumption ==
    /\ Chars \subseteq WSpace \cup SyntaxChars \cup Constituents \cup Untyped \cup {EOT}
    /\ Untyped \cap (WSpace \cup SyntaxChars \cup Constituents) = {}
    /\ (Letters \cup Digits) \cap (WSpace \cup SyntaxChars) = {}
    /\ {NoChar, EOT} \cap (WSpace \cup SyntaxChars \cup Constituents \cup Untyped) = {}

ASSUME BoundAssumption == MaxChars \in Nat

-----------------------------------------------------------------------------
(* Objects.                                                                *)

Object(t, s, kids) == [t |-> t, s |-> s, kids |-> kids]

NIL == Object("keyword", <<"nil">>, <<>>)
Dot == Object("dot", <<>>, <<>>)
Char(ch) == IF ch = NoChar THEN NIL ELSE Object("char", <<ch>>, <<>>)
String(s) == Object("string", s, <<>>)
Pair(car, cdr) == Object("cons", <<>>, <<car, cdr>>)

ListDot(items, tail) == FoldRight(Pair, items, tail)
List(items) == ListDot(items, NIL)

IsNumber(s) == Range(s) \subseteq Digits
IsKeyword(o) == o.t = "keyword"

\* A number is its numeral.
Atom(s) ==
    IF IsNumber(s) THEN Object("number", s, <<>>)
    ELSE IF Head(s) = ":" THEN Object("keyword", Tail(s), <<>>)
    ELSE Object("symbol", s, <<>>)

\* Radix 16 makes another number of a numeral with several digits.
Radixed(s, radix) ==
    Object("number", IF radix = "x" /\ Len(s) > 1 THEN <<radix>> \o s ELSE s, <<>>)
Uninterned(s) == Object("uninterned", s, <<>>)
Quoted(o) ==
    IF o.t \in {"keyword", "symbol", "uninterned", "cons"}
    THEN List(<<Object("keyword", <<"quote">>, <<>>), o>>)
    ELSE o

\* Vector types and what their elements may be.
VectorTypes == {<<"t">>, <<"fixnum">>, <<"char">>}
IsElement(o, type) ==
    \/ type = <<"t">>
    \/ type = <<"fixnum">> /\ o.t = "number"
    \/ type = <<"char">> /\ o.t = "char"
Vector(type, items) ==
    IF type = <<"char">>
    THEN String([i \in DOMAIN items |-> items[i].s[1]])
    ELSE Object("vector", type, items)

-----------------------------------------------------------------------------
(* What the steps of the reader are made of.                               *)

Ch == ReadByte(in).ch
Take == in' = ReadByte(in).stream
\* Mutant: what was read is put back even when it was the end.
LeaveAlways == in' = UnReadByte(ReadByte(in).stream, IF Ch = NoChar THEN " " ELSE Ch)

Leave == in' = IF Ch = NoChar THEN ReadByte(in).stream
               ELSE UnReadByte(ReadByte(in).stream, Ch)

Top == Last(stack)
Frame(fn, type, items) == [fn |-> fn, type |-> type, items |-> items]
Push(frame) == stack' = Append(stack, frame)
Replace(frame) == stack' = Append(Front(stack), frame)
Pop == stack' = Front(stack)

GoTo(p, n) == pc' = p /\ next' = n /\ UNCHANGED value
Form == GoTo("space", "form")
Answer(o) == pc' = "return" /\ value' = o /\ UNCHANGED next
Raise ==
    /\ outcome' = "raised" /\ stack' = <<>> /\ pc' = "idle"
    /\ next' = "form" /\ value' = NIL
    /\ UNCHANGED <<began, chars>>
Die == pc' = "dead" /\ UNCHANGED <<next, value, stack, client>>

ReaderInit ==
    /\ began = 0 /\ chars = 0 /\ outcome = "none"
    /\ stack = <<>> /\ pc = "idle" /\ next = "form" /\ buf = <<>> /\ value = NIL

-----------------------------------------------------------------------------
(* Env::ReadWSUntilEof: spaces, and comments to the end of their line.     *)

SkipSpace ==
    /\ pc = "space" /\ Ch \in WSpace
    /\ Take
    /\ UNCHANGED <<client, stack, pc, next, buf, value>>

EnterComment ==
    /\ pc = "space" /\ Ch = ";"
    /\ Take /\ GoTo("line", next)
    /\ UNCHANGED <<client, stack, buf>>

SkipComment ==
    /\ pc = "line" /\ Ch # NoChar
    /\ Take /\ GoTo(IF Ch = "\n" THEN "space" ELSE "line", next)
    /\ UNCHANGED <<client, stack, buf>>

\* Mutant: a list that is not closed ends with the stream.
NoMoreAnswers ==
    /\ pc \in {"space", "line"} /\ Ch = NoChar
    /\ Take /\ Answer(NIL)
    /\ stack' = IF next = "form" THEN stack ELSE Front(stack)
    /\ UNCHANGED <<client, buf>>

\* Env::Read answers NIL at the end of the stream, Cons::Read raises.
NoMore ==
    /\ pc \in {"space", "line"} /\ Ch = NoChar
    /\ Take /\ UNCHANGED buf
    /\ IF next = "form"
       THEN Answer(NIL) /\ UNCHANGED <<client, stack>>
       ELSE Raise

Found ==
    /\ pc = "space" /\ Ch \notin WSpace \cup {";", NoChar}
    /\ UNCHANGED buf
    /\ IF Ch \in Unmapped \cup Untyped
       THEN Take /\ Die
       ELSE Leave /\ GoTo(next, next) /\ UNCHANGED <<client, stack>>

-----------------------------------------------------------------------------
(* Env::Read, the character a form starts with and the one after a sharp.  *)

Dispatch ==
    /\ pc = "form"
    /\ buf' = <<>>
    /\ \/ /\ Ch = "(" /\ Take
          /\ Push(Frame("list", <<>>, <<>>)) /\ GoTo("space", "open")
          /\ UNCHANGED client
       \/ Ch = "'" /\ Take /\ Push(Frame("quote", <<>>, <<>>)) /\ Form /\ UNCHANGED client
       \/ Ch = "." /\ Take /\ Answer(Dot) /\ UNCHANGED <<client, stack>>
       \/ Ch = "\"" /\ Take /\ GoTo("string", next) /\ UNCHANGED <<client, stack>>
       \/ Ch = "#" /\ Take /\ GoTo("sharp", next) /\ UNCHANGED <<client, stack>>
       \/ Ch = ")" /\ Take /\ Raise
       \/ /\ Ch \notin {"(", "'", ".", "\"", "#", ")"}
          /\ Leave /\ GoTo("atom", "plain") /\ UNCHANGED <<client, stack>>

Sharp ==
    /\ pc = "sharp"
    /\ Take /\ UNCHANGED buf
    /\ \/ Ch \in {"x", "d", ":"} /\ GoTo("atom", Ch) /\ UNCHANGED <<client, stack>>
       \/ Ch = "\\" /\ GoTo("char", next) /\ UNCHANGED <<client, stack>>
       \/ Ch = "(" /\ Push(Frame("vectype", <<>>, <<>>)) /\ Form /\ UNCHANGED client
       \/ Ch = "|" /\ GoTo("block", next) /\ UNCHANGED <<client, stack>>
       \/ Ch \in Unmapped /\ Die
       \/ Ch \notin {"x", "d", ":", "\\", "(", "|"} \cup Unmapped /\ Raise

ReadSharpChar ==
    /\ pc = "char"
    /\ Take /\ Answer(Char(Ch))
    /\ UNCHANGED <<client, stack, buf>>

\* Mutant: the end of the stream is not tested.
EndlessComment ==
    /\ pc \in {"block", "bar"}
    /\ UNCHANGED <<client, stack, buf>>
    /\ Take
    /\ IF pc = "bar" /\ Ch = "#" THEN Form
       ELSE GoTo(IF Ch = "|" THEN "bar" ELSE "block", next)

\* A block comment; the form after it is read in its place.
BlockComment ==
    /\ pc \in {"block", "bar"}
    /\ UNCHANGED buf
    /\ \/ Ch = NoChar /\ Take /\ Raise
       \/ /\ pc = "block" /\ Ch # NoChar
          /\ Take /\ GoTo(IF Ch = "|" THEN "bar" ELSE "block", next)
          /\ UNCHANGED <<client, stack>>
       \/ pc = "bar" /\ Ch = "#" /\ Take /\ Form /\ UNCHANGED <<client, stack>>
       \/ /\ pc = "bar" /\ Ch \notin {"#", NoChar}
          /\ Leave /\ GoTo("block", next)
          /\ UNCHANGED <<client, stack>>

-----------------------------------------------------------------------------
(* Atoms and strings.                                                      *)

ReadAtom ==
    /\ pc = "atom" /\ Ch \in Constituents
    /\ Take /\ buf' = Append(buf, Ch)
    /\ UNCHANGED <<client, stack, pc, next, value>>

\* What read_atom's callers make of it.  A name with a colon inside belongs to
\* a namespace that may not be there (MuNamespace).
AtomRead ==
    \/ next = "plain" /\ buf # <<":">> /\ Answer(Atom(buf)) /\ UNCHANGED <<client, stack>>
    \/ next = "plain" /\ (buf = <<":">> \/ (Head(buf) # ":" /\ ":" \in Range(buf))) /\ Raise
    \/ next \in {"x", "d"} /\ IsNumber(buf) /\ Answer(Radixed(buf, next)) /\ UNCHANGED <<client, stack>>
    \/ next \in {"x", "d"} /\ ~IsNumber(buf) /\ Raise
    \/ /\ next = ":" /\ ~IsNumber(buf) /\ ":" \notin Range(buf)
       /\ Answer(Uninterned(buf)) /\ UNCHANGED <<client, stack>>
    \/ next = ":" /\ (IsNumber(buf) \/ ":" \in Range(buf)) /\ Raise

\* Mutant: an atom without characters is NIL.
EndEmptyAtom ==
    /\ pc = "atom" /\ Ch \notin Constituents
    /\ UNCHANGED buf
    /\ IF Ch \in Untyped THEN Take /\ Die
       ELSE /\ Leave
            /\ IF buf = <<>> THEN Answer(NIL) /\ UNCHANGED <<client, stack>> ELSE AtomRead

EndAtom ==
    /\ pc = "atom" /\ Ch \notin Constituents
    /\ UNCHANGED buf
    /\ IF Ch \in Untyped THEN Take /\ Die
       ELSE /\ Leave
            /\ IF buf = <<>> THEN Raise ELSE AtomRead

\* Vector::ReadString.  Its first character is not tested for the end.
ReadString ==
    /\ pc = "string"
    /\ Take
    /\ \/ Ch = "\"" /\ Answer(String(buf)) /\ UNCHANGED <<client, stack, buf>>
       \/ Ch = "\\" /\ GoTo("escape", next) /\ UNCHANGED <<client, stack, buf>>
       \/ (Ch \in Unmapped \/ (Ch = NoChar /\ buf = <<>>)) /\ Die /\ UNCHANGED buf
       \/ Ch = NoChar /\ buf # <<>> /\ Raise /\ UNCHANGED buf
       \/ /\ Ch \notin {"\"", "\\", NoChar} \cup Unmapped
          /\ buf' = Append(buf, Ch)
          /\ UNCHANGED <<client, stack, pc, next, value>>

ReadEscape ==
    /\ pc = "escape"
    /\ Take
    /\ \/ Ch = NoChar /\ Raise /\ UNCHANGED buf
       \/ /\ Ch # NoChar
          /\ buf' = Append(buf, Ch) /\ GoTo("string", next)
          /\ UNCHANGED <<client, stack>>

-----------------------------------------------------------------------------
(* Cons::Read.                                                             *)

\* After the opening parenthesis, and after each element.
CloseList ==
    /\ pc \in {"open", "item"} /\ Ch = ")"
    /\ Take /\ Pop /\ Answer(List(Top.items))
    /\ UNCHANGED <<client, buf>>

\* Mutant: the character that was read ahead is lost.
NextElementTakes ==
    /\ pc \in {"open", "item"} /\ Ch # ")"
    /\ Take /\ Form
    /\ UNCHANGED <<client, stack, buf>>

NextElement ==
    /\ pc \in {"open", "item"} /\ Ch # ")"
    /\ Leave /\ Form
    /\ UNCHANGED <<client, stack, buf>>

\* After a dot's object.  ListDot of one object reads before its buffer.
CloseDotted ==
    /\ pc = "close"
    /\ Take /\ UNCHANGED buf
    /\ \/ Ch # ")" /\ Raise
       \/ Ch = ")" /\ Len(Top.items) < 2 /\ Die
       \/ /\ Ch = ")" /\ Len(Top.items) > 1
          /\ Pop /\ Answer(ListDot(Front(Top.items), Last(Top.items)))
          /\ UNCHANGED client

-----------------------------------------------------------------------------
(* The return of an object to the function that waits for it.              *)

Returning(fn) == pc = "return" /\ stack # <<>> /\ Top.fn = fn /\ UNCHANGED <<in, client, buf>>

ReturnToClient ==
    /\ pc = "return" /\ stack = <<>>
    /\ pc' = "idle" /\ outcome' = "value" /\ next' = "form" /\ buf' = <<>>
    /\ UNCHANGED <<in, began, chars, stack, value>>

ReturnToQuote ==
    /\ Returning("quote")
    /\ Pop /\ Answer(Quoted(value))

ReturnToList ==
    /\ Returning("list")
    /\ IF value = Dot
       THEN Replace([Top EXCEPT !.fn = "dotted"]) /\ Form
       ELSE Replace([Top EXCEPT !.items = Append(@, value)]) /\ GoTo("space", "item")

ReturnToDotted ==
    /\ Returning("dotted")
    /\ Replace([Top EXCEPT !.items = Append(@, value)])
    /\ GoTo("space", "close")

\* Vector::Read: the type, then a list of the elements.
ReturnToVectorType ==
    /\ pc = "return" /\ stack # <<>> /\ Top.fn = "vectype"
    /\ UNCHANGED <<in, buf>>
    /\ IF IsKeyword(value)
       THEN /\ stack' = Front(stack) \o <<Frame("vector", value.s, <<>>), Frame("list", <<>>, <<>>)>>
            /\ GoTo("space", "open") /\ UNCHANGED client
       ELSE Raise

\* ListToVector takes the list apart; an iterator never sees a dotted tail.
ListToVector ==
    /\ pc = "return" /\ stack # <<>> /\ Top.fn = "vector"
    /\ UNCHANGED <<in, buf>>
    /\ LET type == Top.type IN
       \/ type \notin VectorTypes /\ Die
       \/ /\ type \in VectorTypes /\ value.t = "cons"
          /\ IF IsElement(value.kids[1], type)
             THEN /\ Replace([Top EXCEPT !.items = Append(@, value.kids[1])])
                  /\ value' = value.kids[2]
                  /\ UNCHANGED <<client, pc, next>>
             ELSE Raise
       \/ /\ type \in VectorTypes /\ value.t # "cons"
          /\ Pop /\ Answer(Vector(type, Top.items)) /\ UNCHANGED client

Reader ==
    \/ SkipSpace \/ EnterComment \/ SkipComment \/ NoMore \/ Found
    \/ Dispatch \/ Sharp \/ ReadSharpChar \/ BlockComment
    \/ ReadAtom \/ EndAtom \/ ReadString \/ ReadEscape
    \/ CloseList \/ NextElement \/ CloseDotted
    \/ ReturnToClient \/ ReturnToQuote \/ ReturnToList \/ ReturnToDotted
    \/ ReturnToVectorType \/ ListToVector

-----------------------------------------------------------------------------
(* The client.                                                             *)

\* (read stream)
Read ==
    /\ pc = "idle" /\ began' = in.pos /\ buf' = <<>> /\ value' = NIL
    /\ UNCHANGED <<in, chars, stack, next>>
    /\ IF IsEof(in)
       THEN outcome' = "raised" /\ UNCHANGED pc
       ELSE outcome' = "none" /\ pc' = "space"

\* The other calls leave the reader alone.
Calls(stream) ==
    /\ pc = "idle" /\ in' = stream
    /\ began' = 0 /\ outcome' = "none" /\ value' = NIL /\ buf' = <<>>
    /\ UNCHANGED <<stack, pc, next>>

Counted == chars < MaxChars /\ chars' = chars + 1

\* (rd-char stream)
ReadChar == Counted /\ Calls(ReadByte(in).stream)

\* (un-char char stream), of the last characters that were read, and not after
\* a read that found the end: there putback would clear eofbit for good.
UnReadChar ==
    /\ Counted /\ in.pos > 0 /\ ~in.fail
    /\ Calls(UnReadByte(in, in.text[in.pos]))

\* (close stream)
CloseStream == Calls(Close(in)) /\ UNCHANGED chars

Client == Read \/ ReadChar \/ UnReadChar \/ CloseStream

\* (open :string :input text) and its like: from here on another stream is read.
OpenInput(kind, text) == Calls(Open(kind, "input", text)) /\ UNCHANGED chars

\* Something else ends the process, between two calls.
Abort == pc = "idle" /\ Die /\ UNCHANGED <<in, buf>>

\* The reader in any program: all that MuWriteRead's does to these variables.
ReaderSpec ==
    /\ ReaderInit
    /\ \E kind \in Kinds, text \in Seq(Chars) : in = Open(kind, "input", text)
    /\ [][\/ Reader \/ Client \/ Abort
          \/ \E kind \in Kinds, text \in Seq(Chars) : OpenInput(kind, text)]_vars

-----------------------------------------------------------------------------
(* Properties of the reader.                                               *)

PCs == {"idle", "dead", "space", "line", "form", "atom", "sharp", "char",
        "block", "bar", "string", "escape", "open", "item", "close", "return"}

\* The reader's state is well formed.  A vector's frame is innermost only while
\* its list is taken apart.
ReaderTypeOK ==
    /\ in \in Streams /\ buf \in Seq(Chars)
    /\ began \in Nat /\ chars \in 0 .. MaxChars /\ outcome \in {"none", "value", "raised"}
    /\ pc \in PCs
    /\ next \in {"form", "open", "item", "close", "plain", "x", "d", ":"}
    /\ \A i \in DOMAIN stack :
          stack[i].fn \in {"quote", "list", "dotted", "vectype", "vector"}
    /\ stack # <<>> /\ Top.fn = "vector" => pc \in {"return", "dead"}

\* In a text without strings, comments and character syntax the lists that wait
\* for their end are the parentheses that were consumed and not closed: each
\* character is consumed once, whatever was read ahead and put back, and an
\* object that is answered has all of its parentheses and none of its reader's.
Plain(text) == Range(text) \cap {"\"", ";", "|", "\\"} = {}
Consumed(ch) == Cardinality({i \in began + 1 .. in.pos : in.text[i] = ch})
DepthIsBalance ==
    Plain(in.text) /\ (pc \notin {"idle", "dead"} \/ outcome = "value")
    => Cardinality({i \in DOMAIN stack : stack[i].fn \in {"list", "dotted", "vectype"}})
         = Consumed("(") - Consumed(")")

\* A stream that gives no more characters says so, whatever the reader puts
\* back: a program that reads until eofp answers true, and puts nothing back
\* itself after the end, ends.
EofReported == in.fail => in.eof

\* A read that answers has consumed something, or there is nothing left: a
\* loop that reads forms cannot stay at one place.
ReadAdvances ==
    outcome = "value" => in.pos > began \/ in.eof \/ in.closed

\* Every read comes to its end, whatever the text.
ReadReturns == pc # "idle" ~> pc \in {"idle", "dead"}

=============================================================================
