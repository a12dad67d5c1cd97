-------------------------- MODULE MuReaderProofs --------------------------
(***************************************************************************)
(* TLAPS proofs about MuReader, for any characters, tables and texts, and   *)
(* any program around the reader (ReaderSpec); and that MuWriteRead is such *)
(* a program, whatever text the printer gives an object.                   *)
(*                                                                         *)
(* Whatever a step of the reader does, it takes one character, or looks at  *)
(* one, or leaves the stream alone (ReaderMoves).  To look at a character   *)
(* and put it back changes nothing at all (PutBackUndoes), so that three    *)
(* cases are left for whatever is said of the stream.                       *)
(***************************************************************************)
EXTENDS MuWriteRead, FiniteSetTheorems, SequenceTheorems, WellFoundedInduction, TLAPS

-----------------------------------------------------------------------------
(* The stream.                                                             *)

\* The flags of a stream that is read: failbit comes with eofbit, and eofbit
\* only where nothing is left.
StreamInv(s) ==
    /\ s \in Streams /\ s.pos \in 0 .. Len(s.text)
    /\ s.fail => s.eof
    /\ s.eof => AtEnd(s)

\* t is s with at most one character more consumed.
Onward(s, t) ==
    /\ StreamInv(t)
    /\ t.text = s.text /\ t.closed = s.closed /\ t.dir = s.dir
    /\ t.pos \in {s.pos, s.pos + 1}
    /\ s.eof => t.eof

\* What a read of ch says about the streams before and after.
Consumes(s, ch, t) ==
    IF ch # NoChar
    THEN /\ ch \in Chars \ {EOT}
         /\ s.pos + 1 \in DOMAIN s.text /\ s.text[s.pos + 1] = ch
         /\ t.pos = s.pos + 1
    ELSE \/ /\ s.pos + 1 \in DOMAIN s.text /\ s.text[s.pos + 1] = EOT
            /\ t.pos = s.pos + 1
         \/ t.pos = s.pos /\ (t.eof \/ t.closed)

LEMMA StreamFields ==
    ASSUME NEW s \in Streams
    PROVE  /\ s.kind \in Kinds /\ s.dir \in Directions /\ s.text \in Seq(Chars) /\ s.pos \in Nat
           /\ s.eof \in BOOLEAN /\ s.fail \in BOOLEAN /\ s.closed \in BOOLEAN
           /\ Len(s.text) \in Nat /\ DOMAIN s.text = 1 .. Len(s.text)
           /\ s = [kind |-> s.kind, dir |-> s.dir, text |-> s.text, pos |-> s.pos,
                   eof |-> s.eof, fail |-> s.fail, closed |-> s.closed]
  <1>1. s.text \in Seq(Chars)
    BY DEF Streams
  <1> QED
    BY <1>1, LenProperties DEF Streams

\* A read goes onward.
LEMMA ReadGoesOn ==
    ASSUME NEW s, StreamInv(s)
    PROVE  /\ Onward(s, ReadByte(s).stream)
           /\ Consumes(s, ReadByte(s).ch, ReadByte(s).stream)
  <1> DEFINE p == s.pos + 1
             ended == [s EXCEPT !.eof = s.eof \/ ~s.fail, !.fail = s.kind # "std"]
             gone == [s EXCEPT !.pos = @ + 1]
  <1>1. s \in Streams /\ s.pos \in 0 .. Len(s.text)
    BY DEF StreamInv
  <1>2. CASE s.closed
    <2>1. ReadByte(s).stream = s /\ ReadByte(s).ch = NoChar
      BY <1>2 DEF ReadByte
    <2> QED
      BY <1>1, <1>2, <2>1, StreamFields DEF Onward, Consumes, StreamInv
  <1>3. CASE ~s.closed /\ (s.fail \/ AtEnd(s))
    <2>1. Get(s) = [ch |-> NoChar, stream |-> ended]
      BY <1>3 DEF Get
    <2>2. ReadByte(s).stream = ended /\ ReadByte(s).ch = NoChar
      BY <2>1, <1>3 DEF ReadByte
    <2>3. AtEnd(s)
      BY <1>3 DEF StreamInv
    <2>4. /\ ended \in Streams /\ ended.pos = s.pos /\ ended.text = s.text
          /\ ended.closed = s.closed /\ ended.dir = s.dir
          /\ ended.eof = (s.eof \/ ~s.fail)
      BY <1>1, StreamFields DEF Streams
    <2>5. ended.eof
      BY <2>4, <1>1, StreamFields DEF StreamInv
    <2> QED
      BY <1>1, <2>2, <2>3, <2>4, <2>5 DEF Onward, Consumes, StreamInv, AtEnd
  <1>4. CASE ~s.closed /\ ~s.fail /\ ~AtEnd(s)
    <2>1. Get(s) = [ch |-> s.text[p], stream |-> gone]
      BY <1>4 DEF Get
    <2>2. /\ ReadByte(s).stream = gone
          /\ ReadByte(s).ch = IF s.text[p] = EOT THEN NoChar ELSE s.text[p]
      BY <2>1, <1>4 DEF ReadByte
    <2>3. p \in DOMAIN s.text /\ p \in 0 .. Len(s.text)
      BY <1>1, <1>4, StreamFields DEF AtEnd
    <2>4. s.text[p] \in Chars
      BY <2>3, <1>1, StreamFields, ElementOfSeq
    <2>5. ~s.eof
      BY <1>4 DEF StreamInv
    <2>6. /\ gone \in Streams /\ gone.pos = p /\ gone.text = s.text
          /\ gone.closed = s.closed /\ gone.dir = s.dir /\ gone.eof = s.eof /\ gone.fail = s.fail
      BY <1>1, StreamFields DEF Streams
    <2>7. StreamInv(gone)
      BY <1>4, <2>3, <2>5, <2>6 DEF StreamInv
    <2>8. Onward(s, gone)
      BY <2>5, <2>6, <2>7 DEF Onward
    <2>9. Consumes(s, ReadByte(s).ch, gone)
      BY <2>2, <2>3, <2>4, <2>6, CharsAssumption DEF Consumes
    <2> QED
      BY <2>2, <2>8, <2>9
  <1>5. s.closed \in BOOLEAN /\ s.fail \in BOOLEAN
    BY <1>1, StreamFields
  <1> QED
    BY <1>2, <1>3, <1>4, <1>5

\* To read ahead and put the character back leaves the stream as it was.
LEMMA PutBackUndoes ==
    ASSUME NEW s, StreamInv(s), ReadByte(s).ch # NoChar
    PROVE  UnReadByte(ReadByte(s).stream, ReadByte(s).ch) = s
  <1> DEFINE p == s.pos + 1
             ch == s.text[p]
             gone == [s EXCEPT !.pos = @ + 1]
             back == [gone EXCEPT !.text[gone.pos] = ch, !.pos = @ - 1, !.eof = FALSE]
  <1>1. s \in Streams /\ s.pos \in 0 .. Len(s.text)
    BY DEF StreamInv
  <1>2. ~s.closed
    BY DEF ReadByte
  <1>3. ~s.fail /\ ~AtEnd(s)
    BY <1>2 DEF ReadByte, Get
  <1>4. /\ ReadByte(s).stream = gone /\ ReadByte(s).ch = ch
    BY <1>2, <1>3 DEF ReadByte, Get
  <1>5. ~s.eof
    BY <1>3 DEF StreamInv
  <1>6. p \in DOMAIN s.text
    BY <1>1, <1>3, StreamFields DEF AtEnd
  <1>7. /\ gone.pos = p /\ gone.text = s.text /\ gone.eof = s.eof /\ gone.fail = s.fail
        /\ gone.closed = s.closed /\ gone.kind = s.kind
    BY <1>1, StreamFields DEF Streams
  <1>8. UnReadByte(gone, ch) = back
    <2>1. ~gone.closed /\ ~gone.fail /\ gone.pos # 0
      BY <1>1, <1>2, <1>3, <1>7, StreamFields
    <2> HIDE DEF gone
    <2>2. Ungetc(gone, ch) = back /\ Putback(gone, ch) = back
      BY <2>1 DEF Ungetc, Putback
    <2> QED
      BY <2>1, <2>2 DEF UnReadByte
  <1>9. [s.text EXCEPT ![p] = ch] = s.text
    <2>1. s.text = [i \in DOMAIN s.text |-> s.text[i]]
      BY <1>1, StreamFields, LenProperties
    <2> QED
      BY <2>1, <1>6
  <1>10. gone \in Streams
    BY <1>1, <1>6, StreamFields DEF Streams
  <1>11. [gone.text EXCEPT ![gone.pos] = ch] = s.text /\ gone.pos - 1 = s.pos
    BY <1>1, <1>7, <1>9, StreamFields
  <1>12. s.kind = gone.kind /\ s.dir = gone.dir /\ s.fail = gone.fail /\ s.closed = gone.closed
    BY <1>1 DEF Streams
  <1> HIDE DEF gone
  <1>13. DOMAIN back = DOMAIN gone /\ back.kind = gone.kind /\ back.dir = gone.dir /\ back.fail = gone.fail
         /\ back.closed = gone.closed /\ back.eof = FALSE
         /\ back.text = s.text /\ back.pos = s.pos
    <2>1. gone = [kind |-> gone.kind, dir |-> gone.dir, text |-> gone.text, pos |-> gone.pos,
                  eof |-> gone.eof, fail |-> gone.fail, closed |-> gone.closed]
      BY <1>10, StreamFields
    <2>2. back.kind = gone.kind /\ back.dir = gone.dir /\ back.fail = gone.fail
          /\ back.closed = gone.closed /\ back.eof = FALSE
      BY <2>1
    <2>3. back.text = [gone.text EXCEPT ![gone.pos] = ch] /\ back.pos = gone.pos - 1
      BY <2>1
    <2>4. DOMAIN back = DOMAIN gone
      OBVIOUS
    <2> QED
      BY <2>1, <2>2, <2>3, <2>4, <1>11
  <1>14. back = [x \in DOMAIN back |-> back[x]]
    OBVIOUS
  <1> HIDE DEF back
  <1>15. back = s
    <2>1. DOMAIN gone = {"kind", "dir", "text", "pos", "eof", "fail", "closed"}
      BY <1>10 DEF Streams
    <2>2. back = [kind |-> back.kind, dir |-> back.dir, text |-> back.text, pos |-> back.pos,
                  eof |-> back.eof, fail |-> back.fail, closed |-> back.closed]
      BY <2>1, <1>13, <1>14
    <2>3. s.eof = FALSE
      BY <1>1, <1>5, StreamFields
    <2>4. s = [kind |-> s.kind, dir |-> s.dir, text |-> s.text, pos |-> s.pos,
               eof |-> s.eof, fail |-> s.fail, closed |-> s.closed]
      BY <1>1, StreamFields
    <2>5. /\ back.kind = s.kind /\ back.dir = s.dir /\ back.text = s.text /\ back.pos = s.pos
          /\ back.eof = s.eof /\ back.fail = s.fail /\ back.closed = s.closed
      BY <2>3, <1>12, <1>13
    <2> QED
      BY <2>2, <2>4, <2>5
  <1> QED
    BY <1>4, <1>8, <1>15

\* What Take and Leave do to the stream.
LEMMA Taken ==
    ASSUME StreamInv(in), Take
    PROVE  Onward(in, in') /\ Consumes(in, Ch, in')
  BY ReadGoesOn DEF Take, Ch

LEMMA LeftThere ==
    ASSUME StreamInv(in), Leave
    PROVE  /\ Onward(in, in')
           /\ Ch # NoChar => in' = in /\ Ch \in Chars \ {EOT}
           /\ Ch = NoChar => Consumes(in, Ch, in')
  <1>1. CASE Ch = NoChar
    BY <1>1, ReadGoesOn DEF Leave, Ch
  <1>2. CASE Ch # NoChar
    <2>1. in' = in
      BY <1>2, PutBackUndoes DEF Leave, Ch
    <2>2. Onward(in, in)
      BY DEF Onward, StreamInv
    <2>3. Ch \in Chars \ {EOT}
      BY <1>2, ReadGoesOn DEF Ch, Consumes
    <2> QED
      BY <1>2, <2>1, <2>2, <2>3
  <1> QED
    BY <1>1, <1>2

\* What is no character is in no table, and only names and numbers have a
\* constituent that is no syntax character.
LEMMA TheTables ==
    /\ NoChar \notin WSpace \cup SyntaxChars \cup Constituents \cup Untyped
    /\ EOT \notin WSpace \cup SyntaxChars \cup Constituents \cup Untyped
    /\ Constituents \cap {"(", ")", "\"", ";", "|", "\\"} = {}
    /\ Untyped \cap {"(", ")", "\"", ";", "|", "\\"} = {}
  BY TableAssumption DEF WSpace, SyntaxChars, Constituents

-----------------------------------------------------------------------------
(* The stack of callers.                                                   *)

Functions == {"quote", "list", "dotted", "vectype", "vector"}
IsFrame(e) == e = Frame(e.fn, e.type, e.items) /\ e.fn \in Functions

\* What waits may be any object, so the elements of a stack have no set.
IsStack(s) == /\ \E S : s \in Seq(S)
              /\ \A i \in DOMAIN s : IsFrame(s[i])

LEMMA StackLength ==
    ASSUME NEW s, IsStack(s)
    PROVE  /\ Len(s) \in Nat /\ DOMAIN s = 1 .. Len(s)
           /\ s # <<>> => Len(s) \in DOMAIN s
           /\ s = <<>> <=> Len(s) = 0
  <1>1. PICK S : s \in Seq(S)
    BY DEF IsStack
  <1> QED
    BY <1>1, LenProperties, EmptySeq

LEMMA EmptyStack == IsStack(<<>>)
  <1>1. <<>> \in Seq({}) /\ DOMAIN <<>> = {}
    BY EmptySeq
  <1> QED
    BY <1>1 DEF IsStack

LEMMA MadeFrame ==
    ASSUME NEW fn \in Functions, NEW type, NEW items
    PROVE  IsFrame(Frame(fn, type, items)) /\ Frame(fn, type, items).fn = fn
  BY DEF IsFrame, Frame

LEMMA Pushed ==
    ASSUME NEW s, IsStack(s), NEW e, IsFrame(e)
    PROVE  /\ IsStack(Append(s, e))
           /\ Append(s, e) # <<>> /\ Last(Append(s, e)) = e
           /\ Len(Append(s, e)) = Len(s) + 1
           /\ \A i \in 1 .. Len(s) : Append(s, e)[i] = s[i]
  <1>1. PICK S : s \in Seq(S)
    BY DEF IsStack
  <1>2. s \in Seq(S \cup {e})
    BY <1>1, SeqMonotonic
  <1>3. /\ Append(s, e) \in Seq(S \cup {e})
        /\ Len(Append(s, e)) = Len(s) + 1
        /\ \A i \in 1 .. Len(s) : Append(s, e)[i] = s[i]
        /\ Append(s, e)[Len(s) + 1] = e
    BY <1>2, AppendProperties
  <1>4. Len(s) \in Nat /\ DOMAIN s = 1 .. Len(s) /\ DOMAIN Append(s, e) = 1 .. Len(s) + 1
    BY <1>2, <1>3, LenProperties
  <1>5. \A i \in DOMAIN Append(s, e) : IsFrame(Append(s, e)[i])
    <2> TAKE i \in DOMAIN Append(s, e)
    <2>1. CASE i = Len(s) + 1
      BY <2>1, <1>3
    <2>2. CASE i \in 1 .. Len(s)
      BY <2>2, <1>3, <1>4 DEF IsStack
    <2> QED
      BY <2>1, <2>2, <1>4
  <1> QED
    BY <1>3, <1>4, <1>5, EmptySeq DEF IsStack, Last

LEMMA Popped ==
    ASSUME NEW s, IsStack(s), s # <<>>
    PROVE  /\ IsStack(Front(s)) /\ Len(Front(s)) = Len(s) - 1
           /\ Append(Front(s), Last(s)) = s
           /\ IsFrame(Last(s))
  <1>1. PICK S : s \in Seq(S)
    BY DEF IsStack
  <1>2. Len(s) \in Nat \ {0} /\ DOMAIN s = 1 .. Len(s)
    BY <1>1, LenProperties, EmptySeq
  <1>3. /\ Front(s) \in Seq(S) /\ Len(Front(s)) = Len(s) - 1
        /\ \A i \in 1 .. Len(s) - 1 : Front(s)[i] = s[i]
    <2>1. \A i \in 1 .. Len(s) - 1 : s[i] \in S
      BY <1>1, <1>2, ElementOfSeq
    <2> QED
      BY <1>2, <2>1, SubSeqProperties DEF Front
  <1>4. DOMAIN Front(s) = 1 .. Len(s) - 1
    BY <1>3, LenProperties
  <1>5. IsStack(Front(s)) /\ IsFrame(Last(s))
    BY <1>2, <1>3, <1>4 DEF IsStack, Last
  <1>6. Last(s) \in S
    BY <1>1, <1>2, ElementOfSeq DEF Last
  <1>7. Append(Front(s), Last(s)) = s
    <2>1. /\ Append(Front(s), Last(s)) \in Seq(S)
          /\ Len(Append(Front(s), Last(s))) = Len(s) - 1 + 1
          /\ \A i \in 1 .. Len(s) - 1 : Append(Front(s), Last(s))[i] = s[i]
          /\ Append(Front(s), Last(s))[Len(s) - 1 + 1] = s[Len(s)]
      BY <1>3, <1>6, AppendProperties DEF Last
    <2>2. Len(s) - 1 + 1 = Len(s)
      BY <1>2
    <2>3. \A n \in Nat : \A i \in 1 .. n : i \in 1 .. n - 1 \/ i = n
      OBVIOUS
    <2>4. \A i \in 1 .. Len(s) : Append(Front(s), Last(s))[i] = s[i]
      BY <1>2, <2>1, <2>2, <2>3
    <2> QED
      BY <1>1, <2>1, <2>2, <2>4, SeqEqual
  <1> QED
    BY <1>3, <1>5, <1>7

LEMMA PushedTwo ==
    ASSUME NEW s, IsStack(s), NEW d, NEW e
    PROVE  s \o <<d, e>> = Append(Append(s, d), e)
  <1>1. PICK S : s \in Seq(S)
    BY DEF IsStack
  <1> DEFINE T == S \cup {d, e}
  <1>2. s \in Seq(T) /\ d \in T /\ e \in T
    BY <1>1, SeqMonotonic
  <1> HIDE DEF T
  <1> QED
    BY <1>2

\* A frame's items, or its function, replaced.
LEMMA ChangedFrame ==
    ASSUME NEW e, IsFrame(e), NEW items
    PROVE  /\ IsFrame([e EXCEPT !.items = items]) /\ [e EXCEPT !.items = items].fn = e.fn
           /\ IsFrame([e EXCEPT !.fn = "dotted"]) /\ [e EXCEPT !.fn = "dotted"].fn = "dotted"
  BY DEF IsFrame, Frame, Functions

-----------------------------------------------------------------------------
(* Types and control.                                                      *)

\* What is read after the spaces.
Ahead == IF pc \in {"space", "line"} THEN next ELSE pc

DataInv ==
    /\ buf \in Seq(Chars)
    /\ began \in Nat /\ chars \in 0 .. MaxChars /\ outcome \in {"none", "value", "raised"}
    /\ pc \in PCs
    /\ next \in {"form", "open", "item", "close", "plain", "x", "d", ":"}

\* Where the reader stands, and who waits for it.
ControlInv ==
    /\ IsStack(stack)
    /\ pc \in {"space", "line"} => next \in {"form", "open", "item", "close"}
    /\ Ahead \in {"open", "item"} => stack # <<>> /\ Top.fn = "list"
    /\ Ahead = "close" => stack # <<>> /\ Top.fn = "dotted"
    /\ stack # <<>> /\ Top.fn = "vector" => pc \in {"return", "dead"}
    /\ pc = "idle" => stack = <<>> /\ next = "form"
    /\ pc = "atom" => next \in {"plain", "x", "d", ":"}
    /\ pc \notin {"idle", "dead"} => outcome = "none"
    /\ outcome = "value" => stack = <<>>

ReaderInv == StreamInv(in) /\ DataInv /\ ControlInv

\* Every step of the reader reads one character, or looks at it, or leaves the
\* stream alone.
LEMMA ReaderMoves ==
    ASSUME Reader
    PROVE  Take \/ Leave \/ in' = in
  BY DEF Reader, SkipSpace, EnterComment, SkipComment, NoMore, Found, Dispatch, Sharp,
         ReadSharpChar, BlockComment, ReadAtom, EndAtom, ReadString, ReadEscape, CloseList,
         NextElement, CloseDotted, ReturnToClient, ReturnToQuote, ReturnToList,
         ReturnToDotted, ReturnToVectorType, ListToVector, Returning

\* The five ways to end a step.
LEMMA RaiseEnds ==
    ASSUME DataInv, Raise, buf' \in Seq(Chars)
    PROVE  DataInv' /\ ControlInv'
  <1>1. stack' = <<>> /\ IsStack(stack')
    BY EmptyStack DEF Raise
  <1> QED
    BY <1>1 DEF DataInv, ControlInv, Raise, Ahead, PCs

LEMMA DieEnds ==
    ASSUME DataInv, ControlInv, Die, buf' \in Seq(Chars)
    PROVE  DataInv' /\ ControlInv'
  BY DEF DataInv, ControlInv, Die, Ahead, PCs, client, Top

\* Whatever is answered, and whoever is left waiting.
LEMMA AnswerEnds ==
    ASSUME DataInv, pc \notin {"idle", "dead"}, outcome = "none", NEW o, Answer(o),
           buf' \in Seq(Chars), UNCHANGED client, IsStack(stack')
    PROVE  DataInv' /\ ControlInv'
  BY DEF DataInv, ControlInv, Answer, Ahead, PCs, client

\* On to another place for the same caller, where no caller of a certain kind is
\* needed, or for the caller that is needed there.
LEMMA GoToEnds ==
    ASSUME DataInv, outcome = "none", buf' \in Seq(Chars), UNCHANGED client,
           NEW p \in PCs \ {"idle", "dead", "return"},
           NEW n \in {"form", "open", "item", "close", "plain", "x", "d", ":"},
           GoTo(p, n), IsStack(stack'),
           p \in {"space", "line"} => n \in {"form", "open", "item", "close"},
           p = "atom" => n \in {"plain", "x", "d", ":"},
           stack' # <<>> => Last(stack').fn # "vector",
           (p \in {"open", "item"} \/ (p \in {"space", "line"} /\ n \in {"open", "item"}))
             => stack' # <<>> /\ Last(stack').fn = "list",
           (p = "close" \/ (p \in {"space", "line"} /\ n = "close"))
             => stack' # <<>> /\ Last(stack').fn = "dotted"
    PROVE  DataInv' /\ ControlInv'
  <1>1. pc' = p /\ next' = n /\ outcome' = "none" /\ chars' = chars /\ began' = began
    BY DEF GoTo, client
  <1>2. DataInv'
    BY <1>1 DEF DataInv, PCs
  <1>3. Ahead' = IF p \in {"space", "line"} THEN n ELSE p
    BY <1>1 DEF Ahead
  <1>4. ControlInv'
    BY <1>1, <1>3 DEF ControlInv, Top, PCs
  <1> QED
    BY <1>2, <1>4

LEMMA StayEnds ==
    ASSUME DataInv, ControlInv, buf' \in Seq(Chars), UNCHANGED <<client, stack, pc, next>>
    PROVE  DataInv' /\ ControlInv'
  BY DEF DataInv, ControlInv, client, Ahead, Top

LEMMA OneMore ==
    ASSUME NEW s \in Seq(Chars), NEW ch \in Chars
    PROVE  Append(s, ch) \in Seq(Chars)
  BY AppendProperties

LEMMA WhatIsNext ==
    ASSUME StreamInv(in)
    PROVE  Ch # NoChar => Ch \in Chars /\ Ch # EOT
  BY ReadGoesOn DEF Ch, Consumes

\* The reader runs only in a call.
LEMMA ReaderRuns ==
    ASSUME Reader
    PROVE  pc \notin {"idle", "dead"}
  BY DEF Reader, SkipSpace, EnterComment, SkipComment, NoMore, Found, Dispatch, Sharp,
         ReadSharpChar, BlockComment, ReadAtom, EndAtom, ReadString, ReadEscape, CloseList,
         NextElement, CloseDotted, ReturnToClient, ReturnToQuote, ReturnToList,
         ReturnToDotted, ReturnToVectorType, ListToVector, Returning

\* The functions that skip spaces and comments.
LEMMA SpaceTypes ==
    ASSUME ReaderInv,
           SkipSpace \/ EnterComment \/ SkipComment \/ NoMore \/ Found
    PROVE  DataInv' /\ ControlInv'
  <1> USE DEF ReaderInv
  <1>1. pc \in {"space", "line"} /\ buf' = buf /\ buf' \in Seq(Chars)
    BY DEF DataInv, SkipSpace, EnterComment, SkipComment, NoMore, Found
  <1>2. /\ outcome = "none" /\ next \in {"form", "open", "item", "close"} /\ IsStack(stack)
        /\ stack # <<>> => Last(stack).fn # "vector"
        /\ next \in {"open", "item"} => stack # <<>> /\ Last(stack).fn = "list"
        /\ next = "close" => stack # <<>> /\ Last(stack).fn = "dotted"
    BY <1>1 DEF ControlInv, Ahead, Top
  <1>3. CASE SkipSpace
    BY <1>1, <1>3, StayEnds DEF SkipSpace
  <1>4. ASSUME NEW p \in {"space", "line"}, GoTo(p, next), UNCHANGED <<client, stack>>
        PROVE  DataInv' /\ ControlInv'
    <2>1. p \in PCs \ {"idle", "dead", "return"}
      BY DEF PCs
    <2>2. stack' = stack /\ UNCHANGED client
      BY <1>4
    <2> QED
      BY <1>1, <1>2, <1>4, <2>1, <2>2, GoToEnds
  <1>5. CASE EnterComment
    BY <1>4, <1>5 DEF EnterComment
  <1>6. CASE SkipComment
    BY <1>4, <1>6 DEF SkipComment
  <1>7. CASE NoMore
    <2>1. CASE next = "form"
      <3>1. Answer(NIL) /\ UNCHANGED <<client, stack>>
        BY <1>7, <2>1 DEF NoMore
      <3> QED
        BY <1>1, <1>2, <3>1, AnswerEnds
    <2>2. CASE next # "form"
      BY <1>1, <1>7, <2>2, RaiseEnds DEF NoMore
    <2> QED
      BY <2>1, <2>2
  <1>8. CASE Found
    <2>1. CASE Ch \in Unmapped \cup Untyped
      BY <1>1, <1>8, <2>1, DieEnds DEF Found
    <2>2. CASE Ch \notin Unmapped \cup Untyped
      <3>1. GoTo(next, next) /\ UNCHANGED client /\ stack' = stack
        BY <1>8, <2>2 DEF Found
      <3>2. next \in PCs \ {"idle", "dead", "return"}
        BY <1>2 DEF PCs
      <3>3. next \notin {"space", "line", "atom"}
        BY <1>2
      <3> QED
        BY <1>1, <1>2, <3>1, <3>2, <3>3, GoToEnds
    <2> QED
      BY <2>1, <2>2
  <1> QED
    BY <1>3, <1>5, <1>6, <1>7, <1>8

\* A form's first character, the one after a sharp, and block comments.
LEMMA FormTypes ==
    ASSUME ReaderInv, Dispatch \/ Sharp \/ ReadSharpChar \/ BlockComment
    PROVE  DataInv' /\ ControlInv'
  <1> USE DEF ReaderInv
  <1>1. /\ pc \in {"form", "sharp", "char", "block", "bar"} /\ buf' \in Seq(Chars)
        /\ Ch # NoChar => Ch \in Chars
    <2>1. pc \in {"form", "sharp", "char", "block", "bar"} /\ (buf' = buf \/ buf' = <<>>)
      BY DEF Dispatch, Sharp, ReadSharpChar, BlockComment
    <2> QED
      BY <2>1, EmptySeq, WhatIsNext DEF DataInv
  <1>2. /\ outcome = "none" /\ IsStack(stack)
        /\ stack # <<>> => Last(stack).fn # "vector"
        /\ next \in {"form", "open", "item", "close", "plain", "x", "d", ":"}
    BY <1>1 DEF DataInv, ControlInv, Ahead, Top
  <1>3. ASSUME NEW p \in {"atom", "string", "sharp", "char", "block", "bar"},
               NEW n \in {"form", "open", "item", "close", "plain", "x", "d", ":"},
               p = "atom" => n \in {"plain", "x", "d", ":"},
               GoTo(p, n), UNCHANGED <<client, stack>>
        PROVE  DataInv' /\ ControlInv'
    <2>1. p \in PCs \ {"idle", "dead", "return"}
      BY DEF PCs
    <2>2. stack' = stack /\ UNCHANGED client
      BY <1>3
    <2> QED
      BY <1>1, <1>2, <1>3, <2>1, <2>2, GoToEnds
  <1>4. ASSUME NEW fn \in {"quote", "vectype"}, Push(Frame(fn, <<>>, <<>>)), Form, UNCHANGED client
        PROVE  DataInv' /\ ControlInv'
    <2>1. IsFrame(Frame(fn, <<>>, <<>>)) /\ Frame(fn, <<>>, <<>>).fn = fn
      BY MadeFrame DEF Functions
    <2>2. IsStack(stack') /\ Last(stack').fn # "vector"
      BY <1>2, <1>4, <2>1, Pushed DEF Push
    <2>3. GoTo("space", "form") /\ "space" \in PCs
      BY <1>4 DEF Form, PCs
    <2> QED
      BY <1>1, <1>2, <1>4, <2>2, <2>3, GoToEnds
  <1>5. ASSUME Form, UNCHANGED <<client, stack>>
        PROVE  DataInv' /\ ControlInv'
    <2>1. GoTo("space", "form") /\ "space" \in PCs /\ stack' = stack /\ UNCHANGED client
      BY <1>5 DEF Form, PCs
    <2> QED
      BY <1>1, <1>2, <2>1, GoToEnds
  <1>6. ASSUME NEW o, Answer(o), UNCHANGED <<client, stack>>
        PROVE  DataInv' /\ ControlInv'
    BY <1>1, <1>2, <1>6, AnswerEnds
  <1>7. CASE Dispatch
    <2>1. CASE Ch = "("
      <3>1. Push(Frame("list", <<>>, <<>>)) /\ GoTo("space", "open") /\ UNCHANGED client
        BY <1>7, <2>1 DEF Dispatch
      <3>2. IsFrame(Frame("list", <<>>, <<>>)) /\ Frame("list", <<>>, <<>>).fn = "list"
        BY MadeFrame DEF Functions
      <3>3. IsStack(stack') /\ stack' # <<>> /\ Last(stack').fn = "list"
        BY <1>2, <3>1, <3>2, Pushed DEF Push
      <3>4. "space" \in PCs
        BY DEF PCs
      <3> QED
        BY <1>1, <1>2, <3>1, <3>3, <3>4, GoToEnds
    <2>2. CASE Ch = "'"
      BY <1>4, <1>7, <2>2 DEF Dispatch
    <2>3. CASE Ch = "."
      BY <1>6, <1>7, <2>3 DEF Dispatch
    <2>4. CASE Ch = "\""
      BY <1>2, <1>3, <1>7, <2>4 DEF Dispatch
    <2>5. CASE Ch = "#"
      BY <1>2, <1>3, <1>7, <2>5 DEF Dispatch
    <2>6. CASE Ch = ")"
      BY <1>1, <1>7, <2>6, RaiseEnds DEF Dispatch
    <2>7. CASE Ch \notin {"(", "'", ".", "\"", "#", ")"}
      BY <1>2, <1>3, <1>7, <2>7 DEF Dispatch
    <2> QED
      BY <2>1, <2>2, <2>3, <2>4, <2>5, <2>6, <2>7
  <1>8. CASE Sharp
    <2>1. CASE Ch \in {"x", "d", ":"} /\ GoTo("atom", Ch) /\ UNCHANGED <<client, stack>>
      BY <1>3, <2>1
    <2>2. CASE Ch = "\\" /\ GoTo("char", next) /\ UNCHANGED <<client, stack>>
      BY <1>2, <1>3, <2>2
    <2>3. CASE Push(Frame("vectype", <<>>, <<>>)) /\ Form /\ UNCHANGED client
      BY <1>4, <2>3
    <2>4. CASE GoTo("block", next) /\ UNCHANGED <<client, stack>>
      BY <1>2, <1>3, <2>4
    <2>5. CASE Die
      BY <1>1, <2>5, DieEnds
    <2>6. CASE Raise
      BY <1>1, <2>6, RaiseEnds
    <2> QED
      BY <1>8, <2>1, <2>2, <2>3, <2>4, <2>5, <2>6 DEF Sharp
  <1>9. CASE ReadSharpChar
    BY <1>6, <1>9 DEF ReadSharpChar
  <1>10. CASE BlockComment
    <2>1. CASE Raise
      BY <1>1, <2>1, RaiseEnds
    <2>2. CASE GoTo(IF Ch = "|" THEN "bar" ELSE "block", next) /\ UNCHANGED <<client, stack>>
      BY <1>2, <1>3, <2>2
    <2>3. CASE Form /\ UNCHANGED <<client, stack>>
      BY <1>5, <2>3
    <2>4. CASE GoTo("block", next) /\ UNCHANGED <<client, stack>>
      BY <1>2, <1>3, <2>4
    <2> QED
      BY <1>10, <2>1, <2>2, <2>3, <2>4 DEF BlockComment
  <1> QED
    BY <1>7, <1>8, <1>9, <1>10

\* Atoms and strings.
LEMMA TextTypes ==
    ASSUME ReaderInv, ReadAtom \/ EndAtom \/ ReadString \/ ReadEscape
    PROVE  DataInv' /\ ControlInv'
  <1> USE DEF ReaderInv
  <1>1. /\ pc \in {"atom", "string", "escape"}
        /\ Ch # NoChar => Ch \in Chars
        /\ buf \in Seq(Chars)
        /\ Ch # NoChar => Append(buf, Ch) \in Seq(Chars)
    BY WhatIsNext, OneMore DEF ReadAtom, EndAtom, ReadString, ReadEscape, DataInv
  <1>2. /\ outcome = "none" /\ IsStack(stack)
        /\ stack # <<>> => Last(stack).fn # "vector"
        /\ next \in {"form", "open", "item", "close", "plain", "x", "d", ":"}
    BY <1>1 DEF DataInv, ControlInv, Ahead, Top
  <1>3. ASSUME NEW o, Answer(o), UNCHANGED <<client, stack>>, buf' = buf
        PROVE  DataInv' /\ ControlInv'
    BY <1>1, <1>2, <1>3, AnswerEnds
  <1>4. ASSUME NEW p \in {"string", "escape"}, GoTo(p, next), UNCHANGED <<client, stack>>,
               buf' \in Seq(Chars)
        PROVE  DataInv' /\ ControlInv'
    <2>1. p \in PCs \ {"idle", "dead", "return"}
      BY DEF PCs
    <2>2. stack' = stack /\ UNCHANGED client
      BY <1>4
    <2> QED
      BY <1>1, <1>2, <1>4, <2>1, <2>2, GoToEnds
  <1>5. CASE ReadAtom
    <2>1. Ch # NoChar
      BY <1>5, TheTables DEF ReadAtom
    <2> QED
      BY <1>1, <1>5, <2>1, StayEnds DEF ReadAtom
  <1>6. CASE EndAtom
    <2>1. buf' = buf
      BY <1>6 DEF EndAtom
    <2>2. CASE Die
      BY <1>1, <2>1, <2>2, DieEnds
    <2>3. CASE Raise
      BY <1>1, <2>1, <2>3, RaiseEnds
    <2>4. CASE AtomRead /\ ~Raise
      BY <1>3, <2>1, <2>4 DEF AtomRead
    <2> QED
      BY <1>6, <2>2, <2>3, <2>4 DEF EndAtom
  <1>7. CASE ReadString
    <2>1. CASE Ch = "\""
      BY <1>3, <1>7, <2>1, TheTables DEF ReadString, SyntaxChars, Unmapped
    <2>2. CASE Ch = "\\"
      BY <1>1, <1>4, <1>7, <2>2, TheTables DEF ReadString, SyntaxChars, Unmapped
    <2>3. CASE Die /\ buf' = buf
      BY <1>1, <2>3, DieEnds
    <2>4. CASE Raise /\ buf' = buf
      BY <1>1, <2>4, RaiseEnds
    <2>5. CASE Ch # NoChar /\ buf' = Append(buf, Ch) /\ UNCHANGED <<client, stack, pc, next, value>>
      BY <1>1, <2>5, StayEnds
    <2> QED
      BY <1>7, <2>1, <2>2, <2>3, <2>4, <2>5 DEF ReadString
  <1>8. CASE ReadEscape
    <2>1. CASE Ch = NoChar
      BY <1>1, <1>8, <2>1, RaiseEnds DEF ReadEscape
    <2>2. CASE Ch # NoChar
      BY <1>1, <1>4, <1>8, <2>2 DEF ReadEscape
    <2> QED
      BY <2>1, <2>2
  <1> QED
    BY <1>5, <1>6, <1>7, <1>8

\* The ends of lists, and returns to whoever waits.
LEMMA ListTypes ==
    ASSUME ReaderInv,
           \/ CloseList \/ NextElement \/ CloseDotted
           \/ ReturnToClient \/ ReturnToQuote \/ ReturnToList \/ ReturnToDotted
           \/ ReturnToVectorType \/ ListToVector
    PROVE  DataInv' /\ ControlInv'
  <1> USE DEF ReaderInv
  <1>1. /\ pc \in {"open", "item", "close", "return"} /\ buf' \in Seq(Chars)
        /\ outcome = "none" /\ IsStack(stack)
    <2>1. pc \in {"open", "item", "close", "return"} /\ (buf' = buf \/ buf' = <<>>)
      BY DEF CloseList, NextElement, CloseDotted, ReturnToClient, ReturnToQuote, ReturnToList,
             ReturnToDotted, ReturnToVectorType, ListToVector, Returning
    <2> QED
      BY <2>1, EmptySeq DEF DataInv, ControlInv
  <1>2. ASSUME NEW o, Answer(o), Pop, stack # <<>>, UNCHANGED client
        PROVE  DataInv' /\ ControlInv'
    <2>1. IsStack(stack')
      BY <1>1, <1>2, Popped DEF Pop
    <2> QED
      BY <1>1, <1>2, <2>1, AnswerEnds
  <1>3. ASSUME stack # <<>>, NEW e, IsFrame(e), Replace(e)
        PROVE  IsStack(stack') /\ stack' # <<>> /\ Last(stack') = e
    BY <1>1, <1>3, Popped, Pushed DEF Replace
  <1>4. CASE CloseList
    <2>1. stack # <<>>
      BY <1>4 DEF CloseList, ControlInv, Ahead
    <2> QED
      BY <1>2, <1>4, <2>1 DEF CloseList
  <1>5. CASE NextElement
    <2>1. GoTo("space", "form") /\ "space" \in PCs /\ stack' = stack /\ UNCHANGED client
      BY <1>5 DEF NextElement, Form, PCs
    <2>2. Last(stack).fn = "list"
      BY <1>5 DEF NextElement, ControlInv, Ahead, Top
    <2> QED
      BY <1>1, <2>1, <2>2, GoToEnds
  <1>6. CASE CloseDotted
    <2>1. stack # <<>>
      BY <1>6 DEF CloseDotted, ControlInv, Ahead
    <2>2. CASE Raise
      BY <1>1, <2>2, RaiseEnds
    <2>3. CASE Die
      BY <1>1, <2>3, DieEnds
    <2>4. CASE Pop /\ Answer(ListDot(Front(Top.items), Last(Top.items))) /\ UNCHANGED client
      BY <1>2, <2>1, <2>4
    <2> QED
      BY <1>6, <2>2, <2>3, <2>4 DEF CloseDotted
  <1>7. CASE ReturnToClient
    BY <1>1, <1>7 DEF ReturnToClient, DataInv, ControlInv, Ahead, PCs
  <1>8. CASE ReturnToQuote
    BY <1>2, <1>8 DEF ReturnToQuote, Returning
  <1>9. CASE ReturnToList
    <2>1. /\ stack # <<>> /\ UNCHANGED client
          /\ IsFrame(Top) /\ Top.fn = "list"
      BY <1>1, <1>9, Popped DEF ReturnToList, Returning, Top
    <2>2. CASE value = Dot
      <3> DEFINE e == [Top EXCEPT !.fn = "dotted"]
      <3>1. IsFrame(e) /\ e.fn = "dotted"
        BY <2>1, ChangedFrame
      <3>2. Replace(e) /\ GoTo("space", "form") /\ "space" \in PCs
        BY <1>9, <2>2 DEF ReturnToList, Form, PCs
      <3> HIDE DEF e
      <3>3. IsStack(stack') /\ stack' # <<>> /\ Last(stack') = e
        BY <1>3, <2>1, <3>1, <3>2
      <3> QED
        BY <1>1, <2>1, <3>1, <3>2, <3>3, GoToEnds
    <2>3. CASE value # Dot
      <3> DEFINE e == [Top EXCEPT !.items = Append(@, value)]
      <3>1. IsFrame(e) /\ e.fn = "list"
        BY <2>1, ChangedFrame
      <3>2. Replace(e) /\ GoTo("space", "item") /\ "space" \in PCs
        BY <1>9, <2>3 DEF ReturnToList, PCs
      <3> HIDE DEF e
      <3>3. IsStack(stack') /\ stack' # <<>> /\ Last(stack') = e
        BY <1>3, <2>1, <3>1, <3>2
      <3> QED
        BY <1>1, <2>1, <3>1, <3>2, <3>3, GoToEnds
    <2> QED
      BY <2>2, <2>3
  <1>10. CASE ReturnToDotted
    <2> DEFINE e == [Top EXCEPT !.items = Append(@, value)]
    <2>1. /\ stack # <<>> /\ UNCHANGED client
          /\ IsFrame(Top) /\ Top.fn = "dotted"
      BY <1>1, <1>10, Popped DEF ReturnToDotted, Returning, Top
    <2>2. IsFrame(e) /\ e.fn = "dotted"
      BY <2>1, ChangedFrame
    <2>3. Replace(e) /\ GoTo("space", "close") /\ "space" \in PCs
      BY <1>10 DEF ReturnToDotted, PCs
    <2> HIDE DEF e
    <2>4. IsStack(stack') /\ stack' # <<>> /\ Last(stack') = e
      BY <1>3, <2>1, <2>2, <2>3
    <2> QED
      BY <1>1, <2>1, <2>2, <2>3, <2>4, GoToEnds
  <1>11. CASE ReturnToVectorType
    <2> DEFINE v == Frame("vector", value.s, <<>>)
               l == Frame("list", <<>>, <<>>)
               rest == Front(stack)
    <2>1. CASE Raise
      BY <1>1, <2>1, RaiseEnds
    <2>2. CASE ~Raise
      <3>1. /\ stack # <<>> /\ stack' = rest \o <<v, l>>
            /\ GoTo("space", "open") /\ "space" \in PCs /\ UNCHANGED client
        BY <1>11, <2>2 DEF ReturnToVectorType, PCs
      <3>2. IsFrame(v) /\ IsFrame(l) /\ l.fn = "list"
        BY MadeFrame DEF Functions
      <3>3. IsStack(rest)
        BY <1>1, <3>1, Popped
      <3> HIDE DEF v, l, rest
      <3>4. stack' = Append(Append(rest, v), l)
        BY <3>1, <3>3, PushedTwo
      <3>5. IsStack(stack') /\ stack' # <<>> /\ Last(stack') = l
        BY <3>2, <3>3, <3>4, Pushed
      <3> QED
        BY <1>1, <3>1, <3>2, <3>5, GoToEnds
    <2> QED
      BY <2>1, <2>2
  <1>12. CASE ListToVector
    <2>1. stack # <<>> /\ pc = "return" /\ IsFrame(Top) /\ Top.fn = "vector"
      BY <1>1, <1>12, Popped DEF ListToVector, Top
    <2>2. CASE Die
      BY <1>1, <2>2, DieEnds
    <2>3. CASE Raise
      BY <1>1, <2>3, RaiseEnds
    <2>4. CASE Pop /\ Answer(Vector(Top.type, Top.items)) /\ UNCHANGED client
      BY <1>2, <2>1, <2>4
    <2>5. CASE /\ Replace([Top EXCEPT !.items = Append(@, value.kids[1])])
               /\ UNCHANGED <<client, pc, next>>
      <3>1. IsFrame([Top EXCEPT !.items = Append(@, value.kids[1])])
        BY <2>1, ChangedFrame
      <3>2. IsStack(stack')
        BY <1>3, <2>1, <2>5, <3>1
      <3> QED
        BY <1>1, <2>1, <2>5, <3>2 DEF DataInv, ControlInv, Ahead, client
    <2> QED
      BY <1>12, <2>2, <2>3, <2>4, <2>5 DEF ListToVector
  <1> QED
    BY <1>4, <1>5, <1>6, <1>7, <1>8, <1>9, <1>10, <1>11, <1>12

\* The calls of a client and of the rest of the program.
LEMMA OpenedStream ==
    ASSUME NEW kind \in Kinds, NEW text \in Seq(Chars)
    PROVE  StreamInv(Open(kind, "input", text)) /\ Open(kind, "input", text).pos = 0
  <1>1. Len(text) \in Nat
    BY LenProperties
  <1> QED
    BY <1>1 DEF Open, StreamInv, Streams, Directions

LEMMA ClosedStream ==
    ASSUME NEW s, StreamInv(s)
    PROVE  StreamInv(Close(s))
  BY StreamFields DEF Close, StreamInv, AtEnd, Streams

\* What was read may be put back, while the stream has not failed.
LEMMA PutBack ==
    ASSUME NEW s, StreamInv(s), s.pos > 0, ~s.fail
    PROVE  StreamInv(UnReadByte(s, s.text[s.pos]))
  <1> DEFINE back == [s EXCEPT !.text[s.pos] = s.text[s.pos], !.pos = @ - 1, !.eof = FALSE]
  <1>1. s \in Streams /\ s.pos \in 1 .. Len(s.text)
    BY StreamFields DEF StreamInv
  <1>2. CASE s.closed
    BY <1>2 DEF UnReadByte
  <1>3. CASE ~s.closed
    <2>1. UnReadByte(s, s.text[s.pos]) = back
      BY <1>1, <1>3 DEF UnReadByte, Ungetc, Putback
    <2>2. [s.text EXCEPT ![s.pos] = s.text[s.pos]] = s.text
      <3>1. s.text = [i \in DOMAIN s.text |-> s.text[i]]
        BY <1>1, StreamFields, LenProperties
      <3> QED
        BY <3>1
    <2>3. back = [s EXCEPT !.pos = @ - 1, !.eof = FALSE]
      <3>1. back = [s EXCEPT !.text = s.text, !.pos = @ - 1, !.eof = FALSE]
        BY <2>2
      <3>2. s = [kind |-> s.kind, dir |-> s.dir, text |-> s.text, pos |-> s.pos,
                 eof |-> s.eof, fail |-> s.fail, closed |-> s.closed]
        BY <1>1, StreamFields
      <3> HIDE DEF back
      <3> QED
        BY <3>1, <3>2
    <2>4. s.pos - 1 \in 0 .. Len(s.text)
      BY <1>1, StreamFields
    <2> HIDE DEF back
    <2>5. back \in Streams /\ back.pos = s.pos - 1 /\ back.text = s.text /\ ~back.eof /\ back.fail = s.fail
      <3>1. s = [kind |-> s.kind, dir |-> s.dir, text |-> s.text, pos |-> s.pos,
                 eof |-> s.eof, fail |-> s.fail, closed |-> s.closed]
        BY <1>1, StreamFields
      <3>2. back = [kind |-> s.kind, dir |-> s.dir, text |-> s.text, pos |-> s.pos - 1,
                    eof |-> FALSE, fail |-> s.fail, closed |-> s.closed]
        BY <2>3, <3>1
      <3>3. s.pos - 1 \in Nat
        BY <2>4
      <3> QED
        BY <1>1, <3>2, <3>3, StreamFields DEF Streams
    <2> QED
      BY <2>1, <2>4, <2>5 DEF StreamInv
  <1> QED
    BY <1>2, <1>3

LEMMA CallTypes ==
    ASSUME ReaderInv, NEW stream, StreamInv(stream), Calls(stream), chars' \in 0 .. MaxChars
    PROVE  ReaderInv'
  <1>1. /\ in' = stream /\ began' = 0 /\ outcome' = "none" /\ buf' = <<>>
        /\ pc = "idle" /\ UNCHANGED <<stack, pc, next>>
    BY DEF Calls
  <1>2. StreamInv(in')
    BY <1>1
  <1>3. DataInv'
    <2>1. buf' \in Seq(Chars)
      BY <1>1, EmptySeq
    <2> QED
      BY <1>1, <2>1 DEF ReaderInv, DataInv
  <1>4. ControlInv'
    BY <1>1 DEF ReaderInv, ControlInv, Ahead, Top
  <1> QED
    BY <1>2, <1>3, <1>4 DEF ReaderInv

\* Every step of the reader, its client and the rest of the program.
ReaderNext ==
    \/ Reader \/ Client \/ Abort
    \/ \E kind \in Kinds, text \in Seq(Chars) : OpenInput(kind, text)

LEMMA ReaderInvInit ==
    ASSUME ReaderInit, NEW kind \in Kinds, NEW text \in Seq(Chars), in = Open(kind, "input", text)
    PROVE  ReaderInv
  <1>1. StreamInv(in)
    BY OpenedStream
  <1>2. DataInv
    <2>1. buf \in Seq(Chars)
      BY EmptySeq DEF ReaderInit
    <2> QED
      BY <2>1, BoundAssumption DEF ReaderInit, DataInv, PCs
  <1>3. ControlInv
    BY EmptyStack DEF ReaderInit, ControlInv, Ahead
  <1> QED
    BY <1>1, <1>2, <1>3 DEF ReaderInv

LEMMA ReaderInvStep ==
    ASSUME ReaderInv, [ReaderNext]_vars
    PROVE  ReaderInv'
  <1>1. CASE Reader
    <2>1. StreamInv(in')
      <3>1. Take \/ Leave \/ in' = in
        BY <1>1, ReaderMoves
      <3> QED
        BY <3>1, Taken, LeftThere DEF ReaderInv, Onward
    <2>2. DataInv' /\ ControlInv'
      BY <1>1, SpaceTypes, FormTypes, TextTypes, ListTypes DEF Reader
    <2> QED
      BY <2>1, <2>2 DEF ReaderInv
  <1>2. CASE Read
    <2>1. UNCHANGED <<in, chars, stack, next>> /\ pc = "idle" /\ buf' = <<>> /\ began' = in.pos
      BY <1>2 DEF Read
    <2>2. \/ outcome' = "raised" /\ pc' = "idle"
          \/ outcome' = "none" /\ pc' = "space"
      BY <1>2 DEF Read
    <2>3. buf' \in Seq(Chars) /\ began' \in Nat
      BY <2>1, EmptySeq DEF ReaderInv, StreamInv, Streams
    <2>4. DataInv'
      BY <2>1, <2>2, <2>3 DEF ReaderInv, DataInv, PCs
    <2>5. ControlInv'
      BY <2>1, <2>2 DEF ReaderInv, ControlInv, Ahead, Top
    <2> QED
      BY <2>1, <2>4, <2>5 DEF ReaderInv
  <1>3. ASSUME Counted
        PROVE  chars' \in 0 .. MaxChars
    BY <1>3, BoundAssumption DEF ReaderInv, DataInv, Counted
  <1>4. CASE ReadChar
    BY <1>3, <1>4, CallTypes, ReadGoesOn DEF ReadChar, ReaderInv, Onward
  <1>5. CASE UnReadChar
    BY <1>3, <1>5, CallTypes, PutBack DEF UnReadChar, ReaderInv
  <1>6. CASE CloseStream
    <2>1. chars' \in 0 .. MaxChars
      BY <1>6 DEF CloseStream, ReaderInv, DataInv
    <2> QED
      BY <1>6, <2>1, CallTypes, ClosedStream DEF CloseStream, ReaderInv
  <1>7. CASE Abort
    <2>1. Die /\ in' = in /\ buf' = buf
      BY <1>7 DEF Abort
    <2>2. buf' \in Seq(Chars) /\ StreamInv(in')
      BY <2>1 DEF ReaderInv, DataInv
    <2> QED
      BY <2>1, <2>2, DieEnds DEF ReaderInv
  <1>8. ASSUME NEW kind \in Kinds, NEW text \in Seq(Chars), OpenInput(kind, text)
        PROVE  ReaderInv'
    <2>1. chars' \in 0 .. MaxChars
      BY <1>8 DEF OpenInput, ReaderInv, DataInv
    <2> QED
      BY <1>8, <2>1, CallTypes, OpenedStream DEF OpenInput
  <1>9. CASE UNCHANGED vars
    <2>1. UNCHANGED <<in, client, stack, pc, next, buf>>
      BY <1>9 DEF vars, client
    <2>2. buf' \in Seq(Chars) /\ StreamInv(in')
      BY <2>1 DEF ReaderInv, DataInv
    <2> QED
      BY <2>1, <2>2, StayEnds DEF ReaderInv
  <1> QED
    BY <1>1, <1>2, <1>4, <1>5, <1>6, <1>7, <1>8, <1>9 DEF ReaderNext, Client

LEMMA ReaderInvHolds == ReaderSpec => []ReaderInv
  <1>1. ReaderInit /\ (\E kind \in Kinds, text \in Seq(Chars) : in = Open(kind, "input", text))
        => ReaderInv
    BY ReaderInvInit
  <1> QED
    BY <1>1, ReaderInvStep, PTL DEF ReaderSpec, ReaderNext

\* The state of Env::Read and its callers is well formed: each place in the code
\* has the caller above it that its return goes to (read.cc:164, cons.cc:239).
THEOREM ReaderTypeCorrect == ReaderSpec => []ReaderTypeOK
  <1>1. ReaderInv => ReaderTypeOK
    BY DEF ReaderInv, DataInv, ControlInv, StreamInv, ReaderTypeOK, IsStack, IsFrame, Functions
  <1> QED
    BY <1>1, ReaderInvHolds, PTL

\* A stream that gives no more characters answers true to eofp, whatever the
\* reader puts back, as long as the program puts back only what it read and not
\* after the end (sys-stream.cc:102).
THEOREM EndIsReported == ReaderSpec => []EofReported
  <1>1. ReaderInv => EofReported
    BY DEF ReaderInv, StreamInv, EofReported
  <1> QED
    BY <1>1, ReaderInvHolds, PTL

-----------------------------------------------------------------------------
(* Progress.                                                               *)

Advanced == in.pos > began \/ in.eof \/ in.closed

\* Only before the first character of a form may nothing have been consumed.
ProgressInv ==
    /\ pc \notin {"idle", "dead"} => in.pos >= began
    /\ pc \notin {"idle", "dead", "space", "line", "form", "atom"} => Advanced
    /\ pc \notin {"idle", "dead"} /\ stack # <<>> => Advanced
    /\ pc = "atom" /\ (buf # <<>> \/ next # "plain") => Advanced
    /\ outcome = "value" => Advanced

\* A character is consumed, or the stream has ended: that cannot be undone.
LEMMA AdvancedKept ==
    ASSUME ReaderInv, in.pos >= began, began' = began, Take \/ Leave \/ in' = in
    PROVE  /\ in'.pos >= began'
           /\ Advanced => Advanced'
           /\ Take => Advanced'
           /\ Leave /\ Ch = NoChar => Advanced'
  <1>1. in.pos \in Nat /\ began \in Nat
    BY StreamFields DEF ReaderInv, StreamInv, DataInv
  <1>2. Onward(in, in') \/ in' = in
    BY Taken, LeftThere DEF ReaderInv
  <1>3. in'.pos >= began' /\ (Advanced => Advanced')
    BY <1>1, <1>2 DEF Onward, Advanced
  <1>4. ASSUME Consumes(in, Ch, in') PROVE Advanced'
    BY <1>1, <1>4 DEF Consumes, Advanced
  <1> QED
    BY <1>3, <1>4, Taken, LeftThere DEF ReaderInv

LEMMA BeganStays ==
    ASSUME Reader
    PROVE  began' = began
  BY DEF Reader, SkipSpace, EnterComment, SkipComment, NoMore, Found, Dispatch, Sharp,
         ReadSharpChar, BlockComment, ReadAtom, EndAtom, AtomRead, ReadString, ReadEscape,
         CloseList, NextElement, CloseDotted, ReturnToClient, ReturnToQuote, ReturnToList,
         ReturnToDotted, ReturnToVectorType, ListToVector, Returning, Raise, Die, client

LEMMA ProgressStep ==
    ASSUME ReaderInv, ProgressInv, Reader
    PROVE  ProgressInv'
  <1>1. began' = began
    BY BeganStays
  <1>2. pc \notin {"idle", "dead"} /\ in.pos >= began /\ outcome = "none"
    BY ReaderRuns DEF ProgressInv, ReaderInv, ControlInv
  <1>3. /\ in'.pos >= began'
        /\ Advanced => Advanced'
        /\ Take => Advanced'
        /\ Leave /\ Ch = NoChar => Advanced'
    BY <1>1, <1>2, AdvancedKept, ReaderMoves
  <1>4. CASE Advanced'
    BY <1>3, <1>4 DEF ProgressInv
  <1>5. CASE ~Advanced'
    <2>1. /\ ~Take /\ ~Advanced /\ stack = <<>> /\ pc \in {"space", "form", "atom"}
          /\ pc = "atom" => buf = <<>> /\ next = "plain"
          /\ Found \/ Dispatch \/ EndAtom
      <3>1. ~Take /\ ~Advanced /\ stack = <<>> /\ pc \in {"space", "line", "form", "atom"}
            /\ (pc = "atom" => buf = <<>> /\ next = "plain")
        BY <1>2, <1>3, <1>5 DEF ProgressInv
      <3>2. Found \/ Dispatch \/ EndAtom
        BY <3>1 DEF Reader, SkipSpace, EnterComment, SkipComment, NoMore, Sharp,
           ReadSharpChar, BlockComment, ReadAtom, ReadString, ReadEscape,
           CloseList, NextElement, CloseDotted, ReturnToClient, ReturnToQuote, ReturnToList,
           ReturnToDotted, ReturnToVectorType, ListToVector, Returning
      <3> QED
        BY <3>1, <3>2 DEF Found, Dispatch, EndAtom
    <2>2. CASE Found
      <3>1. pc = "space" /\ next = "form"
        BY <2>1, <2>2 DEF Found, ReaderInv, ControlInv, Ahead
      <3>2. pc' = "form" /\ stack' = <<>> /\ outcome' = "none"
        BY <1>2, <2>1, <2>2, <3>1 DEF Found, GoTo, client
      <3> QED
        BY <1>3, <3>2 DEF ProgressInv
    <2>3. CASE Dispatch
      <3>1. /\ buf' = <<>> /\ pc' = "atom" /\ next' = "plain" /\ stack' = <<>>
            /\ outcome' = "none"
        BY <1>2, <2>1, <2>3 DEF Dispatch, GoTo, client
      <3> QED
        BY <1>3, <3>1 DEF ProgressInv
    <2>4. CASE EndAtom
      <3>1. Raise
        BY <2>1, <2>4 DEF EndAtom
      <3>2. pc' = "idle" /\ outcome' = "raised"
        BY <3>1 DEF Raise
      <3> QED
        BY <3>2 DEF ProgressInv
    <2> QED
      BY <2>1, <2>2, <2>3, <2>4
  <1> QED
    BY <1>4, <1>5

LEMMA ProgressNext ==
    ASSUME ReaderInv, ProgressInv, [ReaderNext]_vars
    PROVE  ProgressInv'
  <1>1. CASE Reader
    BY <1>1, ProgressStep
  <1>2. CASE Read
    <2>1. in.pos \in Nat /\ stack = <<>>
      BY <1>2, StreamFields DEF Read, ReaderInv, StreamInv, ControlInv
    <2>2. in' = in /\ began' = in.pos /\ stack' = <<>>
      BY <1>2, <2>1 DEF Read
    <2>3. (outcome' = "raised" /\ pc' = "idle") \/ (outcome' = "none" /\ pc' = "space")
      BY <1>2 DEF Read
    <2> QED
      BY <2>1, <2>2, <2>3 DEF ProgressInv
  <1>3. ASSUME NEW stream, Calls(stream)
        PROVE  ProgressInv'
    BY <1>3 DEF Calls, ProgressInv
  <1>4. CASE Abort
    BY <1>4 DEF Abort, Die, client, ProgressInv, Advanced
  <1>5. CASE UNCHANGED vars
    BY <1>5 DEF vars, ProgressInv, Advanced
  <1> QED
    BY <1>1, <1>2, <1>3, <1>4, <1>5
    DEF ReaderNext, Client, ReadChar, UnReadChar, CloseStream, OpenInput

\* A read that answers has consumed a character, or there is none left
\* (read.cc:156).
THEOREM ReadersAdvance == ReaderSpec => []ReadAdvances
  <1>1. ReaderInit => ProgressInv
    BY DEF ReaderInit, ProgressInv
  <1>2. ProgressInv => ReadAdvances
    BY DEF ProgressInv, ReadAdvances, Advanced
  <1> QED
    BY <1>1, <1>2, ProgressNext, ReaderInvHolds, PTL DEF ReaderSpec, ReaderNext

-----------------------------------------------------------------------------
(* Parentheses.                                                            *)

Parens == {"list", "dotted", "vectype"}
Waiting(s) == Cardinality({i \in DOMAIN s : s[i].fn \in Parens})

\* In a plain text the reader is never in a comment, a string or a character, and
\* the lists that wait are the parentheses that are open.
BalanceInv ==
    Plain(in.text) =>
      /\ pc \notin {"line", "string", "escape", "char", "block", "bar"}
      /\ pc \notin {"idle", "dead"} \/ outcome = "value"
           => Waiting(stack) = Consumed("(") - Consumed(")")

\* One frame more.
LEMMA WaitingPushed ==
    ASSUME NEW s, IsStack(s), NEW e, IsFrame(e)
    PROVE  /\ Waiting(s) \in Nat
           /\ Waiting(Append(s, e)) = Waiting(s) + (IF e.fn \in Parens THEN 1 ELSE 0)
  <1> DEFINE n == Len(s)
             t == Append(s, e)
             S == {i \in DOMAIN s : s[i].fn \in Parens}
             T == {i \in DOMAIN t : t[i].fn \in Parens}
  <1>1. n \in Nat /\ DOMAIN s = 1 .. n
    BY StackLength
  <1>2. DOMAIN t = 1 .. n + 1 /\ t[n + 1] = e /\ \A i \in 1 .. n : t[i] = s[i]
    <2>1. IsStack(t) /\ Len(t) = n + 1 /\ Last(t) = e /\ \A i \in 1 .. n : t[i] = s[i]
      BY Pushed
    <2> QED
      BY <2>1, StackLength DEF Last
  <1>3. IsFiniteSet(S) /\ n + 1 \notin S
    <2>1. S \subseteq 1 .. n
      BY <1>1
    <2> HIDE DEF n, S
    <2>2. IsFiniteSet(1 .. n) /\ n + 1 \notin 1 .. n
      BY <1>1, FS_Interval
    <2> QED
      BY <2>1, <2>2, FS_Subset
  <1>4. T = IF e.fn \in Parens THEN S \cup {n + 1} ELSE S
    BY <1>1, <1>2
  <1>5. Waiting(s) = Cardinality(S) /\ Waiting(t) = Cardinality(T)
    BY DEF Waiting
  <1> HIDE DEF n, t, S, T
  <1>6. Cardinality(S) \in Nat
    BY <1>3, FS_CardinalityType
  <1>7. Cardinality(S \cup {n + 1}) = Cardinality(S) + 1
    BY <1>3, FS_AddElement
  <1>8. Waiting(s) \in Nat /\ Waiting(t) = Waiting(s) + (IF e.fn \in Parens THEN 1 ELSE 0)
    BY <1>4, <1>5, <1>6, <1>7
  <1> QED
    BY <1>8 DEF t

LEMMA WaitingPopped ==
    ASSUME NEW s, IsStack(s), s # <<>>
    PROVE  /\ Waiting(Front(s)) \in Nat
           /\ Waiting(s) = Waiting(Front(s)) + (IF Last(s).fn \in Parens THEN 1 ELSE 0)
  <1>1. IsStack(Front(s)) /\ IsFrame(Last(s)) /\ Append(Front(s), Last(s)) = s
    BY Popped
  <1>2. Waiting(Append(Front(s), Last(s)))
          = Waiting(Front(s)) + (IF Last(s).fn \in Parens THEN 1 ELSE 0)
    BY <1>1, WaitingPushed
  <1>3. Waiting(Front(s)) \in Nat
    BY <1>1, WaitingPushed
  <1> QED
    BY <1>1, <1>2, <1>3

LEMMA NoneWaiting == Waiting(<<>>) = 0
  <1>1. {i \in DOMAIN <<>> : <<>>[i].fn \in Parens} = {}
    OBVIOUS
  <1> QED
    BY <1>1, FS_EmptySet DEF Waiting

\* One character more.
LEMMA ConsumedOneMore ==
    ASSUME ReaderInv, in.pos >= began, began' = began, in'.text = in.text,
           in'.pos = in.pos + 1, NEW ch
    PROVE  /\ Consumed(ch) \in Nat
           /\ Consumed(ch)' = Consumed(ch) + (IF in.text[in.pos + 1] = ch THEN 1 ELSE 0)
  <1> DEFINE p == in.pos
             S == {i \in began + 1 .. p : in.text[i] = ch}
             T == {i \in began + 1 .. p + 1 : in.text[i] = ch}
  <1>1. p \in Nat /\ began \in Nat /\ p >= began
    BY StreamFields DEF ReaderInv, StreamInv, DataInv
  <1>2. Consumed(ch) = Cardinality(S) /\ Consumed(ch)' = Cardinality(T)
    BY DEF Consumed
  <1> HIDE DEF p
  <1>3. IsFiniteSet(S) /\ p + 1 \notin S
    <2>1. IsFiniteSet(began + 1 .. p) /\ S \subseteq began + 1 .. p /\ p + 1 \notin began + 1 .. p
      BY <1>1, FS_Interval
    <2> QED
      BY <2>1, FS_Subset
  <1>4. T = IF in.text[p + 1] = ch THEN S \cup {p + 1} ELSE S
    <2>1. \A i : i \in began + 1 .. p + 1 <=> i \in began + 1 .. p \/ i = p + 1
      BY <1>1
    <2> QED
      BY <2>1
  <1> HIDE DEF S, T
  <1>5. Cardinality(S) \in Nat
    BY <1>3, FS_CardinalityType
  <1>6. Cardinality(S \cup {p + 1}) = Cardinality(S) + 1
    BY <1>3, FS_AddElement
  <1>7. /\ Consumed(ch) \in Nat
        /\ Consumed(ch)' = Consumed(ch) + (IF in.text[p + 1] = ch THEN 1 ELSE 0)
    BY <1>2, <1>4, <1>5, <1>6
  <1> QED
    BY <1>7 DEF p

LEMMA ConsumedIsNat ==
    ASSUME ReaderInv, NEW ch
    PROVE  Consumed(ch) \in Nat
  <1>1. in.pos \in Nat /\ began \in Nat
    BY StreamFields DEF ReaderInv, StreamInv, DataInv
  <1> DEFINE S == {i \in began + 1 .. in.pos : in.text[i] = ch}
  <1>2. IsFiniteSet(began + 1 .. in.pos) /\ S \subseteq began + 1 .. in.pos
    BY <1>1, FS_Interval
  <1>3. Cardinality(S) \in Nat
    BY <1>2, FS_Subset, FS_CardinalityType
  <1> QED
    BY <1>3 DEF Consumed

LEMMA ConsumedNoMore ==
    ASSUME began' = began, in'.text = in.text, in'.pos = in.pos, NEW ch
    PROVE  Consumed(ch)' = Consumed(ch)
  BY DEF Consumed

\* What a step of the reader consumes: nothing that counts, or the parenthesis
\* it took.
LEMMA ParensConsumed ==
    ASSUME ReaderInv, in.pos >= began, began' = began, Take \/ Leave \/ in' = in
    PROVE  /\ in'.text = in.text
           /\ Take /\ Ch = "(" => Consumed("(")' = Consumed("(") + 1 /\ Consumed(")")' = Consumed(")")
           /\ Take /\ Ch = ")" => Consumed("(")' = Consumed("(") /\ Consumed(")")' = Consumed(")") + 1
           /\ ~(Take /\ Ch \in {"(", ")"})
                => Consumed("(")' = Consumed("(") /\ Consumed(")")' = Consumed(")")
  <1>1. /\ Onward(in, in') \/ in' = in
        /\ Take \/ (Leave /\ Ch = NoChar) => Consumes(in, Ch, in')
        /\ Leave /\ Ch # NoChar => in' = in
    BY Taken, LeftThere DEF ReaderInv
  <1>2. in'.text = in.text
    BY <1>1 DEF Onward
  <1>3. NoChar \notin {"(", ")"} /\ EOT \notin {"(", ")"}
    BY TheTables DEF SyntaxChars
  <1>4. CASE in' = in
    <2>1. Consumed("(")' = Consumed("(") /\ Consumed(")")' = Consumed(")")
      BY <1>4, ConsumedNoMore
    <2>2. ~(Take /\ Ch \in {"(", ")"})
      <3>1. in.pos \in Nat
        BY StreamFields DEF ReaderInv, StreamInv
      <3> QED
        BY <1>1, <1>3, <1>4, <3>1 DEF Consumes
    <2> QED
      BY <1>2, <1>3, <2>1, <2>2
  <1>5. CASE in' # in
    <2>1. Consumes(in, Ch, in')
      BY <1>1, <1>5
    <2>2. CASE Ch = NoChar /\ in'.pos = in.pos
      BY <1>2, <1>3, <2>2, ConsumedNoMore
    <2>3. CASE Ch = NoChar /\ in'.pos = in.pos + 1 /\ in.text[in.pos + 1] = EOT
      <3>1. /\ Consumed("(")' = Consumed("(") + 0 /\ Consumed("(") \in Nat
            /\ Consumed(")")' = Consumed(")") + 0 /\ Consumed(")") \in Nat
        BY <1>2, <1>3, <2>3, ConsumedOneMore
      <3> QED
        BY <1>2, <1>3, <2>3, <3>1
    <2>4. CASE Ch # NoChar
      <3>1. in'.pos = in.pos + 1 /\ in.text[in.pos + 1] = Ch
        BY <2>1, <2>4 DEF Consumes
      <3>2. /\ Consumed("(")' = Consumed("(") + (IF Ch = "(" THEN 1 ELSE 0) /\ Consumed("(") \in Nat
            /\ Consumed(")")' = Consumed(")") + (IF Ch = ")" THEN 1 ELSE 0) /\ Consumed(")") \in Nat
        BY <1>2, <3>1, ConsumedOneMore
      <3>3. Take
        BY <1>1, <1>5, <2>4
      <3> QED
        BY <1>2, <3>2, <3>3
    <2> QED
      BY <2>1, <2>2, <2>3, <2>4 DEF Consumes
  <1> QED
    BY <1>4, <1>5

Elsewhere == {"line", "string", "escape", "char", "block", "bar"}

\* The steps that end the call, or take a parenthesis with the frame for it, or
\* take none and leave as many lists waiting.
EvenStep ==
    /\ pc' \notin Elsewhere
    /\ \/ pc' \in {"idle", "dead"} /\ outcome' # "value"
       \/ /\ ~(Take /\ Ch \in {"(", ")"})
          /\ Waiting(stack') = Waiting(stack)
       \/ Take /\ Ch = "(" /\ Waiting(stack') = Waiting(stack) + 1
       \/ /\ Take /\ Ch = ")" /\ stack # <<>> /\ stack' = Front(stack)
          /\ Waiting(stack) = Waiting(stack') + 1

LEMMA EvenStepBalances ==
    ASSUME ReaderInv, ProgressInv, BalanceInv, Reader, Plain(in.text) => EvenStep
    PROVE  BalanceInv'
  <1>1. began' = began /\ in.pos >= began /\ pc \notin {"idle", "dead"} /\ (Take \/ Leave \/ in' = in)
    BY BeganStays, ReaderMoves, ReaderRuns DEF ProgressInv
  <1>2. in'.text = in.text
    BY <1>1, ParensConsumed
  <1>3. SUFFICES ASSUME Plain(in.text), EvenStep
                 PROVE  \/ pc' \in {"idle", "dead"} /\ outcome' # "value"
                        \/ Waiting(stack') = Consumed("(")' - Consumed(")")'
    BY <1>2 DEF BalanceInv, EvenStep, Elsewhere, Plain
  <1>4. Waiting(stack) = Consumed("(") - Consumed(")")
    BY <1>1, <1>3 DEF BalanceInv
  <1>5. Consumed("(") \in Nat /\ Consumed(")") \in Nat
    BY ConsumedIsNat
  <1>6. IsStack(stack)
    BY DEF ReaderInv, ControlInv
  <1>7. CASE ~(Take /\ Ch \in {"(", ")"}) /\ Waiting(stack') = Waiting(stack)
    BY <1>1, <1>4, <1>7, ParensConsumed
  <1>8. CASE Take /\ Ch = "(" /\ Waiting(stack') = Waiting(stack) + 1
    <2>1. Consumed("(")' = Consumed("(") + 1 /\ Consumed(")")' = Consumed(")")
      BY <1>1, <1>8, ParensConsumed
    <2> QED
      BY <1>4, <1>5, <1>8, <2>1
  <1>9. CASE Take /\ Ch = ")" /\ Waiting(stack) = Waiting(stack') + 1 /\ stack # <<>> /\ stack' = Front(stack)
    <2>1. Consumed("(")' = Consumed("(") /\ Consumed(")")' = Consumed(")") + 1
      BY <1>1, <1>9, ParensConsumed
    <2>2. Waiting(stack') \in Nat
      BY <1>6, <1>9, WaitingPopped
    <2> QED
      BY <1>4, <1>5, <1>9, <2>1, <2>2
  <1> QED
    BY <1>3, <1>7, <1>8, <1>9 DEF EvenStep

\* To look ahead is not to take.
LEMMA NotTaken ==
    ASSUME ReaderInv, Leave \/ in' = in
    PROVE  ~(Take /\ Ch \in {"(", ")"})
  <1>1. Ch \in {"(", ")"} => Ch # NoChar
    BY TheTables DEF SyntaxChars
  <1>2. in.pos \in Nat
    BY StreamFields DEF ReaderInv, StreamInv
  <1> QED
    BY <1>1, <1>2, Taken, LeftThere DEF ReaderInv, Consumes

LEMMA PlainNext ==
    ASSUME ReaderInv, Plain(in.text)
    PROVE  Ch \notin {"\"", ";", "|", "\\"}
  <1>1. CASE Ch = NoChar
    BY <1>1, TheTables DEF SyntaxChars
  <1>2. CASE Ch # NoChar
    <2>1. Ch \in Range(in.text)
      BY <1>2, ReadGoesOn DEF ReaderInv, Ch, Consumes, Range
    <2> QED
      BY <2>1 DEF Plain
  <1> QED
    BY <1>1, <1>2

\* A step that ends the call.
LEMMA EndIsEven ==
    ASSUME ReaderInv, pc \notin {"idle", "dead"}, Raise \/ Die
    PROVE  EvenStep
  BY DEF ReaderInv, ControlInv, Raise, Die, client, EvenStep, Elsewhere

\* A step that goes on with as many lists.
LEMMA SameIsEven ==
    ASSUME pc' \notin Elsewhere, ~(Take /\ Ch \in {"(", ")"}), Waiting(stack') = Waiting(stack)
    PROVE  EvenStep
  BY DEF EvenStep

LEMMA SpaceEven ==
    ASSUME ReaderInv, BalanceInv, Plain(in.text),
           SkipSpace \/ EnterComment \/ SkipComment \/ NoMore \/ Found
    PROVE  EvenStep
  <1>1. pc = "space" /\ Ch \notin {"\"", ";", "|", "\\"} /\ NoChar \notin {"(", ")"}
    BY PlainNext, TheTables
    DEF SyntaxChars, BalanceInv, SkipSpace, EnterComment, SkipComment, NoMore, Found
  <1>2. CASE SkipSpace
    <2>1. Ch \notin {"(", ")"}
      BY <1>2 DEF SkipSpace, WSpace
    <2> QED
      BY <1>1, <1>2, <2>1, SameIsEven DEF SkipSpace, Elsewhere
  <1>3. CASE NoMore
    <2>1. CASE Raise
      BY <1>1, <2>1, EndIsEven
    <2>2. CASE Answer(NIL) /\ UNCHANGED <<client, stack>>
      BY <1>1, <1>3, <2>2, SameIsEven DEF NoMore, Answer, Elsewhere
    <2> QED
      BY <1>3, <2>1, <2>2 DEF NoMore
  <1>4. CASE Found
    <2>1. CASE Die
      BY <1>1, <2>1, EndIsEven
    <2>2. CASE Leave /\ GoTo(next, next) /\ UNCHANGED <<client, stack>>
      <3>1. next \in {"form", "open", "item", "close"}
        BY <1>1 DEF ReaderInv, ControlInv
      <3>2. pc' \notin Elsewhere
        BY <2>2, <3>1 DEF GoTo, Elsewhere
      <3> QED
        BY <2>2, <3>2, NotTaken, SameIsEven
    <2> QED
      BY <1>4, <2>1, <2>2 DEF Found
  <1> QED
    BY <1>1, <1>2, <1>3, <1>4 DEF EnterComment, SkipComment

LEMMA FormEven ==
    ASSUME ReaderInv, BalanceInv, Plain(in.text),
           Dispatch \/ Sharp \/ ReadSharpChar \/ BlockComment
    PROVE  EvenStep
  <1>1. /\ pc \in {"form", "sharp"} /\ IsStack(stack)
        /\ Ch \notin {"\"", ";", "|", "\\"}
    BY PlainNext
    DEF BalanceInv, Dispatch, Sharp, ReadSharpChar, BlockComment, ReaderInv, ControlInv
  <1>2. ASSUME NEW fn \in {"quote", "list", "vectype"}, Push(Frame(fn, <<>>, <<>>))
        PROVE  Waiting(stack') = Waiting(stack) + (IF fn = "quote" THEN 0 ELSE 1)
               /\ Waiting(stack) \in Nat
    <2>1. IsFrame(Frame(fn, <<>>, <<>>)) /\ Frame(fn, <<>>, <<>>).fn = fn
      BY MadeFrame DEF Functions
    <2> QED
      BY <1>1, <1>2, <2>1, WaitingPushed DEF Push, Parens
  <1>3. CASE Dispatch
    <2>1. CASE Ch = "("
      <3>1. Take /\ Push(Frame("list", <<>>, <<>>)) /\ pc' = "space"
        BY <1>3, <2>1 DEF Dispatch, GoTo
      <3> QED
        BY <1>2, <2>1, <3>1 DEF EvenStep, Elsewhere
    <2>2. CASE Ch = "'"
      <3>1. Push(Frame("quote", <<>>, <<>>)) /\ pc' = "space"
        BY <1>3, <2>2 DEF Dispatch, Form, GoTo
      <3> QED
        BY <1>2, <2>2, <3>1, SameIsEven DEF Elsewhere
    <2>3. CASE Ch = "."
      BY <1>3, <2>3, SameIsEven DEF Dispatch, Answer, Elsewhere
    <2>4. CASE Ch = "#"
      BY <1>3, <2>4, SameIsEven DEF Dispatch, GoTo, Elsewhere
    <2>5. CASE Ch = ")"
      BY <1>1, <1>3, <2>5, EndIsEven DEF Dispatch
    <2>6. CASE Ch \notin {"(", "'", ".", "\"", "#", ")"}
      BY <1>3, <2>6, SameIsEven DEF Dispatch, GoTo, Elsewhere
    <2> QED
      BY <1>1, <2>1, <2>2, <2>3, <2>4, <2>5, <2>6
  <1>4. CASE Sharp
    <2>1. CASE Ch \in {"x", "d", ":"} /\ GoTo("atom", Ch) /\ UNCHANGED <<client, stack>>
      BY <2>1, SameIsEven DEF GoTo, Elsewhere
    <2>2. CASE Ch = "(" /\ Push(Frame("vectype", <<>>, <<>>)) /\ Form
      <3>1. Take /\ pc' = "space"
        BY <1>4, <2>2 DEF Sharp, Form, GoTo
      <3> QED
        BY <1>2, <2>2, <3>1 DEF EvenStep, Elsewhere
    <2>3. CASE Raise \/ Die
      BY <1>1, <2>3, EndIsEven
    <2> QED
      BY <1>1, <1>4, <2>1, <2>2, <2>3 DEF Sharp
  <1> QED
    BY <1>1, <1>3, <1>4 DEF ReadSharpChar, BlockComment

LEMMA TextEven ==
    ASSUME ReaderInv, BalanceInv, Plain(in.text),
           ReadAtom \/ EndAtom \/ ReadString \/ ReadEscape
    PROVE  EvenStep
  <1>1. pc = "atom" /\ (ReadAtom \/ EndAtom)
    BY DEF BalanceInv, ReadAtom, EndAtom, ReadString, ReadEscape
  <1>2. CASE ReadAtom
    <2>1. Ch \notin {"(", ")"}
      BY <1>2, TheTables DEF ReadAtom
    <2> QED
      BY <1>1, <1>2, <2>1, SameIsEven DEF ReadAtom, Elsewhere
  <1>3. CASE EndAtom
    <2>1. CASE Raise \/ Die
      BY <1>1, <2>1, EndIsEven
    <2>2. CASE ~(Raise \/ Die)
      <3>1. Leave /\ AtomRead
        BY <1>3, <2>2 DEF EndAtom
      <3>2. stack' = stack /\ pc' = "return"
        BY <2>2, <3>1 DEF AtomRead, Answer
      <3> QED
        BY <3>1, <3>2, NotTaken, SameIsEven DEF Elsewhere
    <2> QED
      BY <2>1, <2>2
  <1> QED
    BY <1>1, <1>2, <1>3

LEMMA ListEven ==
    ASSUME ReaderInv, BalanceInv, Plain(in.text),
           \/ CloseList \/ NextElement \/ CloseDotted
           \/ ReturnToClient \/ ReturnToQuote \/ ReturnToList \/ ReturnToDotted
           \/ ReturnToVectorType \/ ListToVector
    PROVE  EvenStep
  <1>1. IsStack(stack) /\ pc \in {"open", "item", "close", "return"}
    BY DEF ReaderInv, ControlInv, CloseList, NextElement, CloseDotted, ReturnToClient,
           ReturnToQuote, ReturnToList, ReturnToDotted, ReturnToVectorType, ListToVector, Returning
  <1>2. ASSUME stack # <<>>
        PROVE  /\ IsFrame(Top) /\ IsStack(Front(stack)) /\ Waiting(Front(stack)) \in Nat
               /\ Waiting(stack) = Waiting(Front(stack)) + (IF Top.fn \in Parens THEN 1 ELSE 0)
    BY <1>1, <1>2, Popped, WaitingPopped DEF Top
  <1>3. ASSUME stack # <<>>, NEW e, IsFrame(e), Replace(e), e.fn \in Parens <=> Top.fn \in Parens
        PROVE  Waiting(stack') = Waiting(stack)
    BY <1>2, <1>3, WaitingPushed DEF Replace
  <1>4. CASE CloseList
    <2>1. stack # <<>> /\ Top.fn = "list"
      BY <1>4 DEF CloseList, ReaderInv, ControlInv, Ahead
    <2>2. Take /\ Ch = ")" /\ stack' = Front(stack) /\ pc' = "return"
      BY <1>4 DEF CloseList, Pop, Answer
    <2> QED
      BY <1>2, <2>1, <2>2 DEF EvenStep, Elsewhere, Parens
  <1>5. CASE NextElement
    <2>1. Leave /\ stack' = stack /\ pc' = "space"
      BY <1>5 DEF NextElement, Form, GoTo
    <2> QED
      BY <2>1, NotTaken, SameIsEven DEF Elsewhere
  <1>6. CASE CloseDotted
    <2>1. stack # <<>> /\ Top.fn = "dotted"
      BY <1>6 DEF CloseDotted, ReaderInv, ControlInv, Ahead
    <2>2. CASE Raise \/ Die
      BY <1>1, <2>2, EndIsEven
    <2>3. CASE ~(Raise \/ Die)
      <3>1. Take /\ Ch = ")" /\ stack' = Front(stack) /\ pc' = "return"
        BY <1>6, <2>3 DEF CloseDotted, Pop, Answer
      <3> QED
        BY <1>2, <2>1, <3>1 DEF EvenStep, Elsewhere, Parens
    <2> QED
      BY <2>2, <2>3
  <1>7. CASE ReturnToClient
    BY <1>7, NotTaken, SameIsEven DEF ReturnToClient, Elsewhere
  <1>8. CASE ReturnToQuote
    <2>1. /\ stack # <<>> /\ Top.fn = "quote" /\ in' = in
          /\ stack' = Front(stack) /\ pc' = "return"
      BY <1>8 DEF ReturnToQuote, Returning, Pop, Answer
    <2>2. Waiting(stack') = Waiting(stack)
      BY <1>2, <2>1 DEF Parens
    <2> QED
      BY <2>1, <2>2, NotTaken, SameIsEven DEF Elsewhere
  <1>9. CASE ReturnToList
    <2>1. stack # <<>> /\ Top.fn = "list" /\ in' = in /\ pc' = "space" /\ IsFrame(Top)
      BY <1>2, <1>9 DEF ReturnToList, Returning, Form, GoTo
    <2> DEFINE d == [Top EXCEPT !.fn = "dotted"]
               e == [Top EXCEPT !.items = Append(@, value)]
    <2>2. /\ IsFrame(d) /\ d.fn = "dotted" /\ IsFrame(e) /\ e.fn = "list"
          /\ Replace(d) \/ Replace(e)
      BY <1>9, <2>1, ChangedFrame DEF ReturnToList
    <2> HIDE DEF d, e
    <2>3. Waiting(stack') = Waiting(stack)
      BY <1>3, <2>1, <2>2 DEF Parens
    <2> QED
      BY <2>1, <2>3, NotTaken, SameIsEven DEF Elsewhere
  <1>10. CASE ReturnToDotted
    <2>1. stack # <<>> /\ Top.fn = "dotted" /\ in' = in /\ pc' = "space" /\ IsFrame(Top)
      BY <1>2, <1>10 DEF ReturnToDotted, Returning, GoTo
    <2> DEFINE e == [Top EXCEPT !.items = Append(@, value)]
    <2>2. Replace(e) /\ IsFrame(e) /\ e.fn = "dotted"
      BY <1>10, <2>1, ChangedFrame DEF ReturnToDotted
    <2> HIDE DEF e
    <2>3. Waiting(stack') = Waiting(stack)
      BY <1>3, <2>1, <2>2 DEF Parens
    <2> QED
      BY <2>1, <2>3, NotTaken, SameIsEven DEF Elsewhere
  <1>11. CASE ReturnToVectorType
    <2> DEFINE v == Frame("vector", value.s, <<>>)
               l == Frame("list", <<>>, <<>>)
               rest == Front(stack)
    <2>1. CASE Raise
      BY <1>1, <2>1, EndIsEven
    <2>2. CASE ~Raise
      <3>1. /\ stack # <<>> /\ Top.fn = "vectype" /\ stack' = rest \o <<v, l>>
            /\ in' = in /\ pc' = "space"
        BY <1>11, <2>2 DEF ReturnToVectorType, GoTo
      <3>2. IsFrame(v) /\ IsFrame(l) /\ l.fn = "list" /\ v.fn = "vector"
        BY MadeFrame DEF Functions
      <3>3. /\ IsStack(rest) /\ Waiting(rest) \in Nat
            /\ Waiting(stack) = Waiting(rest) + 1
        BY <1>2, <3>1 DEF Parens
      <3> HIDE DEF v, l, rest
      <3>4. stack' = Append(Append(rest, v), l)
        BY <3>1, <3>3, PushedTwo
      <3>5. IsStack(Append(rest, v)) /\ Waiting(Append(rest, v)) = Waiting(rest)
        <4>1. Waiting(Append(rest, v)) = Waiting(rest) + (IF v.fn \in Parens THEN 1 ELSE 0)
          BY <3>2, <3>3, WaitingPushed
        <4>2. v.fn \notin Parens
          BY <3>2 DEF Parens
        <4> QED
          BY <3>2, <3>3, <4>1, <4>2, Pushed
      <3>6. Waiting(stack') = Waiting(rest) + 1
        BY <3>2, <3>4, <3>5, WaitingPushed DEF Parens
      <3> QED
        BY <3>1, <3>3, <3>6, NotTaken, SameIsEven DEF Elsewhere
    <2> QED
      BY <2>1, <2>2
  <1>12. CASE ListToVector
    <2>1. stack # <<>> /\ pc = "return" /\ Top.fn = "vector" /\ in' = in /\ IsFrame(Top)
      BY <1>2, <1>12 DEF ListToVector
    <2>2. CASE Raise \/ Die
      BY <1>1, <2>2, EndIsEven
    <2>3. CASE stack' = Front(stack) /\ pc' = "return"
      <3>1. Waiting(stack') = Waiting(stack)
        BY <1>2, <2>1, <2>3 DEF Parens
      <3> QED
        BY <2>1, <2>3, <3>1, NotTaken, SameIsEven DEF Elsewhere
    <2>4. CASE Replace([Top EXCEPT !.items = Append(@, value.kids[1])]) /\ pc' = pc
      <3> DEFINE e == [Top EXCEPT !.items = Append(@, value.kids[1])]
      <3>1. Replace(e) /\ IsFrame(e) /\ e.fn = "vector"
        BY <2>1, <2>4, ChangedFrame
      <3> HIDE DEF e
      <3>2. Waiting(stack') = Waiting(stack)
        BY <1>3, <2>1, <3>1
      <3> QED
        BY <2>1, <2>4, <3>2, NotTaken, SameIsEven DEF Elsewhere
    <2> QED
      BY <1>12, <2>2, <2>3, <2>4 DEF ListToVector, Pop, Answer
  <1> QED
    BY <1>4, <1>5, <1>6, <1>7, <1>8, <1>9, <1>10, <1>11, <1>12

LEMMA BalanceNext ==
    ASSUME ReaderInv, ProgressInv, BalanceInv, [ReaderNext]_vars
    PROVE  BalanceInv'
  <1>1. CASE Reader
    <2>1. Plain(in.text) => EvenStep
      BY <1>1, SpaceEven, FormEven, TextEven, ListEven DEF Reader
    <2> QED
      BY <1>1, <2>1, EvenStepBalances
  <1>2. CASE Read
    <2>1. in.pos \in Nat /\ stack = <<>>
      BY <1>2, StreamFields DEF Read, ReaderInv, StreamInv, ControlInv
    <2>2. in' = in /\ began' = in.pos /\ stack' = <<>>
      BY <1>2, <2>1 DEF Read
    <2>3. (outcome' = "raised" /\ pc' = "idle") \/ (outcome' = "none" /\ pc' = "space")
      BY <1>2 DEF Read
    <2>4. ASSUME NEW ch PROVE Consumed(ch)' = 0
      <3>1. in.pos + 1 .. in.pos = {}
        BY <2>1
      <3>2. Consumed(ch)' = Cardinality({i \in {} : in.text[i] = ch})
        BY <2>2, <3>1 DEF Consumed
      <3>3. {i \in {} : in.text[i] = ch} = {}
        OBVIOUS
      <3> QED
        BY <3>2, <3>3, FS_EmptySet
    <2>5. Consumed("(")' = 0 /\ Consumed(")")' = 0 /\ Waiting(stack') = 0
      BY <2>2, <2>4, NoneWaiting
    <2> QED
      BY <2>3, <2>5 DEF BalanceInv
  <1>3. ASSUME NEW stream, Calls(stream)
        PROVE  BalanceInv'
    BY <1>3 DEF Calls, BalanceInv
  <1>4. CASE Abort
    BY <1>4 DEF Abort, Die, client, BalanceInv, Consumed, Plain
  <1>5. CASE UNCHANGED vars
    BY <1>5 DEF vars, BalanceInv, Consumed, Plain
  <1> QED
    BY <1>1, <1>2, <1>3, <1>4, <1>5
    DEF ReaderNext, Client, ReadChar, UnReadChar, CloseStream, OpenInput

\* The lists and vectors that wait for their end are the parentheses consumed and
\* not closed, at any depth, whatever was read ahead and put back (cons.cc:254).
THEOREM DepthAlwaysBalance == ReaderSpec => []DepthIsBalance
  <1>1. ReaderInit => ProgressInv /\ BalanceInv
    BY DEF ReaderInit, ProgressInv, BalanceInv
  <1>2. BalanceInv => DepthIsBalance
    BY DEF BalanceInv, DepthIsBalance, Waiting, Parens
  <1> QED
    BY <1>1, <1>2, ProgressNext, BalanceNext, ReaderInvHolds, PTL DEF ReaderSpec, ReaderNext

-----------------------------------------------------------------------------
(* Induction from 0 to the end of an interval: S holds the numbers for     *)
(* which what is to be proved is true.                                     *)

LEMMA IntervalInduction ==
    ASSUME NEW n \in Nat, NEW S, 0 \in S,
           \A i \in 1 .. n : i - 1 \in S => i \in S
    PROVE  \A i \in 0 .. n : i \in S
  <1> DEFINE Before == {p \in Nat \X Nat : p[1] < p[2]}
             Missing == {i \in 0 .. n : i \notin S}
  <1>1. SUFFICES ASSUME Missing # {} PROVE FALSE
    OBVIOUS
  <1>2. IsWellFoundedOn(Before, Nat)
    BY NatLessThanWellFounded DEF OpToRel
  <1>3. Missing \subseteq Nat
    OBVIOUS
  <1>4. PICK i \in Missing : \A j \in Missing : <<j, i>> \notin Before
    <2> HIDE DEF Before, Missing
    <2> QED
      BY <1>1, <1>2, <1>3, WFMin
  <1>5. i \in 1 .. n /\ i \in Nat
    OBVIOUS
  <1>6. i - 1 \in S
    <2>1. i - 1 \in 0 .. n /\ <<i - 1, i>> \in Before
      BY <1>5
    <2> HIDE DEF Before
    <2> QED
      BY <1>4, <2>1
  <1> QED
    BY <1>5, <1>6

-----------------------------------------------------------------------------
(* What is written.                                                        *)

\* A byte comes behind the text, and the text is read from its beginning.
LEMMA TextReplaced ==
    ASSUME NEW s \in Streams, NEW t \in Seq(Chars)
    PROVE  [s EXCEPT !.text = t, !.pos = 0]
             = [kind |-> s.kind, dir |-> s.dir, text |-> t, pos |-> 0,
                eof |-> s.eof, fail |-> s.fail, closed |-> s.closed]
  <1> DEFINE new == [s EXCEPT !.text = t, !.pos = 0]
  <1>1. new = [s EXCEPT !.text = t, !.pos = 0]
    OBVIOUS
  <1>2. s = [kind |-> s.kind, dir |-> s.dir, text |-> s.text, pos |-> s.pos,
             eof |-> s.eof, fail |-> s.fail, closed |-> s.closed]
    BY StreamFields
  <1> HIDE DEF new
  <1>3. new = [kind |-> s.kind, dir |-> s.dir, text |-> t, pos |-> 0,
               eof |-> s.eof, fail |-> s.fail, closed |-> s.closed]
    BY <1>1, <1>2
  <1> QED
    BY <1>3 DEF new

LEMMA ByteWritten ==
    ASSUME NEW s \in Streams, ~s.closed, NEW ch \in Chars
    PROVE  WriteByte(s, ch)
             = [kind |-> s.kind, dir |-> s.dir, text |-> Append(s.text, ch), pos |-> 0,
                eof |-> s.eof, fail |-> s.fail, closed |-> s.closed]
  <1> DEFINE t == Append(s.text, ch)
  <1>1. WriteByte(s, ch) = [s EXCEPT !.text = t, !.pos = 0]
    BY DEF WriteByte
  <1>2. t \in Seq(Chars)
    BY StreamFields
  <1> HIDE DEF t
  <1>3. [s EXCEPT !.text = t, !.pos = 0]
          = [kind |-> s.kind, dir |-> s.dir, text |-> t, pos |-> 0,
             eof |-> s.eof, fail |-> s.fail, closed |-> s.closed]
    BY <1>2, TextReplaced, Zenon
  <1> QED
    BY <1>1, <1>3, Zenon DEF t

\* The loop of Env::Write leaves the text with the string behind it.
LEMMA StringWritten ==
    ASSUME NEW s \in Streams, NEW str \in Seq(Chars)
    PROVE  /\ WriteString(s, str) \in Streams
           /\ WriteString(s, str).closed = s.closed
           /\ WriteString(s, str).text = IF s.closed THEN s.text ELSE s.text \o str
  <1> DEFINE n == Len(str)
             Def(f) == f = [i \in 0 .. n |-> IF i = 0 THEN s ELSE WriteByte(f[i - 1], str[i])]
             Part(i) == [j \in 1 .. i |-> str[j]]
             Made(i) == [kind |-> s.kind, dir |-> s.dir, text |-> s.text \o Part(i), pos |-> 0,
                         eof |-> s.eof, fail |-> s.fail, closed |-> s.closed]
             w == [i \in 0 .. n |-> IF s.closed \/ i = 0 THEN s ELSE Made(i)]
  <1>1. /\ n \in Nat /\ str \in [1 .. n -> Chars]
        /\ s = [kind |-> s.kind, dir |-> s.dir, text |-> s.text, pos |-> s.pos,
                eof |-> s.eof, fail |-> s.fail, closed |-> s.closed]
        /\ s.text \in Seq(Chars)
    BY LenProperties, StreamFields DEF Streams
  <1>2. \A i \in 0 .. n : Part(i) \in Seq(Chars) /\ Len(Part(i)) = i
    BY <1>1
  <1>3. Part(n) = str /\ s.text \o Part(0) = s.text
    BY <1>1
  <1>4. ASSUME NEW i \in 1 .. n
        PROVE  s.text \o Part(i) = Append(s.text \o Part(i - 1), str[i])
    <2>1. Part(i) = Append(Part(i - 1), str[i])
      BY <1>1
    <2>2. \A a, b \in Seq(Chars), c \in Chars : a \o Append(b, c) = Append(a \o b, c)
      OBVIOUS
    <2>3. i \in Nat /\ i - 1 \in 0 .. n /\ str[i] \in Chars
      BY <1>1
    <2> HIDE DEF Part
    <2>4. Part(i - 1) \in Seq(Chars)
      BY <1>2, <2>3
    <2> QED
      BY <1>1, <2>1, <2>2, <2>3, <2>4
  <1>5. ASSUME NEW i \in 1 .. n
        PROVE  w[i] = WriteByte(w[i - 1], str[i])
    <2>1. CASE s.closed
      BY <2>1, <1>1 DEF WriteByte
    <2>2. CASE ~s.closed
      <3> DEFINE r == w[i - 1]
      <3>1. /\ r \in Streams /\ r.text = s.text \o Part(i - 1) /\ r.closed = s.closed
            /\ r.kind = s.kind /\ r.dir = s.dir /\ r.eof = s.eof /\ r.fail = s.fail
        <4>1. CASE i = 1
          <5>1. r = s /\ i - 1 = 0
            BY <4>1, <1>1
          <5> HIDE DEF r, Part
          <5> QED
            BY <5>1, <1>3
        <4>2. CASE i # 1
          <5> DEFINE t == s.text \o Part(i - 1)
          <5>1. r = Made(i - 1)
            BY <4>2, <2>2
          <5>2. t \in Seq(Chars)
            <6>1. i - 1 \in 0 .. n
              BY <1>1
            <6> HIDE DEF Part
            <6> QED
              BY <1>1, <1>2, <6>1
          <5> HIDE DEF r
          <5>3. r = [kind |-> s.kind, dir |-> s.dir, text |-> t, pos |-> 0,
                     eof |-> s.eof, fail |-> s.fail, closed |-> s.closed]
            BY <5>1
          <5>4. s.kind \in Kinds /\ s.dir \in Directions
                /\ s.eof \in BOOLEAN /\ s.fail \in BOOLEAN /\ s.closed \in BOOLEAN
            BY StreamFields
          <5> HIDE DEF t
          <5>5. r \in Streams /\ r.text = t
            BY <5>2, <5>3, <5>4 DEF Streams
          <5>6. r.closed = s.closed /\ r.kind = s.kind /\ r.dir = s.dir /\ r.eof = s.eof /\ r.fail = s.fail
            BY <5>3
          <5> QED
            BY <5>5, <5>6 DEF t
        <4> QED
          BY <4>1, <4>2
      <3>2. w[i] = Made(i)
        BY <2>2
      <3> HIDE DEF r, Part, w
      <3>3. WriteByte(r, str[i]) = Made(i)
        <4>1. ~r.closed
          BY <2>2, <3>1, Zenon
        <4>2. WriteByte(r, str[i])
                = [kind |-> r.kind, dir |-> r.dir, text |-> Append(r.text, str[i]), pos |-> 0,
                   eof |-> r.eof, fail |-> r.fail, closed |-> r.closed]
          <5>1. str[i] \in Chars
            BY <1>1
          <5> QED
            BY <3>1, <4>1, <5>1, ByteWritten, Zenon
        <4>3. Append(r.text, str[i]) = s.text \o Part(i)
          BY <1>4, <3>1
        <4> QED
          BY <3>1, <4>2, <4>3, Zenon
      <3> QED
        BY <3>2, <3>3 DEF r
    <2> QED
      BY <2>1, <2>2
  <1>6. Def(w)
    <2>1. w[0] = s /\ w = [i \in 0 .. n |-> w[i]]
      BY <1>1
    <2>2. \A i \in 0 .. n : w[i] = IF i = 0 THEN s ELSE WriteByte(w[i - 1], str[i])
      <3> SUFFICES ASSUME NEW i \in 0 .. n
                   PROVE  w[i] = IF i = 0 THEN s ELSE WriteByte(w[i - 1], str[i])
        OBVIOUS
      <3>1. CASE i = 0
        BY <2>1, <3>1
      <3>2. CASE i # 0
        <4>1. i \in 1 .. n
          BY <1>1, <3>2
        <4> HIDE DEF w
        <4> QED
          BY <1>5, <3>2, <4>1
      <3> QED
        BY <3>1, <3>2
    <2> HIDE DEF w
    <2> QED
      BY <2>1, <2>2
  <1>7. PICK f : Def(f) /\ WriteString(s, str) = f[n]
    <2>1. \E f : Def(f)
      <3> HIDE DEF w
      <3> QED
        BY <1>6
    <2> QED
      BY <2>1 DEF WriteString
  <1>8. f[n] = w[n]
    <2> DEFINE Same == {i \in 0 .. n : f[i] = w[i]}
    <2>1. \A i \in 0 .. n : f[i] = IF i = 0 THEN s ELSE WriteByte(f[i - 1], str[i])
      BY <1>7
    <2>2. \A i \in 0 .. n : w[i] = IF i = 0 THEN s ELSE WriteByte(w[i - 1], str[i])
      <3> HIDE DEF w
      <3> QED
        BY <1>6
    <2> HIDE DEF w
    <2>3. 0 \in Same /\ \A i \in 1 .. n : i - 1 \in Same => i \in Same
      BY <1>1, <2>1, <2>2
    <2> HIDE DEF Same
    <2>4. n \in Same
      BY <1>1, <2>3, IntervalInduction
    <2> QED
      BY <2>4 DEF Same
  <1>9. n = 0 => str = <<>> /\ s.text \o str = s.text
    BY <1>1
  <1>10. Made(n) \in Streams /\ Made(n).closed = s.closed /\ Made(n).text = s.text \o str
    <2>1. s.text \o str \in Seq(Chars)
      BY <1>1
    <2> HIDE DEF Part
    <2> QED
      BY <1>3, <2>1, StreamFields DEF Streams
  <1>11. s.closed \/ n = 0 => w[n] = s
    BY <1>1
  <1>12. ~s.closed /\ n # 0 => w[n] = Made(n)
    BY <1>1
  <1> HIDE DEF w, Made
  <1> QED
    BY <1>7, <1>8, <1>9, <1>10, <1>11, <1>12

\* Sets of sequences that can be put one behind the other.
Concatenable(S) == \A a, b \in S : a \o b \in S

\* Flattening goes from left to right: one more sequence comes behind the others.
Flattens(seqs, n, S) ==
    \E flat \in [1 .. n -> S] :
       /\ flat[1] = seqs[1]
       /\ \A i \in 2 .. n : flat[i] = flat[i - 1] \o seqs[i]
       /\ FlattenSeq(seqs) = flat[n]

LEMMA Flattening ==
    ASSUME NEW S, Concatenable(S),
           NEW n \in Nat \ {0}, NEW seqs \in [1 .. n -> S], Len(seqs) = n
    PROVE  Flattens(seqs, n, S)
  <1> DEFINE Def(f, m) == f = [i \in 1 .. m |-> IF i = 1 THEN seqs[i] ELSE f[i - 1] \o seqs[i]]
             Known == {m \in 0 .. n : \E f : Def(f, m)}
  <1>1. n \in Nat \ {0} /\ \A i \in 1 .. n : seqs[i] \in S
    OBVIOUS
  <1>2. 0 \in Known
    <2>1. <<>> = [i \in 1 .. 0 |-> IF i = 1 THEN seqs[i] ELSE <<>>[i - 1] \o seqs[i]]
      OBVIOUS
    <2>2. \E f : Def(f, 0)
      BY <2>1
    <2>3. 0 \in 0 .. n
      BY <1>1
    <2> HIDE DEF Def
    <2> QED
      BY <2>2, <2>3
  <1>3. ASSUME NEW m \in 1 .. n, m - 1 \in Known PROVE m \in Known
    <2>1. PICK f : Def(f, m - 1)
      BY <1>3
    <2> DEFINE g == [i \in 1 .. m |->
                       IF i < m THEN f[i]
                       ELSE IF i = 1 THEN seqs[i] ELSE f[i - 1] \o seqs[i]]
    <2>2. ASSUME NEW i \in 1 .. m
          PROVE  g[i] = IF i = 1 THEN seqs[i] ELSE g[i - 1] \o seqs[i]
      <3>1. CASE i = m
        BY <3>1
      <3>2. CASE i # m
        <4>1. i \in 1 .. m - 1 /\ i < m /\ (i = 1 \/ (i - 1 \in 1 .. m - 1 /\ i - 1 < m))
          BY <3>2
        <4>2. f[i] = IF i = 1 THEN seqs[i] ELSE f[i - 1] \o seqs[i]
          BY <2>1, <4>1
        <4>3. g[i] = f[i] /\ (i = 1 \/ g[i - 1] = f[i - 1])
          BY <4>1
        <4> HIDE DEF g
        <4> QED
          BY <4>2, <4>3
      <3> QED
        BY <3>1, <3>2
    <2>3. g = [i \in 1 .. m |-> g[i]]
      OBVIOUS
    <2>4. Def(g, m)
      <3> HIDE DEF g
      <3> QED
        BY <2>2, <2>3
    <2>5. \E h : Def(h, m)
      <3> HIDE DEF g
      <3> QED
        BY <2>4
    <2>6. m \in 0 .. n
      OBVIOUS
    <2> HIDE DEF Def
    <2> QED
      BY <2>5, <2>6
  <1>4. n \in Known
    <2> HIDE DEF Known
    <2>1. \A i \in 0 .. n : i \in Known
      BY <1>1, <1>2, <1>3, IntervalInduction
    <2> QED
      BY <1>1, <2>1
  <1>5. PICK flat : Def(flat, n) /\ FlattenSeq(seqs) = flat[n]
    <2>1. \E f : Def(f, n)
      BY <1>4
    <2>2. Len(seqs) # 0
      BY <1>1
    <2> QED
      BY <2>1, <2>2 DEF FlattenSeq
  <1>6. \A i \in 1 .. n : flat[i] = IF i = 1 THEN seqs[i] ELSE flat[i - 1] \o seqs[i]
    BY <1>5
  <1>7. flat = [i \in 1 .. n |-> flat[i]]
    BY <1>5
  <1> HIDE DEF Def
  <1>8. flat[1] = seqs[1] /\ \A i \in 2 .. n : flat[i] = flat[i - 1] \o seqs[i]
    <2>1. 1 \in 1 .. n /\ \A i \in 2 .. n : i \in 1 .. n /\ i # 1
      BY <1>1
    <2> QED
      BY <1>6, <2>1
  <1> DEFINE Typed == {i \in 0 .. n : i = 0 \/ flat[i] \in S}
  <1>9. 0 \in Typed /\ \A i \in 1 .. n : i - 1 \in Typed => i \in Typed
    <2>1. 0 \in Typed
      BY <1>1
    <2>2. ASSUME NEW i \in 1 .. n, i - 1 \in Typed PROVE i \in Typed
      <3>1. CASE i = 1
        BY <1>1, <1>8, <3>1
      <3>2. CASE i # 1
        <4>1. i \in 2 .. n /\ i - 1 # 0 /\ i \in 0 .. n
          BY <3>2
        <4>2. flat[i - 1] \in S /\ seqs[i] \in S
          BY <1>1, <2>2, <4>1
        <4>3. flat[i] \in S
          <5>1. flat[i - 1] \o seqs[i] \in S
            BY <4>2 DEF Concatenable
          <5> QED
            BY <1>8, <4>1, <5>1
        <4> QED
          BY <4>1, <4>3
      <3> QED
        BY <3>1, <3>2
    <2> QED
      BY <2>1, <2>2
  <1>10. \A i \in 0 .. n : i \in Typed
    <2> HIDE DEF Typed
    <2> QED
      BY <1>1, <1>9, IntervalInduction
  <1>11. flat \in [1 .. n -> S]
    <2>1. \A i \in 1 .. n : i \in 0 .. n /\ i # 0
      OBVIOUS
    <2>2. \A i \in 1 .. n : flat[i] \in S
      BY <1>10, <2>1
    <2> QED
      BY <1>7, <2>2
  <1> QED
    BY <1>5, <1>8, <1>11 DEF Flattens

LEMMA FlattenAppend ==
    ASSUME NEW S, Concatenable(S),
           NEW seqs \in Seq(S), NEW last \in S, <<>> \o last = last
    PROVE  FlattenSeq(Append(seqs, last)) = FlattenSeq(seqs) \o last
  <1> DEFINE n == Len(seqs)
             more == Append(seqs, last)
  <1>1. /\ n \in Nat /\ Len(more) = n + 1 /\ n + 1 \in Nat \ {0}
        /\ seqs \in [1 .. n -> S] /\ more \in [1 .. n + 1 -> S]
        /\ more[n + 1] = last /\ \A i \in 1 .. n : more[i] = seqs[i]
    <2>1. n \in Nat /\ seqs \in [1 .. n -> S]
      BY LenProperties
    <2>2. more \in Seq(S) /\ Len(more) = n + 1 /\ more[n + 1] = last
          /\ \A i \in 1 .. n : more[i] = seqs[i]
      BY AppendProperties
    <2>3. more \in [1 .. Len(more) -> S]
      <3> HIDE DEF more
      <3> QED
        BY <2>2, LenProperties
    <2> HIDE DEF more, n
    <2> QED
      BY <2>1, <2>2, <2>3
  <1> HIDE DEF more, n
  <1>2. PICK flat \in [1 .. n + 1 -> S] :
          /\ flat[1] = more[1]
          /\ \A i \in 2 .. n + 1 : flat[i] = flat[i - 1] \o more[i]
          /\ FlattenSeq(more) = flat[n + 1]
    <2>1. Flattens(more, n + 1, S)
      BY <1>1, Flattening
    <2> QED
      BY <2>1 DEF Flattens
  <1>3. CASE n = 0
    <2>1. seqs = <<>> /\ FlattenSeq(seqs) = <<>>
      BY <1>3, EmptySeq DEF FlattenSeq, n
    <2>2. flat[n + 1] = last
      BY <1>1, <1>2, <1>3
    <2> QED
      BY <1>2, <2>1, <2>2 DEF more
  <1>4. CASE n # 0
    <2>1. n \in Nat \ {0} /\ Len(seqs) = n
      BY <1>1, <1>4 DEF n
    <2>2. PICK less \in [1 .. n -> S] :
            /\ less[1] = seqs[1]
            /\ \A i \in 2 .. n : less[i] = less[i - 1] \o seqs[i]
            /\ FlattenSeq(seqs) = less[n]
      <3>1. Flattens(seqs, n, S)
        BY <1>1, <2>1, Flattening
      <3> QED
        BY <3>1 DEF Flattens
    <2> DEFINE Same == {i \in 0 .. n : i = 0 \/ less[i] = flat[i]}
    <2>3. 0 \in Same
      BY <1>1
    <2>4. ASSUME NEW i \in 1 .. n, i - 1 \in Same PROVE i \in Same
      <3>1. CASE i = 1
        BY <1>1, <1>2, <2>2, <3>1
      <3>2. CASE i # 1
        <4>1. i \in 2 .. n /\ i \in 2 .. n + 1 /\ i \in 0 .. n /\ i - 1 # 0
          BY <1>1, <3>2
        <4>2. less[i - 1] = flat[i - 1] /\ more[i] = seqs[i]
          BY <1>1, <2>4, <4>1
        <4> QED
          BY <1>2, <2>2, <4>1, <4>2
      <3> QED
        BY <3>1, <3>2
    <2>5. n \in Same
      <3> HIDE DEF Same
      <3>1. \A i \in 0 .. n : i \in Same
        BY <1>1, <2>3, <2>4, IntervalInduction
      <3> QED
        BY <1>1, <3>1
    <2>6. flat[n + 1] = flat[n] \o last
      <3>1. n + 1 \in 2 .. n + 1 /\ (n + 1) - 1 = n
        BY <2>1
      <3> QED
        BY <1>1, <1>2, <3>1
    <2> QED
      BY <1>2, <2>1, <2>2, <2>5, <2>6 DEF more
  <1> QED
    BY <1>3, <1>4

-----------------------------------------------------------------------------
(* The program that writes and reads.                                      *)

Items == Objects \cup {Space}
Joined(w) == FlattenSeq([i \in DOMAIN w |-> TextOf(w[i])])

\* An open stream holds the text of what was written.
WriterInv ==
    /\ out \in Streams
    /\ wrote \in Seq(Items)
    /\ ~out.closed => out.text = Joined(wrote)

LEMMA ItemTexts ==
    /\ \A o \in Items : TextOf(o) \in Seq(Chars)
    /\ \A o \in Objects : TextOf(o) = Printed(o)
  <1>1. <<" ">> \in Seq(Chars)
    <2> DEFINE blank == " "
    <2>1. blank \in Chars
      BY ProgramAssumption, Zenon
    <2> HIDE DEF blank
    <2>2. <<blank>> \in Seq(Chars)
      BY <2>1
    <2> QED
      BY <2>2, Zenon DEF blank
  <1>2. Space.s = <<" ">>
    <2>1. \A t, s, kids : Object(t, s, kids).s = s
      BY DEF Object
    <2> QED
      BY <2>1, Zenon DEF Space
  <1>3. Space \notin Objects /\ \A o \in Objects : Printed(o) \in Seq(Chars)
    BY ProgramAssumption, Zenon
  <1> QED
    BY <1>1, <1>2, <1>3, Zenon DEF Items, TextOf

LEMMA JoinedAppend ==
    ASSUME NEW w \in Seq(Items), NEW o \in Items
    PROVE  Joined(Append(w, o)) = Joined(w) \o TextOf(o)
  <1> DEFINE S == Seq(Chars)
             texts == [i \in DOMAIN w |-> TextOf(w[i])]
             more == Append(w, o)
  <1>1. /\ Len(w) \in Nat /\ DOMAIN w = 1 .. Len(w)
        /\ Len(more) = Len(w) + 1 /\ DOMAIN more = 1 .. Len(w) + 1
        /\ more[Len(w) + 1] = o /\ \A i \in 1 .. Len(w) : more[i] = w[i] /\ w[i] \in Items
    <2>1. more \in Seq(Items) /\ Len(more) = Len(w) + 1 /\ more[Len(w) + 1] = o
          /\ \A i \in 1 .. Len(w) : more[i] = w[i]
      BY AppendProperties
    <2>2. Len(w) \in Nat /\ w \in [1 .. Len(w) -> Items]
      BY LenProperties
    <2>3. DOMAIN more = 1 .. Len(more)
      <3> HIDE DEF more
      <3> QED
        BY <2>1, LenProperties
    <2> HIDE DEF more
    <2> QED
      BY <2>1, <2>2, <2>3
  <1>2. TextOf(o) \in S /\ \A i \in 1 .. Len(w) : TextOf(w[i]) \in S
    BY <1>1, ItemTexts
  <1>3. texts \in Seq(S) /\ Len(texts) = Len(w)
    <2> HIDE DEF S
    <2> QED
      BY <1>1, <1>2
  <1>4. [i \in DOMAIN more |-> TextOf(more[i])] = Append(texts, TextOf(o))
    <2> DEFINE t == TextOf(o)
               big == Append(texts, t)
    <2>1. /\ Len(big) = Len(w) + 1 /\ big[Len(w) + 1] = t
          /\ \A i \in 1 .. Len(w) : big[i] = texts[i]
          /\ big = [i \in 1 .. Len(w) + 1 |-> big[i]]
      <3>1. /\ big \in Seq(S) /\ Len(big) = Len(texts) + 1 /\ big[Len(texts) + 1] = t
            /\ \A i \in 1 .. Len(texts) : big[i] = texts[i]
        <4> HIDE DEF S, texts, t
        <4>1. t \in S
          BY <1>2 DEF t
        <4> QED
          BY <1>3, <4>1, AppendProperties
      <3>2. big = [i \in 1 .. Len(big) |-> big[i]]
        <4> HIDE DEF S, texts, t, big
        <4>1. big \in [1 .. Len(big) -> S]
          BY <3>1, LenProperties
        <4> QED
          BY <4>1
      <3> HIDE DEF S, texts, t, big
      <3> QED
        BY <1>3, <3>1, <3>2
    <2>2. \A i \in 1 .. Len(w) : texts[i] = TextOf(w[i])
      BY <1>1
    <2>3. \A i \in 1 .. Len(w) + 1 : big[i] = TextOf(more[i])
      <3> SUFFICES ASSUME NEW i \in 1 .. Len(w) + 1
                   PROVE  big[i] = TextOf(more[i])
        OBVIOUS
      <3>1. CASE i = Len(w) + 1
        <4> HIDE DEF big, more
        <4> QED
          BY <1>1, <2>1, <3>1
      <3>2. CASE i # Len(w) + 1
        <4>1. i \in 1 .. Len(w)
          BY <1>1, <3>2
        <4> HIDE DEF big, more, texts
        <4> QED
          BY <1>1, <2>1, <2>2, <4>1
      <3> QED
        BY <3>1, <3>2
    <2>4. [i \in DOMAIN more |-> TextOf(more[i])] = [i \in 1 .. Len(w) + 1 |-> TextOf(more[i])]
      <3> HIDE DEF more
      <3> QED
        BY <1>1
    <2>5. [i \in 1 .. Len(w) + 1 |-> TextOf(more[i])] = [i \in 1 .. Len(w) + 1 |-> big[i]]
      <3> HIDE DEF more, big
      <3> QED
        BY <2>3
    <2> HIDE DEF more, big
    <2> QED
      BY <2>1, <2>4, <2>5 DEF big
  <1>5. Concatenable(S)
    BY ConcatProperties DEF Concatenable
  <1>6. <<>> \o TextOf(o) = TextOf(o)
    BY <1>2
  <1> HIDE DEF S, texts
  <1>7. FlattenSeq(Append(texts, TextOf(o))) = FlattenSeq(texts) \o TextOf(o)
    BY <1>2, <1>3, <1>5, <1>6, FlattenAppend
  <1> QED
    BY <1>4, <1>7 DEF Joined, texts

LEMMA NothingWritten == Joined(<<>>) = <<>>
  <1>1. [i \in DOMAIN <<>> |-> TextOf(<<>>[i])] = <<>>
    OBVIOUS
  <1>2. FlattenSeq(<<>>) = <<>>
    BY EmptySeq DEF FlattenSeq
  <1> QED
    BY <1>1, <1>2 DEF Joined

\* A write adds its text to an open stream, and leaves a closed one alone.
LEMMA WriteAdds ==
    ASSUME WriterInv, NEW o \in Items,
           out' = WriteString(out, TextOf(o)),
           wrote' = IF out.closed THEN wrote ELSE Append(wrote, o)
    PROVE  WriterInv'
  <1>1. TextOf(o) \in Seq(Chars)
    BY ItemTexts
  <1>2. /\ out' \in Streams /\ out'.closed = out.closed
        /\ out'.text = IF out.closed THEN out.text ELSE out.text \o TextOf(o)
    BY <1>1, StringWritten DEF WriterInv
  <1>3. wrote' \in Seq(Items)
    BY AppendProperties DEF WriterInv
  <1>4. ~out.closed => out'.text = Joined(wrote')
    BY <1>2, JoinedAppend DEF WriterInv
  <1> QED
    BY <1>2, <1>3, <1>4 DEF WriterInv, Joined

LEMMA WriterInvInit == Init => WriterInv
  <1> DEFINE o == Open("string", "output", <<>>)
  <1>1. o \in Streams /\ o.text = <<>> /\ Close(o) = [o EXCEPT !.closed = TRUE]
    BY EmptySeq DEF Open, Close, Streams, Kinds, Directions
  <1>2. Close(o) \in Streams /\ Close(o).closed
    BY <1>1, EmptySeq DEF Open, Close, Streams, Kinds, Directions
  <1>3. <<>> \in Seq(Items)
    BY EmptySeq
  <1> HIDE DEF o
  <1>4. Init => wrote = <<>> /\ (out = o \/ out = Close(o))
    BY DEF Init, o
  <1> QED
    BY <1>1, <1>2, <1>3, <1>4, NothingWritten DEF WriterInv

LEMMA WriterInvStep ==
    ASSUME WriterInv, [Next]_allvars
    PROVE  WriterInv'
  <1>1. CASE UNCHANGED printer
    BY <1>1 DEF printer, WriterInv, Joined
  <1>2. ASSUME NEW o \in Objects, Write(o)
        PROVE  WriterInv'
    <2>1. o \in Items /\ TextOf(o) = Printed(o)
      BY ItemTexts DEF Items
    <2> QED
      BY <1>2, <2>1, WriteAdds DEF Write
  <1>3. CASE WriteSpace
    <2>1. Space \in Items
      BY DEF Items
    <2> QED
      BY <1>3, <2>1, WriteAdds DEF WriteSpace
  <1>4. CASE OpenString
    <2>1. out' = [out EXCEPT !.text = <<>>, !.pos = 0] /\ wrote' = <<>>
      BY <1>4 DEF OpenString, GetStdString
    <2>2. out' \in Streams /\ out'.text = <<>>
      BY <2>1, EmptySeq, StreamFields DEF WriterInv, Streams
    <2>3. Joined(wrote') = <<>> /\ wrote' \in Seq(Items)
      BY <2>1, NothingWritten, EmptySeq
    <2> QED
      BY <2>2, <2>3 DEF WriterInv, Joined
  <1>5. ASSUME out' = ReadByte(out).stream, wrote' = wrote
        PROVE  WriterInv'
    <2>1. out' \in Streams /\ out'.text = out.text /\ out'.closed = out.closed
      <3>1. out \in Streams
        BY DEF WriterInv
      <3>2. CASE out.closed
        BY <1>5, <3>1, <3>2 DEF ReadByte
      <3>3. CASE ~out.closed
        <4>1. out' = Get(out).stream
          BY <1>5, <3>3 DEF ReadByte, Get
        <4>2. \/ out' = [out EXCEPT !.eof = out.eof \/ ~out.fail, !.fail = out.kind # "std"]
              \/ out' = [out EXCEPT !.pos = @ + 1]
          BY <4>1 DEF Get
        <4> DEFINE ended == [out EXCEPT !.eof = out.eof \/ ~out.fail, !.fail = out.kind # "std"]
                   gone == [out EXCEPT !.pos = @ + 1]
        <4>3. ended \in Streams /\ ended.text = out.text /\ ended.closed = out.closed
          BY <3>1, StreamFields DEF Streams
        <4>4. gone \in Streams /\ gone.text = out.text /\ gone.closed = out.closed
          BY <3>1, StreamFields DEF Streams
        <4>5. out' = ended \/ out' = gone
          BY <4>2
        <4> HIDE DEF ended, gone
        <4> QED
          BY <4>3, <4>4, <4>5
      <3> QED
        BY <3>2, <3>3
    <2> QED
      BY <1>5, <2>1 DEF WriterInv, Joined
  <1>6. ASSUME out' = Close(out), wrote' = wrote
        PROVE  WriterInv'
    <2>1. out' \in Streams /\ out'.text = out.text /\ (out.closed => out'.closed)
      BY <1>6, StreamFields DEF WriterInv, Close, Streams
    <2> QED
      BY <1>6, <2>1 DEF WriterInv, Joined
  <1>7. CASE RdByte
    BY <1>1, <1>5, <1>7 DEF RdByte
  <1>8. CASE CloseOut
    BY <1>1, <1>6, <1>8 DEF CloseOut
  <1>9. CASE UNCHANGED allvars
    BY <1>1, <1>9 DEF allvars
  <1>10. CASE Dead
    BY <1>9, <1>10 DEF Dead
  <1> QED
    BY <1>1, <1>2, <1>3, <1>4, <1>7, <1>8, <1>9, <1>10 DEF Next, Program

\* What the program does to the reader's variables.
LEMMA ProgramStep ==
    ASSUME WriterInv, [Next]_allvars
    PROVE  [ReaderNext]_vars
  <1>1. CASE Reader \/ Client \/ Abort
    BY <1>1 DEF ReaderNext
  <1>2. CASE UNCHANGED vars
    BY <1>2
  <1>3. CASE OpenString
    <2> DEFINE got == GetStdString(out)
    <2>1. PICK lost \in 0 .. MaxLost :
            OpenInput("string", SubSeq(got.str, 1, Len(got.str) - lost))
      BY <1>3 DEF OpenString
    <2>2. got.str = out.text /\ out.text \in Seq(Chars) /\ Len(out.text) \in Nat
      BY StreamFields DEF GetStdString, WriterInv
    <2>3. SubSeq(out.text, 1, Len(out.text) - lost) \in Seq(Chars)
      <3>1. \A i \in 1 .. Len(out.text) - lost : out.text[i] \in Chars
        BY <2>2
      <3> QED
        BY <2>2, <3>1, SubSeqProperties
    <2>4. "string" \in Kinds
      BY DEF Kinds
    <2> HIDE DEF got
    <2> QED
      BY <2>1, <2>2, <2>3, <2>4 DEF ReaderNext
  <1>4. \/ Reader \/ Client \/ Abort
        \/ UNCHANGED vars
        \/ OpenString
    BY DEF Next, Program, Write, WriteSpace, RdByte, CloseOut, Dead, allvars
  <1> QED
    BY <1>1, <1>2, <1>3, <1>4

\* The program is one of those that the reader's theorems are about, whatever
\* the printer writes (read.cc:143, mu-stream.cc:144).
THEOREM ProgramReads == Spec => ReaderSpec
  <1>1. Init => ReaderInit /\ \E kind \in Kinds, text \in Seq(Chars) : in = Open(kind, "input", text)
    <2>1. <<>> \in Seq(Chars) /\ "string" \in Kinds
      BY EmptySeq DEF Kinds
    <2>2. InKinds \subseteq Kinds /\ \A text \in Texts : text \in Seq(Chars)
      BY ProgramAssumption, Zenon
    <2> QED
      BY <2>1, <2>2 DEF Init
  <1> QED
    BY <1>1, WriterInvInit, WriterInvStep, ProgramStep, PTL DEF Spec, ReaderSpec, ReaderNext

\* An open stream holds the text of what was written to it, one thing after the
\* other, and the reader of that text is in a state of Env::Read
\* (sys-stream.cc:38, read.cc:164).
THEOREM ProgramTypeCorrect == Spec => []TypeOK
  <1>1. WriterInv /\ ReaderTypeOK => TypeOK
    BY DEF WriterInv, TypeOK, Joined
  <1> QED
    BY <1>1, WriterInvInit, WriterInvStep, ProgramReads, ReaderTypeCorrect, PTL DEF Spec

\* What holds of the reader in any program holds of it in this one.
THEOREM ProgramReadsWell == Spec => [](EofReported /\ ReadAdvances /\ DepthIsBalance)
  <1> QED
    BY ProgramReads, EndIsReported, ReadersAdvance, DepthAlwaysBalance, PTL
=============================================================================
