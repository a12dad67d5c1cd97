---------------------------- MODULE MuWriteRead ----------------------------
(***************************************************************************)
(* A program that writes objects and white space to a string stream, takes *)
(* its text and reads it back with the reader of MuReader.  What the text  *)
(* of an object is, is MuPrinter's.                                        *)
(* It writes one text: a second would start from the same state.           *)
(***************************************************************************)
EXTENDS MuReader

CONSTANTS Printed(_), \* the text the printer gives an object
          Objects,    \* the objects the program writes
          Texts,      \* texts the program may open a stream on instead
          InKinds,    \* the kinds of stream it reads from
          MaxWrites,  \* bound on the writes of one text
          MaxLost     \* bound on what is missing of a text that is read

\* What the program writes is an object or a space between objects.
Space == Object("space", <<" ">>, <<>>)

\* What the program writes and reads are characters.
ASSUME ProgramAssumption ==
    /\ " " \in Chars
    /\ Space \notin Objects
    /\ \A o \in Objects : Printed(o) \in Seq(Chars)
    /\ \A text \in Texts : text \in Seq(Chars)
    /\ InKinds \subseteq Kinds
    /\ MaxWrites \in Nat /\ MaxLost \in Nat

VARIABLES out,        \* the output string stream
          wrote,      \* history: what was written since the last get-str
          script      \* history: what was written of the text of in

printer == <<out, wrote, script>>
allvars == <<vars, printer>>

\* The text of an object, or of a space between objects.
TextOf(o) == IF o = Space THEN o.s ELSE Printed(o)

-----------------------------------------------------------------------------
(* The program.                                                            *)

Init ==
    /\ ReaderInit
    /\ wrote = <<>> /\ script = <<>>
    /\ \/ \* It reads what it has written.
          /\ in = Open("string", "input", <<>>)
          /\ out = Open("string", "output", <<>>)
       \/ \* It reads some other text.
          /\ \E kind \in InKinds, text \in Texts : in = Open(kind, "input", text)
          /\ out = Close(Open("string", "output", <<>>))

\* The program is done with out when it has taken its text.
Idle == pc = "idle" /\ script = <<>>

\* (write object out :t)
Write(o) ==
    /\ Idle /\ Len(wrote) < MaxWrites
    /\ out' = WriteString(out, Printed(o))
    /\ wrote' = IF out.closed THEN wrote ELSE Append(wrote, o)
    /\ UNCHANGED <<vars, script>>

\* (wr-char #\space out)
WriteSpace ==
    /\ Idle /\ Len(wrote) < MaxWrites
    /\ out' = WriteString(out, TextOf(Space))
    /\ wrote' = IF out.closed THEN wrote ELSE Append(wrote, Space)
    /\ UNCHANGED <<vars, script>>

\* (open :string :input (slice (get-str out) 0 length)): the text, or as much of
\* it as has arrived.
OpenString ==
    /\ Idle /\ wrote # <<>>
    /\ LET got == GetStdString(out) IN
       /\ out' = got.stream
       /\ \E lost \in 0 .. MaxLost :
             OpenInput("string", SubSeq(got.str, 1, Len(got.str) - lost))
    /\ script' = wrote /\ wrote' = <<>>

\* (rd-byte out) and (rd-byte in): the assertion has the direction wrong.
RdByte ==
    /\ Idle
    /\ \/ /\ CanReadByte(out)
          /\ out' = ReadByte(out).stream
          /\ UNCHANGED <<vars, wrote, script>>
       \/ ~CanReadByte(in) /\ Abort /\ UNCHANGED printer

\* (close out): the flush may end the process.
CloseOut ==
    /\ Idle /\ ~out.closed /\ CloseIsUndefined(out)
    /\ \/ out' = Close(out) /\ UNCHANGED <<vars, wrote, script>>
       \/ Abort /\ UNCHANGED printer

Program ==
    \/ \E o \in Objects : Write(o)
    \/ WriteSpace \/ OpenString \/ RdByte \/ CloseOut

\* The process has ended.
Dead == pc = "dead" /\ UNCHANGED allvars

Next ==
    \/ (Reader \/ Client) /\ UNCHANGED printer
    \/ Program
    \/ Dead

\* The reader runs to its end once it is called: it is one thread of control.
Spec == Init /\ [][Next]_allvars /\ WF_allvars(Reader /\ UNCHANGED printer)

-----------------------------------------------------------------------------
(* Properties.                                                             *)

\* The type invariant.  What was written to an open stream is its text.
TypeOK ==
    /\ ReaderTypeOK
    /\ out \in Streams
    /\ ~out.closed => out.text = FlattenSeq([i \in DOMAIN wrote |-> TextOf(wrote[i])])
=============================================================================
