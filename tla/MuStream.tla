----------------------------- MODULE MuStream -----------------------------
(***************************************************************************)
(* The byte streams of libmu: system/sys-stream.cc with the class          *)
(* type::Stream above it.  A stream is a record and an operation an        *)
(* operator from records to records; the modules that own streams as state *)
(* compose them.                                                           *)
(*                                                                         *)
(* The C++ library is modelled by what this code gets from it.  A string   *)
(* or file stream has eofbit and failbit: a get at the end sets both,      *)
(* putback clears eofbit first and then does nothing on a failed stream,   *)
(* and at the beginning of the buffer it fails.  stdio has one end-of-file *)
(* flag, which ungetc clears.  Opening a file and what the operating       *)
(* system does with its bytes are left out.                                *)
(***************************************************************************)
EXTENDS Sequences, Naturals, SequencesExt

CONSTANTS Chars,     \* the characters a stream may hold
          NoChar,    \* what a read returns when there is none: NIL
          EOT        \* the character 0x04, which a read answers like the end

ASSUME CharsAssumption == NoChar \notin Chars

Kinds == {"string", "file", "std"}
Directions == {"input", "output"}

\* text is what the buffer or file holds and pos how much of it was read.
Streams == [kind: Kinds, dir: Directions, text: Seq(Chars), pos: Nat,
            eof: BOOLEAN, fail: BOOLEAN, closed: BOOLEAN]

Open(kind, dir, text) ==
    [kind |-> kind, dir |-> dir, text |-> text, pos |-> 0,
     eof |-> FALSE, fail |-> FALSE, closed |-> FALSE]

IsInput(s) == s.dir = "input"
IsOutput(s) == s.dir = "output"
IsString(s) == s.kind = "string"

\* A closed stream keeps its end-of-file answer.
IsEof(s) == s.eof

(***************************************************************************)
(* Reading.  A step gives the character, or NoChar, and the stream.        *)
(***************************************************************************)
AtEnd(s) == s.pos = Len(s.text)

\* get or getc, from a stream that is not closed.
Get(s) ==
    IF s.fail \/ AtEnd(s)
    THEN [ch |-> NoChar,
          stream |-> [s EXCEPT !.eof = s.eof \/ ~s.fail,
                               !.fail = s.kind # "std"]]
    ELSE [ch |-> s.text[s.pos + 1],
          stream |-> [s EXCEPT !.pos = @ + 1]]

ReadByte(s) ==
    IF s.closed
    THEN [ch |-> NoChar, stream |-> s]
    ELSE LET got == Get(s) IN
         [got EXCEPT !.ch = IF @ = EOT THEN NoChar ELSE @]

\* ungetc puts the character back even at the beginning.
Ungetc(s, ch) ==
    IF s.pos = 0
    THEN [s EXCEPT !.text = <<ch>> \o @, !.eof = FALSE]
    ELSE [s EXCEPT !.text[s.pos] = ch, !.pos = @ - 1, !.eof = FALSE]

\* A different character overwrites the one that was read.
Putback(s, ch) ==
    IF s.fail
    THEN [s EXCEPT !.eof = FALSE]
    ELSE IF s.pos = 0
         THEN [s EXCEPT !.fail = TRUE, !.eof = FALSE]
         ELSE [s EXCEPT !.text[s.pos] = ch, !.pos = @ - 1, !.eof = FALSE]

UnReadByte(s, ch) ==
    IF s.closed THEN s
    ELSE IF s.kind = "std" THEN Ungetc(s, ch) ELSE Putback(s, ch)

(***************************************************************************)
(* Writing.  A string stream is rebuilt from its text and the new byte,    *)
(* which moves the read position to the beginning.                         *)
(***************************************************************************)
WriteByte(s, ch) ==
    IF s.closed THEN s
    ELSE [s EXCEPT !.text = Append(@, ch), !.pos = 0]

WriteString(s, str) ==
    LET written[i \in 0 .. Len(str)] ==
            IF i = 0 THEN s ELSE WriteByte(written[i - 1], str[i])
    IN written[Len(str)]

\* Mutant: the text is handed out and kept.
GetStdStringKeeping(s) == [str |-> s.text, stream |-> s]

\* get-str hands out the text and leaves the stream empty, closed or not.
GetStdString(s) ==
    [str |-> s.text, stream |-> [s EXCEPT !.text = <<>>, !.pos = 0]]

\* A standard stream is never closed.
Close(s) == IF s.kind = "std" THEN s ELSE [s EXCEPT !.closed = TRUE]

\* The flush of an open string output stream goes through an ostream pointer
\* that its constructor left uninitialised: the process may not survive it.
CloseIsUndefined(s) == IsOutput(s) /\ IsString(s)

(***************************************************************************)
(* The assertions of type::Stream, which end a debug build.  rd-byte       *)
(* asserts that the stream is one for output.                              *)
(***************************************************************************)
Readable(s) == IsInput(s) \/ IsString(s)
CanReadChar(s) == IsInput(s)
CanUnRead(s) == IsInput(s)
CanReadByte(s) == IsOutput(s) /\ Readable(s)
CanWrite(s) == IsOutput(s)
CanGetString(s) == IsString(s) /\ IsOutput(s)

=============================================================================
