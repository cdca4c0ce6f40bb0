---------------------------- MODULE HttpdGetLine ----------------------------
(***************************************************************************)
(* get_line() of tinyhttpd/httpd.c and the loop that reads and discards    *)
(* the headers with it.  A byte is a carriage return, a line feed or       *)
(* another one; the client sends its bytes and then nothing more.  A step  *)
(* is one turn of the loop in get_line(), or its return.                   *)
(***************************************************************************)
EXTENDS Integers, Sequences, SequencesExt

CONSTANTS
    Size,       \* sizeof(buf)
    MaxLen      \* bound on the bytes the client sends

ASSUME GetLineAssumption == Size \in Nat /\ Size > 1 /\ MaxLen \in Nat

Bytes == {"a", "cr", "lf"}

VARIABLES
    sent,       \* all the client sends
    received,   \* how many of these bytes the server has taken
    char,       \* c of get_line()
    buf,        \* the line get_line() has in hand, i characters
    lines,      \* what get_line() has returned
    phase       \* "headers" or "body"

lineVars == <<sent, received, char, buf, lines, phase>>

Blank == <<"lf">>

LineInit ==
    /\ sent \in BoundedSeq(Bytes, MaxLen)
    /\ received = 0
    /\ char = "nul" /\ buf = <<>>
    /\ lines = <<>>
    /\ phase = "headers"

Reading == phase = "headers" /\ Len(buf) < Size - 1 /\ char # "lf"

\* Mutant: no look at the byte behind a carriage return.
GetCharPeekless ==
    /\ Reading /\ received < Len(sent)
    /\ received' = received + 1
    /\ char' = IF sent[received + 1] = "cr" THEN "lf" ELSE sent[received + 1]
    /\ buf' = Append(buf, char')
    /\ UNCHANGED <<sent, lines, phase>>

\* A carriage return looks at the next byte, which it takes only if it is a
\* line feed; it becomes one in any case.
GetChar ==
    /\ Reading /\ received < Len(sent)
    /\ received' = received + IF /\ sent[received + 1] = "cr" /\ received + 1 < Len(sent)
                                 /\ sent[received + 2] = "lf" THEN 2 ELSE 1
    /\ char' = IF sent[received + 1] = "cr" THEN "lf" ELSE sent[received + 1]
    /\ buf' = Append(buf, char')
    /\ UNCHANGED <<sent, lines, phase>>

\* recv() has nothing: the loop ends, and nothing is put into buf.
NoMore ==
    /\ Reading /\ received = Len(sent)
    /\ char' = "lf"
    /\ UNCHANGED <<sent, received, buf, lines, phase>>

\* numchars > 0 and buf different from "\n".
EndsHeaders(line) == line = <<>> \/ line = Blank

\* get_line() returns, and is called again with a fresh c for the next header.
ReadHeader ==
    /\ phase = "headers" /\ ~Reading
    /\ lines' = Append(lines, buf)
    /\ phase' = IF EndsHeaders(buf) THEN "body" ELSE "headers"
    /\ char' = "nul" /\ buf' = <<>>
    /\ UNCHANGED <<sent, received>>

LineNext == GetChar \/ NoMore \/ ReadHeader

LineSpec == LineInit /\ [][LineNext]_lineVars

-----------------------------------------------------------------------------
(* Properties *)

\* The reference: a line feed for a carriage return, and none for a line feed
\* behind one.
Shown(s, k) ==
    IF s[k] = "a" THEN <<"a">>
    ELSE IF s[k] = "lf" /\ k > 1 /\ s[k - 1] = "cr" THEN <<>> ELSE <<"lf">>
Normal(s) == FlattenSeq([k \in 1 .. Len(s) |-> Shown(s, k)])

\* "If any of the above three line terminators is read, the last character of
\* the string will be a linefeed": a line has no other line feed, and has none
\* only if the buffer was full or the client had no more.
LinesTerminated ==
    \A n \in DOMAIN lines :
        /\ Len(lines[n]) < Size
        /\ \A k \in 1 .. Len(lines[n]) - 1 : lines[n][k] # "lf"
        /\ lines[n] = <<>> \/ Last(lines[n]) # "lf" =>
               Len(lines[n]) = Size - 1 \/ n >= Len(lines) - 1

\* The line ends that end an empty line, and what fills the buffer without one.
BlankAt(s) ==
    {k \in DOMAIN s : Shown(s, k) = <<"lf">> /\ (k = 1 \/ s[k - 1] # "a")}
Overlong(s) ==
    \E k \in DOMAIN s : k + Size - 2 \in DOMAIN s /\ \A m \in k .. k + Size - 2 : s[m] = "a"

\* Where the line end that begins at k ends.
EndOf(s, k) == IF s[k] = "cr" /\ k < Len(s) /\ s[k + 1] = "lf" THEN k + 1 ELSE k

\* Unless a line is too long for the buffer, the headers end behind the first
\* blank line and not a byte earlier or later, so the body starts there.
BodyStartsAfterBlank ==
    phase = "body" /\ ~Overlong(sent) =>
        IF BlankAt(sent) = {} THEN received = Len(sent)
        ELSE \E k \in BlankAt(sent) :
                received = EndOf(sent, k) /\ \A j \in BlankAt(sent) : k <= j

\* The lines returned and the one in hand, one behind the other, are what the
\* client sent so far with its line ends made one, and the body starts behind
\* the blank line: nothing is lost, doubled or joined at a buffer's end, or at
\* the end of the headers.
NothingLost ==
    /\ LinesTerminated
    /\ FlattenSeq(lines) \o buf = Normal(SubSeq(sent, 1, received))
    /\ BodyStartsAfterBlank
=============================================================================
