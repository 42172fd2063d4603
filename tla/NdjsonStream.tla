----------------------------- MODULE NdjsonStream -----------------------------
(***************************************************************************)
(* packages/protocol/src/ndjson-stream.ts: newline-delimited records cut   *)
(* out of a stream that arrives in pieces.                                 *)
(*                                                                         *)
(* Bytes are abstracted to units: the two halves of a record and the       *)
(* newline.  That is enough for a record that was torn, cut by a budget,   *)
(* or glued to what follows it, and MaxLine is the line limit in units.    *)
(*                                                                         *)
(* The readers decode the bytes as UTF-8 first and count the bytes of the  *)
(* text that gives.  What is no UTF-8 becomes U+FFFD, which is three bytes *)
(* whatever it stands for.  A Wide record is cut inside a character when   *)
(* it is cut in half, and a Raw one has a byte of its own that is no UTF-8.*)
(***************************************************************************)
EXTENDS Integers, SequencesExt

CONSTANTS MaxLine,
          Wide, \* records whose halves meet inside a character
          Raw   \* records whose second half has a byte that is no UTF-8

ASSUME MaxLineAssumption == MaxLine \in Nat \ {0}

Unit(rec, part) == [rec |-> rec, part |-> part]
Newline == Unit(<<>>, 0)
Line(rec) == <<Unit(rec, 1), Unit(rec, 2)>>
Terminated(rec) == Append(Line(rec), Newline)

(* text.split("\n"): the lines that have ended, and what follows the last  *)
(* newline.                                                                 *)
Cut(lines, unit) ==
  IF unit = Newline THEN [done |-> Append(lines.done, lines.open), open |-> <<>>]
                    ELSE [done |-> lines.done, open |-> Append(lines.open, unit)]

Splitting == INSTANCE Folding WITH base <- [done |-> <<>>, open |-> <<>>], step <- Cut

Segments(text) == Splitting!folded(text).done

Trailing(text) == Splitting!folded(text).open

(* The i-th unit has a byte that is decoded to U+FFFD.                      *)
Stray(text, i) ==
  LET unit == text[i]
  IN \/ unit.part = 2 /\ unit.rec \in Raw
     \/ /\ unit.part = 1 /\ unit.rec \in Wide
        /\ i = Len(text) \/ text[i + 1] # Unit(unit.rec, 2)
     \/ /\ unit.part = 2 /\ unit.rec \in Wide
        /\ i = 1 \/ text[i - 1] # Unit(unit.rec, 1)

(* Buffer.byteLength of a text that was decoded: a unit more than was read  *)
(* for each stray (two bytes more at most, in the code).                    *)
byteLength(text) == Len(text) + Cardinality({i \in DOMAIN text : Stray(text, i)})

(* JSON.parse succeeds on exactly one whole record that fits: U+FFFD is     *)
(* valid in a string, only longer.                                          *)
Decodes(segment) ==
  Len(segment) = 2 /\ byteLength(segment) <= MaxLine /\ segment = Line(segment[1].rec)

Blank(segment) == segment = <<>>

(* One line: passed over if blank, kept if it decodes, counted if not.      *)
Take(read, segment) ==
  IF Blank(segment) THEN read
  ELSE IF Decodes(segment)
    THEN [records |-> Append(read.records, segment[1].rec), rejected |-> read.rejected]
    ELSE [records |-> read.records, rejected |-> read.rejected + 1]

Taking == INSTANCE Folding WITH base <- [records |-> <<>>, rejected |-> 0], step <- Take

Read(segments) == Taking!folded(segments)

(* Every complete record; a trailing fragment over the limit is dropped and *)
(* what is left of its line will be taken for a line of its own.  Nothing   *)
(* is pending: each reader makes a stream and pushes once.                  *)
push(text) ==
  LET tail == Trailing(text)
      overflowed == byteLength(tail) > MaxLine
      lines == SubSeq(text, 1, Len(text) - Len(tail))
      read == Read(Segments(text))
  IN [records |-> read.records,
      rejected |-> read.rejected + (IF overflowed THEN 1 ELSE 0),
      pending |-> IF overflowed THEN <<>> ELSE tail,
      consumed |-> byteLength(lines) + (IF overflowed THEN byteLength(tail) ELSE 0)]

(* The unterminated fragment, once the producer has gone. *)
finish(pending) == Read(<<pending>>)

ReadFromPastPending(file, offset, atEof) ==
  LET pushed == push(SubSeq(file, offset + 1, Len(file)))
      last == IF atEof THEN finish(pushed.pending) ELSE finish(<<>>)
  IN [records |-> pushed.records \o last.records,
      rejected |-> pushed.rejected + last.rejected,
      offset |-> offset + pushed.consumed + byteLength(pushed.pending),
      corrupt |-> offset > Len(file)]

(* readEvents of every adapter: the file from an offset on, taken to its    *)
(* end or only to its last complete line.  A file shorter than the offset   *)
(* is an error (corrupt), and nothing is read of it.                        *)
ReadFrom(file, offset, atEof) ==
  LET pushed == push(SubSeq(file, offset + 1, Len(file)))
      last == IF atEof THEN finish(pushed.pending) ELSE finish(<<>>)
  IN [records |-> pushed.records \o last.records,
      rejected |-> pushed.rejected + last.rejected,
      offset |-> offset + pushed.consumed + (IF atEof THEN byteLength(pushed.pending) ELSE 0),
      corrupt |-> offset > Len(file)]

=============================================================================
