---------------------------- MODULE TranscriptProofs ----------------------------
(***************************************************************************)
(* What is made of a worker's transcript, for transcripts of any length:   *)
(* how it is split into lines, read, translated and judged.  The loops are *)
(* instances of Folding, so each lemma about one says what an element does *)
(* to the result so far, and the induction over the sequence is made once. *)
(***************************************************************************)
EXTENDS WorkerProofs, FiniteSetTheorems

-----------------------------------------------------------------------------
(***************************************************************************)
(* Splitting and reading.                                                  *)
(***************************************************************************)

LEMMA AppendToConcat ==
  ASSUME NEW S, NEW s \in Seq(S), NEW t \in Seq(S), NEW e \in S
  PROVE  s \o Append(t, e) = Append(s \o t, e)
<1>1. Append(t, e) = t \o <<e>> /\ Append(s \o t, e) = (s \o t) \o <<e>>
  BY AppendIsConcat, ConcatProperties
<1>2. <<e>> \in Seq(S)
  OBVIOUS
<1> QED BY <1>1, <1>2, ConcatAssociative

LEMMA AppendBefore ==
  ASSUME NEW S, NEW s \in Seq(S), NEW e \in S, NEW t \in Seq(S)
  PROVE  s \o (<<e>> \o t) = Append(s, e) \o t
<1>1. Append(s, e) = s \o <<e>>
  BY AppendIsConcat
<1>2. <<e>> \in Seq(S)
  OBVIOUS
<1> QED BY <1>1, <1>2, ConcatAssociative

(* The first element of what follows, moved over to what precedes it.       *)
LEMMA UnitOver ==
  ASSUME NEW S, NEW s \in Seq(S), NEW t \in Seq(S), Len(t) > 0
  PROVE  t[1] \in S /\ Tail(t) \in Seq(S) /\ s \o t = Append(s, t[1]) \o Tail(t)
<1>1. 1 \in 1 .. Len(t) /\ t # <<>>
  BY EmptySeq
<1>2. t[1] \in S
  BY <1>1, ElementOfSeq
<1>3. Tail(t) \in Seq(S) /\ t = <<t[1]>> \o Tail(t)
  <2>1. Tail(t) \in Seq(S)
    BY <1>1, HeadTailProperties
  <2>2. t = <<Head(t)>> \o Tail(t) /\ Head(t) = t[1]
    BY <1>1, HeadTailProperties
  <2> QED BY <2>1, <2>2, Zenon
<1>4. s \o (<<t[1]>> \o Tail(t)) = Append(s, t[1]) \o Tail(t)
  BY <1>2, <1>3, AppendBefore
<1> QED BY <1>2, <1>3, <1>4, Zenon

(* What a text is split into, unit by unit.                                 *)
LEMMA SplitEmpty == Segments(<<>>) = <<>> /\ Trailing(<<>>) = <<>>
BY Splitting!FoldedEmpty DEF Segments, Trailing

LEMMA SplitUnit ==
  ASSUME NEW U, NEW text \in Seq(U), NEW u \in U
  PROVE  IF u = Newline
           THEN /\ Segments(Append(text, u)) = Append(Segments(text), Trailing(text))
                /\ Trailing(Append(text, u)) = <<>>
           ELSE /\ Segments(Append(text, u)) = Segments(text)
                /\ Trailing(Append(text, u)) = Append(Trailing(text), u)
<1>1. Splitting!folded(Append(text, u)) = Cut(Splitting!folded(text), u)
  BY Splitting!FoldedAppend
<1> QED BY <1>1 DEF Segments, Trailing, Cut

LEMMA SplitType ==
  ASSUME NEW U, NEW text \in Seq(U)
  PROVE  Segments(text) \in Seq(Seq(U)) /\ Trailing(text) \in Seq(U)
<1> DEFINE T == [done : Seq(Seq(U)), open : Seq(U)]
<1>1. [done |-> <<>>, open |-> <<>>] \in T
  OBVIOUS
<1>2. ASSUME NEW acc \in T, NEW u \in U PROVE Cut(acc, u) \in T
  BY AppendProperties DEF Cut
<1>3. Splitting!folded(text) \in T
  <2> HIDE DEF T
  <2> QED BY <1>1, <1>2, Splitting!FoldedIn
<1> QED BY <1>3 DEF Segments, Trailing

(* What was split at a line's end goes on from there.                       *)
LEMMA SplitRest ==
  ASSUME NEW U, NEW head \in Seq(U), Trailing(head) = <<>>, NEW rest \in Seq(U)
  PROVE  /\ Segments(head \o rest) = Segments(head) \o Segments(rest)
         /\ Trailing(head \o rest) = Trailing(rest)
<1> DEFINE Good == {t \in Seq(U) : /\ Segments(head \o t) = Segments(head) \o Segments(t)
                                   /\ Trailing(head \o t) = Trailing(t)}
<1>1. <<>> \in Good
  <2>1. PICK done \in Seq(Seq(U)) : done = Segments(head)
    BY SplitType
  <2>2. head \o <<>> = head /\ done \o <<>> = done /\ <<>> \in Seq(U)
    BY ConcatEmptySeq
  <2> QED BY <2>1, <2>2, SplitEmpty
<1>2. ASSUME NEW t \in Seq(U), NEW u \in U, t \in Good PROVE Append(t, u) \in Good
  <2>1. PICK more \in Seq(U) : more = head \o t
    BY ConcatProperties
  <2>2. head \o Append(t, u) = Append(more, u)
    BY <2>1, AppendToConcat
  <2>3. Append(t, u) \in Seq(U)
    BY AppendProperties
  <2>4. Segments(more) = Segments(head) \o Segments(t) /\ Trailing(more) = Trailing(t)
    BY <1>2, <2>1
  <2>5. CASE u = Newline
    <3>1. /\ Segments(Append(more, u)) = Append(Segments(more), Trailing(more))
          /\ Trailing(Append(more, u)) = <<>>
          /\ Segments(Append(t, u)) = Append(Segments(t), Trailing(t))
          /\ Trailing(Append(t, u)) = <<>>
      BY <2>5, SplitUnit
    <3>2. Segments(head) \o Append(Segments(t), Trailing(t))
            = Append(Segments(head) \o Segments(t), Trailing(t))
      <4>1. PICK a \in Seq(Seq(U)), b \in Seq(Seq(U)), c \in Seq(U) :
              a = Segments(head) /\ b = Segments(t) /\ c = Trailing(t)
        BY SplitType
      <4> QED BY <4>1, AppendToConcat
    <3> QED BY <2>2, <2>3, <2>4, <3>1, <3>2
  <2>6. CASE u # Newline
    <3>1. /\ Segments(Append(more, u)) = Segments(more)
          /\ Trailing(Append(more, u)) = Append(Trailing(more), u)
          /\ Segments(Append(t, u)) = Segments(t)
          /\ Trailing(Append(t, u)) = Append(Trailing(t), u)
      BY <2>6, SplitUnit
    <3> QED BY <2>2, <2>3, <2>4, <3>1
  <2> QED BY <2>5, <2>6
<1>3. rest \in Good
  <2> HIDE DEF Good
  <2> QED BY <1>1, <1>2, Splitting!SeqInduction
<1> QED BY <1>3

(* What is read of lines, and of lines after lines.                         *)
LEMMA ReadEmpty == Read(<<>>) = [records |-> <<>>, rejected |-> 0]
BY Taking!FoldedEmpty DEF Read

LEMMA ReadLine ==
  ASSUME NEW S, NEW lines \in Seq(S), NEW line \in S
  PROVE  Read(Append(lines, line)) = Take(Read(lines), line)
BY Taking!FoldedAppend DEF Read

LEMMA ReadType ==
  ASSUME NEW U, NEW lines \in Seq(Seq(U))
  PROVE  Read(lines) \in [records : Seq({u.rec : u \in U}), rejected : Nat]
<1> DEFINE T == [records : Seq({u.rec : u \in U}), rejected : Nat]
<1>1. [records |-> <<>>, rejected |-> 0] \in T
  OBVIOUS
<1>2. ASSUME NEW acc \in T, NEW line \in Seq(U) PROVE Take(acc, line) \in T
  <2>1. CASE Blank(line)
    BY <2>1 DEF Take
  <2>2. CASE ~Blank(line) /\ Decodes(line)
    <3>1. line[1].rec \in {u.rec : u \in U}
      <4>1. 1 \in 1 .. Len(line)
        BY <2>2 DEF Decodes
      <4>2. line[1] \in U
        BY <4>1, ElementOfSeq
      <4> QED BY <4>2
    <3> QED BY <2>2, <3>1, AppendProperties DEF Take
  <2>3. CASE ~Blank(line) /\ ~Decodes(line)
    BY <2>3 DEF Take
  <2> QED BY <2>1, <2>2, <2>3
<1>3. Taking!folded(lines) \in T
  <2> HIDE DEF T
  <2> QED BY <1>1, <1>2, Taking!FoldedIn
<1> QED BY <1>3 DEF Read

LEMMA ReadRest ==
  ASSUME NEW U, NEW head \in Seq(Seq(U)), NEW rest \in Seq(Seq(U))
  PROVE  Read(head \o rest) = [records |-> Read(head).records \o Read(rest).records,
                               rejected |-> Read(head).rejected + Read(rest).rejected]
<1>1. PICK R : R = {u.rec : u \in U}
  OBVIOUS
<1>2. PICK recs \in Seq(R), n \in Nat : Read(head) = [records |-> recs, rejected |-> n]
  BY <1>1, ReadType
<1> PICK L : L = Seq(U)
  OBVIOUS
<1> DEFINE Good == {t \in Seq(L) :
                      Read(head \o t) = [records |-> recs \o Read(t).records,
                                         rejected |-> n + Read(t).rejected]}
<1>3. <<>> \in Good
  <2>1. head \o <<>> = head /\ recs \o <<>> = recs /\ n + 0 = n /\ <<>> \in Seq(L)
    BY ConcatEmptySeq
  <2>2. Read(<<>>).records = <<>> /\ Read(<<>>).rejected = 0
    BY ReadEmpty
  <2> QED BY <1>2, <2>1, <2>2
<1>4. ASSUME NEW t \in Seq(L), NEW line \in L, t \in Good
      PROVE  Append(t, line) \in Good
  <2>1. PICK more \in Seq(R), m \in Nat : Read(t) = [records |-> more, rejected |-> m]
    BY <1>1, ReadType
  <2>2. head \o Append(t, line) = Append(head \o t, line) /\ head \o t \in Seq(L)
    BY AppendToConcat, ConcatProperties
  <2>3. Read(head \o Append(t, line))
          = Take([records |-> recs \o more, rejected |-> n + m], line)
    <3>1. PICK both \in Seq(L) : both = head \o t
      BY <2>2
    <3>2. Read(Append(both, line)) = Take(Read(both), line)
      BY ReadLine
    <3>3. Read(both) = [records |-> recs \o more, rejected |-> n + m]
      BY <1>4, <2>1, <3>1
    <3> QED BY <2>2, <3>1, <3>2, <3>3
  <2>4. Read(Append(t, line)) = Take([records |-> more, rejected |-> m], line)
    BY <2>1, ReadLine
  <2>5. Append(t, line) \in Seq(L)
    BY AppendProperties
  <2> SUFFICES Read(head \o Append(t, line))
                 = [records |-> recs \o Read(Append(t, line)).records,
                    rejected |-> n + Read(Append(t, line)).rejected]
    BY <2>5
  <2>6. CASE Blank(line)
    BY <2>3, <2>4, <2>6 DEF Take
  <2>7. CASE ~Blank(line) /\ Decodes(line)
    <3>1. PICK r \in R : r = line[1].rec
      <4>1. 1 \in 1 .. Len(line)
        BY <2>7 DEF Decodes
      <4>2. line[1] \in U
        BY <4>1, ElementOfSeq
      <4> QED BY <1>1, <4>2
    <3>2. recs \o Append(more, r) = Append(recs \o more, r)
      BY AppendToConcat
    <3>3. Read(Append(t, line)) = [records |-> Append(more, r), rejected |-> m]
      BY <2>4, <2>7, <3>1 DEF Take
    <3>4. Read(head \o Append(t, line)) = [records |-> Append(recs \o more, r), rejected |-> n + m]
      BY <2>3, <2>7, <3>1 DEF Take
    <3>5. /\ Read(Append(t, line)).records = Append(more, r)
          /\ Read(Append(t, line)).rejected = m
      BY <3>3
    <3> QED BY <3>2, <3>4, <3>5
  <2>8. CASE ~Blank(line) /\ ~Decodes(line)
    <3>1. Read(Append(t, line)) = [records |-> more, rejected |-> m + 1]
      BY <2>4, <2>8 DEF Take
    <3>2. Read(head \o Append(t, line)) = [records |-> recs \o more, rejected |-> n + m + 1]
      BY <2>3, <2>8 DEF Take
    <3>3. n + (m + 1) = n + m + 1
      OBVIOUS
    <3>4. Read(Append(t, line)).records = more /\ Read(Append(t, line)).rejected = m + 1
      BY <3>1
    <3> QED BY <3>2, <3>3, <3>4
  <2> QED BY <2>6, <2>7, <2>8
<1>5. rest \in Good
  <2> HIDE DEF Good
  <2> QED BY <1>3, <1>4, Splitting!SeqInduction
<1> QED BY <1>2, <1>5

(* One line on its own.                                                     *)
LEMMA ReadOne ==
  ASSUME NEW line
  PROVE  Read(<<line>>) = Take([records |-> <<>>, rejected |-> 0], line)
<1>1. Append(<<>>, line) = <<line>> /\ <<>> \in Seq({line})
  OBVIOUS
<1>2. Read(Append(<<>>, line)) = Take(Read(<<>>), line)
  BY <1>1, ReadLine
<1> QED BY <1>1, <1>2, ReadEmpty

LEMMA ReadNothing == Read(<< <<>> >>) = [records |-> <<>>, rejected |-> 0]
BY ReadOne DEF Take, Blank

(* What is UTF-8 is as long decoded as it was.                              *)
LEMMA WellEncodedLength ==
  ASSUME NEW U, NEW text \in Seq(U), WellEncoded(text)
  PROVE  byteLength(text) = Len(text)
<1>1. {i \in DOMAIN text : Stray(text, i)} = {}
  BY DEF WellEncoded
<1>2. Cardinality({i \in DOMAIN text : Stray(text, i)}) = 0
  BY <1>1, FS_EmptySet
<1> QED BY <1>2 DEF byteLength

LEMMA LengthType ==
  ASSUME NEW U, NEW text \in Seq(U)
  PROVE  byteLength(text) \in Nat
<1>1. IsFiniteSet(DOMAIN text)
  <2>1. DOMAIN text = 1 .. Len(text) /\ 1 \in Int /\ Len(text) \in Int
    OBVIOUS
  <2> QED BY <2>1, FS_Interval
<1>2. {i \in DOMAIN text : Stray(text, i)} \subseteq DOMAIN text
  OBVIOUS
<1>3. Cardinality({i \in DOMAIN text : Stray(text, i)}) \in Nat
  BY <1>1, <1>2, FS_Subset, FS_CardinalityType
<1> QED BY <1>3 DEF byteLength

LEMMA NoBytes == byteLength(<<>>) = 0
<1>1. <<>> \in Seq({}) /\ DOMAIN <<>> = {} /\ Len(<<>>) = 0
  BY EmptySeq
<1>2. WellEncoded(<<>>)
  BY <1>1 DEF WellEncoded
<1> QED BY <1>1, <1>2, WellEncodedLength

Whole(text) == ReadFrom(text, 0, TRUE)

(* A whole text read at its end: the lines, and the fragment after them     *)
(* unless it is over the limit.                                             *)
LEMMA WholeRead ==
  ASSUME NEW U, NEW text \in Seq(U)
  PROVE  /\ Whole(text).records \in Seq({u.rec : u \in U})
         /\ Whole(text).rejected \in Nat
         /\ Trailing(text) = <<>> =>
              /\ Whole(text).records = Read(Segments(text)).records
              /\ Whole(text).rejected = Read(Segments(text)).rejected
<1>1. SubSeq(text, 0 + 1, Len(text)) = text
  <2>1. 0 + 1 = 1
    OBVIOUS
  <2> QED BY <2>1, SubSeqFull
<1>3. PICK lines \in Seq(Seq(U)), tail \in Seq(U) : lines = Segments(text) /\ tail = Trailing(text)
  BY SplitType
<1>4. PICK over \in Nat : over = IF byteLength(tail) > MaxLine THEN 1 ELSE 0
  OBVIOUS
<1>5. PICK last : last = IF byteLength(tail) > MaxLine THEN <<>> ELSE tail
  OBVIOUS
<1>6. /\ Whole(text).records = Read(lines).records \o Read(<<last>>).records
      /\ Whole(text).rejected
           = (Read(lines).rejected + over) + Read(<<last>>).rejected
  BY <1>1, <1>3, <1>4, <1>5 DEF Whole, ReadFrom, push, finish
<1>7. PICK R : R = {u.rec : u \in U}
  OBVIOUS
<1>8. last \in Seq(U) /\ <<last>> \in Seq(Seq(U))
  BY <1>5
<1>9. PICK a \in Seq(R), i \in Nat : Read(lines) = [records |-> a, rejected |-> i]
  BY <1>7, ReadType
<1>10. PICK b \in Seq(R), j \in Nat : Read(<<last>>) = [records |-> b, rejected |-> j]
  BY <1>7, <1>8, ReadType
<1>11. /\ Whole(text).records = a \o b
       /\ Whole(text).rejected = i + over + j
  <2>1. Read(lines).records = a /\ Read(lines).rejected = i
    BY <1>9
  <2>2. Read(<<last>>).records = b /\ Read(<<last>>).rejected = j
    BY <1>10
  <2> QED BY <1>6, <2>1, <2>2
<1>12. a \o b \in Seq(R) /\ i + over + j \in Nat
  BY ConcatProperties
<1>13. ASSUME tail = <<>> PROVE a \o b = a /\ i + over + j = i
  <2>1. over = 0 /\ last = <<>>
    <3>1. byteLength(tail) = 0 /\ MaxLine \in Nat
      BY <1>13, NoBytes, MaxLineAssumption
    <3>2. ~ (byteLength(tail) > MaxLine)
      BY <3>1
    <3> QED BY <1>4, <1>5, <1>13, <3>2
  <2>2. b = <<>> /\ j = 0
    BY <1>10, <2>1, ReadNothing
  <2> QED BY <2>1, <2>2, ConcatEmptySeq
<1> QED BY <1>3, <1>7, <1>9, <1>11, <1>12, <1>13

LEMMA PairIs ==
  ASSUME NEW S, NEW a \in S, NEW b \in S
  PROVE  Append(Append(<<>>, a), b) = <<a, b>>
<1>1. Append(<<>>, a) = <<>> \o <<a>> /\ <<a>> \in Seq(S) /\ <<>> \o <<a>> = <<a>>
  BY EmptySeq, AppendIsConcat, ConcatEmptySeq
<1>2. PICK one \in Seq(S) : one = <<a>>
  BY <1>1
<1>3. Len(one) = 1 /\ one[1] = a
  BY <1>2
<1>4. PICK two \in Seq(S) : two = Append(one, b)
  BY AppendProperties
<1>5. PICK n \in Nat : n = Len(one)
  OBVIOUS
<1>6. Len(two) = n + 1 /\ two[n + 1] = b /\ \A i \in 1 .. n : two[i] = one[i]
  BY <1>4, <1>5, AppendProperties
<1>7. n = 1
  BY <1>3, <1>5
<1>8. Len(two) = 2 /\ two[2] = b /\ two[1] = a
  BY <1>3, <1>6, <1>7
<1>9. <<a, b>> \in Seq(S)
  OBVIOUS
<1>10. Len(<<a, b>>) = 2 
  OBVIOUS
<1>11. <<a, b>>[1] = a /\ <<a, b>>[2] = b
  OBVIOUS
<1>12. PICK pair \in Seq(S) : pair = <<a, b>>
  BY <1>9
<1>13. Len(pair) = 2 /\ pair[1] = a /\ pair[2] = b
  BY <1>10, <1>11, <1>12
<1>14. \A i \in 1 .. 2 : two[i] = pair[i]
  BY <1>8, <1>13
<1>15. two = pair
  BY <1>8, <1>13, <1>14, SeqEqual
<1> QED BY <1>1, <1>2, <1>4, <1>12, <1>15

(* A result that is appended whole to a text: the text was at a line's end, *)
(* or the line it was in takes the result down with it.                     *)
LEMMA ClosedRead ==
  ASSUME NEW U, NEW text \in Seq(U), NEW status,
         NEW closed, closed = text \o Terminated(AgentResult(status))
  PROVE  /\ \E V : closed \in Seq(V)
         /\ Whole(text).records \in Seq({u.rec : u \in U})
         /\ ~ (Whole(closed).rejected > 0) =>
              Whole(closed).records = Append(Whole(text).records, AgentResult(status))
<1>1. PICK r : r = AgentResult(status)
  OBVIOUS
<1>2. PICK V : V = U \cup {Unit(r, 1), Unit(r, 2), Newline}
  OBVIOUS
<1>3. text \in Seq(V)
  BY <1>2, SeqMonotonic
<1>4. PICK u1 \in V, u2 \in V : u1 = Unit(r, 1) /\ u2 = Unit(r, 2)
  BY <1>2
<1>5. u1 # Newline /\ u2 # Newline /\ Newline \in V
  BY <1>2, <1>4 DEF Newline, Unit
<1>6. closed = Append(Append(Append(text, u1), u2), Newline)
  <2>1. PICK empty \in Seq(V) : empty = <<>>
    BY EmptySeq
  <2>2. PICK a \in Seq(V) : a = Append(empty, u1)
    BY AppendProperties
  <2>3. PICK b \in Seq(V) : b = Append(a, u2)
    BY AppendProperties
  <2>4. Terminated(r) = Append(b, Newline)
    <3>1. b = <<u1, u2>>
      BY <2>1, <2>2, <2>3, PairIs
    <3> QED BY <1>4, <3>1 DEF Terminated, Line
  <2>5. text \o Append(b, Newline) = Append(text \o b, Newline)
    BY <1>3, <1>5, AppendToConcat
  <2>6. text \o b = Append(text \o a, u2)
    BY <1>3, <2>3, AppendToConcat
  <2>7. text \o a = Append(text \o empty, u1)
    BY <1>3, <2>2, AppendToConcat
  <2>8. text \o empty = text
    BY <1>3, <2>1, ConcatEmptySeq
  <2> QED BY <1>1, <2>4, <2>5, <2>6, <2>7, <2>8
<1>7. PICK lines \in Seq(Seq(V)), tail \in Seq(V) : lines = Segments(text) /\ tail = Trailing(text)
  BY <1>3, SplitType
<1>8. PICK seg \in Seq(V) : seg = Append(Append(tail, u1), u2)
  BY AppendProperties
<1>9. Segments(closed) = Append(lines, seg) /\ Trailing(closed) = <<>>
  <2>1. PICK t1 \in Seq(V) : t1 = Append(text, u1)
    BY <1>3, AppendProperties
  <2>2. PICK t2 \in Seq(V) : t2 = Append(t1, u2)
    BY AppendProperties
  <2>3. Segments(t1) = lines /\ Trailing(t1) = Append(tail, u1)
    BY <1>3, <1>5, <1>7, <2>1, SplitUnit
  <2>4. Segments(t2) = lines /\ Trailing(t2) = seg
    BY <1>5, <1>8, <2>2, <2>3, SplitUnit
  <2>5. Segments(Append(t2, Newline)) = Append(lines, seg) /\ Trailing(Append(t2, Newline)) = <<>>
    BY <1>5, <2>4, SplitUnit
  <2> QED BY <1>6, <2>1, <2>2, <2>5
<1>10. closed \in Seq(V)
  BY <1>3, <1>5, <1>6, AppendProperties
<1> SUFFICES ASSUME ~ (Whole(closed).rejected > 0)
             PROVE  Whole(closed).records = Append(Whole(text).records, AgentResult(status))
  BY <1>10, WholeRead
<1>11. PICK R : R = {u.rec : u \in V}
  OBVIOUS
<1>12. PICK recs \in Seq(R), n \in Nat : Read(lines) = [records |-> recs, rejected |-> n]
  BY <1>11, ReadType
<1>13. Read(Append(lines, seg)) = Take([records |-> recs, rejected |-> n], seg)
  BY <1>12, ReadLine
<1>14. /\ Whole(closed).records = Take([records |-> recs, rejected |-> n], seg).records
       /\ ~ (Take([records |-> recs, rejected |-> n], seg).rejected > 0)
  BY <1>9, <1>10, <1>13, WholeRead
<1>15. /\ Len(seg) = Len(tail) + 2 /\ Len(tail) \in Nat
  BY <1>8, AppendProperties
<1>16. ~Blank(seg)
  BY <1>15 DEF Blank
<1>17. Decodes(seg) /\ n = 0
  BY <1>14, <1>16 DEF Take
<1>18. tail = <<>>
  <2>1. PICK k \in Nat : k = Len(tail)
    BY <1>15
  <2>2. k + 2 = 2
    BY <1>15, <1>17, <2>1 DEF Decodes
  <2> QED BY <2>1, <2>2, EmptySeq
<1>19. seg[1].rec = r
  <2>1. seg[1] = u1
    BY <1>8, <1>18
  <2> QED BY <1>4, <2>1 DEF Unit
<1>20. Whole(closed).records = Append(recs, r)
  BY <1>14, <1>16, <1>17, <1>19 DEF Take
<1>21. Whole(text).records = recs
  <2>1. Trailing(text) = <<>> /\ Segments(text) = lines
    BY <1>7, <1>18
  <2>2. Whole(text).records = Read(lines).records
    BY <1>3, <2>1, WholeRead
  <2> QED BY <1>12, <2>2
<1> QED BY <1>1, <1>20, <1>21

-----------------------------------------------------------------------------
(* readEvents keeps the results apart, and counts what it cannot read.      *)

LEMMA SortType ==
  ASSUME NEW R, NEW recs \in Seq(R)
  PROVE  Sorting!folded(recs) \in [results : Seq(R), others : Seq(R)]
<1> DEFINE T == [results : Seq(R), others : Seq(R)]
<1>1. [results |-> <<>>, others |-> <<>>] \in T
  OBVIOUS
<1>2. ASSUME NEW acc \in T, NEW r \in R PROVE Sort(acc, r) \in T
  BY AppendProperties DEF Sort
<1> HIDE DEF T
<1>3. Sorting!folded(recs) \in T
  BY <1>1, <1>2, Sorting!FoldedIn
<1> QED BY <1>3 DEF T

LEMMA SortResult ==
  ASSUME NEW R, NEW recs \in Seq(R), NEW r \in R, IsResult(r)
  PROVE  Sorting!folded(Append(recs, r)).results = Append(Sorting!folded(recs).results, r)
BY Sorting!FoldedAppend DEF Sort

LEMMA CodexCounts ==
  ASSUME NEW R, NEW recs \in Seq(R)
  PROVE  CodexConsume(recs).rejected \in Nat
<1> DEFINE Good == {s \in Seq(R) : Codex!folded(s).rejected \in Nat}
<1>1. <<>> \in Good
  BY Codex!FoldedEmpty, EmptySeq DEF Nothing, Translated
<1>2. ASSUME NEW s \in Seq(R), NEW r \in R, s \in Good PROVE Append(s, r) \in Good
  <2>1. CodexTranslate(r).rejected \in Nat
    BY DEF CodexTranslate, CodexItem, Rejected, Ignored, Translated
  <2>2. PICK b, d : b = Codex!folded(s) /\ d = CodexTranslate(r)
    OBVIOUS
  <2>3. Codex!folded(Append(s, r)) = CodexStep(b, r)
    BY <2>2, Codex!FoldedAppend
  <2>4. Codex!folded(Append(s, r)).rejected = b.rejected + d.rejected
    BY <2>2, <2>3 DEF CodexStep, Combine
  <2> QED BY <1>2, <2>1, <2>2, <2>4, AppendProperties
<1> HIDE DEF Good
<1>3. recs \in Good
  BY <1>1, <1>2, Codex!SeqInduction
<1> QED BY <1>3 DEF Good, CodexConsume

LEMMA CursorCounts ==
  ASSUME NEW R, NEW recs \in Seq(R)
  PROVE  CursorConsume(recs).rejected \in Nat
<1> DEFINE Good == {s \in Seq(R) : Cursor!folded(s).rejected \in Nat}
<1>1. <<>> \in Good
  BY Cursor!FoldedEmpty, EmptySeq DEF Nothing, Translated
<1>2. ASSUME NEW s \in Seq(R), NEW r \in R, s \in Good PROVE Append(s, r) \in Good
  <2>1. CursorTranslate(r).rejected \in Nat
    BY DEF CursorTranslate, Rejected, Ignored, Translated
  <2>2. PICK b, d : b = Cursor!folded(s) /\ d = CursorTranslate(r)
    OBVIOUS
  <2>3. Cursor!folded(Append(s, r)) = CursorStep(b, r)
    BY <2>2, Cursor!FoldedAppend
  <2>4. Cursor!folded(Append(s, r)).rejected = b.rejected + d.rejected
    BY <2>2, <2>3 DEF CursorStep, Combine
  <2> QED BY <1>2, <2>1, <2>2, <2>4, AppendProperties
<1> HIDE DEF Good
<1>3. recs \in Good
  BY <1>1, <1>2, Cursor!SeqInduction
<1> QED BY <1>3 DEF Good, CursorConsume

LEMMA AntigravityCounts ==
  ASSUME NEW R, NEW recs \in Seq(R)
  PROVE  AntigravityConsume(recs).rejected \in Nat
<1> DEFINE Good == {s \in Seq(R) : Antigravity!folded(s).rejected \in Nat}
<1>1. <<>> \in Good
  BY Antigravity!FoldedEmpty, EmptySeq DEF Nothing, Translated
<1>2. ASSUME NEW s \in Seq(R), NEW r \in R, s \in Good PROVE Append(s, r) \in Good
  <2>1. AntigravityTranslate(r).rejected \in Nat
    BY DEF AntigravityTranslate, AntigravityUpdate, AntigravityTool, Rejected, Ignored, Translated
  <2>2. PICK b, d : b = Antigravity!folded(s) /\ d = AntigravityTranslate(r)
    OBVIOUS
  <2>3. Antigravity!folded(Append(s, r)) = AntigravityStep(b, r)
    BY <2>2, Antigravity!FoldedAppend
  <2>4. Antigravity!folded(Append(s, r)).rejected = b.rejected + d.rejected
    BY <2>2, <2>3 DEF AntigravityStep, Combine
  <2> QED BY <1>2, <2>1, <2>2, <2>4, AppendProperties
<1> HIDE DEF Good
<1>3. recs \in Good
  BY <1>1, <1>2, Antigravity!SeqInduction
<1> QED BY <1>3 DEF Good, AntigravityConsume

LEMMA ClaudeCounts ==
  ASSUME NEW R, NEW recs \in Seq(R)
  PROVE  ClaudeConsume(recs).rejected \in Nat
<1> DEFINE Good == {s \in Seq(R) : Claude!folded(s).batch.rejected \in Nat}
<1>1. <<>> \in Good
  BY Claude!FoldedEmpty, EmptySeq DEF Nothing, Translated
<1>2. ASSUME NEW s \in Seq(R), NEW r \in R, s \in Good PROVE Append(s, r) \in Good
  <2>1. PICK pending, b, d : /\ pending = Claude!folded(s).pending
                             /\ b = Claude!folded(s).batch
                             /\ d = ClaudeTranslate(r, pending)
    OBVIOUS
  <2>2. d.rejected \in Nat
    <3>1. ClaudeTranslate(r, pending).rejected \in Nat
      BY DEF ClaudeTranslate, ClaudeBlock, Rejected, Ignored, Translated
    <3> QED BY <2>1, <3>1
  <2>3. Claude!folded(Append(s, r)) = ClaudeStep(Claude!folded(s), r)
    BY Claude!FoldedAppend
  <2>4. Claude!folded(Append(s, r)).batch = Combine(b, d)
    BY <2>1, <2>3 DEF ClaudeStep
  <2>5. Combine(b, d).rejected = b.rejected + d.rejected
    BY DEF Combine
  <2> QED BY <1>2, <2>1, <2>2, <2>4, <2>5, AppendProperties
<1> HIDE DEF Good
<1>3. recs \in Good
  BY <1>1, <1>2, Claude!SeqInduction
<1> QED BY <1>3 DEF Good, ClaudeConsume

LEMMA FakeCounts ==
  ASSUME NEW R, NEW recs \in Seq(R)
  PROVE  validateRecords(recs).rejected \in Nat
<1> PICK E : E = Seq(R)
  OBVIOUS
<1> DEFINE T == [events : E, rejected : Nat, ignored : Nat]
<1>1. Nothing \in T
  BY EmptySeq DEF Nothing, Translated
<1>2. ASSUME NEW acc \in T, NEW r \in R PROVE Validate(acc, r) \in T
  <2>1. Append(acc.events, r) \in E /\ acc.rejected + 1 \in Nat
    BY <1>1, AppendProperties
  <2> QED BY <2>1 DEF Validate
<1> HIDE DEF T
<1>3. Validating!folded(recs) \in T
  BY <1>1, <1>2, Validating!FoldedIn
<1> QED BY <1>3 DEF T, validateRecords

(* A success was claimed: every line was readable, and there is one result. *)
LEMMA JudgedSuccess ==
  ASSUME kind \in WorkerKinds, NEW V, NEW text \in Seq(V),
         Judge(readSelectedWorkerEvents(kind, text, 0, TRUE)) = "claims_success"
  PROVE  /\ ~ (Whole(text).rejected > 0)
         /\ Len(Sorting!folded(Whole(text).records).results) = 1
         /\ Sorting!folded(Whole(text).records).results[1] = AgentResult("succeeded")
<1>1. PICK R : R = {u.rec : u \in V}
  OBVIOUS
<1>2. PICK recs \in Seq(R), n \in Nat : recs = Whole(text).records /\ n = Whole(text).rejected
  BY <1>1, WholeRead
<1>3. PICK results \in Seq(R), others \in Seq(R) :
        results = Sorting!folded(recs).results /\ others = Sorting!folded(recs).others
  BY SortType
<1>4. \E m \in Nat : /\ readSelectedWorkerEvents(kind, text, 0, TRUE).rejected = n + m
                     /\ readSelectedWorkerEvents(kind, text, 0, TRUE).results = results
  <2>1. ReadFrom(text, 0, TRUE).records = recs /\ ReadFrom(text, 0, TRUE).rejected = n
    BY <1>2 DEF Whole
  <2>2. CASE kind = "codex"
    BY <1>3, <2>1, <2>2, CodexCounts DEF readSelectedWorkerEvents, readCodexEvents, ReadProvider
  <2>3. CASE kind = "claude"
    BY <1>3, <2>1, <2>3, ClaudeCounts DEF readSelectedWorkerEvents, readClaudeEvents, ReadProvider
  <2>4. CASE kind = "cursor"
    BY <1>3, <2>1, <2>4, CursorCounts DEF readSelectedWorkerEvents, readCursorEvents, ReadProvider
  <2>5. CASE kind = "antigravity"
    BY <1>3, <2>1, <2>5, AntigravityCounts
       DEF readSelectedWorkerEvents, readAntigravityEvents, ReadProvider
  <2>6. CASE kind = "fake"
    BY <1>3, <2>1, <2>6, FakeCounts DEF readSelectedWorkerEvents, readWorkerEvents, ReadProvider
  <2> QED BY <2>2, <2>3, <2>4, <2>5, <2>6 DEF WorkerKinds
<1>5. PICK batch : batch = readSelectedWorkerEvents(kind, text, 0, TRUE)
  OBVIOUS
<1>6. /\ ~ (batch.rejected > 0)
      /\ ~ (Len(batch.results) = 0) /\ ~ (Len(batch.results) > 1)
      /\ batch.results[1] = AgentResult("succeeded")
  <2>1. Judge(batch) = "claims_success"
    BY <1>5
  <2> QED BY <2>1 DEF Judge
<1>7. PICK k \in Nat : k = Len(results)
  OBVIOUS
<1>8. k # 0 /\ ~ (k > 1) => k = 1
  OBVIOUS
<1>9. ~ (n > 0)
  <2>1. PICK m \in Nat : batch.rejected = n + m
    BY <1>4, <1>5
  <2>2. ~ (n + m > 0)
    BY <1>6, <2>1
  <2> QED BY <2>2
<1> QED BY <1>2, <1>3, <1>4, <1>5, <1>6, <1>7, <1>8, <1>9

-----------------------------------------------------------------------------
(* What a verdict was passed on: the transcript as it was when the process  *)
(* had closed, with what the adapter appended to it.                        *)

AtRest ==
  /\ settled => leader # "running"
  /\ stage \in {"completed", "over"} => settled

Closed ==
  stage = "completed" \/ (stage = "over" /\ outcome # "unread") =>
    \E old \in Seq(Written) :
      /\ file["stdout"] = old \o Closing(~misread /\ detectToolError(old))
      /\ ~Dropped("stdout") => old = said["stdout"]

Judged ==
  outcome = "claims_success" =>
    /\ stage = "over" /\ ExitedZero
    /\ Judge(readSelectedWorkerEvents(kind, file["stdout"], 0, TRUE)) = "claims_success"

LEMMA NextAtRest ==
  ASSUME AtRest, [Next]_vars
  PROVE  AtRest'
<1> USE DEF AtRest
<1>1. CASE Supervise
  <2>1. stage = "supervised" /\ stage' = stage
    BY <1>1 DEF Supervise, Alive, ending
  <2>2. CASE Close
    BY <2>1, <2>2 DEF Close, PipesOpen, group
  <2>3. CASE Speak \/ HardTimeout \/ Escalate
    BY <2>1, <2>3 DEF Speak, Say, HardTimeout, Escalate, Terminate, control, group
  <2>4. ASSUME NEW s \in Streams, Pump(s) \/ Discard(s) \/ EndWrite(s) \/ WriteFails(s)
        PROVE  UNCHANGED <<leader, settled>>
    BY <2>4 DEF Pump, Discard, EndWrite, WriteFails, BeginWrite, onOutputLimit, onOutputError,
                Terminate, control, group
  <2> QED BY <1>1, <2>1, <2>2, <2>3, <2>4 DEF Supervise, Serve
<1>2. CASE GroupEnds
  BY <1>2 DEF GroupEnds, LeaderExits, HelperEnds, ending, control
<1>3. CASE AskCancel
  BY <1>3 DEF AskCancel, Cancel, Terminate, ending, group
<1>4. CASE Complete \/ CompleteFails
  BY <1>4 DEF Complete, CompleteFails, Flushed, supervisor, group, control
<1>7. CASE Finalize \/ FinalizeFails
  BY <1>7 DEF Finalize, FinalizeFails, supervisor, group, control
<1>8. CASE Crash
  BY <1>8 DEF Crash
<1>5. CASE Recover
  BY <1>5 DEF Recover, Recycle, StopSurvivor, Probe, PollSeesItGone, KillSurvivor, ending,
              supervisor, group, control
<1>6. CASE UNCHANGED vars
  BY <1>6 DEF vars, supervisor, group, control, ending
<1> QED BY <1>1, <1>2, <1>3, <1>4, <1>5, <1>6, <1>7, <1>8 DEF Next

LEMMA VerdictStays ==
  ASSUME Closed, Judged,
         UNCHANGED <<stage, outcome, misread, kind, leader, reason, file, said, limited, broken>>
  PROVE  Closed' /\ Judged'
BY DEF Closed, Judged, Closing, ExitedZero, Dropped

LEMMA NextJudged ==
  ASSUME TypeOK, Ordered, AtRest, Closed, Judged, [Next]_vars
  PROVE  Closed' /\ Judged'
<1>1. CASE Supervise \/ AskCancel
  <2>1. stage = "supervised" /\ UNCHANGED <<stage, outcome>>
    BY <1>1 DEF Supervise, AskCancel, Alive, ending
  <2> QED BY <2>1 DEF Closed, Judged
<1>2. CASE GroupEnds
  <2>1. UNCHANGED <<stage, outcome, misread, kind, reason, file, said, limited, broken>>
    BY <1>2 DEF GroupEnds, LeaderExits, HelperEnds, ending, sinks, control
  <2>2. CASE stage \in {"completed", "over"}
    <3>1. leader' = leader
      BY <1>2, <2>2 DEF GroupEnds, LeaderExits, HelperEnds, AtRest
    <3> QED BY <2>1, <3>1, VerdictStays
  <2>3. CASE stage \notin {"completed", "over"}
    BY <2>1, <2>3 DEF Closed, Judged
  <2> QED BY <2>2, <2>3
<1>3. CASE Complete
  <2>1. stage = "supervised" /\ stage' = "completed" /\ outcome' = outcome
    BY <1>3 DEF Complete
  <2>2. UNCHANGED <<said, limited, broken, kind, leader, reason>> /\ Flushed
    BY <1>3 DEF Complete, group, control
  <2>3. PICK old \in Seq(Written) : old = file["stdout"]
    BY <2>1 DEF Ordered, Streaming, TextTypeOK, Streams
  <2>4. PICK readable \in BOOLEAN :
          /\ misread' = ~readable
          /\ file' = [file EXCEPT !["stdout"] = @ \o Closing(readable /\ detectToolError(@))]
    BY <1>3 DEF Complete
  <2>5. file'["stdout"] = old \o Closing(readable /\ detectToolError(old))
    BY <2>1, <2>3, <2>4 DEF Ordered, Streaming, TextTypeOK, Streams
  <2>6. Closing(~misread /\ detectToolError(old))' = Closing(readable /\ detectToolError(old))
    <3>1. (~misread)' <=> readable
      BY <2>4
    <3>2. ASSUME NEW a \in BOOLEAN, NEW b \in BOOLEAN, a <=> b PROVE Closing(a)' = Closing(b)
      BY <2>2, <3>2 DEF Closing, ExitedZero
    <3> QED BY <2>2, <3>1 DEF Closing, ExitedZero
  <2>7. ~Dropped("stdout")' => old = said'["stdout"]
    <3>1. Streaming /\ "stdout" \in Streams
      BY <2>1 DEF Ordered, Streams
    <3>2. ~Dropped("stdout") => file["stdout"] = said["stdout"]
      BY <2>2, <3>1, FlushedIsWhole
    <3>3. Dropped("stdout")' <=> Dropped("stdout")
      BY <2>2 DEF Dropped
    <3> QED BY <2>2, <2>3, <3>2, <3>3
  <2>8. Closed'
    BY <2>3, <2>5, <2>6, <2>7 DEF Closed
  <2> QED BY <2>1, <2>8 DEF Judged
<1>4. CASE CompleteFails \/ Crash
  BY <1>4 DEF CompleteFails, Crash, Closed, Judged
<1>8. CASE FinalizeFails
  BY <1>8 DEF FinalizeFails, Closed, Judged
<1>5. CASE Finalize
  <2>1. /\ stage = "completed" /\ stage' = "over" /\ outcome' \in Verdicts
        /\ UNCHANGED <<misread, kind, leader, reason, file, said, limited, broken>>
    BY <1>5 DEF Finalize, supervisor, group, sinks, control
  <2>2. Closed'
    BY <2>1 DEF Closed, Closing, ExitedZero, Dropped
  <2>3. ASSUME outcome' = "claims_success"
        PROVE  ExitedZero /\ Judge(readSelectedWorkerEvents(kind, file["stdout"], 0, TRUE))
                               = "claims_success"
    <3>1. reason # "claims_success"
      BY DEF TypeOK, SupervisorTypeOK, Reasons, Forced
    <3> QED BY <2>1, <2>3, <3>1 DEF Verdicts, ExitedZero
  <2>4. Judged'
    BY <2>1, <2>3 DEF Judged, ExitedZero
  <2> QED BY <2>2, <2>4
<1>6. CASE Recover
  <2>1. stage = "crashed" /\ UNCHANGED <<stage, outcome>>
    BY <1>6 DEF Recover, ending
  <2> QED BY <2>1 DEF Closed, Judged
<1>7. CASE UNCHANGED vars
  BY <1>7, VerdictStays DEF vars, supervisor, group, sinks, control, ending
<1> QED BY <1>1, <1>2, <1>3, <1>4, <1>5, <1>6, <1>7, <1>8 DEF Next

LEMMA Witnesses == Spec => [](TypeOK /\ Ordered /\ AtRest /\ Closed /\ Judged)
<1>1. Init => AtRest /\ Closed /\ Judged
  BY DEF Init, SupervisorInit, AtRest, Closed, Judged
<1> QED BY <1>1, InitOrdered, NextOrdered, NextAtRest, NextJudged, TypeCorrect, PTL DEF Spec

(* What the adapter appends to a worker that exited with code 0.            *)
LEMMA ClosingZero ==
  ASSUME kind \in Kinds, ExitedZero, NEW saw \in BOOLEAN
  PROVE  IF kind = "fake" THEN Closing(saw) = <<>>
         ELSE Closing(saw) = Terminated(AgentResult(
                IF kind = "antigravity" /\ saw THEN "blocked" ELSE "succeeded"))
<1>1. CASE kind \in {"codex", "claude", "cursor"}
  BY <1>1 DEF Closing, startSelectedWorker, startCodexWorker, startClaudeWorker,
              startCursorWorker, ClosesSuccessOnly
<1>2. CASE kind = "antigravity"
  BY <1>2 DEF Closing, startSelectedWorker, startAntigravityWorker
<1>3. CASE kind = "fake"
  BY <1>3 DEF Closing, startSelectedWorker, startWorker
<1> QED BY <1>1, <1>2, <1>3, KindsAssumption DEF WorkerKinds

(* A success that was claimed behind what the adapter appended: it is the   *)
(* adapter's, and the only one.                                             *)
LEMMA AppendedResult ==
  ASSUME kind \in Kinds, NEW old \in Seq(Written), NEW status,
         NEW closed, closed = old \o Terminated(AgentResult(status)),
         Judge(readSelectedWorkerEvents(kind, closed, 0, TRUE)) = "claims_success"
  PROVE  /\ Whole(closed).records = Append(Whole(old).records, AgentResult(status))
         /\ \E V : Whole(old).records \in Seq(V)
         /\ Len(Sorting!folded(Whole(old).records).results) = 0
         /\ AgentResult(status) = AgentResult("succeeded")
<1>1. kind \in WorkerKinds
  BY KindsAssumption
<1>2. PICK V : closed \in Seq(V)
  BY ClosedRead
<1>3. /\ ~ (Whole(closed).rejected > 0)
      /\ Len(Sorting!folded(Whole(closed).records).results) = 1
      /\ Sorting!folded(Whole(closed).records).results[1] = AgentResult("succeeded")
  BY <1>1, <1>2, JudgedSuccess
<1>4. PICK r : r = AgentResult(status)
  OBVIOUS
<1>5. PICK W : W = {u.rec : u \in Written} \cup {r}
  OBVIOUS
<1>6. PICK recs \in Seq({u.rec : u \in Written}) :
        recs = Whole(old).records /\ Whole(closed).records = Append(recs, r)
  <2>1. /\ Whole(old).records \in Seq({u.rec : u \in Written})
        /\ ~ (Whole(closed).rejected > 0) =>
             Whole(closed).records = Append(Whole(old).records, AgentResult(status))
    BY ClosedRead
  <2> QED BY <1>3, <1>4, <2>1
<1>7. recs \in Seq(W) /\ r \in W
  BY <1>5, SeqMonotonic
<1>8. PICK results \in Seq(W) : results = Sorting!folded(recs).results
  BY <1>7, SortType
<1>9. Sorting!folded(Append(recs, r)).results = Append(results, r)
  <2>1. IsResult(r)
    BY <1>4 DEF IsResult, AgentResult
  <2> QED BY <1>7, <1>8, <2>1, SortResult
<1>10. PICK n \in Nat : n = Len(results)
  OBVIOUS
<1>11. Len(Append(results, r)) = n + 1 /\ Append(results, r)[n + 1] = r
  BY <1>7, <1>10, AppendProperties
<1>12. n + 1 = 1
  BY <1>3, <1>6, <1>9, <1>11
<1>13. n = 0
  BY <1>12
<1>14. r = AgentResult("succeeded")
  BY <1>3, <1>6, <1>9, <1>11, <1>12
<1> QED BY <1>4, <1>6, <1>7, <1>8, <1>10, <1>13, <1>14

(* A run succeeds only on one whole, successful result, and what it printed *)
(* itself held no result unless it was the fake worker (#finalize, and      *)
(* completed of each runner).                                               *)
THEOREM SuccessWitnessed == Spec => []SuccessIsWitnessed
<1>1. ASSUME TypeOK, Ordered, AtRest, Closed, Judged PROVE SuccessIsWitnessed
  <2> SUFFICES ASSUME outcome = "claims_success", \A s \in Streams : ~Dropped(s)
               PROVE  Len(Sorting!folded(Whole(said["stdout"]).records).results)
                        = (IF kind = "fake" THEN 1 ELSE 0)
    BY <1>1 DEF SuccessIsWitnessed, Judged, Whole
  <2>1. PICK old \in Seq(Written) :
          file["stdout"] = old \o Closing(~misread /\ detectToolError(old)) /\ old = said["stdout"]
    BY <1>1 DEF Closed, Judged, Streams
  <2>2. PICK saw \in BOOLEAN : saw <=> (~misread /\ detectToolError(old))
    OBVIOUS
  <2>3. kind \in Kinds /\ ExitedZero
    BY <1>1 DEF TypeOK, Judged
  <2>4. PICK closed : closed = file["stdout"]
    OBVIOUS
  <2>5. Judge(readSelectedWorkerEvents(kind, closed, 0, TRUE)) = "claims_success"
    BY <1>1, <2>4 DEF Judged
  <2>6. CASE kind = "fake"
    <3>1. closed = old
      BY <2>1, <2>2, <2>3, <2>4, <2>6, ClosingZero, ConcatEmptySeq
    <3>2. kind \in WorkerKinds
      BY <2>3, KindsAssumption
    <3> QED BY <2>1, <2>5, <2>6, <3>1, <3>2, JudgedSuccess
  <2>7. CASE kind # "fake"
    <3>1. PICK status : closed = old \o Terminated(AgentResult(status))
      BY <2>1, <2>2, <2>3, <2>4, <2>7, ClosingZero
    <3> QED BY <2>1, <2>3, <2>5, <2>7, <3>1, AppendedResult
  <2> QED BY <2>6, <2>7
<1> QED BY <1>1, Witnesses, PTL

(* Antigravity's denied tool call is found in what the adapter read, not in *)
(* what it appended, and then the appended result is no success (completed, *)
(* detectToolError).                                                        *)
THEOREM DeniedToolFails == Spec => []DeniedToolNeverSucceeds
<1>1. ASSUME TypeOK, Ordered, AtRest, Closed, Judged PROVE DeniedToolNeverSucceeds
  <2> SUFFICES ASSUME kind = "antigravity", outcome = "claims_success", ~misread,
                      detectToolError(file["stdout"])
               PROVE  FALSE
    BY DEF DeniedToolNeverSucceeds
  <2>1. PICK old \in Seq(Written) :
          file["stdout"] = old \o Closing(~misread /\ detectToolError(old))
    BY <1>1 DEF Closed, Judged
  <2>2. PICK saw \in BOOLEAN : saw <=> detectToolError(old)
    OBVIOUS
  <2>3. PICK status : /\ status = IF saw THEN "blocked" ELSE "succeeded"
                      /\ file["stdout"] = old \o Terminated(AgentResult(status))
    BY <1>1, <2>1, <2>2, ClosingZero DEF TypeOK, Judged
  <2>4. PICK closed : closed = file["stdout"]
    OBVIOUS
  <2>5. /\ Whole(closed).records = Append(Whole(old).records, AgentResult(status))
        /\ \E V : Whole(old).records \in Seq(V)
        /\ AgentResult(status) = AgentResult("succeeded")
    BY <1>1, <2>3, <2>4, AppendedResult DEF TypeOK, Judged
  <2>6. ~detectToolError(old)
    BY <2>2, <2>3, <2>5 DEF AgentResult
  <2>7. PICK V : Whole(old).records \in Seq(V)
    BY <2>5
  <2>14. PICK recs \in Seq(V) : recs = Whole(old).records
    BY <2>7
  <2>8. PICK r : r = AgentResult(status)
    OBVIOUS
  <2>9. ~SawToolError(r)
    BY <2>8 DEF SawToolError, AgentResult
  <2>10. PICK i \in DOMAIN Append(recs, r) : SawToolError(Append(recs, r)[i])
    BY <2>4, <2>5, <2>14, <2>8 DEF detectToolError, Whole
  <2>11. PICK n \in Nat : n = Len(recs)
    OBVIOUS
  <2>12. i \in 1 .. n /\ Append(recs, r)[i] = recs[i]
    BY <2>9, <2>10, <2>11
  <2>13. SawToolError(recs[i]) /\ i \in DOMAIN recs
    BY <2>10, <2>11, <2>12
  <2> QED BY <2>6, <2>14, <2>13 DEF detectToolError, Whole
<1> QED BY <1>1, Witnesses, PTL

-----------------------------------------------------------------------------
(***************************************************************************)
(* A transcript read in two goes.                                          *)
(***************************************************************************)

ReadOn(text, offset) == ReadFrom(text, offset, TRUE)
ReadPart(text) == ReadFrom(text, 0, FALSE)
Rest(text, offset) == SubSeq(text, offset + 1, Len(text))

LEMMA RestAfter ==
  ASSUME NEW U, NEW head \in Seq(U), NEW rest \in Seq(U)
  PROVE  SubSeq(head \o rest, Len(head) + 1, Len(head \o rest)) = rest
<1>1. PICK a \in Nat, b \in Nat : a = Len(head) /\ b = Len(rest)
  OBVIOUS
<1>2. PICK both \in Seq(U) : both = head \o rest
  BY ConcatProperties
<1>3. Len(both) = a + b /\ \A i \in 1 .. a + b : both[i] = IF i <= a THEN head[i] ELSE rest[i - a]
  BY <1>1, <1>2, ConcatProperties
<1>4. \A i \in a + 1 .. a + b : both[i] \in U
  <2>1. \A i \in 1 .. a + b : both[i] \in U
    BY <1>3, ElementOfSeq
  <2> QED BY <2>1
<1> PICK m \in Int, n \in Int : m = a + 1 /\ n = a + b
  OBVIOUS
<1>11. \A i \in m .. n : both[i] \in U
  BY <1>4
<1>5. /\ SubSeq(both, m, n) \in Seq(U)
      /\ Len(SubSeq(both, m, n)) = IF m <= n THEN n - m + 1 ELSE 0
      /\ \A i \in 1 .. n - m + 1 : SubSeq(both, m, n)[i] = both[m + i - 1]
  BY <1>11, SubSeqProperties
<1>12. PICK s \in Seq(U) : s = SubSeq(both, m, n)
  BY <1>5
<1>6. Len(s) = IF a + 1 <= a + b THEN (a + b) - (a + 1) + 1 ELSE 0
  BY <1>5, <1>12
<1>7. \A i \in 1 .. (a + b) - (a + 1) + 1 : s[i] = both[(a + 1) + i - 1]
  BY <1>5, <1>12
<1>8. Len(s) = b
  BY <1>6
<1>9. \A i \in 1 .. b : s[i] = rest[i]
  <2>1. SUFFICES ASSUME NEW i \in 1 .. b PROVE s[i] = rest[i]
    OBVIOUS
  <2>2. (a + b) - (a + 1) + 1 = b /\ (a + 1) + i - 1 = a + i
    OBVIOUS
  <2>3. s[i] = both[a + i]
    BY <1>7, <2>2
  <2>4. both[a + i] = rest[i]
    <3>1. a + i \in 1 .. a + b /\ ~ (a + i <= a) /\ (a + i) - a = i
      OBVIOUS
    <3> QED BY <1>3, <3>1
  <2> QED BY <2>3, <2>4
<1>10. s = rest
  BY <1>1, <1>8, <1>9, SeqEqual
<1> QED BY <1>1, <1>2, <1>3, <1>12, <1>10

(* A text up to its last line's end, and the fragment after it.             *)
LEMMA CutAtLine ==
  ASSUME NEW U, NEW text \in Seq(U)
  PROVE  \E head \in Seq(U) :
           /\ text = head \o Trailing(text)
           /\ Trailing(head) = <<>> /\ Segments(head) = Segments(text)
<1> DEFINE Good == {t \in Seq(U) : \E head \in Seq(U) :
                      /\ t = head \o Trailing(t)
                      /\ Trailing(head) = <<>> /\ Segments(head) = Segments(t)}
<1>1. <<>> \in Good
  <2>1. PICK empty \in Seq(U) : empty = <<>>
    BY EmptySeq
  <2>2. empty \o empty = empty
    BY <2>1, ConcatEmptySeq
  <2> QED BY <2>1, <2>2, SplitEmpty
<1>2. ASSUME NEW t \in Seq(U), NEW u \in U, t \in Good PROVE Append(t, u) \in Good
  <2>1. PICK head \in Seq(U) : /\ t = head \o Trailing(t)
                               /\ Trailing(head) = <<>> /\ Segments(head) = Segments(t)
    BY <1>2
  <2>2. PICK more \in Seq(U), tail \in Seq(U) : more = Append(t, u) /\ tail = Trailing(t)
    BY SplitType, AppendProperties
  <2>3. CASE u = Newline
    <3>1. Trailing(more) = <<>>
      BY <2>2, <2>3, SplitUnit
    <3>2. more = more \o <<>>
      BY ConcatEmptySeq
    <3> QED BY <2>2, <3>1, <3>2
  <2>4. CASE u # Newline
    <3>1. Segments(more) = Segments(t) /\ Trailing(more) = Append(tail, u)
      BY <2>2, <2>4, SplitUnit
    <3>2. head \o Append(tail, u) = Append(head \o tail, u)
      BY <2>2, AppendToConcat
    <3> QED BY <2>1, <2>2, <3>1, <3>2
  <2> QED BY <2>3, <2>4
<1>3. text \in Good
  <2> HIDE DEF Good
  <2> QED BY <1>1, <1>2, Splitting!SeqInduction
<1> QED BY <1>3

(* A text that ends with its last line ends with the newline.               *)
LEMMA LineEnd ==
  ASSUME NEW U, NEW head \in Seq(U), Trailing(head) = <<>>, head # <<>>
  PROVE  head[Len(head)] = Newline
<1> DEFINE Good == {t \in Seq(U) : Trailing(t) = <<>> /\ t # <<>> => t[Len(t)] = Newline}
<1>1. <<>> \in Good
  BY EmptySeq
<1>2. ASSUME NEW t \in Seq(U), NEW u \in U, t \in Good PROVE Append(t, u) \in Good
  <2>1. PICK more \in Seq(U), tail \in Seq(U) : more = Append(t, u) /\ tail = Trailing(t)
    BY SplitType, AppendProperties
  <2>2. more[Len(more)] = u
    BY <2>1, AppendProperties
  <2>3. u # Newline => Trailing(more) # <<>>
    <3>1. Append(tail, u) # <<>>
      BY AppendProperties
    <3> QED BY <2>1, <3>1, SplitUnit
  <2> QED BY <2>1, <2>2, <2>3
<1>3. head \in Good
  <2> HIDE DEF Good
  <2> QED BY <1>1, <1>2, Splitting!SeqInduction
<1> QED BY <1>3

LEMMA ConcatAt ==
  ASSUME NEW U, NEW head \in Seq(U), NEW rest \in Seq(U), NEW text, text = head \o rest
  PROVE  /\ text \in Seq(U)
         /\ Len(text) = Len(head) + Len(rest)
         /\ \A i \in 1 .. Len(head) : text[i] = head[i]
         /\ \A j \in 1 .. Len(rest) : text[Len(head) + j] = rest[j]
<1>1. PICK h \in Nat, r \in Nat : h = Len(head) /\ r = Len(rest)
  OBVIOUS
<1>2. /\ text \in Seq(U) /\ Len(text) = h + r
      /\ \A i \in 1 .. h + r : text[i] = IF i <= h THEN head[i] ELSE rest[i - h]
  BY <1>1, ConcatProperties
<1>3. ASSUME NEW j \in 1 .. r PROVE text[h + j] = rest[j]
  <2>1. h + j \in 1 .. h + r /\ ~ (h + j <= h) /\ (h + j) - h = j
    OBVIOUS
  <2> QED BY <1>2, <2>1
<1>4. ASSUME NEW i \in 1 .. h PROVE text[i] = head[i]
  BY <1>2
<1> QED BY <1>1, <1>2, <1>3, <1>4

(* A text cut at the end of a line is cut between two characters.           *)
LEMMA StrayBefore ==
  ASSUME NEW U, NEW head \in Seq(U), NEW rest \in Seq(U), Trailing(head) = <<>>,
         NEW text, text = head \o rest, NEW i \in 1 .. Len(head), Stray(head, i)
  PROVE  Stray(text, i)
<1>1. PICK h \in Nat : h = Len(head)
  OBVIOUS
<1>2. \A k \in 1 .. h : text[k] = head[k]
  BY <1>1, ConcatAt
<1>3. PICK unit : unit = head[i] /\ unit = text[i]
  BY <1>1, <1>2
<1>4. CASE unit.part = 2 /\ unit.rec \in Raw
  BY <1>3, <1>4 DEF Stray
<1>5. CASE unit.part = 1 /\ unit.rec \in Wide /\ (i = h \/ head[i + 1] # Unit(unit.rec, 2))
  <2>1. i # h
    <3> SUFFICES ASSUME i = h PROVE FALSE
      OBVIOUS
    <3>1. unit = Newline
      BY <1>1, <1>3, EmptySeq, LineEnd
    <3> QED BY <1>5, <3>1 DEF Newline, Unit
  <2>2. i + 1 \in 1 .. h
    BY <1>1, <2>1
  <2>3. text[i + 1] = head[i + 1]
    BY <1>2, <2>2
  <2> QED BY <1>3, <1>5, <2>1, <2>3 DEF Stray
<1>6. CASE unit.part = 2 /\ unit.rec \in Wide /\ (i = 1 \/ head[i - 1] # Unit(unit.rec, 1))
  <2>1. i # 1 => text[i - 1] = head[i - 1]
    <3> SUFFICES ASSUME i # 1 PROVE text[i - 1] = head[i - 1]
      OBVIOUS
    <3>1. i - 1 \in 1 .. h
      BY <1>1
    <3> QED BY <1>2, <3>1
  <2> QED BY <1>3, <1>6, <2>1 DEF Stray
<1> QED BY <1>1, <1>3, <1>4, <1>5, <1>6 DEF Stray

LEMMA StrayAfter ==
  ASSUME NEW U, NEW head \in Seq(U), NEW rest \in Seq(U), Trailing(head) = <<>>,
         NEW text, text = head \o rest, NEW j \in 1 .. Len(rest), Stray(rest, j)
  PROVE  Stray(text, Len(head) + j)
<1>1. PICK h \in Nat, r \in Nat : h = Len(head) /\ r = Len(rest)
  OBVIOUS
<1>2. Len(text) = h + r /\ \A k \in 1 .. r : text[h + k] = rest[k]
  BY <1>1, ConcatAt
<1>3. PICK i \in Nat : i = h + j
  OBVIOUS
<1>4. PICK unit : unit = rest[j] /\ unit = text[i]
  BY <1>1, <1>2, <1>3
<1>5. CASE unit.part = 2 /\ unit.rec \in Raw
  BY <1>1, <1>3, <1>4, <1>5 DEF Stray
<1>6. CASE unit.part = 1 /\ unit.rec \in Wide /\ (j = r \/ rest[j + 1] # Unit(unit.rec, 2))
  <2>1. j = r => i = Len(text)
    BY <1>2, <1>3
  <2>2. j # r => text[i + 1] = rest[j + 1]
    <3> SUFFICES ASSUME j # r PROVE text[i + 1] = rest[j + 1]
      OBVIOUS
    <3>1. j + 1 \in 1 .. r /\ i + 1 = h + (j + 1)
      BY <1>1, <1>3
    <3> QED BY <1>2, <3>1
  <2>3. i = Len(text) \/ text[i + 1] # Unit(unit.rec, 2)
    BY <1>6, <2>1, <2>2
  <2> QED BY <1>1, <1>3, <1>4, <1>6, <2>3 DEF Stray
<1>7. CASE unit.part = 2 /\ unit.rec \in Wide /\ (j = 1 \/ rest[j - 1] # Unit(unit.rec, 1))
  <2>1. CASE j = 1 /\ h = 0
    BY <1>1, <1>3, <1>4, <1>7, <2>1 DEF Stray
  <2>2. CASE j = 1 /\ h # 0
    <3>1. head # <<>> /\ h \in 1 .. Len(head)
      BY <1>1, <2>2, EmptySeq
    <3>2. text[h] = Newline
      BY <1>1, <3>1, ConcatAt, LineEnd
    <3>3. Newline # Unit(unit.rec, 1)
      BY DEF Newline, Unit
    <3>4. i - 1 = h
      BY <1>3, <2>2
    <3> QED BY <1>1, <1>3, <1>4, <1>7, <3>2, <3>3, <3>4 DEF Stray
  <2>3. CASE j # 1
    <3>1. j - 1 \in 1 .. r /\ i - 1 = h + (j - 1)
      BY <1>1, <1>3, <2>3
    <3>2. text[i - 1] = rest[j - 1]
      BY <1>2, <3>1
    <3> QED BY <1>1, <1>3, <1>4, <1>7, <2>3, <3>2 DEF Stray
  <2> QED BY <2>1, <2>2, <2>3
<1> QED BY <1>1, <1>4, <1>5, <1>6, <1>7 DEF Stray

LEMMA WellEncodedParts ==
  ASSUME NEW U, NEW head \in Seq(U), NEW rest \in Seq(U), Trailing(head) = <<>>,
         WellEncoded(head \o rest)
  PROVE  WellEncoded(head) /\ WellEncoded(rest)
<1>1. PICK text \in Seq(U) : text = head \o rest
  BY ConcatAt
<1>2. PICK h \in Nat, r \in Nat : h = Len(head) /\ r = Len(rest)
  OBVIOUS
<1>3. \A i \in 1 .. h + r : ~Stray(text, i)
  BY <1>1, <1>2, ConcatAt DEF WellEncoded
<1>4. ASSUME NEW i \in 1 .. h PROVE ~Stray(head, i)
  <2>1. i \in 1 .. h + r /\ i \in 1 .. Len(head)
    BY <1>2
  <2>2. Stray(head, i) => Stray(text, i)
    BY <1>1, <2>1, StrayBefore
  <2> QED BY <1>3, <2>1, <2>2
<1>5. ASSUME NEW j \in 1 .. r PROVE ~Stray(rest, j)
  <2>1. h + j \in 1 .. h + r
    OBVIOUS
  <2> QED BY <1>1, <1>2, <1>3, <2>1, StrayAfter
<1> QED BY <1>2, <1>4, <1>5 DEF WellEncoded

(* Where a text that is UTF-8 is cut, only the last character may be cut,   *)
(* and the rest of it follows.                                              *)
LEMMA StrayIsLast ==
  ASSUME NEW U, NEW p \in Seq(U), NEW q \in Seq(U), WellEncoded(p \o q),
         NEW i \in 1 .. Len(p), Stray(p, i)
  PROVE  i = Len(p) /\ Len(q) > 0 /\ q[1] # Newline
<1>1. PICK n \in Nat, m \in Nat : n = Len(p) /\ m = Len(q)
  OBVIOUS
<1>2. PICK text : text = p \o q
  OBVIOUS
<1>3. /\ Len(text) = n + m /\ \A k \in 1 .. n : text[k] = p[k]
      /\ \A k \in 1 .. m : text[n + k] = q[k]
  BY <1>1, <1>2, ConcatAt
<1>4. ~Stray(text, i)
  <2>1. i \in 1 .. Len(text) /\ text \in Seq(U)
    BY <1>1, <1>2, <1>3, ConcatAt
  <2>2. i \in DOMAIN text
    BY <2>1
  <2>3. WellEncoded(text)
    BY <1>2
  <2> QED BY <2>2, <2>3 DEF WellEncoded
<1>5. PICK unit : unit = p[i] /\ unit = text[i]
  BY <1>1, <1>3
<1>6. i # 1 => text[i - 1] = p[i - 1]
  <2> SUFFICES ASSUME i # 1 PROVE text[i - 1] = p[i - 1]
    OBVIOUS
  <2>1. i - 1 \in 1 .. n
    BY <1>1
  <2> QED BY <1>3, <2>1
<1>7. /\ unit.part = 1 /\ unit.rec \in Wide
      /\ i = n \/ p[i + 1] # Unit(unit.rec, 2)
  BY <1>1, <1>4, <1>5, <1>6 DEF Stray
<1>8. i # Len(text) /\ text[i + 1] = Unit(unit.rec, 2)
  BY <1>4, <1>5, <1>7 DEF Stray
<1>9. i = n
  <2> SUFFICES ASSUME i # n PROVE FALSE
    OBVIOUS
  <2>1. i + 1 \in 1 .. n
    BY <1>1
  <2> QED BY <1>3, <1>7, <1>8, <2>1
<1>10. m > 0 /\ 1 \in 1 .. m
  BY <1>3, <1>8, <1>9
<1>11. q[1] = Unit(unit.rec, 2)
  BY <1>3, <1>8, <1>9, <1>10
<1>12. Unit(unit.rec, 2) # Newline
  BY DEF Newline, Unit
<1> QED BY <1>1, <1>9, <1>10, <1>11, <1>12

(* No line over the limit, nor the fragment after the last one; so it is of *)
(* what the text starts with.                                               *)
Fits(text) ==
  /\ \A i \in 1 .. Len(Segments(text)) : Len(Segments(text)[i]) <= MaxLine
  /\ Len(Trailing(text)) <= MaxLine

LEMMA FitsBefore ==
  ASSUME NEW U, NEW text \in Seq(U), NEW u \in U, Fits(Append(text, u))
  PROVE  Fits(text)
<1>1. PICK L : L = Seq(U)
  OBVIOUS
<1>2. PICK lines \in Seq(L), tail \in L : lines = Segments(text) /\ tail = Trailing(text)
  BY <1>1, SplitType
<1>3. PICK n \in Nat : n = Len(lines)
  OBVIOUS
<1>4. CASE u = Newline
  <2>1. PICK all \in Seq(L) : all = Append(lines, tail)
    BY AppendProperties
  <2>6. Segments(Append(text, u)) = all
    BY <1>2, <1>4, <2>1, SplitUnit
  <2>2. Len(all) = n + 1 /\ all[n + 1] = tail /\ \A i \in 1 .. n : all[i] = lines[i]
    BY <1>3, <2>1, AppendProperties
  <2>3. \A i \in 1 .. n + 1 : Len(all[i]) <= MaxLine
    BY <2>2, <2>6 DEF Fits
  <2>4. \A i \in 1 .. n : Len(lines[i]) <= MaxLine
    BY <2>2, <2>3
  <2>5. Len(tail) <= MaxLine
    BY <2>2, <2>3
  <2> QED BY <1>2, <1>3, <2>4, <2>5 DEF Fits
<1>5. CASE u # Newline
  <2>1. Segments(Append(text, u)) = lines /\ Trailing(Append(text, u)) = Append(tail, u)
    BY <1>2, <1>5, SplitUnit
  <2>2. Len(Append(tail, u)) = Len(tail) + 1 /\ Len(tail) \in Nat
    BY <1>1, <1>2, AppendProperties
  <2>3. MaxLine \in Nat
    BY MaxLineAssumption
  <2> QED BY <1>2, <2>1, <2>2, <2>3 DEF Fits
<1> QED BY <1>4, <1>5

LEMMA FitsPrefix ==
  ASSUME NEW U, NEW head \in Seq(U), NEW rest \in Seq(U), Fits(head \o rest)
  PROVE  Fits(head)
<1> DEFINE Good == {t \in Seq(U) : Fits(head \o t) => Fits(head)}
<1>1. <<>> \in Good
  BY ConcatEmptySeq, EmptySeq
<1>2. ASSUME NEW t \in Seq(U), NEW u \in U, t \in Good PROVE Append(t, u) \in Good
  <2>1. PICK more \in Seq(U) : more = head \o t
    BY ConcatProperties
  <2>2. head \o Append(t, u) = Append(more, u)
    BY <2>1, AppendToConcat
  <2>3. Fits(Append(more, u)) => Fits(more)
    BY FitsBefore
  <2> QED BY <1>2, <2>1, <2>2, <2>3, AppendProperties
<1>3. rest \in Good
  <2> HIDE DEF Good
  <2> QED BY <1>1, <1>2, Splitting!SeqInduction
<1> QED BY <1>3

LEMMA LinesFitFits ==
  ASSUME NEW U, NEW text \in Seq(U), LinesFit(text)
  PROVE  Fits(text)
<1>1. PICK V : V = U \cup {Newline}
  OBVIOUS
<1>2. text \in Seq(V) /\ Newline \in V
  BY <1>1, SeqMonotonic
<1>3. PICK more \in Seq(V) : more = Append(text, Newline)
  BY <1>2, AppendProperties
<1>4. Trailing(more) = <<>>
  BY <1>2, <1>3, SplitUnit
<1>5. \A i \in 1 .. Len(Segments(more)) : Len(Segments(more)[i]) <= MaxLine
  <2>1. PICK L : L = Seq(V)
    OBVIOUS
  <2>2. PICK lines \in Seq(L) : lines = Segments(more)
    BY <2>1, SplitType
  <2>3. \A i \in 1 .. Len(lines) : lines[i] \in Range(lines)
    BY DEF Range
  <2> QED BY <1>3, <2>2, <2>3 DEF LinesFit
<1>6. Len(Trailing(more)) <= MaxLine
  <2>1. Len(<<>>) = 0 /\ MaxLine \in Nat
    BY MaxLineAssumption
  <2> QED BY <1>4, <2>1
<1>7. Fits(more)
  BY <1>5, <1>6 DEF Fits
<1> QED BY <1>2, <1>3, <1>7, FitsBefore

(* A fragment that goes on in what follows is shorter than the limit.       *)
LEMMA RoomForMore ==
  ASSUME NEW U, NEW p \in Seq(U), NEW q \in Seq(U), Fits(p \o q),
         Len(q) > 0, q[1] # Newline
  PROVE  Len(Trailing(p)) + 1 <= MaxLine
<1>1. PICK u \in U, more \in Seq(U) : u = q[1] /\ p \o q = Append(p, u) \o more
  <2>1. q[1] \in U /\ Tail(q) \in Seq(U) /\ p \o q = Append(p, q[1]) \o Tail(q)
    BY UnitOver
  <2> QED BY <2>1, Zenon
<1>2. PICK further \in Seq(U) : further = Append(p, u)
  BY AppendProperties
<1>3. p \o q = further \o more
  BY <1>1, <1>2, Zenon
<1>4. Fits(further)
  BY <1>3, FitsPrefix
<1>5. PICK tail \in Seq(U) : tail = Trailing(p)
  BY SplitType
<1>6. Trailing(further) = Append(tail, u)
  BY <1>1, <1>2, <1>5, SplitUnit
<1>7. Len(Append(tail, u)) = Len(tail) + 1
  BY AppendProperties
<1>8. Len(Trailing(further)) <= MaxLine
  BY <1>4 DEF Fits
<1> QED BY <1>5, <1>6, <1>7, <1>8

(* What a first reading leaves over is not over the limit, the cut          *)
(* character included.                                                      *)
LEMMA FragmentFits ==
  ASSUME NEW U, NEW p \in Seq(U), NEW q \in Seq(U), Fits(p \o q), WellEncoded(p \o q),
         NEW head \in Seq(U), Trailing(head) = <<>>, p = head \o Trailing(p)
  PROVE  byteLength(Trailing(p)) <= MaxLine /\ WellEncoded(head)
<1>1. PICK tail \in Seq(U) : tail = Trailing(p)
  BY SplitType
<1>2. PICK n \in Nat, h \in Nat, t \in Nat : n = Len(p) /\ h = Len(head) /\ t = Len(tail)
  OBVIOUS
<1>3. n = h + t
  BY <1>1, <1>2, ConcatAt
<1>4. Fits(p)
  BY FitsPrefix
<1>5. t <= MaxLine
  BY <1>1, <1>2, <1>4 DEF Fits
<1>6. ASSUME NEW i \in 1 .. n, Stray(p, i) PROVE i = n /\ Len(q) > 0 /\ q[1] # Newline
  <2>1. i \in 1 .. Len(p)
    BY <1>2
  <2> QED BY <1>2, <1>6, <2>1, StrayIsLast
<1>7. ASSUME NEW j \in 1 .. t, Stray(tail, j) PROVE j = t /\ Len(q) > 0 /\ q[1] # Newline
  <2>1. j \in 1 .. Len(tail)
    BY <1>2
  <2>2. Stray(p, h + j)
    BY <1>1, <1>2, <1>7, <2>1, StrayAfter
  <2>3. h + j \in 1 .. n
    BY <1>3
  <2>4. h + j = n /\ Len(q) > 0 /\ q[1] # Newline
    BY <1>6, <2>2, <2>3
  <2> QED BY <1>3, <2>4
<1>8. ASSUME \A j \in 1 .. t : ~Stray(tail, j) PROVE byteLength(tail) <= MaxLine
  <2>1. byteLength(tail) = t
    BY <1>2, <1>8, WellEncodedLength DEF WellEncoded
  <2> QED BY <1>5, <2>1
<1>9. ASSUME \E j \in 1 .. t : Stray(tail, j) PROVE byteLength(tail) <= MaxLine
  <2>1. t \in 1 .. t /\ Stray(tail, t) /\ Len(q) > 0 /\ q[1] # Newline
    BY <1>7, <1>9
  <2>2. {j \in DOMAIN tail : Stray(tail, j)} = {t}
    <3>1. DOMAIN tail = 1 .. t
      BY <1>2
    <3> QED BY <1>7, <2>1, <3>1
  <2>3. byteLength(tail) = t + 1
    <3>1. Cardinality({t}) = 1
      BY FS_Singleton
    <3> QED BY <1>2, <2>2, <3>1 DEF byteLength
  <2>4. Len(Trailing(p)) + 1 <= MaxLine
    <3>1. Len(q) > 0 /\ q[1] # Newline
      BY <2>1
    <3> QED BY <3>1, RoomForMore
  <2>5. Len(tail) + 1 <= MaxLine
    BY <1>1, <2>4
  <2> QED BY <1>2, <2>3, <2>5
<1>10. WellEncoded(head)
  <2>1. ASSUME NEW i \in 1 .. h, Stray(head, i) PROVE FALSE
    <3>1. i \in 1 .. Len(head) /\ i \in 1 .. n
      BY <1>2, <1>3
    <3>2. Stray(p, i)
      BY <1>1, <2>1, <3>1, StrayBefore
    <3>3. i = n
      BY <1>6, <3>1, <3>2
    <3>4. i = h
      BY <1>3, <3>3
    <3>5. head[h] = Newline
      BY <1>2, <3>1, EmptySeq, LineEnd
    <3> QED BY <2>1, <3>4, <3>5 DEF Stray, Newline, Unit
  <2> QED BY <1>2, <2>1 DEF WellEncoded
<1> QED BY <1>1, <1>8, <1>9, <1>10

(* The lines of a text, without the fragment after them.                    *)
LEMMA FrontOf ==
  ASSUME NEW U, NEW head \in Seq(U), NEW tail \in Seq(U)
  PROVE  SubSeq(head \o tail, 1, Len(head \o tail) - Len(tail)) = head
<1>1. PICK h \in Nat, t \in Nat : h = Len(head) /\ t = Len(tail)
  OBVIOUS
<1>2. PICK text \in Seq(U) : text = head \o tail
  BY ConcatAt
<1>3. Len(text) = h + t /\ \A i \in 1 .. h : text[i] = head[i]
  BY <1>1, <1>2, ConcatAt
<1>4. \A i \in 1 .. h : text[i] \in U
  BY <1>1, <1>3, ElementOfSeq
<1>5. PICK m \in Int : m = 1
  OBVIOUS
<1>6. /\ SubSeq(text, m, h) \in Seq(U)
      /\ Len(SubSeq(text, m, h)) = IF m <= h THEN h - m + 1 ELSE 0
      /\ \A i \in 1 .. h - m + 1 : SubSeq(text, m, h)[i] = text[m + i - 1]
  BY <1>4, <1>5, SubSeqProperties
<1>7. PICK s \in Seq(U) : s = SubSeq(text, m, h)
  BY <1>6
<1>8. Len(s) = h
  BY <1>5, <1>6, <1>7
<1>9. ASSUME NEW i \in 1 .. h PROVE s[i] = head[i]
  <2>1. i \in 1 .. h - m + 1 /\ m + i - 1 = i
    BY <1>5
  <2> QED BY <1>3, <1>6, <1>7, <2>1
<1>10. s = head
  BY <1>1, <1>8, <1>9, SeqEqual
<1>11. (h + t) - t = h
  OBVIOUS
<1> QED BY <1>1, <1>2, <1>3, <1>5, <1>7, <1>10, <1>11

(* One reading of the rest of a text that fits.                             *)
LEMMA ReadOnIs ==
  ASSUME NEW U, NEW text \in Seq(U), NEW offset \in 0 .. Len(text), NEW rest \in Seq(U),
         rest = Rest(text, offset), Fits(rest), WellEncoded(rest)
  PROVE  /\ ~ReadOn(text, offset).corrupt
         /\ ReadOn(text, offset).records
              = Read(Segments(rest)).records \o Read(<<Trailing(rest)>>).records
         /\ ReadOn(text, offset).rejected
              = Read(Segments(rest)).rejected + Read(<<Trailing(rest)>>).rejected
         /\ ReadOn(text, offset).offset = offset + Len(rest)
<1>1. PICK head \in Seq(U) : rest = head \o Trailing(rest) /\ Trailing(head) = <<>>
  BY CutAtLine
<1>2. PICK lines \in Seq(Seq(U)), tail \in Seq(U) : lines = Segments(rest) /\ tail = Trailing(rest)
  BY SplitType
<1>3. PICK t \in Nat, h \in Nat : t = Len(tail) /\ h = Len(head)
  OBVIOUS
<1>4. WellEncoded(head) /\ WellEncoded(tail)
  BY <1>1, <1>2, WellEncodedParts
<1>5. byteLength(head) = h /\ byteLength(tail) = t
  BY <1>3, <1>4, WellEncodedLength
<1>6. ~ (byteLength(tail) > MaxLine)
  <2>1. t <= MaxLine /\ MaxLine \in Nat
    BY <1>2, <1>3, MaxLineAssumption DEF Fits
  <2> QED BY <1>5, <2>1
<1>7. SubSeq(rest, 1, Len(rest) - Len(tail)) = head
  BY <1>1, <1>2, FrontOf
<1>8. /\ ReadOn(text, offset).records = Read(lines).records \o Read(<<tail>>).records
      /\ ReadOn(text, offset).rejected = (Read(lines).rejected + 0) + Read(<<tail>>).rejected
      /\ ReadOn(text, offset).offset = offset + (h + 0) + t
      /\ ReadOn(text, offset).corrupt = (offset > Len(text))
  BY <1>2, <1>5, <1>6, <1>7 DEF ReadOn, Rest, ReadFrom, push, finish
<1>9. Read(lines).rejected \in Nat
  BY ReadType
<1>10. Len(rest) = h + t
  BY <1>1, <1>2, <1>3, ConcatAt
<1>11. offset + (h + 0) + t = offset + (h + t) /\ Read(lines).rejected + 0 = Read(lines).rejected
  BY <1>9
<1>12. ~ (offset > Len(text))
  OBVIOUS
<1> QED BY <1>2, <1>8, <1>10, <1>11, <1>12

LEMMA ReadPartIs ==
  ASSUME NEW U, NEW text \in Seq(U), byteLength(Trailing(text)) <= MaxLine,
         NEW head \in Seq(U), text = head \o Trailing(text), WellEncoded(head)
  PROVE  /\ ReadPart(text).records = Read(Segments(text)).records
         /\ ReadPart(text).rejected = Read(Segments(text)).rejected
         /\ ReadPart(text).offset = Len(head)
<1>1. SubSeq(text, 0 + 1, Len(text)) = text
  <2>1. 0 + 1 = 1
    OBVIOUS
  <2> QED BY <2>1, SubSeqFull
<1>2. PICK lines \in Seq(Seq(U)), tail \in Seq(U) : lines = Segments(text) /\ tail = Trailing(text)
  BY SplitType
<1>3. PICK h \in Nat : h = Len(head)
  OBVIOUS
<1>4. byteLength(head) = h
  BY <1>3, WellEncodedLength
<1>5. ~ (byteLength(tail) > MaxLine)
  <2>1. byteLength(tail) \in Int /\ MaxLine \in Int
    <3>1. byteLength(tail) \in Nat
      BY LengthType
    <3> QED BY <3>1, MaxLineAssumption
  <2> QED BY <1>2, <2>1
<1>6. SubSeq(text, 1, Len(text) - Len(tail)) = head
  BY <1>2, FrontOf
<1>7. /\ ReadPart(text).records = Read(lines).records \o Read(<< <<>> >>).records
      /\ ReadPart(text).rejected = (Read(lines).rejected + 0) + Read(<< <<>> >>).rejected
      /\ ReadPart(text).offset = 0 + (h + 0) + 0
  BY <1>1, <1>2, <1>4, <1>5, <1>6 DEF ReadPart, ReadFrom, push, finish
<1>8. PICK R : R = {u.rec : u \in U}
  OBVIOUS
<1>9. PICK recs \in Seq(R), n \in Nat : Read(lines) = [records |-> recs, rejected |-> n]
  BY <1>8, ReadType
<1>10. Read(lines).records = recs /\ Read(lines).rejected = n
  BY <1>9
<1>11. Read(<< <<>> >>).records = <<>> /\ Read(<< <<>> >>).rejected = 0
  BY ReadNothing
<1>12. recs \o <<>> = recs /\ (n + 0) + 0 = n /\ 0 + (h + 0) + 0 = h
  BY ConcatEmptySeq
<1> QED BY <1>2, <1>3, <1>7, <1>10, <1>11, <1>12

LEMMA CutBefore ==
  ASSUME NEW U, NEW p \in Seq(U), NEW q \in Seq(U)
  PROVE  \E head \in Seq(U), rest \in Seq(U) :
           /\ p \o q = head \o rest /\ p = head \o Trailing(p)
           /\ Trailing(head) = <<>> /\ Segments(head) = Segments(p)
<1>1. PICK head \in Seq(U) : /\ p = head \o Trailing(p)
                             /\ Trailing(head) = <<>> /\ Segments(head) = Segments(p)
  BY CutAtLine
<1>2. PICK tail \in Seq(U) : tail = Trailing(p)
  BY SplitType
<1>3. PICK rest \in Seq(U) : rest = tail \o q
  BY ConcatProperties
<1>4. (head \o tail) \o q = head \o (tail \o q)
  BY ConcatAssociative, SMTT(30)
<1> QED BY <1>1, <1>2, <1>3, <1>4, Zenon

(* Where a text is cut, the first reading leaves off at a line's end.       *)
LEMMA CutAnywhere ==
  ASSUME NEW U, NEW text \in Seq(U), LinesFit(text), WellEncoded(text),
         NEW n \in 0 .. Len(text)
  PROVE  \E head \in Seq(U), rest \in Seq(U) :
           /\ text = head \o rest /\ Trailing(head) = <<>>
           /\ Fits(rest) /\ Fits(text) /\ WellEncoded(rest) /\ rest = Rest(text, Len(head))
           /\ ReadPart(SubSeq(text, 1, n)).records = Read(Segments(head)).records
           /\ ReadPart(SubSeq(text, 1, n)).rejected = Read(Segments(head)).rejected
           /\ ReadPart(SubSeq(text, 1, n)).offset = Len(head)
<1>1. PICK l \in Nat : l = Len(text)
  OBVIOUS
<1>2. \A i \in 1 .. l : text[i] \in U
  BY <1>1, ElementOfSeq
<1>3. PICK p \in Seq(U), q \in Seq(U) : p = SubSeq(text, 1, n) /\ q = SubSeq(text, n + 1, l)
  <2>1. \A i \in 1 .. n : text[i] \in U
    BY <1>1, <1>2
  <2>2. \A i \in n + 1 .. l : text[i] \in U
    BY <1>1, <1>2
  <2>3. SubSeq(text, 1, n) \in Seq(U)
    BY <2>1, SubSeqProperties
  <2>4. PICK m \in Int : m = n + 1
    OBVIOUS
  <2>5. SubSeq(text, m, l) \in Seq(U)
    BY <2>2, <2>4, SubSeqProperties
  <2> QED BY <2>3, <2>4, <2>5
<1>4. p \o q = text
  <2>1. PICK m : m = 1
    OBVIOUS
  <2>2. m \in 1 .. Len(text) + 1 /\ n \in m - 1 .. Len(text) /\ l \in n .. Len(text)
    BY <1>1, <2>1
  <2>3. SubSeq(text, m, n) \o SubSeq(text, n + 1, l) = SubSeq(text, m, l)
    BY <2>2, ConcatAdjacentSubSeq
  <2> QED BY <1>1, <1>3, <2>1, <2>3, SubSeqFull
<1>5. PICK head \in Seq(U), rest \in Seq(U) :
        /\ p \o q = head \o rest /\ p = head \o Trailing(p)
        /\ Trailing(head) = <<>> /\ Segments(head) = Segments(p)
  BY CutBefore
<1>6. PICK tail \in Seq(U) : tail = Trailing(p)
  BY SplitType
<1>7. text = head \o rest
  BY <1>4, <1>5
<1>8. Fits(text)
  BY LinesFitFits
<1>9. byteLength(tail) <= MaxLine /\ WellEncoded(head)
  BY <1>4, <1>5, <1>6, <1>8, FragmentFits
<1>10. PICK h \in Nat, r \in Nat : h = Len(head) /\ r = Len(rest)
  OBVIOUS
<1>11. l = h + r
  BY <1>1, <1>7, <1>10, ConcatProperties
<1>12. rest = Rest(text, h)
  BY <1>7, <1>10, RestAfter DEF Rest
<1>13. Segments(text) = Segments(head) \o Segments(rest) /\ Trailing(text) = Trailing(rest)
  BY <1>5, <1>7, SplitRest
<1>14. Fits(rest)
  <2>1. PICK L : L = Seq(U)
    OBVIOUS
  <2>2. PICK a \in Seq(L), b \in Seq(L) : a = Segments(head) /\ b = Segments(rest)
    BY <2>1, SplitType
  <2>3. PICK i \in Nat, j \in Nat : i = Len(a) /\ j = Len(b)
    OBVIOUS
  <2>4. Len(a \o b) = i + j /\ \A k \in 1 .. i + j : (a \o b)[k] = IF k <= i THEN a[k] ELSE b[k - i]
    BY <2>3, ConcatProperties
  <2>5. \A k \in 1 .. i + j : Len((a \o b)[k]) <= MaxLine
    BY <1>8, <1>13, <2>2, <2>4 DEF Fits
  <2>6. ASSUME NEW k \in 1 .. j PROVE Len(b[k]) <= MaxLine
    <3>1. i + k \in 1 .. i + j /\ ~ (i + k <= i) /\ (i + k) - i = k
      OBVIOUS
    <3> QED BY <2>4, <2>5, <3>1
  <2> QED BY <1>8, <1>13, <2>2, <2>3, <2>6 DEF Fits
<1>15. WellEncoded(rest)
  BY <1>5, <1>7, WellEncodedParts
<1>16. /\ ReadPart(p).records = Read(Segments(head)).records
       /\ ReadPart(p).rejected = Read(Segments(head)).rejected
       /\ ReadPart(p).offset = Len(head)
  BY <1>5, <1>6, <1>9, ReadPartIs
<1> QED BY <1>3, <1>5, <1>7, <1>8, <1>10, <1>12, <1>14, <1>15, <1>16

(* What a reading of the rest of a text that fits comes to.                 *)
Gives(then, offset, rest) ==
  /\ ~then.corrupt
  /\ then.records = Read(Segments(rest)).records \o Read(<<Trailing(rest)>>).records
  /\ then.rejected = Read(Segments(rest)).rejected + Read(<<Trailing(rest)>>).rejected
  /\ then.offset = offset + Len(rest)

Leaves(text, offset, rest) == rest = Rest(text, offset)

LEMMA ReadOnGives ==
  ASSUME NEW U, NEW text \in Seq(U), NEW offset \in 0 .. Len(text), NEW rest \in Seq(U),
         Leaves(text, offset, rest), Fits(rest), WellEncoded(rest)
  PROVE  Gives(ReadOn(text, offset), offset, rest)
<1>1. PICK then : then = ReadOn(text, offset)
  OBVIOUS
<1>2. Gives(then, offset, rest)
  BY <1>1, ReadOnIs DEF Leaves, Gives
<1> QED BY <1>1, <1>2

(* A text cut at the end of a line.                                         *)
Parts(text, head, rest) ==
  text = head \o rest /\ Trailing(head) = <<>> /\ Leaves(text, Len(head), rest)

(* What the two readings have found, added up.                              *)
LEMMA ReadingsAdd ==
  ASSUME NEW R, NEW ra \in Seq(R), NEW rb \in Seq(R), NEW rc \in Seq(R),
         NEW ja \in Nat, NEW jb \in Nat, NEW jc \in Nat, NEW h \in Nat, NEW r \in Nat,
         NEW first, NEW then, NEW whole,
         first.records = ra, first.rejected = ja, ~then.corrupt,
         then.records = rb \o rc, then.rejected = jb + jc, then.offset = h + r,
         whole.records = (ra \o rb) \o rc, whole.rejected = (ja + jb) + jc,
         whole.offset = 0 + (h + r)
  PROVE  AddUpTo(first, then, whole)
<1>1. (ra \o rb) \o rc = ra \o (rb \o rc)
  BY ConcatAssociative, SMTT(30)
<1>2. ja + (jb + jc) = (ja + jb) + jc /\ h + r = 0 + (h + r)
  OBVIOUS
<1> QED BY <1>1, <1>2 DEF AddUpTo

LEMMA ReadRecords ==
  ASSUME NEW U, NEW lines \in Seq(Seq(U)), NEW R, R = {u.rec : u \in U}
  PROVE  Read(lines).records \in Seq(R) /\ Read(lines).rejected \in Nat
<1>1. PICK ra \in Seq(R), ja \in Nat : Read(lines) = [records |-> ra, rejected |-> ja]
  BY ReadType
<1> QED BY <1>1

LEMMA ReadingOn ==
  ASSUME NEW U, NEW head \in Seq(U), NEW rest \in Seq(U), NEW text \in Seq(U),
         Parts(text, head, rest), Fits(rest), Fits(text), WellEncoded(rest), WellEncoded(text),
         NEW first, first.records = Read(Segments(head)).records,
         first.rejected = Read(Segments(head)).rejected
  PROVE  AddUpTo(first, ReadOn(text, Len(head)), ReadOn(text, 0))
<1>1. PICK h \in Nat, r \in Nat : h = Len(head) /\ r = Len(rest)
  OBVIOUS
<1>2. PICK R : R = {u.rec : u \in U}
  OBVIOUS
<1>3. PICK before \in Seq(Seq(U)), after \in Seq(Seq(U)), tail \in Seq(U) :
        before = Segments(head) /\ after = Segments(rest) /\ tail = Trailing(rest)
  BY SplitType
<1>4. PICK a, b, c : a = Read(before) /\ b = Read(after) /\ c = Read(<<tail>>)
  OBVIOUS
<1>5. /\ a.records \in Seq(R) /\ a.rejected \in Nat
      /\ b.records \in Seq(R) /\ b.rejected \in Nat
      /\ c.records \in Seq(R) /\ c.rejected \in Nat
  <2>1. <<tail>> \in Seq(Seq(U))
    OBVIOUS
  <2> QED BY <1>2, <1>4, <2>1, ReadRecords
<1>6. Segments(text) = before \o after /\ Trailing(text) = tail
  BY <1>3, SplitRest DEF Parts
<1>7. Read(Segments(text)) = [records |-> a.records \o b.records,
                              rejected |-> a.rejected + b.rejected]
  BY <1>4, <1>6, ReadRest
<1>8. PICK then : then = ReadOn(text, h)
  OBVIOUS
<1>9. PICK whole : whole = ReadOn(text, 0)
  OBVIOUS
<1>10. /\ then.records = b.records \o c.records
       /\ then.rejected = b.rejected + c.rejected
       /\ then.offset = h + r /\ ~then.corrupt
  <2>1. Leaves(text, h, rest)
    BY <1>1 DEF Parts
  <2>3. h \in 0 .. Len(text)
    <3>1. Len(text) = h + r
      BY <1>1, ConcatProperties DEF Parts
    <3> QED BY <3>1
  <2>2. Gives(then, h, rest)
    BY <1>8, <2>1, <2>3, ReadOnGives
  <2> QED BY <1>1, <1>3, <1>4, <2>2 DEF Gives
<1>11. /\ whole.records = (a.records \o b.records) \o c.records
       /\ whole.rejected = (a.rejected + b.rejected) + c.rejected
       /\ whole.offset = 0 + (h + r)
  <2>1. Leaves(text, 0, text)
    <3>1. 0 + 1 = 1
      OBVIOUS
    <3> QED BY <3>1, SubSeqFull DEF Rest, Leaves
  <2>2. Len(text) = h + r
    BY <1>1, ConcatProperties DEF Parts
  <2>3. PICK all : all = Read(Segments(text))
    OBVIOUS
  <2>4. all.records = a.records \o b.records /\ all.rejected = a.rejected + b.rejected
    <3>1. all = [records |-> a.records \o b.records, rejected |-> a.rejected + b.rejected]
      BY <1>7, <2>3
    <3> QED BY <3>1
  <2>5. c = Read(<<Trailing(text)>>)
    BY <1>4, <1>6
  <2>6. Gives(whole, 0, text)
    <3>1. 0 \in 0 .. Len(text)
      BY <2>2
    <3> QED BY <1>9, <2>1, <3>1, ReadOnGives
  <2>7. /\ whole.records = all.records \o c.records
        /\ whole.rejected = all.rejected + c.rejected
        /\ whole.offset = 0 + Len(text)
    BY <2>3, <2>5, <2>6 DEF Gives
  <2> QED BY <2>2, <2>4, <2>7
<1>12. first.records = a.records /\ first.rejected = a.rejected
  BY <1>3, <1>4
<1>13. AddUpTo(first, then, whole)
  BY <1>5, <1>10, <1>11, <1>12, ReadingsAdd
<1> QED BY <1>1, <1>8, <1>9, <1>13

LEMMA ResumedReading ==
  ASSUME NEW U, NEW text \in Seq(U), LinesFit(text), WellEncoded(text),
         NEW n \in 0 .. Len(text)
  PROVE  AddUpTo(ReadPart(SubSeq(text, 1, n)),
                 ReadOn(text, ReadPart(SubSeq(text, 1, n)).offset), ReadOn(text, 0))
<1>1. PICK first : first = ReadPart(SubSeq(text, 1, n))
  OBVIOUS
<1>2. PICK head \in Seq(U), rest \in Seq(U) :
        /\ Parts(text, head, rest) /\ Fits(rest) /\ Fits(text) /\ WellEncoded(rest)
        /\ first.records = Read(Segments(head)).records
        /\ first.rejected = Read(Segments(head)).rejected
        /\ first.offset = Len(head)
  BY <1>1, CutAnywhere DEF Parts, Leaves
<1>3. AddUpTo(first, ReadOn(text, Len(head)), ReadOn(text, 0))
  BY <1>2, ReadingOn
<1> QED BY <1>1, <1>2, <1>3

(* What was on disk when the verdict was passed is a sequence of units.     *)
LEMMA ClosedText ==
  ASSUME NEW old \in Seq(Written), kind \in Kinds, NEW saw
  PROVE  \E V : old \o Closing(saw) \in Seq(V)
<1>1. CASE Closing(saw) = <<>>
  BY <1>1, ConcatEmptySeq
<1>2. ASSUME NEW status, Closing(saw) = Terminated(AgentResult(status))
      PROVE  \E V : old \o Closing(saw) \in Seq(V)
  BY <1>2, ClosedRead
<1> QED BY <1>1, <1>2, ClosingIs

(* A worker whose daemon died has no verdict, and one under way none yet.   *)
CrashUnread == stage = "crashed" => outcome = "unread"

LEMMA NotYet == Spec => [](Undecided /\ CrashUnread)
<1>1. Init => Undecided /\ CrashUnread
  BY DEF Init, SupervisorInit, Undecided, CrashUnread
<1>2. TypeOK /\ Undecided /\ CrashUnread /\ [Next]_vars => (Undecided /\ CrashUnread)'
  <2> SUFFICES ASSUME TypeOK, Undecided, CrashUnread, [Next]_vars PROVE CrashUnread'
    BY StepIsContract
  <2>1. CASE UNCHANGED <<stage, outcome>>
    BY <2>1 DEF CrashUnread
  <2>2. CASE Crash
    BY <2>2 DEF Crash, CrashUnread
  <2> QED BY <2>1, <2>2 DEF Next, Supervise, GroupEnds, AskCancel, Complete, CompleteFails, Finalize,
                            FinalizeFails, Recover, vars, ending, CrashUnread
<1> QED BY <1>1, <1>2, TypeCorrect, PTL DEF Spec

(* Reading what is there and reading on later finds what one reading finds, *)
(* wherever the first one stopped, as long as no line is over the limit and *)
(* the transcript is UTF-8 (readEvents of every adapter, NdjsonStream).     *)
THEOREM ReadingResumes == Spec => []ResumeAgrees
<1>1. ASSUME TypeOK, Closed, Judged, Undecided,
             CrashUnread
      PROVE  ResumeAgrees
  <2> SUFFICES ASSUME outcome \in CleanExits, LinesFit(file["stdout"]),
                      WellEncoded(file["stdout"])
               PROVE  \A n \in 0 .. Len(file["stdout"]) :
                        LET first == ReadFrom(SubSeq(file["stdout"], 1, n), 0, FALSE)
                        IN AddUpTo(first, ReadFrom(file["stdout"], first.offset, TRUE),
                                   ReadFrom(file["stdout"], 0, TRUE))
    BY DEF ResumeAgrees
  <2>1. stage = "over" /\ outcome # "unread"
    BY <1>1 DEF TypeOK, CleanExits, Undecided, CrashUnread
  <2>2. PICK V : file["stdout"] \in Seq(V)
    BY <1>1, <2>1, ClosedText DEF Closed, TypeOK
  <2>3. PICK text \in Seq(V) : text = file["stdout"]
    BY <2>2
  <2> QED BY <2>3, ResumedReading DEF ReadOn, ReadPart
<1> QED BY <1>1, Witnesses, NotYet, PTL

-----------------------------------------------------------------------------
(***************************************************************************)
(* The events of a tool call.                                              *)
(***************************************************************************)

(* A set of numbers that has 0 and is bounded has a greatest.               *)
LEMMA MaxIn ==
  ASSUME NEW n \in Nat, NEW S \in SUBSET (0 .. n), 0 \in S
  PROVE  Max(S) \in S /\ \A m \in S : m <= Max(S)
<1> DEFINE Bounds == {k \in Nat : \A m \in S : m <= k}
<1>1. n \in Bounds
  OBVIOUS
<1>2. PICK k \in Bounds : \A m \in Bounds : k <= m
  <2>1. Bounds \in SUBSET Nat /\ Bounds # {}
    BY <1>1
  <2> HIDE DEF Bounds
  <2> QED BY <2>1, Claude!Least
<1>3. k \in S
  <2> SUFFICES ASSUME k \notin S PROVE FALSE
    OBVIOUS
  <2>1. k \in Nat /\ k # 0 /\ \A m \in S : m <= k /\ m # k /\ m \in Nat
    BY <1>2
  <2>2. k - 1 \in Bounds
    BY <2>1
  <2>3. k <= k - 1
    BY <1>2, <2>2
  <2> QED BY <2>1, <2>3
<1>4. \E x \in S : \A y \in S : x >= y
  BY <1>2, <1>3
<1>5. Max(S) \in S /\ \A y \in S : Max(S) >= y
  BY <1>4 DEF Max
<1> QED BY <1>5

(* The greatest is what is in the set and not exceeded.                     *)
LEMMA MaxIs ==
  ASSUME NEW S \in SUBSET Nat, NEW m \in S, \A k \in S : k <= m
  PROVE  Max(S) = m
<1>1. \E x \in S : \A y \in S : x >= y
  OBVIOUS
<1>2. PICK x \in S : x = Max(S) /\ \A y \in S : x >= y
  BY <1>1 DEF Max
<1>3. x >= m /\ x <= m
  BY <1>2
<1>4. x \in Nat /\ m \in Nat
  OBVIOUS
<1>5. x = m
  BY <1>3, <1>4
<1> QED BY <1>2, <1>5

-----------------------------------------------------------------------------
(* Where the events name a call, and the last place where they do.          *)
Mentions(events, call, n) == {j \in 1 .. n : events[j][1] = "tool" /\ events[j][3] = call}

Latest(events, call, n) == Max({0} \cup Mentions(events, call, n))

LEMMA LatestIn ==
  ASSUME NEW events, NEW call, NEW n \in Nat
  PROVE  Latest(events, call, n) \in 0 .. n
<1>1. {0} \cup Mentions(events, call, n) \in SUBSET (0 .. n)
  BY DEF Mentions
<1> QED BY <1>1, MaxIn DEF Latest

(* What is remembered of the calls under way is what the events say of them.*)
Remembered(events, pending) ==
  \A call : Named(pending, call) = NameAt(events, Latest(events, call, Len(events)))

(* Events that agree up to a place agree on what was the last mention.      *)
LEMMA SameLatest ==
  ASSUME NEW a, NEW b, NEW call, NEW n \in Nat, \A j \in 1 .. n : a[j] = b[j]
  PROVE  /\ Latest(a, call, n) = Latest(b, call, n)
         /\ NameAt(a, Latest(a, call, n)) = NameAt(b, Latest(b, call, n))
<1>1. Mentions(a, call, n) = Mentions(b, call, n)
  BY DEF Mentions
<1>2. PICK m \in 0 .. n : m = Latest(a, call, n)
  BY LatestIn
<1>3. m # 0 => a[m] = b[m]
  BY <1>2
<1> QED BY <1>1, <1>2, <1>3 DEF Latest, NameAt

OneLonger(new, old, e, n) == new[n + 1] = e /\ \A j \in 1 .. n : new[j] = old[j]

(* One more event is the last mention of its call and of no other.          *)
LEMMA OneMore ==
  ASSUME NEW old, NEW e, NEW call, NEW n \in Nat, NEW new,
         OneLonger(new, old, e, n)
  PROVE  Latest(new, call, n + 1)
           = IF e[1] = "tool" /\ e[3] = call THEN n + 1 ELSE Latest(old, call, n)
<1>1. new[n + 1] = e /\ \A j \in 1 .. n : new[j] = old[j]
  BY DEF OneLonger
<1>2. CASE e[1] = "tool" /\ e[3] = call
  <2>1. PICK S \in SUBSET Nat : S = {0} \cup Mentions(new, call, n + 1)
    <3>1. {0} \cup Mentions(new, call, n + 1) \in SUBSET Nat
      BY DEF Mentions
    <3> QED BY <3>1
  <2>2. n + 1 \in S /\ \A k \in S : k <= n + 1
    BY <1>1, <1>2, <2>1 DEF Mentions
  <2> QED BY <1>2, <2>1, <2>2, MaxIs DEF Latest
<1>3. CASE ~ (e[1] = "tool" /\ e[3] = call)
  <2>1. Mentions(new, call, n + 1) = Mentions(old, call, n)
    BY <1>1, <1>3 DEF Mentions
  <2> QED BY <1>3, <2>1 DEF Latest
<1> QED BY <1>2, <1>3

(* What came before a place, in the words above.                            *)
LEMMA PreviousIs ==
  ASSUME NEW events, NEW i \in Nat
  PROVE  Previous(events, i) = Latest(events, events[i][3], i - 1)
BY DEF Previous, Latest, Mentions

(* One event more, paired if it is the end of a call.                       *)
LEMMA StaysPaired ==
  ASSUME NEW V, NEW old \in Seq(V), NEW e \in V, NEW pending, ToolsPaired(old),
         Remembered(old, pending),
         e[1] = "tool" /\ e[2] = "completed" => e[4] = Named(pending, e[3])
  PROVE  ToolsPaired(Append(old, e))
<1>1. PICK n \in Nat : n = Len(old)
  OBVIOUS
<1>2. PICK new \in Seq(V) : new = Append(old, e)
  BY AppendProperties
<1>3. Len(new) = n + 1 /\ new[n + 1] = e /\ \A j \in 1 .. n : new[j] = old[j]
  BY <1>1, <1>2, AppendProperties
<1>4. ASSUME NEW i \in 1 .. n + 1, new[i][1] = "tool", new[i][2] = "completed"
      PROVE  new[i][4] = NameAt(new, Previous(new, i))
  <2>1. PICK m \in Nat : m = i - 1 /\ m <= n
    OBVIOUS
  <2>2. PICK call : call = new[i][3]
    OBVIOUS
  <2>3. Previous(new, i) = Latest(new, call, m)
    BY <2>1, <2>2, PreviousIs
  <2>4. NameAt(new, Latest(new, call, m)) = NameAt(old, Latest(old, call, m))
    <3>1. \A j \in 1 .. m : new[j] = old[j]
      BY <1>3, <2>1
    <3> QED BY <3>1, SameLatest
  <2>5. CASE i = n + 1
    <3>1. m = n /\ new[i] = e
      BY <1>3, <2>1, <2>5
    <3>2. e[4] = Named(pending, call)
      BY <1>4, <2>2, <3>1
    <3>3. Named(pending, call) = NameAt(old, Latest(old, call, n))
      BY <1>1 DEF Remembered
    <3> QED BY <2>3, <2>4, <3>1, <3>2, <3>3
  <2>6. CASE i # n + 1
    <3>1. i \in 1 .. n /\ new[i] = old[i]
      BY <1>3, <2>6
    <3>2. Previous(old, i) = Latest(old, call, m)
      BY <2>1, <2>2, <3>1, PreviousIs
    <3>3. old[i][4] = NameAt(old, Previous(old, i))
      BY <1>1, <1>4, <3>1 DEF ToolsPaired
    <3> QED BY <2>3, <2>4, <3>1, <3>2, <3>3
  <2> QED BY <2>5, <2>6
<1>5. DOMAIN new = 1 .. n + 1
  BY <1>3
<1> QED BY <1>2, <1>4, <1>5 DEF ToolsPaired

LEMMA StaysRemembered ==
  ASSUME NEW V, NEW old \in Seq(V), NEW e \in V, NEW pending, NEW after,
         Remembered(old, pending),
         \A call : Named(after, call) =
           IF e[1] = "tool" /\ e[3] = call
             THEN IF e[2] = "started" THEN e[4] ELSE "unknown"
             ELSE Named(pending, call)
  PROVE  Remembered(Append(old, e), after)
<1>1. PICK n \in Nat : n = Len(old)
  OBVIOUS
<1>2. PICK new \in Seq(V) : new = Append(old, e)
  BY AppendProperties
<1>3. Len(new) = n + 1 /\ new[n + 1] = e /\ \A j \in 1 .. n : new[j] = old[j]
  BY <1>1, <1>2, AppendProperties
<1>4. ASSUME NEW call PROVE Named(after, call) = NameAt(new, Latest(new, call, n + 1))
  <2>1. Latest(new, call, n + 1)
          = IF e[1] = "tool" /\ e[3] = call THEN n + 1 ELSE Latest(old, call, n)
    <3>1. OneLonger(new, old, e, n)
      BY <1>3 DEF OneLonger
    <3> QED BY <3>1, OneMore
  <2>2. CASE e[1] = "tool" /\ e[3] = call
    <3>1. n + 1 # 0
      OBVIOUS
    <3> QED BY <1>3, <2>1, <2>2, <3>1 DEF NameAt
  <2>3. CASE ~ (e[1] = "tool" /\ e[3] = call)
    <3>1. Named(after, call) = NameAt(old, Latest(old, call, n))
      BY <1>1, <2>3 DEF Remembered
    <3>2. /\ Latest(new, call, n) = Latest(old, call, n)
          /\ NameAt(new, Latest(new, call, n)) = NameAt(old, Latest(old, call, n))
      BY <1>3, SameLatest
    <3> QED BY <2>1, <2>3, <3>1, <3>2
  <2> QED BY <2>2, <2>3
<1> QED BY <1>2, <1>3, <1>4 DEF Remembered

-----------------------------------------------------------------------------
(* The translator, record by record.                                        *)
Faithful(events, pending) ==
  /\ \E V : events \in Seq(V)
  /\ ToolsPaired(events)
  /\ Remembered(events, pending)

LEMMA ClaudeBegins == Faithful(<<>>, <<>>)
<1>1. PICK none \in Seq({0}) : none = <<>>
  BY EmptySeq
<1>2. Len(none) = 0 /\ DOMAIN none = {}
  BY <1>1
<1>3. \A call : Latest(none, call, 0) = 0
  <2>1. ASSUME NEW call PROVE Latest(none, call, 0) = 0
    <3>1. Latest(none, call, 0) \in 0 .. 0
      BY LatestIn
    <3> QED BY <3>1
  <2> QED BY <2>1
<1>4. Remembered(none, none)
  BY <1>2, <1>3 DEF Remembered, Named, NameAt
<1>5. ToolsPaired(none)
  BY <1>2 DEF ToolsPaired
<1> QED BY <1>1, <1>4, <1>5 DEF Faithful

(* What one record adds to the events, and what it does to what is pending. *)
LEMMA ClaudeAdds ==
  ASSUME NEW r, NEW pending
  PROVE  \/ /\ ClaudeTranslate(r, pending).events = <<>>
            /\ ClaudePending(r, pending) = pending
         \/ \E e : /\ ClaudeTranslate(r, pending).events = <<e>>
                   /\ e[1] = "tool" /\ e[2] = "completed" => e[4] = Named(pending, e[3])
                   /\ \A call : Named(ClaudePending(r, pending), call) =
                        IF e[1] = "tool" /\ e[3] = call
                          THEN IF e[2] = "started" THEN e[4] ELSE "unknown"
                          ELSE Named(pending, call)
<1>1. CASE r[1] \in {"assistant", "user"} /\ r[2] = "tool_use"
  <2>1. PICK e : e = Tool("started", r[3], r[4])
    OBVIOUS
  <2>2. ClaudeTranslate(r, pending).events = <<e>>
    BY <1>1, <2>1 DEF ClaudeTranslate, ClaudeBlock, Translated
  <2>3. e[1] = "tool" /\ e[2] = "started" /\ e[3] = r[3] /\ e[4] = r[4]
    BY <2>1 DEF Tool
  <2>4. ClaudePending(r, pending)
          = [c \in DOMAIN pending \cup {r[3]} |-> IF c = r[3] THEN r[4] ELSE pending[c]]
    BY <1>1 DEF ClaudePending
  <2>5. \A call : Named(ClaudePending(r, pending), call)
                    = IF r[3] = call THEN r[4] ELSE Named(pending, call)
    BY <2>4 DEF Named
  <2> QED BY <2>2, <2>3, <2>5
<1>2. CASE r[1] \in {"assistant", "user"} /\ r[2] = "tool_result"
  <2>1. PICK e : e = Tool("completed", r[3], Named(pending, r[3]))
    OBVIOUS
  <2>2. ClaudeTranslate(r, pending).events = <<e>>
    BY <1>2, <2>1 DEF ClaudeTranslate, ClaudeBlock, Translated
  <2>3. e[1] = "tool" /\ e[2] = "completed" /\ e[3] = r[3] /\ e[4] = Named(pending, r[3])
    BY <2>1 DEF Tool
  <2>4. ClaudePending(r, pending) = [c \in DOMAIN pending \ {r[3]} |-> pending[c]]
    BY <1>2 DEF ClaudePending
  <2>5. \A call : Named(ClaudePending(r, pending), call)
                    = IF r[3] = call THEN "unknown" ELSE Named(pending, call)
    BY <2>4 DEF Named
  <2> QED BY <2>2, <2>3, <2>5
<1>3. CASE r[1] \in {"assistant", "user"} /\ r[2] = "text"
  <2>1. PICK e : e = Log("info")
    OBVIOUS
  <2>2. ClaudeTranslate(r, pending).events = <<e>>
    BY <1>3, <2>1 DEF ClaudeTranslate, ClaudeBlock, Translated
  <2>3. e[1] # "tool"
    BY <2>1 DEF Log
  <2>4. ClaudePending(r, pending) = pending
    BY <1>3 DEF ClaudePending
  <2> QED BY <2>2, <2>3, <2>4
<1>4. CASE ~ (r[1] \in {"assistant", "user"} /\ r[2] \in {"tool_use", "tool_result", "text"})
  <2>1. ClaudeTranslate(r, pending).events = <<>>
    BY <1>4 DEF ClaudeTranslate, ClaudeBlock, Translated, Rejected, Ignored
  <2>2. ClaudePending(r, pending) = pending
    BY <1>4 DEF ClaudePending
  <2> QED BY <2>1, <2>2
<1> QED BY <1>1, <1>2, <1>3, <1>4

LEMMA ClaudeGoesOn ==
  ASSUME NEW old, NEW pending, Faithful(old, pending), NEW r
  PROVE  Faithful(old \o ClaudeTranslate(r, pending).events, ClaudePending(r, pending))
<1>1. PICK V : old \in Seq(V)
  BY DEF Faithful
<1>2. CASE /\ ClaudeTranslate(r, pending).events = <<>>
           /\ ClaudePending(r, pending) = pending
  BY <1>1, <1>2, ConcatEmptySeq
<1>3. ASSUME NEW e, ClaudeTranslate(r, pending).events = <<e>>,
             e[1] = "tool" /\ e[2] = "completed" => e[4] = Named(pending, e[3]),
             \A call : Named(ClaudePending(r, pending), call) =
               IF e[1] = "tool" /\ e[3] = call
                 THEN IF e[2] = "started" THEN e[4] ELSE "unknown"
                 ELSE Named(pending, call)
      PROVE  Faithful(old \o ClaudeTranslate(r, pending).events, ClaudePending(r, pending))
  <2>1. PICK W : W = V \cup {e}
    OBVIOUS
  <2>2. PICK events \in Seq(W) : events = old
    BY <1>1, <2>1, SeqMonotonic
  <2>3. e \in W
    BY <2>1
  <2>4. Append(events, e) = events \o <<e>> /\ Append(events, e) \in Seq(W)
    BY <2>3, AppendIsConcat, AppendProperties
  <2>5. ToolsPaired(events) /\ Remembered(events, pending)
    BY <2>2 DEF Faithful
  <2>6. ToolsPaired(Append(events, e))
    BY <1>3, <2>3, <2>5, StaysPaired
  <2>7. Remembered(Append(events, e), ClaudePending(r, pending))
    BY <1>3, <2>3, <2>5, StaysRemembered
  <2>8. Faithful(Append(events, e), ClaudePending(r, pending))
    BY <2>4, <2>6, <2>7 DEF Faithful
  <2> QED BY <1>3, <2>2, <2>4, <2>8
<1> QED BY <1>2, <1>3, ClaudeAdds

(* However many records there are.                                          *)
LEMMA ClaudePairs ==
  ASSUME NEW R, NEW records \in Seq(R)
  PROVE  ToolsPaired(ClaudeConsume(records).events)
<1> DEFINE Good == {s \in Seq(R) : Faithful(Claude!folded(s).batch.events, Claude!folded(s).pending)}
<1>1. <<>> \in Good
  <2>1. Claude!folded(<<>>) = [batch |-> Nothing, pending |-> <<>>]
    BY Claude!FoldedEmpty
  <2>2. Nothing.events = <<>>
    BY DEF Nothing, Translated
  <2> QED BY <2>1, <2>2, ClaudeBegins, EmptySeq
<1>2. ASSUME NEW s \in Seq(R), NEW r \in R, s \in Good PROVE Append(s, r) \in Good
  <2>1. PICK seen : seen = Claude!folded(s)
    OBVIOUS
  <2>2. Claude!folded(Append(s, r)) = ClaudeStep(seen, r)
    BY <2>1, Claude!FoldedAppend
  <2>3. /\ ClaudeStep(seen, r).batch.events
             = seen.batch.events \o ClaudeTranslate(r, seen.pending).events
        /\ ClaudeStep(seen, r).pending = ClaudePending(r, seen.pending)
    BY DEF ClaudeStep, Combine
  <2>4. Faithful(seen.batch.events, seen.pending)
    BY <1>2, <2>1
  <2>5. Faithful(ClaudeStep(seen, r).batch.events, ClaudeStep(seen, r).pending)
    BY <2>3, <2>4, ClaudeGoesOn
  <2> QED BY <2>2, <2>5, AppendProperties
<1>3. records \in Good
  <2> HIDE DEF Good
  <2> QED BY <1>1, <1>2, Claude!SeqInduction
<1> QED BY <1>3 DEF Faithful, ClaudeConsume

(* A Claude tool that finishes is reported under the name it was started    *)
(* with, and a call that was never started, or has finished before, as      *)
(* unknown, however long the transcript (#pendingTools).                    *)
THEOREM ToolsArePaired == Spec => []ToolCallsPair
<1>1. ASSUME TypeOK, Closed, Undecided, CrashUnread
      PROVE  ToolCallsPair
  <2> SUFFICES ASSUME kind = "claude", outcome \in CleanExits
               PROVE  ToolsPaired(Lines(file["stdout"]).events)
    BY DEF ToolCallsPair
  <2>1. stage = "over" /\ outcome # "unread"
    BY <1>1 DEF TypeOK, CleanExits, Undecided, CrashUnread
  <2>2. PICK V : file["stdout"] \in Seq(V)
    BY <1>1, <2>1, ClosedText DEF Closed, TypeOK
  <2>3. PICK text \in Seq(V) : text = file["stdout"]
    BY <2>2
  <2>4. PICK R : R = {u.rec : u \in V}
    OBVIOUS
  <2>5. PICK recs \in Seq(R) : recs = ReadFrom(text, 0, TRUE).records
    BY <2>4, WholeRead DEF Whole
  <2>6. PICK others \in Seq(R) : others = Sorting!folded(recs).others
    BY SortType
  <2>7. Lines(text).events = ClaudeConsume(others).events
    BY <2>5, <2>6 DEF Lines, readSelectedWorkerEvents, readClaudeEvents, ReadProvider
  <2> QED BY <2>3, <2>6, <2>7, ClaudePairs
<1> QED BY <1>1, Witnesses, NotYet, PTL

=============================================================================
