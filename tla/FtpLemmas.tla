----------------------------- MODULE FtpLemmas -----------------------------
(* Facts about the streams of myFTP, for the proofs about the two programs. *)
EXTENDS FtpInv, SequenceTheorems, TLAPS

\* What recv takes and what it leaves make up the stream.
LEMMA SplitAt ==
    ASSUME NEW S, NEW s \in Seq(S), NEW k \in 0 .. Len(s)
    PROVE  /\ SubSeq(s, 1, k) \in Seq(S) /\ Drop(s, k) \in Seq(S)
           /\ Len(SubSeq(s, 1, k)) = k /\ Len(Drop(s, k)) = Len(s) - k
           /\ SubSeq(s, 1, k) \o Drop(s, k) = s
<1>1. /\ Len(s) \in Nat /\ k \in Nat /\ k <= Len(s) /\ 1 \in 1 .. Len(s) + 1
      /\ \A i \in 1 .. Len(s) : s[i] \in S
  BY LenProperties
<1>2. /\ SubSeq(s, 1, k) \in Seq(S)
      /\ Len(SubSeq(s, 1, k)) = IF 1 <= k THEN k - 1 + 1 ELSE 0
  BY <1>1, SubSeqProperties
<1>3. /\ SubSeq(s, k + 1, Len(s)) \in Seq(S)
      /\ Len(SubSeq(s, k + 1, Len(s)))
            = IF k + 1 <= Len(s) THEN Len(s) - (k + 1) + 1 ELSE 0
  <2>1. k + 1 \in Int /\ Len(s) \in Int /\ \A i \in k + 1 .. Len(s) : s[i] \in S
    BY <1>1
  <2> QED BY <2>1, SubSeqProperties
<1>4. SubSeq(s, 1, k) \o SubSeq(s, k + 1, Len(s)) = SubSeq(s, 1, Len(s))
  <2>1. k \in 1 - 1 .. Len(s) /\ Len(s) \in k .. Len(s)
    BY <1>1
  <2> QED BY <1>1, <2>1, ConcatAdjacentSubSeq
<1>5. SubSeq(s, 1, Len(s)) = s
  BY SubSeqFull
<1>6. Len(SubSeq(s, 1, k)) = k
  BY <1>1, <1>2
<1>7. Len(SubSeq(s, k + 1, Len(s))) = Len(s) - k
  BY <1>1, <1>3
<1> QED BY <1>2, <1>3, <1>4, <1>5, <1>6, <1>7 DEF Drop

\* The front of a stream can be read off it, and so can the rest.
LEMMA DropConcat ==
    ASSUME NEW S, NEW h \in Seq(S), NEW d \in Seq(S)
    PROVE  Drop(h \o d, Len(h)) = d
<1>1. /\ Len(h) \in Nat /\ Len(d) \in Nat /\ h \o d \in Seq(S)
      /\ Len(h \o d) = Len(h) + Len(d)
  BY ConcatProperties, LenProperties
<1>2. CASE d = << >>
  BY <1>1, <1>2, SubSeqEmpty, EmptySeq DEF Drop
<1>3. CASE d # << >>
  <2>1. Len(d) \in Nat \ {0}
    BY <1>3, EmptySeq
  <2>2. /\ Len(h) + 1 \in Len(h) + 1 .. Len(h) + Len(d)
        /\ Len(h) + Len(d) \in Len(h) + 1 .. Len(h) + Len(d)
    BY <1>1, <2>1
  <2>3. SubSeq(h \o d, Len(h) + 1, Len(h) + Len(d))
          = SubSeq(d, Len(h) + 1 - Len(h), Len(h) + Len(d) - Len(h))
    BY <2>2, SubSeqOfConcat2
  <2>4. Len(h) + 1 - Len(h) = 1 /\ Len(h) + Len(d) - Len(h) = Len(d)
    BY <1>1
  <2> QED BY <1>1, <2>3, <2>4, SubSeqFull DEF Drop
<1> QED BY <1>2, <1>3

\* Nothing is left when everything is read.
LEMMA DropAll ==
    ASSUME NEW S, NEW s \in Seq(S)
    PROVE  Drop(s, Len(s)) = << >> /\ Drop(s, 0) = s
<1>1. Len(s) \in Nat /\ Len(s) < Len(s) + 1 /\ 0 + 1 = 1
  BY LenProperties
<1>2. Drop(s, Len(s)) = << >>
  <2>1. Len(s) + 1 \in Int /\ Len(s) \in Int /\ Len(s) < Len(s) + 1
    BY <1>1
  <2> QED BY <2>1, SubSeqEmpty DEF Drop
<1>3. Drop(s, 0) = s
  BY <1>1, SubSeqFull DEF Drop
<1> QED BY <1>2, <1>3

\* A stream can be read in two goes.
LEMMA DropFromFront ==
    ASSUME NEW S, NEW h \in Seq(S), NEW d \in Seq(S), NEW k \in Len(h) .. Len(h) + Len(d)
    PROVE  /\ k - Len(h) \in 0 .. Len(d)
           /\ SubSeq(h \o d, Len(h) + 1, k) = SubSeq(d, 1, k - Len(h))
           /\ Drop(h \o d, k) = Drop(d, k - Len(h))
<1>1. /\ Len(h) \in Nat /\ Len(d) \in Nat /\ k \in Nat /\ h \o d \in Seq(S)
      /\ Len(h \o d) = Len(h) + Len(d) /\ k - Len(h) \in 0 .. Len(d)
  <2>1. Len(h) \in Nat /\ Len(d) \in Nat
    BY LenProperties
  <2> QED BY <2>1, ConcatProperties
<1>2. SubSeq(h \o d, Len(h) + 1, k) = SubSeq(d, 1, k - Len(h))
  <2>1. CASE k = Len(h)
    <3>1. k < Len(h) + 1 /\ k - Len(h) < 1 /\ k - Len(h) \in Int
      BY <1>1, <2>1
    <3>2. SubSeq(h \o d, Len(h) + 1, k) = << >>
      BY <1>1, <3>1, SubSeqEmpty
    <3>3. SubSeq(d, 1, k - Len(h)) = << >>
      BY <1>1, <3>1, SubSeqEmpty
    <3> QED BY <3>2, <3>3
  <2>2. CASE k # Len(h)
    <3>1. /\ Len(h) + 1 \in Len(h) + 1 .. Len(h) + Len(d)
          /\ k \in Len(h) + 1 .. Len(h) + Len(d)
          /\ Len(h) + 1 - Len(h) = 1
      BY <1>1, <2>2
    <3> QED BY <3>1, SubSeqOfConcat2
  <2> QED BY <2>1, <2>2
<1>3. Drop(h \o d, k) = Drop(d, k - Len(h))
  <2>1. CASE k = Len(h) + Len(d)
    <3>1. Drop(h \o d, k) = << >>
      BY <1>1, <2>1, DropAll
    <3>2. k - Len(h) = Len(d)
      BY <1>1, <2>1
    <3> QED BY <3>1, <3>2, DropAll
  <2>2. CASE k # Len(h) + Len(d)
    <3>1. /\ k + 1 \in Len(h) + 1 .. Len(h) + Len(d)
          /\ Len(h) + Len(d) \in Len(h) + 1 .. Len(h) + Len(d)
          /\ k + 1 - Len(h) = k - Len(h) + 1
          /\ Len(h) + Len(d) - Len(h) = Len(d)
      BY <1>1, <2>2
    <3>2. SubSeq(h \o d, k + 1, Len(h) + Len(d))
            = SubSeq(d, k + 1 - Len(h), Len(h) + Len(d) - Len(h))
      BY <3>1, SubSeqOfConcat2
    <3> QED BY <1>1, <3>1, <3>2 DEF Drop
  <2> QED BY <2>1, <2>2
<1> QED BY <1>1, <1>2, <1>3

\* The rest of a stream is one, wherever it starts.
LEMMA DropIsSeq ==
    ASSUME NEW S, NEW s \in Seq(S), NEW k \in Nat
    PROVE  Drop(s, k) \in Seq(S)
<1>1. Len(s) \in Nat /\ \A i \in 1 .. Len(s) : s[i] \in S
  BY LenProperties
<1>2. k + 1 \in Int /\ Len(s) \in Int /\ \A i \in k + 1 .. Len(s) : s[i] \in S
  BY <1>1
<1> QED BY <1>2, SubSeqProperties DEF Drop

\* The first cell of what is left.
LEMMA DropBegins ==
    ASSUME NEW S, NEW s \in Seq(S), NEW k \in Nat, k < Len(s)
    PROVE  Drop(s, k) # << >> /\ Drop(s, k)[1] = s[k + 1]
<1>1. Len(s) \in Nat /\ \A i \in 1 .. Len(s) : s[i] \in S
  BY LenProperties
<1>2. k + 1 \in Int /\ Len(s) \in Int /\ \A i \in k + 1 .. Len(s) : s[i] \in S
  BY <1>1
<1>3. /\ Drop(s, k) \in Seq(S)
      /\ Len(Drop(s, k)) = IF k + 1 <= Len(s) THEN Len(s) - (k + 1) + 1 ELSE 0
      /\ \A i \in 1 .. Len(s) - (k + 1) + 1 : Drop(s, k)[i] = s[k + 1 + i - 1]
  BY <1>2, SubSeqProperties DEF Drop
<1>4. Len(Drop(s, k)) # 0 /\ 1 \in 1 .. Len(s) - (k + 1) + 1 /\ k + 1 + 1 - 1 = k + 1
  BY <1>1, <1>3
<1> QED BY <1>3, <1>4, EmptySeq

\* What fread takes is the front of what is left of the file.
LEMMA PieceFacts ==
    ASSUME NEW S, NEW s \in Seq(S)
    PROVE  /\ Piece(s) \in Seq(S) /\ Drop(s, Len(Piece(s))) \in Seq(S)
           /\ Piece(s) \o Drop(s, Len(Piece(s))) = s
<1>1. Len(s) \in Nat /\ MAXFILELEN \in Nat
  BY LenProperties, SizeAssumption
<1>2. CASE Len(s) < MAXFILELEN
  BY <1>2, DropAll, ConcatEmptySeq, EmptySeq DEF Piece
<1>3. CASE ~(Len(s) < MAXFILELEN)
  <2>1. MAXFILELEN \in 0 .. Len(s) /\ Piece(s) = SubSeq(s, 1, MAXFILELEN)
    BY <1>1, <1>3 DEF Piece
  <2> QED BY <2>1, SplitAt
<1> QED BY <1>2, <1>3

-----------------------------------------------------------------------------
(* Headers.                                                                *)

LEMMA ReplyNames ==
    /\ ReplyTo["OPEN"] = "OPEN_REPLY" /\ ReplyTo["AUTH"] = "AUTH_REPLY"
    /\ ReplyTo["QUIT"] = "QUIT_REPLY" /\ ReplyTo["LIST"] = "LIST_REPLY"
    /\ ReplyTo["GET"] = "GET_REPLY" /\ ReplyTo["PUT"] = "PUT_REPLY"
BY DEF ReplyTo

LEMMA MessageTypes ==
    /\ Request \subseteq MessageType /\ "FILE_DATA" \in MessageType
    /\ "OPEN_REPLY" \in MessageType /\ "AUTH_REPLY" \in MessageType
    /\ "QUIT_REPLY" \in MessageType /\ "LIST_REPLY" \in MessageType
    /\ "GET_REPLY" \in MessageType /\ "PUT_REPLY" \in MessageType
<1>1. \A r \in Request : ReplyTo[r] \in MessageType
  BY DEF MessageType
<1> QED BY <1>1, ReplyNames DEF MessageType, Request

LEMMA HeaderFacts ==
    ASSUME NEW t \in MessageType, NEW st \in {0, 1}, NEW n \in Nat
    PROVE  /\ Header(t, st, n) \in Seq(HeaderCell)
           /\ Header(t, st, n) \in Seq(Cell)
           /\ Len(Header(t, st, n)) = HeaderLen /\ HeaderLen \in Nat \ {0}
           /\ \A i \in 1 .. HeaderLen :
                 Header(t, st, n)[i] = [type |-> t, status |-> st, len |-> n, pos |-> i]
<1>1. HeaderLen \in Nat \ {0}
  BY SizeAssumption
<1>2. \A i \in 1 .. HeaderLen :
        /\ Header(t, st, n)[i] = [type |-> t, status |-> st, len |-> n, pos |-> i]
        /\ Header(t, st, n)[i] \in HeaderCell
  BY DEF Header, HeaderCell
<1>3. Header(t, st, n) \in [1 .. HeaderLen -> HeaderCell]
  BY <1>2 DEF Header
<1>4. Header(t, st, n) \in Seq(HeaderCell)
  BY <1>1, <1>3, SeqDef
<1>5. Len(Header(t, st, n)) = HeaderLen
  BY <1>1, <1>3, <1>4, LenProperties
<1>6. Header(t, st, n) \in Seq(Cell)
  BY <1>4, SeqMonotonic DEF Cell
<1> QED BY <1>1, <1>2, <1>4, <1>5, <1>6

\* What a program sees of a stream that begins with a header.
LEMMA MessageFacts ==
    ASSUME NEW t \in MessageType, NEW st \in {0, 1}, NEW n \in Nat, NEW d \in Seq(Cell)
    PROVE  LET s == Header(t, st, n) \o d
           IN  /\ s \in Seq(Cell) /\ s # << >> /\ Len(s) = HeaderLen + Len(d)
               /\ \A i \in 1 .. HeaderLen :
                     s[i] = [type |-> t, status |-> st, len |-> n, pos |-> i]
               /\ s[1] \in HeaderCell /\ s[1].type = t /\ s[1].status = st /\ s[1].len = n
               /\ AnyHeader(s) /\ \A u : IsHeader(s, u) <=> u = t
               /\ Drop(s, HeaderLen) = d
               /\ Begins(s, Header(t, st, n))
<1> DEFINE s == Header(t, st, n) \o d
<1>1. /\ Header(t, st, n) \in Seq(Cell)
      /\ Len(Header(t, st, n)) = HeaderLen /\ HeaderLen \in Nat \ {0}
      /\ \A i \in 1 .. HeaderLen :
            Header(t, st, n)[i] = [type |-> t, status |-> st, len |-> n, pos |-> i]
  BY HeaderFacts
<1> DEFINE h == Header(t, st, n)
<1>s. s = h \o d
  OBVIOUS
<1> HIDE DEF h, s
<1>2. /\ s \in Seq(Cell) /\ Len(s) = HeaderLen + Len(d) /\ Len(d) \in Nat
      /\ \A i \in 1 .. HeaderLen + Len(d) : s[i] = IF i <= HeaderLen THEN h[i] ELSE d[i - HeaderLen]
  <2>1. s = h \o d /\ h \in Seq(Cell) /\ Len(h) = HeaderLen
    BY <1>1, <1>s DEF h
  <2>2. /\ h \o d \in Seq(Cell) /\ Len(h \o d) = Len(h) + Len(d)
        /\ \A i \in 1 .. Len(h) + Len(d) :
              (h \o d)[i] = IF i <= Len(h) THEN h[i] ELSE d[i - Len(h)]
    BY <2>1, ConcatProperties
  <2> QED BY <2>1, <2>2, LenProperties
<1>3. \A i \in 1 .. HeaderLen : s[i] = [type |-> t, status |-> st, len |-> n, pos |-> i]
  BY <1>1, <1>2 DEF h
<1>4. s # << >>
  BY <1>1, <1>2, EmptySeq
<1>5. s[1] = [type |-> t, status |-> st, len |-> n, pos |-> 1]
  BY <1>1, <1>3
<1>6. s[1] \in HeaderCell
  BY <1>1, <1>5 DEF HeaderCell
<1>7. Drop(s, HeaderLen) = d
  <2>1. s = h \o d /\ h \in Seq(Cell) /\ Len(h) = HeaderLen
    BY <1>1, <1>s DEF h
  <2> QED BY <2>1, DropConcat
<1>8. AnyHeader(s) /\ \A u : IsHeader(s, u) <=> u = t
  BY <1>4, <1>5, <1>6 DEF AnyHeader, IsHeader
<1>9. Begins(s, Header(t, st, n))
  BY <1>7, <1>s DEF Begins, h
<1>10. s[1].type = t /\ s[1].status = st /\ s[1].len = n
  BY <1>5
<1>11. s \in Seq(Cell) /\ Len(s) = HeaderLen + Len(d)
  BY <1>2
<1> QED BY <1>3, <1>4, <1>6, <1>7, <1>8, <1>9, <1>10, <1>11, Zenon DEF s

LEMMA MessageRest ==
    ASSUME NEW t \in MessageType, NEW st \in {0, 1}, NEW n \in Nat, NEW d \in Seq(Cell)
    PROVE  Drop(Header(t, st, n) \o d, HeaderLen) = d
BY MessageFacts

LEMMA MessageCells ==
    ASSUME NEW t \in MessageType, NEW st \in {0, 1}, NEW n \in Nat, NEW d \in Seq(Cell),
           NEW i \in 1 .. HeaderLen
    PROVE  (Header(t, st, n) \o d)[i] = [type |-> t, status |-> st, len |-> n, pos |-> i]
<1>1. /\ Header(t, st, n) \in Seq(Cell) /\ Len(Header(t, st, n)) = HeaderLen
      /\ Header(t, st, n)[i] = [type |-> t, status |-> st, len |-> n, pos |-> i]
  BY HeaderFacts
<1>2. i \in 1 .. HeaderLen + Len(d) /\ i <= HeaderLen
  BY SizeAssumption, LenProperties
<1>3. (Header(t, st, n) \o d)[i] = Header(t, st, n)[i]
  BY <1>1, <1>2, ConcatProperties
<1> QED BY <1>1, <1>3

\* A header alone, and one with a cell behind it.
LEMMA BareHeader ==
    ASSUME NEW t \in MessageType, NEW st \in {0, 1}, NEW n \in Nat
    PROVE  Header(t, st, n) = Header(t, st, n) \o << >> /\ << >> \in Seq(Cell)
BY HeaderFacts, ConcatEmptySeq, EmptySeq

LEMMA HeaderAndCell ==
    ASSUME NEW t \in MessageType, NEW st \in {0, 1}, NEW n \in Nat, NEW x \in Cell
    PROVE  /\ Append(Header(t, st, n), x) = Header(t, st, n) \o <<x>>
           /\ <<x>> \in Seq(Cell) /\ Len(<<x>>) = 1
           /\ Append(Header(t, st, n), x)[HeaderLen + 1] = x
           /\ Len(Append(Header(t, st, n), x)) = HeaderLen + 1
           /\ Drop(Append(Header(t, st, n), x), HeaderLen + 1) = << >>
<1>1. Header(t, st, n) \in Seq(Cell) /\ Len(Header(t, st, n)) = HeaderLen
  BY HeaderFacts
<1>2. /\ Append(Header(t, st, n), x) \in Seq(Cell)
      /\ Len(Append(Header(t, st, n), x)) = HeaderLen + 1
      /\ Append(Header(t, st, n), x)[HeaderLen + 1] = x
  BY <1>1, AppendProperties
<1>3. Append(Header(t, st, n), x) = Header(t, st, n) \o <<x>>
  BY <1>1, AppendIsConcat
<1>4. Drop(Append(Header(t, st, n), x), HeaderLen + 1) = << >>
  BY <1>2, DropAll
<1>5. <<x>> \in Seq(Cell) /\ Len(<<x>>) = 1
  OBVIOUS
<1> QED BY <1>2, <1>3, <1>4, <1>5

-----------------------------------------------------------------------------
(* Parts of files.                                                         *)

LEMMA CellConcat ==
    ASSUME NEW x \in Seq(Cell), NEW y \in Seq(Cell), NEW z \in Seq(Cell)
    PROVE  x \o y \in Seq(Cell) /\ (x \o y) \o z = x \o (y \o z)
BY ConcatAssociative, ConcatProperties

LEMMA CellAssoc ==
    ASSUME NEW x \in Seq(Cell), NEW y \in Seq(Cell), NEW z \in Seq(Cell)
    PROVE  (x \o y) \o z = x \o (y \o z)
BY CellConcat

LEMMA ByteCells == Seq(Byte) \subseteq Seq(Cell)
BY SeqMonotonic DEF Cell

LEMMA OfBytes ==
    ASSUME NEW s \in Seq(Cell), \A i \in 1 .. Len(s) : s[i] \in Byte
    PROVE  s \in Seq(Byte)
<1>1. PICK n \in Nat : n = Len(s)
  BY LenProperties
<1>2. s \in [1 .. n -> Byte]
  BY <1>1, LenProperties
<1> QED BY <1>2, SeqDef

\* Two streams that make up a file.
LEMMA ConcatParts ==
    ASSUME NEW x \in Seq(Cell), NEW y \in Seq(Cell), NEW file \in Seq(Byte),
           x \o y = file
    PROVE  /\ x \in Seq(Byte) /\ y \in Seq(Byte)
           /\ Len(file) = Len(x) + Len(y) /\ Len(x) \in Nat /\ Len(y) \in Nat
           /\ IsPrefix(x, file)
           /\ Len(x) = Len(file) => x = file /\ y = << >>
<1>1. Len(x) \in Nat /\ Len(y) \in Nat /\ Len(file) = Len(x) + Len(y)
  BY ConcatProperties, LenProperties
<1>2. /\ \A i \in 1 .. Len(x) : file[i] = x[i]
      /\ \A i \in 1 .. Len(y) : file[Len(x) + i] = y[i]
  <2>1. \A i \in 1 .. Len(x) + Len(y) :
          (x \o y)[i] = IF i <= Len(x) THEN x[i] ELSE y[i - Len(x)]
    BY ConcatProperties
  <2> QED BY <1>1, <2>1
<1>3. \A i \in 1 .. Len(file) : file[i] \in Byte
  BY LenProperties
<1>4. x \in Seq(Byte)
  <2>1. \A i \in 1 .. Len(x) : x[i] \in Byte
    BY <1>1, <1>2, <1>3
  <2> QED BY <2>1, OfBytes
<1>5. y \in Seq(Byte)
  <2>1. \A i \in 1 .. Len(y) : y[i] \in Byte
    BY <1>1, <1>2, <1>3
  <2> QED BY <2>1, OfBytes
<1>6. IsPrefix(x, file)
  <2>1. Len(x) \in 0 .. Len(file) /\ Len(x) <= Len(file)
    BY <1>1
  <2>2. SubSeq(file, 1, Len(x)) \in Seq(Byte) /\ Len(SubSeq(file, 1, Len(x))) = Len(x)
    BY <2>1, SplitAt
  <2>3. \A i \in 1 .. Len(x) : SubSeq(file, 1, Len(x))[i] = x[i]
    BY <1>1, <1>2, SubSeqProperties
  <2>4. x = SubSeq(file, 1, Len(x))
    BY <1>4, <2>2, <2>3, SeqEqual
  <2> QED BY <2>1, <2>4 DEF IsPrefix
<1>7. ASSUME Len(x) = Len(file) PROVE x = file /\ y = << >>
  <2>1. Len(y) = 0 BY <1>1, <1>7
  <2>2. y = << >> BY <2>1, EmptySeq
  <2> QED BY <2>2, ConcatEmptySeq
<1> QED BY <1>1, <1>4, <1>5, <1>6, <1>7

\* The front of a file, and what it lacks.
LEMMA PrefixRest ==
    ASSUME NEW file \in Seq(Byte), NEW x, IsPrefix(x, file), NEW n, Len(x) = n, n \in Nat
    PROVE  x \in Seq(Byte) /\ \E y \in Seq(Byte) : x \o y = file
<1>1. n \in 0 .. Len(file) /\ x = SubSeq(file, 1, n)
  BY LenProperties DEF IsPrefix
<1>2. /\ x \in Seq(Byte) /\ Drop(file, n) \in Seq(Byte)
      /\ x \o Drop(file, n) = file
  BY <1>1, SplitAt
<1> QED BY <1>2

\* The three parts of a file: written, under way, still to be sent.
MakeUp(w, u, y, file) ==
    w \in Seq(Cell) /\ u \in Seq(Cell) /\ y \in Seq(Cell) /\ (w \o u) \o y = file

\* A file that is written, under way and still to be sent.
LEMMA PartsOfFile ==
    ASSUME NEW w \in Seq(Cell), NEW u \in Seq(Cell), NEW y \in Seq(Cell),
           NEW file \in Seq(Byte), MakeUp(w, u, y, file)
    PROVE  /\ w \in Seq(Byte) /\ u \in Seq(Byte) /\ y \in Seq(Byte)
           /\ IsPrefix(w \o u, file)
           /\ Len(w) \in Nat /\ Len(u) \in Nat /\ Len(y) \in Nat
           /\ Len(file) = Len(w) + Len(u) + Len(y)
           /\ Len(w) = Len(file) => w = file /\ u = << >> /\ y = << >>
<1>0. (w \o u) \o y = file
  BY DEF MakeUp
<1>1. w \o u \in Seq(Cell) /\ u \o y \in Seq(Cell)
  BY CellConcat
<1>2. w \o (u \o y) = file
  BY <1>0, CellConcat, ZenonT(30)
<1>3. w \o u \in Seq(Byte) /\ y \in Seq(Byte) /\ IsPrefix(w \o u, file)
  <2> DEFINE x == w \o u
  <2>1. x \in Seq(Cell) /\ x \o y = file
    BY <1>0, <1>1
  <2> HIDE DEF x
  <2>2. x \in Seq(Byte) /\ y \in Seq(Byte) /\ IsPrefix(x, file)
    BY <2>1, ConcatParts, Zenon
  <2> QED BY <2>2 DEF x
<1>4. /\ w \in Seq(Byte) /\ u \o y \in Seq(Byte)
      /\ Len(w) \in Nat /\ Len(file) = Len(w) + Len(u \o y)
      /\ Len(w) = Len(file) => w = file /\ u \o y = << >>
  <2>1. PICK x \in Seq(Cell) : x = u \o y
    BY <1>1
  <2>2. w \o x = file
    BY <1>2, <2>1
  <2>3. w \in Seq(Byte) /\ x \in Seq(Byte) /\ Len(w) \in Nat
    BY <2>2, ConcatParts
  <2>4. Len(file) = Len(w) + Len(x)
    BY <2>2, ConcatParts
  <2>5. Len(w) = Len(file) => w = file /\ x = << >>
    BY <2>2, ConcatParts
  <2> QED BY <2>1, <2>3, <2>4, <2>5
<1>5. Len(u \o y) = Len(u) + Len(y) /\ Len(u) \in Nat /\ Len(y) \in Nat
  BY ConcatProperties, LenProperties
<1>6. u \in Seq(Byte)
  BY <1>4, ConcatParts
<1>7. u \o y = << >> => u = << >> /\ y = << >>
  BY <1>5, EmptySeq
<1>8. Len(file) = Len(w) + Len(u) + Len(y)
  BY <1>4, <1>5
<1> QED BY <1>3, <1>4, <1>5, <1>6, <1>7, <1>8

\* One more piece is written.
LEMMA OneMorePiece ==
    ASSUME NEW w \in Seq(Cell), NEW u \in Seq(Cell), NEW y \in Seq(Cell),
           NEW file \in Seq(Byte), MakeUp(w, u, y, file), NEW k \in 0 .. Len(u)
    PROVE  MakeUp(w \o SubSeq(u, 1, k), Drop(u, k), y, file)
<1>0. (w \o u) \o y = file
  BY DEF MakeUp
<1>1. SubSeq(u, 1, k) \in Seq(Cell) /\ Drop(u, k) \in Seq(Cell)
      /\ SubSeq(u, 1, k) \o Drop(u, k) = u
  BY SplitAt
<1>2. w \o SubSeq(u, 1, k) \in Seq(Cell)
  BY <1>1, ConcatProperties
<1>3. (w \o SubSeq(u, 1, k)) \o Drop(u, k) = w \o (SubSeq(u, 1, k) \o Drop(u, k))
  <2>1. PICK p \in Seq(Cell), q \in Seq(Cell) : p = SubSeq(u, 1, k) /\ q = Drop(u, k)
    BY <1>1
  <2>2. (w \o p) \o q = w \o (p \o q)
    BY CellAssoc, ZenonT(30)
  <2> QED BY <2>1, <2>2
<1>4. ((w \o SubSeq(u, 1, k)) \o Drop(u, k)) \o y = file
  BY <1>0, <1>1, <1>3
<1> QED BY <1>1, <1>2, <1>4 DEF MakeUp

-----------------------------------------------------------------------------
(* Messages as the two programs see them.                                  *)

LEMMA RequestFacts ==
    ASSUME NEW type \in Request, NEW n \in Name, NEW s, IsRequest(s, type, n)
    PROVE  /\ s \in Seq(Cell) /\ s # << >> /\ \A u : IsHeader(s, u) <=> u = type
           /\ type \in {"OPEN", "LIST", "QUIT"} => Drop(s, HeaderLen) = << >>
           /\ type \in {"AUTH", "GET", "PUT"} => Drop(s, HeaderLen + 1) = << >>
           /\ type \in {"GET", "PUT"} => s[HeaderLen + 1] = [name |-> n]
           /\ \A i \in DOMAIN s : s[i] \in HeaderCell => s[i].type = type
<1>1. type \in MessageType /\ 0 \in {0, 1} /\ 0 \in Nat
  BY MessageTypes
<1>0. /\ HeaderLen \in Nat \ {0}
      /\ \A i \in 1 .. HeaderLen :
            Header(type, 0, 0)[i] = [type |-> type, status |-> 0, len |-> 0, pos |-> i]
      /\ Len(Header(type, 0, 0)) = HeaderLen /\ Header(type, 0, 0) \in Seq(Cell)
  BY <1>1, HeaderFacts
<1>2. CASE type \in {"OPEN", "LIST", "QUIT"} /\ s = Header(type, 0, 0)
  <2>1. s = Header(type, 0, 0) \o << >> /\ << >> \in Seq(Cell)
    BY <1>1, <1>2, BareHeader, Zenon
  <2>a. PICK d \in Seq(Cell) : s = Header(type, 0, 0) \o d /\ d = << >>
    BY <2>1
  <2>2. /\ s \in Seq(Cell) /\ s # << >> /\ \A u : IsHeader(s, u) <=> u = type
        /\ Drop(s, HeaderLen) = << >>
    <3>a. d \in Seq(Cell) /\ s = Header(type, 0, 0) \o d
      BY <2>a
    <3>1. \A u : IsHeader(s, u) <=> u = type
      BY <1>1, <3>a, MessageFacts
    <3>2. s \in Seq(Cell) /\ s # << >>
      BY <1>1, <3>a, MessageFacts
    <3>3. Drop(s, HeaderLen) = d
      BY <1>1, <3>a, MessageRest
    <3> QED BY <2>a, <3>1, <3>2, <3>3
  <2>3. DOMAIN s = 1 .. HeaderLen
    BY <1>0, <1>2, LenProperties
  <2>4. \A i \in DOMAIN s : s[i].type = type
    <3>1. \A i \in 1 .. HeaderLen :
            s[i] = [type |-> type, status |-> 0, len |-> 0, pos |-> i]
      BY <1>0, <1>2
    <3> QED BY <2>3, <3>1
  <2> QED BY <1>2, <2>2, <2>4
<1>3. ASSUME NEW x \in NameCell \cup AuthCell, s = Append(Header(type, 0, 0), x),
             type \in {"AUTH", "GET", "PUT"}, type \in {"GET", "PUT"} => x = [name |-> n]
      PROVE  /\ s \in Seq(Cell) /\ s # << >> /\ \A u : IsHeader(s, u) <=> u = type
             /\ Drop(s, HeaderLen + 1) = << >>
             /\ type \in {"GET", "PUT"} => s[HeaderLen + 1] = [name |-> n]
             /\ \A i \in DOMAIN s : s[i] \in HeaderCell => s[i].type = type
  <2>0. x \in Cell
    BY <1>3 DEF Cell
  <2>1. s = Header(type, 0, 0) \o <<x>> /\ <<x>> \in Seq(Cell)
        /\ s[HeaderLen + 1] = x /\ Len(s) = HeaderLen + 1
        /\ Drop(s, HeaderLen + 1) = << >>
    BY <1>1, <1>3, <2>0, HeaderAndCell
  <2>a. PICK d \in Seq(Cell) : s = Header(type, 0, 0) \o d
    BY <2>1
  <2>2. /\ s \in Seq(Cell) /\ s # << >> /\ \A u : IsHeader(s, u) <=> u = type
        /\ \A i \in 1 .. HeaderLen :
              s[i] = [type |-> type, status |-> 0, len |-> 0, pos |-> i]
    <3>1. \A u : IsHeader(s, u) <=> u = type
      BY <1>1, <2>a, MessageFacts
    <3>2. s \in Seq(Cell) /\ s # << >>
      BY <1>1, <2>a, MessageFacts
    <3>3. \A i \in 1 .. HeaderLen :
              s[i] = [type |-> type, status |-> 0, len |-> 0, pos |-> i]
      BY <1>1, <2>a, MessageCells
    <3> QED BY <3>1, <3>2, <3>3
  <2>3. x \notin HeaderCell
    <3>1. ASSUME x \in NameCell PROVE x \notin HeaderCell
      <4>1. DOMAIN x = {"name"} BY <3>1 DEF NameCell
      <4>2. \A h \in HeaderCell : "type" \in DOMAIN h BY DEF HeaderCell
      <4> QED BY <4>1, <4>2
    <3>2. ASSUME x \in AuthCell PROVE x \notin HeaderCell
      <4>1. DOMAIN x = {"right"} BY <3>2 DEF AuthCell
      <4>2. \A h \in HeaderCell : "type" \in DOMAIN h BY DEF HeaderCell
      <4> QED BY <4>1, <4>2
    <3> QED BY <1>3, <3>1, <3>2
  <2>4. \A i \in DOMAIN s : s[i] \in HeaderCell => s[i].type = type
    <3>1. DOMAIN s = 1 .. HeaderLen + 1
      BY <2>1, <2>2, LenProperties
    <3>2. SUFFICES ASSUME NEW i \in 1 .. HeaderLen + 1, s[i] \in HeaderCell
                   PROVE  s[i].type = type
      BY <3>1
    <3>3. i # HeaderLen + 1
      BY <2>1, <2>3, <3>2
    <3>4. i \in 1 .. HeaderLen
      BY <3>3, <1>0
    <3>5. s[i] = [type |-> type, status |-> 0, len |-> 0, pos |-> i]
      BY <3>4, <2>2
    <3> QED BY <3>5
  <2> QED BY <1>3, <2>1, <2>2, <2>4
<1>4. CASE type = "AUTH" /\ \E right \in BOOLEAN :
                              s = Append(Header("AUTH", 0, 0), [right |-> right])
  <2>1. PICK right \in BOOLEAN : s = Append(Header("AUTH", 0, 0), [right |-> right])
    BY <1>4
  <2>2. [right |-> right] \in NameCell \cup AuthCell
    BY DEF AuthCell
  <2>3. s = Append(Header(type, 0, 0), [right |-> right]) /\ type = "AUTH"
    BY <1>4, <2>1
  <2> QED BY <1>3, <2>2, <2>3
<1>5. CASE type \in {"GET", "PUT"} /\ s = Append(Header(type, 0, 0), [name |-> n])
  <2>1. [name |-> n] \in NameCell \cup AuthCell
    BY DEF NameCell
  <2> QED BY <1>3, <1>5, <2>1
<1> QED BY <1>2, <1>4, <1>5 DEF IsRequest

\* A program sees at the front of s a header of that type, status and length.
Shows(s, t, st, n) ==
    /\ s \in Seq(Cell) /\ s # << >> /\ AnyHeader(s)
    /\ \A u : IsHeader(s, u) <=> u = t
    /\ s[1] \in HeaderCell /\ s[1].status = st /\ s[1].len = n

LEMMA Seen ==
    ASSUME NEW t \in MessageType, NEW st \in {0, 1}, NEW n \in Nat, NEW d \in Seq(Cell)
    PROVE  Shows(Header(t, st, n) \o d, t, st, n)
BY MessageFacts DEF Shows

LEMMA SeenBare ==
    ASSUME NEW t \in MessageType, NEW st \in {0, 1}, NEW n \in Nat
    PROVE  Shows(Header(t, st, n), t, st, n) /\ Drop(Header(t, st, n), HeaderLen) = << >>
<1>1. Header(t, st, n) = Header(t, st, n) \o << >> /\ << >> \in Seq(Cell)
  BY BareHeader, Zenon
<1>2. PICK d \in Seq(Cell) : d = << >>
  BY <1>1
<1>3. Header(t, st, n) = Header(t, st, n) \o d
  BY <1>1, <1>2
<1>4. Shows(Header(t, st, n) \o d, t, st, n)
  BY Seen
<1>5. Drop(Header(t, st, n) \o d, HeaderLen) = d
  BY MessageRest
<1> QED BY <1>2, <1>3, <1>4, <1>5

LEMMA ListingCells ==
    ASSUME NEW names \in SUBSET Name
    PROVE  /\ Listing(names) \in Seq(Cell) /\ Len(Listing(names)) = ListLen
           /\ \A i \in 1 .. ListLen : Listing(names)[i] \in ListCell
<1>1. \A i \in 1 .. ListLen : [names |-> names, piece |-> i] \in ListCell
  BY DEF ListCell
<1>2. Listing(names) \in [1 .. ListLen -> Cell] /\ ListLen \in Nat
  BY <1>1, SizeAssumption DEF Listing, Cell
<1>3. Listing(names) \in Seq(Cell)
  BY <1>2, SeqDef
<1> QED BY <1>1, <1>2, <1>3, LenProperties DEF Listing

\* The rest of a listing is not taken for a reply.
LEMMA ListIsNoHeader ==
    ASSUME NEW s, s # << >> => s[1] \in ListCell, NEW type
    PROVE  ~AnyHeader(s) /\ ~IsHeader(s, type)
<1>1. \A x \in ListCell : DOMAIN x = {"names", "piece"}
  BY DEF ListCell
<1>2. \A h \in HeaderCell : "type" \in DOMAIN h
  BY DEF HeaderCell
<1> QED BY <1>1, <1>2 DEF AnyHeader, IsHeader

LEMMA AnswerFacts ==
    ASSUME NEW s, NEW type \in {"OPEN", "AUTH", "GET", "LIST"}, IsAnswer(s, type)
    PROVE  /\ Shows(s, ReplyTo[type], IF type \in {"OPEN", "AUTH"} THEN 1 ELSE 0, 0)
           /\ type # "LIST" => Drop(s, HeaderLen) = << >>
<1> USE ReplyNames, MessageTypes
<1>1. CASE type \in {"OPEN", "AUTH"} /\ s = Header(ReplyTo[type], 1, 0)
  <2>1. ReplyTo[type] \in MessageType /\ 1 \in {0, 1} /\ 0 \in Nat
    BY <1>1
  <2>2. /\ Shows(Header(ReplyTo[type], 1, 0), ReplyTo[type], 1, 0)
        /\ Drop(Header(ReplyTo[type], 1, 0), HeaderLen) = << >>
    BY <2>1, SeenBare
  <2> QED BY <1>1, <2>2
<1>2. CASE type = "GET" /\ s = Header("GET_REPLY", 0, 0)
  <2>1. /\ Shows(Header("GET_REPLY", 0, 0), "GET_REPLY", 0, 0)
        /\ Drop(Header("GET_REPLY", 0, 0), HeaderLen) = << >>
    BY SeenBare
  <2> QED BY <1>2, <2>1
<1>3. CASE type = "LIST" /\ \E names \in SUBSET Name :
                              s = Header("LIST_REPLY", 0, 0) \o Listing(names)
  <2>1. PICK names \in SUBSET Name : s = Header("LIST_REPLY", 0, 0) \o Listing(names)
    BY <1>3
  <2>2. PICK d \in Seq(Cell) : s = Header("LIST_REPLY", 0, 0) \o d
    BY <2>1, ListingCells
  <2>3. Shows(Header("LIST_REPLY", 0, 0) \o d, "LIST_REPLY", 0, 0)
    BY Seen
  <2> QED BY <1>3, <2>2, <2>3
<1> QED BY <1>1, <1>2, <1>3 DEF IsAnswer

\* One recv takes a listing whole or leaves the end of it.
LEMMA ListingFacts ==
    ASSUME NEW s, IsAnswer(s, "LIST"), NEW k \in HeaderLen .. HeaderLen + ListLen,
           Received(s, HeaderLen + ListLen, k)
    PROVE  IF k < HeaderLen + ListLen
           THEN Drop(s, k) \in Seq(Cell) /\ Drop(s, k) # << >> /\ Drop(s, k)[1] \in ListCell
           ELSE Drop(s, k) = << >>
<1>0. /\ HeaderLen \in Nat \ {0} /\ ListLen \in Nat \ {0} /\ k \in Nat
      /\ "LIST_REPLY" \in MessageType
  BY SizeAssumption, MessageTypes
<1>1. PICK names \in SUBSET Name : s = Header("LIST_REPLY", 0, 0) \o Listing(names)
  BY DEF IsAnswer
<1>2. PICK h \in Seq(Cell) : h = Header("LIST_REPLY", 0, 0) /\ Len(h) = HeaderLen
  BY <1>0, HeaderFacts
<1>3. PICK d \in Seq(Cell) : /\ d = Listing(names) /\ Len(d) = ListLen
                            /\ \A i \in 1 .. ListLen : d[i] \in ListCell
  BY ListingCells
<1>4. /\ s \in Seq(Cell) /\ Len(s) = HeaderLen + ListLen
      /\ \A i \in 1 .. HeaderLen + ListLen : s[i] = IF i <= HeaderLen THEN h[i] ELSE d[i - HeaderLen]
  <2>1. s = h \o d
    BY <1>1, <1>2, <1>3
  <2> QED BY <1>2, <1>3, <2>1, ConcatProperties
<1>5. CASE k < HeaderLen + ListLen
  <2>1. k \in 0 .. Len(s) /\ k < Len(s)
    BY <1>0, <1>4, <1>5
  <2>2. Drop(s, k) \in Seq(Cell)
    BY <1>0, <1>4, DropIsSeq
  <2>3. Drop(s, k) # << >> /\ Drop(s, k)[1] = s[k + 1]
    BY <1>0, <1>4, <2>1, DropBegins
  <2>4. s[k + 1] \in ListCell
    <3>1. PICK j \in 1 .. HeaderLen + ListLen : j = k + 1
      BY <1>0, <1>5
    <3>2. ~(j <= HeaderLen) /\ j - HeaderLen \in 1 .. ListLen
      BY <1>0, <1>5, <3>1
    <3>3. s[j] = d[j - HeaderLen]
      BY <1>4, <3>2
    <3> QED BY <1>3, <3>1, <3>2, <3>3
  <2> QED BY <1>5, <2>2, <2>3, <2>4
<1>6. CASE ~(k < HeaderLen + ListLen)
  <2>1. k = Len(s)
    BY <1>0, <1>4, <1>6
  <2> QED BY <1>4, <1>6, <2>1, DropAll
<1> QED BY <1>5, <1>6

LEMMA DismissalFacts ==
    ASSUME NEW s, NEW type, IsDismissal(s, type)
    PROVE  /\ type \in {"AUTH", "QUIT"} /\ Shows(s, ReplyTo[type], 0, 0)
           /\ Drop(s, HeaderLen) = << >>
<1>1. /\ Shows(Header("AUTH_REPLY", 0, 0), "AUTH_REPLY", 0, 0)
      /\ Drop(Header("AUTH_REPLY", 0, 0), HeaderLen) = << >>
  BY MessageTypes, SeenBare
<1>2. /\ Shows(Header("QUIT_REPLY", 0, 0), "QUIT_REPLY", 0, 0)
      /\ Drop(Header("QUIT_REPLY", 0, 0), HeaderLen) = << >>
  BY MessageTypes, SeenBare
<1> QED BY <1>1, <1>2, ReplyNames DEF IsDismissal

-----------------------------------------------------------------------------
(* The messages of GET.                                                    *)

LEMMA FileDataFacts ==
    ASSUME NEW n \in Nat, NEW d \in Seq(Byte), Len(d) <= n
    PROVE  /\ IsFileData(Header("FILE_DATA", 0, n) \o d)
           /\ Shows(Header("FILE_DATA", 0, n) \o d, "FILE_DATA", 0, n)
           /\ Drop(Header("FILE_DATA", 0, n) \o d, HeaderLen) = d
<1>1. d \in Seq(Cell)
  BY ByteCells
<1>2. Shows(Header("FILE_DATA", 0, n) \o d, "FILE_DATA", 0, n)
  BY <1>1, MessageTypes, Seen
<1>3. Drop(Header("FILE_DATA", 0, n) \o d, HeaderLen) = d
  BY <1>1, MessageTypes, MessageRest
<1> DEFINE s == Header("FILE_DATA", 0, n) \o d
<1>4. /\ s # << >> /\ s[1] \in HeaderCell /\ s[1].len = n /\ Drop(s, HeaderLen) = d
      /\ s = Header("FILE_DATA", 0, n) \o d
  BY <1>2, <1>3 DEF Shows
<1> HIDE DEF s
<1>5. IsFileData(s)
  BY <1>4 DEF IsFileData, Begins
<1> QED BY <1>2, <1>3, <1>5 DEF s

LEMMA IsFileDataAs ==
    ASSUME NEW s, IsFileData(s)
    PROVE  /\ s[1].len \in Nat /\ Drop(s, HeaderLen) \in Seq(Byte)
           /\ Len(Drop(s, HeaderLen)) <= s[1].len
           /\ s = Header("FILE_DATA", 0, s[1].len) \o Drop(s, HeaderLen)
BY DEF IsFileData, Begins, HeaderCell

LEMMA FileReplyFacts ==
    ASSUME NEW s, IsFileData(s)
    PROVE  /\ IsFileReply(Header("GET_REPLY", 1, 0) \o s)
           /\ Shows(Header("GET_REPLY", 1, 0) \o s, "GET_REPLY", 1, 0)
           /\ Drop(Header("GET_REPLY", 1, 0) \o s, HeaderLen) = s
<1>1. s \in Seq(Cell)
  <2>1. PICK n \in Nat, d \in Seq(Byte) : s = Header("FILE_DATA", 0, n) \o d
    BY IsFileDataAs
  <2>2. d \in Seq(Cell)
    BY <2>1, ByteCells
  <2>3. Shows(Header("FILE_DATA", 0, n) \o d, "FILE_DATA", 0, n)
    BY <2>1, <2>2, MessageTypes, Seen
  <2> QED BY <2>1, <2>3 DEF Shows
<1>2. Shows(Header("GET_REPLY", 1, 0) \o s, "GET_REPLY", 1, 0)
  BY <1>1, MessageTypes, Seen
<1>3. Drop(Header("GET_REPLY", 1, 0) \o s, HeaderLen) = s
  BY <1>1, MessageTypes, MessageRest
<1>4. IsFileReply(Header("GET_REPLY", 1, 0) \o s)
  BY <1>3 DEF IsFileReply, Begins
<1> QED BY <1>2, <1>3, <1>4

LEMMA IsFileReplyAs ==
    ASSUME NEW s, IsFileReply(s)
    PROVE  /\ IsFileData(Drop(s, HeaderLen))
           /\ s = Header("GET_REPLY", 1, 0) \o Drop(s, HeaderLen)
           /\ Shows(s, "GET_REPLY", 1, 0)
<1>1. /\ IsFileData(Drop(s, HeaderLen))
      /\ s = Header("GET_REPLY", 1, 0) \o Drop(s, HeaderLen)
  BY DEF IsFileReply, Begins
<1>2. Shows(Header("GET_REPLY", 1, 0) \o Drop(s, HeaderLen), "GET_REPLY", 1, 0)
  BY <1>1, FileReplyFacts
<1> QED BY <1>1, <1>2


\* More of the file arrives.
LEMMA FileDataLonger ==
    ASSUME NEW s, IsFileData(s), NEW p \in Seq(Byte),
           Len(Drop(s, HeaderLen) \o p) <= s[1].len
    PROVE  /\ IsFileData(s \o p) /\ (s \o p)[1].len = s[1].len
           /\ Drop(s \o p, HeaderLen) = Drop(s, HeaderLen) \o p
<1>1. PICK n \in Nat, d \in Seq(Byte) :
        /\ n = s[1].len /\ d = Drop(s, HeaderLen) /\ s = Header("FILE_DATA", 0, n) \o d
  BY IsFileDataAs
<1>2. /\ d \in Seq(Cell) /\ p \in Seq(Cell) /\ Header("FILE_DATA", 0, n) \in Seq(Cell)
  BY <1>1, ByteCells, MessageTypes, HeaderFacts
<1>3. PICK e \in Seq(Byte) : e = d \o p
  BY <1>1, ConcatProperties
<1>4. s \o p = Header("FILE_DATA", 0, n) \o e
  <2>1. PICK h \in Seq(Cell) : h = Header("FILE_DATA", 0, n)
    BY <1>2
  <2>2. (h \o d) \o p = h \o (d \o p)
    BY <1>2, CellAssoc
  <2> QED BY <1>1, <1>3, <2>1, <2>2
<1>5. Len(e) <= n
  BY <1>1, <1>3
<1>6. /\ IsFileData(Header("FILE_DATA", 0, n) \o e)
      /\ Shows(Header("FILE_DATA", 0, n) \o e, "FILE_DATA", 0, n)
      /\ Drop(Header("FILE_DATA", 0, n) \o e, HeaderLen) = e
  BY <1>5, FileDataFacts
<1>7. (s \o p)[1].len = n
  BY <1>4, <1>6 DEF Shows
<1> QED BY <1>1, <1>3, <1>4, <1>6, <1>7

LEMMA FileReplyLonger ==
    ASSUME NEW s, IsFileReply(s), NEW p \in Seq(Byte),
           Len(Drop(Drop(s, HeaderLen), HeaderLen) \o p) <= Drop(s, HeaderLen)[1].len
    PROVE  /\ IsFileReply(s \o p)
           /\ Drop(s \o p, HeaderLen) = Drop(s, HeaderLen) \o p
<1>1. PICK t : t = Drop(s, HeaderLen)
  OBVIOUS
<1>2. IsFileData(t) /\ s = Header("GET_REPLY", 1, 0) \o t
  BY <1>1, IsFileReplyAs
<1>3. IsFileData(t \o p)
  BY <1>1, <1>2, FileDataLonger
<1>4. /\ IsFileReply(Header("GET_REPLY", 1, 0) \o (t \o p))
      /\ Drop(Header("GET_REPLY", 1, 0) \o (t \o p), HeaderLen) = t \o p
  BY <1>3, FileReplyFacts
<1>5. s \o p = Header("GET_REPLY", 1, 0) \o (t \o p)
  <2>1. PICK h \in Seq(Cell) : h = Header("GET_REPLY", 1, 0)
    BY MessageTypes, HeaderFacts
  <2>2. PICK n \in Nat, d \in Seq(Byte) : t = Header("FILE_DATA", 0, n) \o d
    BY <1>2, IsFileDataAs
  <2>3. Shows(Header("FILE_DATA", 0, n) \o d, "FILE_DATA", 0, n)
    BY <2>2, ByteCells, MessageTypes, Seen
  <2>4. t \in Seq(Cell) /\ p \in Seq(Cell)
    BY <2>2, <2>3, ByteCells DEF Shows
  <2>5. (h \o t) \o p = h \o (t \o p)
    BY <2>4, CellAssoc
  <2> QED BY <1>2, <2>1, <2>5
<1> QED BY <1>1, <1>4, <1>5
=============================================================================
