--------------------------- MODULE Framing_proofs ---------------------------
(***************************************************************************)
(* Theorems about the three parsers: whatever the peers send and however   *)
(* TCP cuts it into chunks, feed hands out the packets the box sent,       *)
(* drain_responses the responses of the sim and nothing else, and events() *)
(* prints the events of the daemon.  One induction for each, over the      *)
(* steps of the link; and within it, for the loops over the bytes of a     *)
(* buffer, one over the bytes.                                             *)
(***************************************************************************)
EXTENDS Framing, SequenceTheorems, SequenceFacts, TLAPS

\* The types of what the framer works on.
BoxTypes ==
    link = "box" =>
        /\ stream \in BoxStreams
        /\ got \in 0..Len(stream.bytes)
        /\ buf \in Seq(Nat)
        /\ delivered \in Seq(Seq(Nat))
        /\ splitting \in BOOLEAN

\* The inductive invariant.
FramerInv == BoxTypes /\ PacketsWhole /\ BufferIsTail

-----------------------------------------------------------------------------
(* Facts about streams *)

LEMMA StreamShape ==
    ASSUME NEW s \in BoxStreams
    PROVE  /\ PacketStream(s)
           /\ s.bytes \in Seq(Nat) /\ s.count \in Nat
           /\ s.ends \in [0..s.count -> Nat]
           /\ s.ends[0] = 0 /\ s.ends[s.count] = Len(s.bytes)
  BY FramingAssumption DEF PacketStream, Cut

\* A part of a sequence of words.
LEMMA AnyPart ==
    ASSUME NEW T, NEW s \in Seq(T), NEW a \in 0..Len(s), NEW b \in a..Len(s)
    PROVE  /\ SubSeq(s, a + 1, b) \in Seq(T)
           /\ Len(SubSeq(s, a + 1, b)) = b - a
           /\ \A i \in 1..(b - a) : SubSeq(s, a + 1, b)[i] = s[a + i]
  <1>1. \A i \in (a + 1)..b : s[i] \in T
    OBVIOUS
  <1>2. a + 1 \in Int /\ b \in Int
    OBVIOUS
  <1>3. /\ SubSeq(s, a + 1, b) \in Seq(T)
        /\ Len(SubSeq(s, a + 1, b)) = IF a + 1 <= b THEN b - (a + 1) + 1 ELSE 0
        /\ \A i \in 1..(b - (a + 1) + 1) : SubSeq(s, a + 1, b)[i] = s[(a + 1) + i - 1]
    BY <1>1, <1>2, SubSeqProperties
  <1>4. a \in Int /\ b \in Int /\ a <= b
    BY LenProperties
  <1>5. Len(SubSeq(s, a + 1, b)) = b - a
    BY <1>3, <1>4
  <1>6. ASSUME NEW i \in 1..(b - a) PROVE SubSeq(s, a + 1, b)[i] = s[a + i]
    <2>1. i \in 1..(b - (a + 1) + 1) /\ (a + 1) + i - 1 = a + i
      BY <1>4
    <2> QED
      BY <1>3, <2>1
  <1> QED
    BY <1>3, <1>5, <1>6

\* The rest of a part of a sequence is a part of it.
LEMMA AnyRestOfPart ==
    ASSUME NEW T, NEW s \in Seq(T), NEW a \in 0..Len(s), NEW b \in a..Len(s), NEW n \in 0..(b - a)
    PROVE  SubSeq(SubSeq(s, a + 1, b), n + 1, b - a) = SubSeq(s, a + n + 1, b)
  <1> DEFINE p == SubSeq(s, a + 1, b)
             l == SubSeq(p, n + 1, b - a)
             r == SubSeq(s, a + n + 1, b)
  <1>1. /\ p \in Seq(T) /\ Len(p) = b - a
        /\ \A i \in 1..(b - a) : p[i] = s[a + i]
    BY AnyPart
  <1>2. /\ l \in Seq(T) /\ Len(l) = (b - a) - n
        /\ \A i \in 1..((b - a) - n) : l[i] = p[n + i]
    <2>1. n \in 0..Len(p) /\ b - a \in n..Len(p)
      BY <1>1
    <2>2. p \in Seq(T)
      BY <1>1
    <2> QED
      BY <2>1, <2>2, AnyPart
  <1>3. /\ r \in Seq(T) /\ Len(r) = b - (a + n)
        /\ \A i \in 1..(b - (a + n)) : r[i] = s[(a + n) + i]
    <2>1. a + n \in 0..Len(s) /\ b \in (a + n)..Len(s)
      OBVIOUS
    <2> QED
      BY <2>1, AnyPart
  <1> HIDE DEF p, l, r
  <1>4. Len(l) = Len(r)
    BY <1>2, <1>3
  <1>5. ASSUME NEW i \in 1..Len(l) PROVE l[i] = r[i]
    <2>1. n + i \in 1..(b - a) /\ i \in 1..(b - (a + n))
      BY <1>2
    <2>2. l[i] = s[a + (n + i)]
      BY <1>1, <1>2, <2>1
    <2>3. r[i] = s[(a + n) + i]
      BY <1>3, <2>1
    <2> QED
      BY <2>2, <2>3
  <1>6. l = r
    BY <1>2, <1>3, <1>4, <1>5, SeqEqual
  <1> QED
    BY <1>6 DEF p, l, r

\* The beginning of a part of a sequence is a part of it.
LEMMA AnyStartOfPart ==
    ASSUME NEW T, NEW s \in Seq(T), NEW a \in 0..Len(s), NEW b \in a..Len(s), NEW n \in 0..(b - a)
    PROVE  SubSeq(SubSeq(s, a + 1, b), 1, n) = SubSeq(s, a + 1, a + n)
  <1> DEFINE p == SubSeq(s, a + 1, b)
             l == SubSeq(p, 0 + 1, n)
             r == SubSeq(s, a + 1, a + n)
  <1>0. a \in Int /\ b \in Int /\ n \in Int /\ a <= b /\ 0 <= n /\ n <= b - a
    BY LenProperties
  <1>1. /\ p \in Seq(T) /\ Len(p) = b - a
        /\ \A i \in 1..(b - a) : p[i] = s[a + i]
    BY AnyPart
  <1>2. /\ l \in Seq(T) /\ Len(l) = n - 0
        /\ \A i \in 1..(n - 0) : l[i] = p[0 + i]
    <2>1. 0 \in 0..Len(p) /\ n \in 0..Len(p)
      BY <1>0, <1>1
    <2>2. p \in Seq(T)
      BY <1>1
    <2> HIDE DEF p
    <2> QED
      BY <2>1, <2>2, AnyPart
  <1>3. /\ r \in Seq(T) /\ Len(r) = (a + n) - a
        /\ \A i \in 1..((a + n) - a) : r[i] = s[a + i]
    <2>1. a + n \in a..Len(s)
      BY <1>0, LenProperties
    <2> QED
      BY <2>1, AnyPart
  <1> HIDE DEF p, l, r
  <1>4. Len(l) = Len(r)
    BY <1>0, <1>2, <1>3
  <1>5. ASSUME NEW i \in 1..Len(l) PROVE l[i] = r[i]
    <2>1. /\ i \in 1..(n - 0) /\ i \in 1..((a + n) - a) /\ i \in 1..(b - a)
          /\ 0 + i = i
      BY <1>0, <1>2
    <2>2. l[i] = p[i]
      BY <1>2, <2>1
    <2>3. p[i] = s[a + i]
      BY <1>1, <2>1
    <2>4. r[i] = s[a + i]
      BY <1>3, <2>1
    <2> QED
      BY <2>2, <2>3, <2>4
  <1>6. l = r
    BY <1>2, <1>3, <1>4, <1>5, SeqEqual
  <1> QED
    BY <1>6 DEF p, l, r

\* Two adjacent parts of a sequence.
LEMMA JoinedParts ==
    ASSUME NEW T, NEW s \in Seq(T), NEW a \in 0..Len(s), NEW b \in a..Len(s), NEW c \in b..Len(s)
    PROVE  SubSeq(s, a + 1, b) \o SubSeq(s, b + 1, c) = SubSeq(s, a + 1, c)
  <1>1. a + 1 \in 1..(Len(s) + 1) /\ b \in (a + 1) - 1..Len(s)
    BY LenProperties
  <1> QED
    BY <1>1, ConcatAdjacentSubSeq

\* The same for the words of the box and for text.
LEMMA Part ==
    ASSUME NEW s \in Seq(Nat), NEW a \in 0..Len(s), NEW b \in a..Len(s)
    PROVE  /\ SubSeq(s, a + 1, b) \in Seq(Nat)
           /\ Len(SubSeq(s, a + 1, b)) = b - a
           /\ \A i \in 1..(b - a) : SubSeq(s, a + 1, b)[i] = s[a + i]
  BY AnyPart

LEMMA PartOfText ==
    ASSUME NEW s \in Seq(Symbol), NEW a \in 0..Len(s), NEW b \in a..Len(s)
    PROVE  /\ SubSeq(s, a + 1, b) \in Seq(Symbol)
           /\ Len(SubSeq(s, a + 1, b)) = b - a
           /\ \A i \in 1..(b - a) : SubSeq(s, a + 1, b)[i] = s[a + i]
  BY AnyPart

LEMMA RestOfPart ==
    ASSUME NEW s \in Seq(Nat), NEW a \in 0..Len(s), NEW b \in a..Len(s), NEW n \in 0..(b - a)
    PROVE  SubSeq(SubSeq(s, a + 1, b), n + 1, b - a) = SubSeq(s, a + n + 1, b)
  BY AnyRestOfPart

LEMMA RestOfText ==
    ASSUME NEW s \in Seq(Symbol), NEW a \in 0..Len(s), NEW b \in a..Len(s), NEW n \in 0..(b - a)
    PROVE  SubSeq(SubSeq(s, a + 1, b), n + 1, b - a) = SubSeq(s, a + n + 1, b)
  BY AnyRestOfPart

LEMMA StartOfPart ==
    ASSUME NEW s \in Seq(Nat), NEW a \in 0..Len(s), NEW b \in a..Len(s), NEW n \in 0..(b - a)
    PROVE  SubSeq(SubSeq(s, a + 1, b), 1, n) = SubSeq(s, a + 1, a + n)
  BY AnyStartOfPart

\* The start of a stream, of which nothing has been read.
LEMMA NothingReadYet ==
    ASSUME NEW s \in BoxStreams
    PROVE  /\ s.count \in Nat /\ s.ends[0] = 0 /\ 0 \in 0..Len(s.bytes)
           /\ SubSeq(s.bytes, 0 + 1, 0) = <<>>
           /\ s.count # 0 /\ Readable(s, 0 + 1) => 0 < s.ends[0 + 1] /\ 0 < MaxLength
  <1>1. /\ PacketStream(s) /\ s.bytes \in Seq(Nat) /\ s.count \in Nat
        /\ s.ends \in [0..s.count -> Nat] /\ s.ends[0] = 0
    BY StreamShape
  <1>2. ASSUME s.count # 0, Readable(s, 1)
        PROVE  0 < s.ends[1] /\ 0 < MaxLength
    <2>1. 1 \in 1..s.count
      BY <1>1, <1>2
    <2>2. 0 + Header <= s.ends[1]
      BY <1>1, <2>1 DEF PacketStream
    <2>3. s.ends[1] \in Nat
      BY <1>1, <2>1
    <2>4. LengthWord(s, 1) \in Header..MaxLength
      BY <1>2 DEF Readable
    <2> QED
      BY <2>2, <2>3, <2>4, FramingAssumption DEF Header
  <1>3. SubSeq(s.bytes, 1, 0) = <<>>
    BY SubSeqEmpty
  <1>4. 0 \in 0..Len(s.bytes)
    BY <1>1, LenProperties
  <1> QED
    BY <1>1, <1>2, <1>3, <1>4

-----------------------------------------------------------------------------
(* The steps of the framer *)

\* The next packet: the word the framer takes for its length is its length.
LEMMA NextPacket ==
    ASSUME FramerInv, link = "box", Len(buf) >= Header
    PROVE  LET n == Len(delivered)
           IN  /\ n + 1 \in 1..stream.count
               /\ buf[Header] = LengthWord(stream, n + 1)
               /\ Readable(stream, n + 1) =>
                      buf[Header] = stream.ends[n + 1] - stream.ends[n]
  <1> DEFINE n == Len(delivered)
             ends == stream.ends
             bytes == stream.bytes
  <1>1. /\ PacketStream(stream) /\ bytes \in Seq(Nat) /\ stream.count \in Nat
        /\ ends \in [0..stream.count -> Nat] /\ ends[stream.count] = Len(bytes)
    BY StreamShape DEF FramerInv, BoxTypes
  <1>2. /\ n \in 0..stream.count /\ got \in 0..Len(bytes) /\ ends[n] <= got
        /\ buf = SubSeq(bytes, ends[n] + 1, got)
    BY LenProperties DEF FramerInv, BoxTypes, BufferIsTail
  <1>3. ends[n] \in 0..Len(bytes) /\ got \in ends[n]..Len(bytes)
    BY <1>1, <1>2, LenProperties
  <1>4. /\ Len(buf) = got - ends[n]
        /\ \A i \in 1..(got - ends[n]) : buf[i] = bytes[ends[n] + i]
    BY <1>1, <1>2, <1>3, Part
  <1>5. n # stream.count
    <2>1. Len(bytes) \in Nat
      BY <1>1, LenProperties
    <2>2. n = stream.count => ends[n] = Len(bytes)
      BY <1>1
    <2> QED
      BY <1>2, <1>3, <1>4, <2>1, <2>2 DEF Header
  <1>6. n + 1 \in 1..stream.count /\ (n + 1) - 1 = n
    BY <1>1, <1>2, <1>5
  <1>7. Header \in 1..(got - ends[n])
    BY <1>3, <1>4, LenProperties DEF Header
  <1>8. buf[Header] = LengthWord(stream, n + 1)
    BY <1>4, <1>6, <1>7 DEF LengthWord
  <1>9. Readable(stream, n + 1) => LengthWord(stream, n + 1) = ends[n + 1] - ends[n]
    BY <1>1, <1>6 DEF PacketStream
  <1> QED
    BY <1>6, <1>8, <1>9

\* A chunk is read: the buffer grows by what has arrived.
LEMMA ReadStep ==
    ASSUME FramerInv, link = "box", Read
    PROVE  FramerInv'
  <1> DEFINE n == Len(delivered)
             ends == stream.ends
             bytes == stream.bytes
  <1>1. /\ PacketStream(stream) /\ bytes \in Seq(Nat) /\ stream.count \in Nat
        /\ ends \in [0..stream.count -> Nat] /\ delivered \in Seq(Seq(Nat))
    BY StreamShape DEF FramerInv, BoxTypes
  <1>2. /\ n \in 0..stream.count /\ got \in 0..Len(bytes) /\ ends[n] <= got
        /\ buf = SubSeq(bytes, ends[n] + 1, got)
        /\ Len(bytes) \in Nat /\ ends[n] \in Nat
    BY <1>1, LenProperties DEF FramerInv, BoxTypes, BufferIsTail
  <1>3. PICK m \in 1..(Len(bytes) - got) :
            /\ got' = got + m
            /\ buf' = buf \o SubSeq(bytes, got + 1, got + m)
    BY DEF Read, Text
  <1>4. /\ link' = link /\ stream' = stream /\ delivered' = delivered /\ splitting' = TRUE
    BY DEF Read
  <1>5. /\ ends[n] \in 0..Len(bytes) /\ got \in ends[n]..Len(bytes)
        /\ got + m \in got..Len(bytes) /\ got + m \in ends[n]..Len(bytes)
    BY <1>2
  <1>6. buf' = SubSeq(bytes, ends[n] + 1, got + m)
    <2>1. SubSeq(bytes, ends[n] + 1, got) \o SubSeq(bytes, got + 1, got + m)
            = SubSeq(bytes, ends[n] + 1, got + m)
      BY <1>1, <1>5, JoinedParts
    <2> QED
      BY <1>2, <1>3, <2>1
  <1>7. buf' \in Seq(Nat)
    BY <1>1, <1>5, <1>6, Part
  <1>8. got' \in 0..Len(bytes) /\ ends[n] <= got'
    BY <1>2, <1>3, <1>5
  <1>9. BoxTypes'
    BY <1>1, <1>4, <1>7, <1>8 DEF BoxTypes, FramerInv
  <1>10. PacketsWhole'
    BY <1>4 DEF PacketsWhole, FramerInv, LengthWord, Readable, Message
  <1>11. BufferIsTail'
    <2>1. n <= stream.count /\ ends[n] <= got'
      BY <1>1, <1>2, <1>8
    <2>2. buf' = SubSeq(bytes, ends[n] + 1, got')
      BY <1>3, <1>6
    <2> QED
      BY <1>4, <2>1, <2>2 DEF BufferIsTail
  <1> QED
    BY <1>9, <1>10, <1>11 DEF FramerInv

\* A packet is handed out: it is the next one the box sent.
LEMMA TakePacketStep ==
    ASSUME FramerInv, TakePacket
    PROVE  FramerInv'
  <1> DEFINE n == Len(delivered)
             ends == stream.ends
             bytes == stream.bytes
             packet == SubSeq(buf, 1, buf[Header])
  <1>0. link = "box" /\ WholePacket
    BY DEF TakePacket
  <1>1. /\ PacketStream(stream) /\ bytes \in Seq(Nat) /\ stream.count \in Nat
        /\ ends \in [0..stream.count -> Nat] /\ delivered \in Seq(Seq(Nat))
        /\ stream \in BoxStreams
    BY <1>0, StreamShape DEF FramerInv, BoxTypes
  <1>2. /\ n \in 0..stream.count /\ got \in 0..Len(bytes) /\ ends[n] <= got
        /\ buf = SubSeq(bytes, ends[n] + 1, got)
        /\ Len(bytes) \in Nat /\ ends[n] \in Nat
    BY <1>0, <1>1, LenProperties DEF FramerInv, BoxTypes, BufferIsTail
  <1>3. /\ n + 1 \in 1..stream.count
        /\ buf[Header] = LengthWord(stream, n + 1)
        /\ Readable(stream, n + 1) => buf[Header] = ends[n + 1] - ends[n]
    BY <1>0, NextPacket DEF WholePacket
  <1>4. Readable(stream, n + 1)
    BY <1>0, <1>3 DEF WholePacket, Readable
  <1>5. ends[n] \in 0..Len(bytes) /\ got \in ends[n]..Len(bytes) /\ ends[n + 1] \in Nat
    <2>1. ends[n] \in 0..Len(bytes) /\ got \in ends[n]..Len(bytes)
      BY <1>2
    <2>2. n + 1 \in 0..stream.count
      BY <1>1, <1>3
    <2> QED
      BY <1>1, <2>1, <2>2
  <1>6. Len(buf) = got - ends[n] /\ buf \in Seq(Nat)
    BY <1>1, <1>2, <1>5, Part
  <1>7. /\ buf[Header] \in 0..(got - ends[n])
        /\ ends[n] + buf[Header] = ends[n + 1]
        /\ ends[n + 1] <= got
    <2>1. buf[Header] = ends[n + 1] - ends[n]
      BY <1>3, <1>4
    <2>2. Header <= buf[Header] /\ buf[Header] <= got - ends[n]
      BY <1>0, <1>6, FramingAssumption DEF WholePacket
    <2>3. ends[n] \in Int /\ ends[n + 1] \in Int /\ got \in Int
      BY <1>2, <1>5
    <2> QED
      BY <2>1, <2>2, <2>3 DEF Header
  <1>8. packet = Message(stream, n + 1)
    <2>1. packet = SubSeq(bytes, ends[n] + 1, ends[n] + buf[Header])
      BY <1>1, <1>2, <1>5, <1>7, StartOfPart
    <2>2. (n + 1) - 1 = n
      BY <1>2
    <2> QED
      BY <2>1, <2>2, <1>7 DEF Message
  <1>9. buf' = SubSeq(bytes, ends[n + 1] + 1, got)
    <2>1. SubSeq(SubSeq(bytes, ends[n] + 1, got), buf[Header] + 1, got - ends[n])
            = SubSeq(bytes, ends[n] + buf[Header] + 1, got)
      BY <1>1, <1>5, <1>7, RestOfPart
    <2>2. buf' = SubSeq(buf, buf[Header] + 1, got - ends[n])
      BY <1>6 DEF TakePacket
    <2> QED
      BY <1>2, <1>7, <2>1, <2>2
  <1>10. /\ packet \in Seq(Nat)
         /\ ends[n + 1] \in 0..Len(bytes) /\ got \in ends[n + 1]..Len(bytes)
    <2>1. ends[n + 1] \in 0..Len(bytes) /\ got \in ends[n + 1]..Len(bytes)
      BY <1>2, <1>5, <1>7
    <2>2. ends[n + 1] \in ends[n]..Len(bytes)
      BY <1>0, <1>5, <1>7, <2>1
    <2>3. packet = SubSeq(bytes, ends[n] + 1, ends[n + 1])
      <3>1. (n + 1) - 1 = n
        BY <1>2
      <3> QED
        BY <1>8, <3>1 DEF Message
    <2> QED
      BY <1>1, <1>5, <2>1, <2>2, <2>3, Part
  <1>11. /\ link' = link /\ stream' = stream /\ got' = got /\ splitting' = splitting
         /\ splitting = TRUE /\ delivered' = Append(delivered, packet)
    BY <1>0 DEF TakePacket, FramerInv, BoxTypes
  <1> HIDE DEF packet
  <1>12. /\ delivered' \in Seq(Seq(Nat)) /\ Len(delivered') = n + 1
         /\ delivered'[n + 1] = packet
         /\ \A k \in 1..n : delivered'[k] = delivered[k]
    BY <1>1, <1>10, <1>11, AppendProperties
  <1>13. BoxTypes'
    <2>1. buf' \in Seq(Nat)
      BY <1>1, <1>9, <1>10, Part
    <2> QED
      BY <1>1, <1>2, <1>11, <1>12, <2>1 DEF BoxTypes
  <1>14. PacketsWhole'
    <2>1. ASSUME NEW k \in 1..(n + 1)
          PROVE  Readable(stream, k) /\ delivered'[k] = Message(stream, k)
      <3>1. CASE k = n + 1
        BY <3>1, <1>4, <1>8, <1>12
      <3>2. CASE k # n + 1
        <4>1. k \in 1..n
          BY <3>2, <1>2
        <4> QED
          BY <4>1, <1>0, <1>12 DEF FramerInv, PacketsWhole
      <3> QED
        BY <3>1, <3>2
    <2>2. \A k : Readable(stream, k)' <=> Readable(stream, k)
      BY <1>11 DEF Readable, LengthWord
    <2>3. \A k : Message(stream, k)' = Message(stream, k)
      BY <1>11 DEF Message
    <2> QED
      BY <1>3, <1>11, <1>12, <2>1, <2>2, <2>3 DEF PacketsWhole
  <1>15. BufferIsTail'
    BY <1>3, <1>7, <1>9, <1>11, <1>12 DEF BufferIsTail
  <1> QED
    BY <1>13, <1>14, <1>15 DEF FramerInv

\* The framer waits: no whole packet has arrived, or none can be told any more.
LEMMA AwaitPacketStep ==
    ASSUME FramerInv, AwaitPacket
    PROVE  FramerInv'
  <1> DEFINE n == Len(delivered)
             ends == stream.ends
             bytes == stream.bytes
  <1>0. link = "box" /\ ~WholePacket /\ splitting' = FALSE
    BY DEF AwaitPacket
  <1>1. UNCHANGED <<link, stream, got, buf, delivered>>
    BY DEF AwaitPacket
  <1>2. /\ PacketStream(stream) /\ bytes \in Seq(Nat) /\ stream.count \in Nat
        /\ ends \in [0..stream.count -> Nat] /\ delivered \in Seq(Seq(Nat))
        /\ stream \in BoxStreams
    BY <1>0, StreamShape DEF FramerInv, BoxTypes
  <1>3. /\ n \in 0..stream.count /\ got \in 0..Len(bytes) /\ ends[n] <= got
        /\ buf = SubSeq(bytes, ends[n] + 1, got)
        /\ Len(bytes) \in Nat /\ ends[n] \in Nat
    BY <1>0, <1>2, LenProperties DEF FramerInv, BoxTypes, BufferIsTail
  <1>4. Len(buf) = got - ends[n]
    <2>1. ends[n] \in 0..Len(bytes) /\ got \in ends[n]..Len(bytes)
      BY <1>3
    <2> QED
      BY <1>2, <1>3, <2>1, Part
  <1>5. ASSUME n # stream.count, Readable(stream, n + 1)
        PROVE  got < ends[n + 1] /\ Len(buf) < MaxLength
    <2>1. n + 1 \in 1..stream.count /\ (n + 1) - 1 = n /\ ends[n + 1] \in Nat
      <3>1. n + 1 \in 1..stream.count /\ (n + 1) - 1 = n
        BY <1>2, <1>3, <1>5
      <3>2. n + 1 \in 0..stream.count
        BY <3>1
      <3> QED
        BY <1>2, <3>1, <3>2
    <2>2. /\ LengthWord(stream, n + 1) = ends[n + 1] - ends[n]
          /\ LengthWord(stream, n + 1) <= MaxLength
          /\ ends[n] + Header <= ends[n + 1]
          /\ ends[n + 1] - ends[n] <= MaxLength
      <3>1. /\ LengthWord(stream, n + 1) = ends[n + 1] - ends[n]
            /\ ends[n] + Header <= ends[n + 1]
        BY <1>2, <1>5, <2>1 DEF PacketStream
      <3> QED
        BY <1>5, <3>1, FramingAssumption DEF Readable
    <2>3. got < ends[n + 1]
      <3>1. CASE Len(buf) < Header
        <4>1. /\ ends[n] \in Int /\ ends[n + 1] \in Int /\ got \in Int
              /\ ends[n] + 2 <= ends[n + 1]
          BY <1>3, <2>1, <2>2 DEF Header
        <4>2. got - ends[n] < 2
          BY <3>1, <1>4 DEF Header
        <4> QED
          BY <4>1, <4>2
      <3>2. CASE Len(buf) >= Header
        <4>1. /\ buf[Header] = LengthWord(stream, n + 1)
              /\ buf[Header] \in Header..MaxLength
          BY <1>0, <1>5, <3>2, NextPacket DEF Readable
        <4>2. ~(buf[Header] <= Len(buf))
          BY <1>0, <3>2, <4>1 DEF WholePacket
        <4>3. ends[n] \in Int /\ ends[n + 1] \in Int /\ got \in Int
          BY <1>3, <2>1
        <4>4. ~(ends[n + 1] - ends[n] <= got - ends[n])
          BY <1>4, <2>2, <4>1, <4>2
        <4> QED
          BY <4>3, <4>4
      <3>3. Len(buf) \in Int
        BY <1>3, <1>4
      <3> QED
        BY <3>1, <3>2, <3>3 DEF Header
    <2>4. ends[n] \in Int /\ ends[n + 1] \in Int /\ got \in Int /\ MaxLength \in Int
      BY <1>3, <2>1, FramingAssumption
    <2>5. Len(buf) < MaxLength
      BY <1>4, <2>2, <2>3, <2>4
    <2> QED
      BY <2>3, <2>5
  <1>6. BoxTypes'
    BY <1>0, <1>1 DEF FramerInv, BoxTypes
  <1>7. /\ \A k : Readable(stream, k)' <=> Readable(stream, k)
        /\ \A k : Message(stream, k)' = Message(stream, k)
    BY <1>1 DEF Readable, LengthWord, Message
  <1>8. PacketsWhole'
    BY <1>0, <1>1, <1>3, <1>5, <1>7 DEF FramerInv, PacketsWhole
  <1>9. BufferIsTail'
    BY <1>0, <1>1, <1>3, <1>5, <1>7 DEF FramerInv, BufferIsTail
  <1> QED
    BY <1>6, <1>8, <1>9 DEF FramerInv

-----------------------------------------------------------------------------
(* The theorems about packets *)

LEMMA FramerInit ==
    ASSUME Init
    PROVE  FramerInv
  <1>1. CASE link = "box"
    <2>1. /\ stream \in BoxStreams /\ got = 0 /\ buf = <<>> /\ delivered = <<>>
          /\ splitting = FALSE
      BY <1>1 DEF Init, Streams
    <2>2. Len(delivered) = 0 /\ <<>> \in Seq(Nat) /\ <<>> \in Seq(Seq(Nat))
      BY <2>1
    <2>3. BoxTypes
      BY <2>1, <2>2, NothingReadYet DEF BoxTypes
    <2>4. PacketsWhole
      BY <2>1, <2>2, NothingReadYet DEF PacketsWhole
    <2>5. BufferIsTail
      BY <2>1, <2>2, NothingReadYet DEF BufferIsTail
    <2> QED
      BY <2>3, <2>4, <2>5 DEF FramerInv
  <1>2. CASE link # "box"
    BY <1>2 DEF FramerInv, BoxTypes, PacketsWhole, BufferIsTail
  <1> QED
    BY <1>1, <1>2

LEMMA FramerStep ==
    ASSUME FramerInv, [Next]_vars
    PROVE  FramerInv'
  <1>1. ASSUME link # "box" PROVE FramerInv'
    <2>1. link' = link
      BY DEF Next, vars, Read, TakePacket, AwaitPacket, DrainResponses, TakeBlock,
             AwaitBlock, Reconnect, Quiet
    <2> QED
      BY <1>1, <2>1 DEF FramerInv, BoxTypes, PacketsWhole, BufferIsTail
  <1>2. ASSUME link = "box" PROVE FramerInv'
    <2>1. CASE Read
      BY <2>1, <1>2, ReadStep
    <2>2. CASE TakePacket
      BY <2>2, TakePacketStep
    <2>3. CASE AwaitPacket
      BY <2>3, AwaitPacketStep
    <2>4. CASE DrainResponses \/ TakeBlock \/ AwaitBlock
      BY <2>4, <1>2 DEF DrainResponses, TakeBlock, AwaitBlock
    <2>5. CASE Reconnect
      <3>1. /\ link' = "box" /\ stream' \in BoxStreams /\ got' = 0 /\ buf' = <<>>
            /\ delivered' = <<>> /\ splitting' = FALSE
        BY <2>5, <1>2 DEF Reconnect, Streams, FramerInv, BoxTypes
      <3>2. Len(delivered') = 0 /\ <<>> \in Seq(Nat) /\ <<>> \in Seq(Seq(Nat))
        BY <3>1
      <3>3. BoxTypes'
        BY <3>1, <3>2, NothingReadYet DEF BoxTypes
      <3>4. \A k : Readable(stream, k)' <=> Readable(stream', k)
        BY DEF Readable, LengthWord
      <3>5. PacketsWhole'
        BY <3>1, <3>2, <3>4, NothingReadYet DEF PacketsWhole
      <3>6. BufferIsTail'
        BY <3>1, <3>2, <3>4, NothingReadYet DEF BufferIsTail
      <3> QED
        BY <3>3, <3>5, <3>6 DEF FramerInv
    <2>6. CASE UNCHANGED vars
      BY <2>6 DEF vars, FramerInv, BoxTypes, PacketsWhole, BufferIsTail, Readable,
                  LengthWord, Message
    <2> QED
      BY <2>1, <2>2, <2>3, <2>4, <2>5, <2>6 DEF Next, Quiet
  <1> QED
    BY <1>1, <1>2

LEMMA FramerInvariant == Spec => []FramerInv
  <1>1. Init => FramerInv
    BY FramerInit
  <1>2. FramerInv /\ [Next]_vars => FramerInv'
    BY FramerStep
  <1> QED
    BY <1>1, <1>2, PTL DEF Spec

\* Whatever the box sends and however it arrives, the packets handed out are those the
\* box sent, in order and unchanged, and none that has wholly arrived is held back.
THEOREM PacketsAreWhole == Spec => []PacketsWhole
  <1>1. FramerInv => PacketsWhole
    BY DEF FramerInv
  <1> QED
    BY <1>1, FramerInvariant, PTL

\* Whatever the box sends and however it arrives, the framer holds what has arrived since
\* the last packet it handed out, less than a packet while the lengths can be read.
THEOREM BufferIsTheTail == Spec => []BufferIsTail
  <1>1. FramerInv => BufferIsTail
    BY DEF FramerInv
  <1> QED
    BY <1>1, FramerInvariant, PTL

-----------------------------------------------------------------------------
(* Streams of text, and of responses *)

\* What the messages say that are whole in the first b bytes of s.
Said(s, b, d) == \E k \in 0..s.count : Arrived(s, k, b) /\ d = s.meant[k]

\* A stream of text and the ends of its messages.
LEMMA TextShape ==
    ASSUME NEW s, TextStream(s)
    PROVE  /\ s.bytes \in Seq(Symbol) /\ Len(s.bytes) \in Nat
           /\ s.count \in Nat /\ s.ends \in [0..s.count -> Nat]
           /\ s.ends[0] = 0 /\ s.ends[s.count] = Len(s.bytes)
           /\ \A j, k \in 0..s.count : j < k => s.ends[j] < s.ends[k]
           /\ s.meant[0] = <<>>
  BY LenProperties DEF TextStream, Cut

LEMMA TextOrder ==
    ASSUME NEW s, TextStream(s), NEW j \in 0..s.count, NEW k \in 0..s.count
    PROVE  /\ j \in Nat /\ k \in Nat /\ s.ends[j] \in Nat /\ s.ends[k] \in Nat
           /\ j < k <=> s.ends[j] < s.ends[k]
           /\ j = k <=> s.ends[j] = s.ends[k]
  <1>1. s.count \in Nat /\ s.ends \in [0..s.count -> Nat]
    BY TextShape
  <1>2. /\ j \in Nat /\ k \in Nat /\ s.ends[j] \in Nat /\ s.ends[k] \in Nat
    BY <1>1
  <1>3. /\ j < k => s.ends[j] < s.ends[k]
        /\ k < j => s.ends[k] < s.ends[j]
    BY TextShape
  <1> QED
    BY <1>2, <1>3

LEMMA TextEnd ==
    ASSUME NEW s, TextStream(s), NEW k \in 0..s.count
    PROVE  /\ s.count \in Nat /\ k \in Nat /\ k <= s.count
           /\ s.ends[k] \in Nat /\ s.ends[k] <= Len(s.bytes) /\ Len(s.bytes) \in Nat
           /\ k < s.count => /\ k + 1 \in 0..s.count /\ k + 1 \in 1..s.count
                             /\ (k + 1) - 1 = k
                             /\ s.ends[k + 1] \in Nat /\ s.ends[k] < s.ends[k + 1]
  <1>1. /\ s.count \in Nat /\ s.count \in 0..s.count /\ k \in Nat /\ k <= s.count
        /\ s.ends[s.count] = Len(s.bytes) /\ Len(s.bytes) \in Nat
    BY TextShape
  <1>2. s.ends[k] \in Nat /\ s.ends[k] <= Len(s.bytes)
    BY <1>1, TextOrder
  <1>3. ASSUME k < s.count
        PROVE  /\ k + 1 \in 0..s.count /\ k + 1 \in 1..s.count /\ (k + 1) - 1 = k
               /\ s.ends[k + 1] \in Nat /\ s.ends[k] < s.ends[k + 1]
    <2>1. k + 1 \in 0..s.count /\ k + 1 \in 1..s.count /\ (k + 1) - 1 = k /\ k < k + 1
      BY <1>1, <1>3
    <2> QED
      BY <2>1, TextOrder
  <1> QED
    BY <1>1, <1>2, <1>3

LEMMA SimShape ==
    ASSUME NEW s \in SimStreams
    PROVE  /\ TextStream(s) /\ Nested(s) /\ ResponseStream(s)
           /\ s.bytes \in Seq(Symbol) /\ Len(s.bytes) \in Nat
           /\ s.text \in [0..Len(s.bytes) -> {"plain", "quoted", "escaped"}]
           /\ s.depth \in [0..Len(s.bytes) -> Int]
           /\ s.text[0] = "plain" /\ s.depth[0] = 0
  BY FramingAssumption, TextShape DEF ResponseStream, Nested

\* A message whose end is not one of a response says nothing; another says it.
LEMMA SilentEnd ==
    ASSUME NEW s \in SimStreams, NEW k \in 1..s.count,
           \A j \in 1..s.ends[k] : ~Response(s, j, s.ends[k])
    PROVE  s.meant[k] = s.meant[k - 1]
  BY SimShape DEF ResponseStream

LEMMA ResponseEnd ==
    ASSUME NEW s \in SimStreams, NEW j \in 1..Len(s.bytes), NEW i \in 1..Len(s.bytes),
           Response(s, j, i)
    PROVE  \E k \in 1..s.count :
              s.ends[k] = i /\ s.meant[k] = Append(s.meant[k - 1], SubSeq(s.bytes, j, i))
  BY SimShape DEF ResponseStream

\* An object has one beginning.
LEMMA OneObject ==
    ASSUME NEW s \in SimStreams, NEW i, NEW j, NEW m, Object(s, j, i), Object(s, m, i)
    PROVE  j = m
  <1>1. /\ j \in Nat /\ m \in Nat /\ i \in Nat /\ j < i /\ m < i
        /\ s.depth[j - 1] = 0 /\ \A n \in j..(i - 1) : s.depth[n] > 0
        /\ s.depth[m - 1] = 0 /\ \A n \in m..(i - 1) : s.depth[n] > 0
    BY SimShape DEF Object
  <1>2. ~(j < m)
    <2> SUFFICES ASSUME j < m PROVE FALSE
      OBVIOUS
    <2>1. m - 1 \in j..(i - 1)
      BY <1>1
    <2> QED
      BY <1>1, <2>1
  <1>3. ~(m < j)
    <2> SUFFICES ASSUME m < j PROVE FALSE
      OBVIOUS
    <2>1. j - 1 \in m..(i - 1)
      BY <1>1
    <2> QED
      BY <1>1, <2>1
  <1> QED
    BY <1>1, <1>2, <1>3

\* Where no response ends nothing is said.
LEMMA SaidOn ==
    ASSUME NEW s \in SimStreams, NEW a \in Nat, NEW b \in a..Len(s.bytes), NEW d,
           Said(s, a, d),
           \A i \in (a + 1)..b : \A j \in 1..Len(s.bytes) : ~Response(s, j, i)
    PROVE  Said(s, b, d)
  <1> DEFINE S == {n \in Nat : a + n <= b => Said(s, a + n, d)}
  <1>0. b \in Nat /\ a <= b /\ b <= Len(s.bytes)
    BY SimShape
  <1>1. 0 \in S
    OBVIOUS
  <1>2. ASSUME NEW n \in S PROVE n + 1 \in S
    <2> SUFFICES ASSUME a + (n + 1) <= b PROVE Said(s, a + (n + 1), d)
      OBVIOUS
    <2>1. n \in Nat /\ Said(s, a + n, d)
      BY <1>0, <1>2
    <2>2. PICK k \in 0..s.count : Arrived(s, k, a + n) /\ d = s.meant[k]
      BY <2>1 DEF Said
    <2>3. s.count \in Nat /\ k \in Nat /\ k <= s.count /\ s.ends[k] \in Nat /\ s.ends[k] <= a + n
      BY <2>2, SimShape, TextEnd DEF Arrived
    <2>4. CASE k < s.count /\ s.ends[k + 1] = a + (n + 1)
      <3>1. k + 1 \in 1..s.count /\ k + 1 \in 0..s.count /\ (k + 1) - 1 = k
        BY <2>4, SimShape, TextEnd
      <3>2. a + (n + 1) \in (a + 1)..b
        BY <1>0, <2>1
      <3>3. \A j \in 1..s.ends[k + 1] : ~Response(s, j, s.ends[k + 1])
        <4>1. \A j \in 1..s.ends[k + 1] : j \in 1..Len(s.bytes)
          BY <1>0, <2>1, <2>4
        <4> QED
          BY <2>4, <3>2, <4>1
      <3>4. s.meant[k + 1] = s.meant[k]
        BY <3>1, <3>3, SilentEnd
      <3>5. Arrived(s, k + 1, a + (n + 1))
        <4>1. ASSUME k + 1 < s.count PROVE a + (n + 1) < s.ends[(k + 1) + 1]
          <5>1. (k + 1) + 1 \in 0..s.count /\ k + 1 < (k + 1) + 1
            BY <2>3, <4>1
          <5>2. s.ends[k + 1] < s.ends[(k + 1) + 1]
            BY <3>1, <5>1, SimShape, TextOrder
          <5> QED
            BY <2>4, <5>2
        <4>2. s.ends[k + 1] <= a + (n + 1)
          BY <2>1, <2>4
        <4> QED
          BY <4>1, <4>2 DEF Arrived
      <3> QED
        BY <2>2, <3>1, <3>4, <3>5 DEF Said
    <2>5. CASE ~(k < s.count /\ s.ends[k + 1] = a + (n + 1))
      <3>1. k < s.count => a + (n + 1) < s.ends[k + 1]
        <4> SUFFICES ASSUME k < s.count PROVE a + (n + 1) < s.ends[k + 1]
          OBVIOUS
        <4>1. a + n < s.ends[k + 1] /\ k + 1 \in 0..s.count
          BY <2>2, <2>3 DEF Arrived
        <4>2. s.ends[k + 1] \in Nat
          BY <4>1, SimShape, TextOrder
        <4>3. s.ends[k + 1] # a + (n + 1)
          BY <2>5
        <4>4. a \in Int /\ n \in Int /\ a + (n + 1) = (a + n) + 1
          BY <2>1
        <4>5. \A e, x \in Int : x < e /\ e # x + 1 => x + 1 < e
          OBVIOUS
        <4>6. a + n \in Int /\ s.ends[k + 1] \in Int
          BY <4>2, <4>4
        <4> QED
          BY <4>1, <4>3, <4>4, <4>5, <4>6
      <3>2. s.ends[k] <= a + (n + 1)
        BY <2>1, <2>3
      <3> QED
        BY <2>2, <3>1, <3>2 DEF Said, Arrived
    <2> QED
      BY <2>4, <2>5
  <1>3. S \in SUBSET Nat
    OBVIOUS
  <1> HIDE DEF S
  <1>4. S = Nat
    BY <1>1, <1>2, <1>3, Induction
  <1>5. b - a \in S
    BY <1>0, <1>4
  <1>6. a + (b - a) = b
    BY <1>0
  <1> QED
    BY <1>0, <1>5, <1>6 DEF S

\* Where one ends it is said.
LEMMA SaidMore ==
    ASSUME NEW s \in SimStreams, NEW a \in Nat, NEW i \in (a + 1)..Len(s.bytes),
           NEW j \in 1..Len(s.bytes), NEW d, Said(s, a, d), Response(s, j, i),
           \A m \in (a + 1)..(i - 1) : \A n \in 1..Len(s.bytes) : ~Response(s, n, m)
    PROVE  Said(s, i, Append(d, SubSeq(s.bytes, j, i)))
  <1>1. i \in Nat /\ i - 1 \in a..Len(s.bytes) /\ i \in 1..Len(s.bytes)
    BY SimShape
  <1>2. Said(s, i - 1, d)
    BY <1>1, SaidOn
  <1>3. PICK k \in 0..s.count : Arrived(s, k, i - 1) /\ d = s.meant[k]
    BY <1>2 DEF Said
  <1>4. PICK m \in 1..s.count : /\ s.ends[m] = i
                                /\ s.meant[m] = Append(s.meant[m - 1], SubSeq(s.bytes, j, i))
    BY <1>1, ResponseEnd
  <1>5. /\ s.count \in Nat /\ k \in Nat /\ m \in Nat /\ m \in 0..s.count
        /\ s.ends[k] \in Nat /\ s.ends[k] <= i - 1
    <2>1. s.count \in Nat /\ k \in Nat /\ s.ends[k] \in Nat
      BY SimShape, TextEnd
    <2> QED
      BY <1>3, <2>1 DEF Arrived
  <1>6. m = k + 1
    <2>1. ~(m <= k)
      <3> SUFFICES ASSUME m <= k PROVE FALSE
        OBVIOUS
      <3>1. s.ends[m] <= s.ends[k]
        <4>1. m < k => s.ends[m] < s.ends[k]
          BY <1>5, SimShape, TextOrder
        <4>2. m = k => s.ends[m] = s.ends[k]
          OBVIOUS
        <4>3. s.ends[m] \in Nat /\ s.ends[k] \in Nat /\ m \in Nat /\ k \in Nat
          BY <1>5, SimShape, TextOrder
        <4> QED
          BY <4>1, <4>2, <4>3
      <3> QED
        BY <1>1, <1>4, <1>5, <3>1
    <2>2. k + 1 \in 0..s.count /\ i - 1 < s.ends[k + 1] /\ s.ends[k + 1] \in Nat
      <3>1. k < s.count /\ k + 1 \in 0..s.count
        <4>1. k \in Nat /\ m \in Nat /\ s.count \in Nat /\ m <= s.count /\ k < m
          BY <1>5, <2>1
        <4> QED
          BY <4>1
      <3>2. s.ends[k + 1] \in Nat
        BY <3>1, SimShape, TextOrder
      <3> QED
        BY <1>3, <3>1, <3>2 DEF Arrived
    <2>3. ~(k + 1 < m)
      <3> SUFFICES ASSUME k + 1 < m PROVE FALSE
        OBVIOUS
      <3>1. s.ends[k + 1] < s.ends[m]
        BY <1>5, <2>2, SimShape, TextOrder
      <3> QED
        BY <1>1, <1>4, <2>2, <3>1
    <2> QED
      BY <1>5, <2>1, <2>3
  <1>7. Arrived(s, m, i)
    <2>1. ASSUME m < s.count PROVE i < s.ends[m + 1]
      <3>1. m + 1 \in 0..s.count /\ m < m + 1
        BY <1>5, <2>1
      <3>2. s.ends[m] < s.ends[m + 1]
        BY <1>5, <3>1, SimShape, TextOrder
      <3> QED
        BY <1>4, <3>2
    <2> QED
      BY <1>1, <1>4, <2>1 DEF Arrived
  <1>8. m - 1 = k
    BY <1>5, <1>6
  <1> QED
    BY <1>3, <1>4, <1>5, <1>7, <1>8 DEF Said

\* Messages say no more than there are of them.
LEMMA SimMeant ==
    ASSUME NEW s \in SimStreams, NEW k \in 0..s.count
    PROVE  s.meant[k] \in Seq(Seq(Symbol)) /\ Len(s.meant[k]) <= k
  <1> DEFINE P(n) == s.meant[n] \in Seq(Seq(Symbol)) /\ Len(s.meant[n]) <= n
             S == {n \in Nat : n <= s.count => P(n)}
  <1>0. s.count \in Nat /\ k \in Nat /\ k <= s.count
    BY SimShape, TextEnd
  <1>1. 0 \in S
    <2>1. s.meant[0] = <<>> /\ Len(<<>>) = 0 /\ <<>> \in Seq(Seq(Symbol))
      BY SimShape, TextShape
    <2>2. P(0)
      BY <2>1
    <2> HIDE DEF P
    <2> QED
      BY <2>2
  <1>2. ASSUME NEW n \in S PROVE n + 1 \in S
    <2> SUFFICES ASSUME n + 1 <= s.count PROVE P(n + 1)
      OBVIOUS
    <2>1. n \in Nat /\ P(n) /\ n + 1 \in 1..s.count /\ (n + 1) - 1 = n
      BY <1>0, <1>2
    <2>2. s.ends[n + 1] \in Nat /\ s.ends[n + 1] <= Len(s.bytes) /\ n + 1 \in 0..s.count
      <3>1. n + 1 \in 0..s.count
        BY <1>0, <2>1
      <3> QED
        BY <3>1, SimShape, TextEnd
    <2>3. CASE \A j \in 1..s.ends[n + 1] : ~Response(s, j, s.ends[n + 1])
      <3>1. s.meant[n + 1] = s.meant[n]
        BY <2>1, <2>3, SilentEnd
      <3>2. Len(s.meant[n]) \in Nat
        BY <2>1
      <3> QED
        BY <2>1, <3>1, <3>2
    <2>4. CASE \E j \in 1..s.ends[n + 1] : Response(s, j, s.ends[n + 1])
      <3>1. PICK j \in 1..s.ends[n + 1] : Response(s, j, s.ends[n + 1])
        BY <2>4
      <3>2. j \in 1..Len(s.bytes) /\ s.ends[n + 1] \in 1..Len(s.bytes) /\ j < s.ends[n + 1]
        BY <2>2, <3>1 DEF Response, Object
      <3> DEFINE r == SubSeq(s.bytes, j, s.ends[n + 1])
      <3>3. PICK m \in 1..s.count : /\ s.ends[m] = s.ends[n + 1]
                                    /\ s.meant[m] = Append(s.meant[m - 1], r)
        BY <3>1, <3>2, ResponseEnd
      <3>4. m = n + 1
        <4>1. m \in 0..s.count
          BY <1>0
        <4> QED
          BY <2>2, <3>3, <4>1, SimShape, TextOrder
      <3>5. r \in Seq(Symbol)
        <4>1. /\ j \in Int /\ j - 1 \in 0..Len(s.bytes)
              /\ s.ends[n + 1] \in (j - 1)..Len(s.bytes) /\ (j - 1) + 1 = j
          BY <3>2
        <4>2. SubSeq(s.bytes, (j - 1) + 1, s.ends[n + 1]) \in Seq(Symbol)
          BY <4>1, SimShape, PartOfText
        <4> QED
          BY <4>1, <4>2
      <3> HIDE DEF r
      <3>6. s.meant[n + 1] = Append(s.meant[n], r)
        BY <2>1, <3>3, <3>4
      <3>7. /\ Append(s.meant[n], r) \in Seq(Seq(Symbol))
            /\ Len(Append(s.meant[n], r)) = Len(s.meant[n]) + 1
            /\ Len(s.meant[n]) \in Nat
        BY <2>1, <3>5
      <3> QED
        BY <2>1, <3>6, <3>7
    <2> QED
      BY <2>3, <2>4
  <1>3. S \in SUBSET Nat
    OBVIOUS
  <1> HIDE DEF S
  <1>4. S = Nat
    BY <1>1, <1>2, <1>3, Induction
  <1> QED
    BY <1>0, <1>4 DEF S

-----------------------------------------------------------------------------
(* The scanner of drain_responses *)

ScanState ==
    [depth : Int, start : Nat, consumed : Nat, inStr : BOOLEAN, esc : BOOLEAN,
     out : Seq(Seq(Symbol))]

LEMMA ScanType ==
    ASSUME NEW acc \in Seq(Symbol), NEW z \in ScanState, NEW i \in 1..Len(acc)
    PROVE  Scan(z, acc, i) \in ScanState
  <1>1. i \in Nat /\ acc[i] \in Symbol /\ Len(acc) \in Nat
    BY LenProperties
  <1>2. InString(z, acc[i]) \in ScanState
    BY DEF ScanState, InString
  <1>3. Opened(z, i) \in ScanState
    <2> DEFINE start == IF z.depth = 0 THEN i ELSE z.start
               depth == z.depth + 1
    <2>1. start \in Nat /\ depth \in Int
      BY <1>1 DEF ScanState
    <2>2. Opened(z, i) = [z EXCEPT !.depth = depth, !.start = start]
      BY DEF Opened
    <2> HIDE DEF start, depth
    <2> QED
      BY <2>1, <2>2 DEF ScanState
  <1>4. Closed(z, acc, i) \in ScanState
    <2> DEFINE object == SubSeq(acc, z.start, i)
    <2>1. CASE z.depth = 1 /\ z.start # 0
      <3>1. object \in Seq(Symbol)
        <4>1. z.start \in Nat /\ z.start >= 1
          BY <2>1 DEF ScanState
        <4>2. \A m \in z.start..i : acc[m] \in Symbol
          BY <1>1, <4>1
        <4>3. z.start \in Int /\ i \in Int
          BY <1>1, <4>1
        <4> QED
          BY <4>2, <4>3, SubSeqProperties
      <3> HIDE DEF object
      <3> DEFINE out == IF IsResponse(object) THEN Append(z.out, object) ELSE z.out
      <3>2. out \in Seq(Seq(Symbol))
        <4>1. z.out \in Seq(Seq(Symbol))
          BY DEF ScanState
        <4>2. Append(z.out, object) \in Seq(Seq(Symbol))
          BY <3>1, <4>1, AppendFacts
        <4> QED
          BY <4>1, <4>2
      <3>3. Closed(z, acc, i) = [z EXCEPT !.depth = 0, !.start = 0, !.consumed = i, !.out = out]
        BY <2>1, Zenon DEF Closed, object
      <3> HIDE DEF out
      <3>4. Closed(z, acc, i) = [depth |-> 0, start |-> 0, consumed |-> i, inStr |-> z.inStr,
                                 esc |-> z.esc, out |-> out]
        BY <3>3 DEF ScanState
      <3>5. z.inStr \in BOOLEAN /\ z.esc \in BOOLEAN
        BY DEF ScanState
      <3> QED
        BY <1>1, <3>2, <3>4, <3>5 DEF ScanState
    <2>2. CASE ~(z.depth = 1 /\ z.start # 0)
      <3>1. Closed(z, acc, i) = [z EXCEPT !.depth = @ - 1]
        BY <2>2 DEF Closed
      <3> DEFINE depth == z.depth - 1
      <3>2. depth \in Int
        BY DEF ScanState
      <3>3. Closed(z, acc, i) = [z EXCEPT !.depth = depth]
        BY <3>1
      <3> HIDE DEF depth
      <3> QED
        BY <3>2, <3>3 DEF ScanState
    <2> QED
      BY <2>1, <2>2
  <1>5. [z EXCEPT !.inStr = TRUE] \in ScanState
    BY DEF ScanState
  <1>6. Scan(z, acc, i) \in {InString(z, acc[i]), Opened(z, i), Closed(z, acc, i),
                             [z EXCEPT !.inStr = TRUE], z}
    BY Zenon DEF Scan
  <1> QED
    BY <1>2, <1>3, <1>4, <1>5, <1>6

\* The scanner after each byte, from the one before.
LEMMA ScansAre ==
    ASSUME NEW acc \in Seq(Symbol)
    PROVE  /\ Scans(acc)[0] = Scanner
           /\ \A i \in 1..Len(acc) : Scans(acc)[i] = Scan(Scans(acc)[i - 1], acc, i)
           /\ \A i \in 0..Len(acc) : Scans(acc)[i] \in ScanState
  <1> DEFINE N == Len(acc)
             step == [x \in ScanState \X (1..N) |-> Scan(x[1], acc, x[2])]
             IsScans(at) == at = [i \in 0..N |-> IF i = 0 THEN Scanner ELSE Scan(at[i - 1], acc, i)]
  <1>1. N \in Nat /\ Scanner \in ScanState
    BY LenProperties DEF Scanner, ScanState
  <1>2. step \in [ScanState \X (1..N) -> ScanState]
    BY ScanType
  <1>3. \A z \in ScanState, i \in 1..N : step[<<z, i>>] = Scan(z, acc, i)
    OBVIOUS
  <1> HIDE DEF step
  <1>4. PICK f \in [0..N -> ScanState] : Recursion(f, N, Scanner, step)
    BY <1>1, <1>2, RecursionExists
  <1>5. \A i \in 1..N : f[i] = Scan(f[i - 1], acc, i)
    <2> SUFFICES ASSUME NEW i \in 1..N PROVE f[i] = Scan(f[i - 1], acc, i)
      OBVIOUS
    <2>1. i - 1 \in 0..N
      BY <1>1
    <2> QED
      BY <1>3, <1>4, <2>1 DEF Recursion
  <1>6. IsScans(f)
    <2> DEFINE g == [i \in 0..N |-> IF i = 0 THEN Scanner ELSE Scan(f[i - 1], acc, i)]
    <2>1. ASSUME NEW i \in 0..N PROVE f[i] = g[i]
      <3>1. CASE i = 0
        BY <1>4, <3>1 DEF Recursion
      <3>2. CASE i # 0
        <4>1. i \in 1..N
          BY <1>1, <3>2
        <4> QED
          BY <1>5, <3>2, <4>1
      <3> QED
        BY <3>1, <3>2
    <2> QED
      BY <1>4, <2>1
  <1>7. Scans(acc) = CHOOSE at : IsScans(at)
    BY Zenon DEF Scans
  <1>8. IsScans(Scans(acc))
    BY <1>6, <1>7, Zenon
  <1> DEFINE h == Scans(acc)
  <1>9. /\ h[0] = Scanner /\ DOMAIN h = 0..N
        /\ \A i \in 1..N : h[i] = Scan(h[i - 1], acc, i)
    <2>1. h = [i \in 0..N |-> IF i = 0 THEN Scanner ELSE Scan(h[i - 1], acc, i)]
      BY <1>8
    <2> HIDE DEF h
    <2>2. 0 \in 0..N /\ \A i \in 1..N : i \in 0..N /\ i # 0
      BY <1>1
    <2> QED
      BY <2>1, <2>2
  <1>10. \A i \in 0..N : h[i] \in ScanState
    <2> DEFINE S == {i \in Nat : i <= N => h[i] \in ScanState}
    <2> HIDE DEF h
    <2>1. 0 \in S
      BY <1>1, <1>9
    <2>2. ASSUME NEW i \in S PROVE i + 1 \in S
      <3> SUFFICES ASSUME i + 1 <= N PROVE h[i + 1] \in ScanState
        OBVIOUS
      <3>1. i \in Nat /\ i + 1 \in 1..N /\ (i + 1) - 1 = i /\ h[i] \in ScanState
        BY <1>1
      <3>2. h[i + 1] = Scan(h[i], acc, i + 1)
        BY <1>9, <3>1
      <3> QED
        BY <3>1, <3>2, ScanType
    <2>3. S \in SUBSET Nat
      OBVIOUS
    <2> HIDE DEF S
    <2>4. S = Nat
      BY <2>1, <2>2, <2>3, Induction
    <2> QED
      BY <1>1, <2>4 DEF S
  <1> QED
    BY <1>9, <1>10

-----------------------------------------------------------------------------
(* What the scanner knows of the stream *)

\* No object of s ends at i, or after the first a bytes and within the first b.
NoEnd(s, i) == \A j \in 1..Len(s.bytes) : ~Object(s, j, i)
NoEnds(s, a, b) == \A i \in (a + 1)..b : NoEnd(s, i)

\* At the p-th byte of s the scanner knows in what string and object it is, ...
Aware(s, c, z, p) ==
    /\ z.inStr <=> s.text[p] # "plain"
    /\ z.esc <=> s.text[p] = "escaped"
    /\ z.depth = s.depth[p]
    /\ z.start # 0 <=> z.depth > 0

\* ... where the object began, if it scans from after the first c, ...
Begun(s, c, z, p) ==
    z.start # 0 =>
        /\ c + z.start \in (c + 1)..p /\ s.depth[c + z.start - 1] = 0
        /\ \A m \in (c + z.start)..p : s.depth[m] > 0

\* ... and what has been said up to the last object that has ended.
Heard(s, c, d, z, p) ==
    /\ z.consumed \in Nat /\ c + z.consumed \in c..p
    /\ s.text[c + z.consumed] = "plain" /\ s.depth[c + z.consumed] = 0
    /\ NoEnds(s, c + z.consumed, p)
    /\ Said(s, c + z.consumed, d \o z.out)

Scanned(s, c, d, z, p) == Aware(s, c, z, p) /\ Begun(s, c, z, p) /\ Heard(s, c, d, z, p)

\* The byte after the (p - 1)-th, as the sim sees it.
LEMMA NextByte ==
    ASSUME NEW s \in SimStreams, NEW p \in 1..Len(s.bytes)
    PROVE  /\ s.text[p - 1] = "escaped" => s.text[p] = "quoted"
           /\ s.text[p - 1] = "quoted" /\ s.bytes[p] = "escape" => s.text[p] = "escaped"
           /\ s.text[p - 1] = "quoted" /\ s.bytes[p] = "quote" => s.text[p] = "plain"
           /\ s.text[p - 1] = "quoted" /\ s.bytes[p] \notin {"escape", "quote"}
                => s.text[p] = "quoted"
           /\ s.text[p - 1] = "plain" /\ s.bytes[p] = "quote" => s.text[p] = "quoted"
           /\ s.text[p - 1] = "plain" /\ s.bytes[p] # "quote" => s.text[p] = "plain"
           /\ s.text[p - 1] = "plain" /\ s.bytes[p] = "{" => s.depth[p] = s.depth[p - 1] + 1
           /\ s.text[p - 1] = "plain" /\ s.bytes[p] = "}" => s.depth[p] = s.depth[p - 1] - 1
           /\ s.text[p - 1] # "plain" \/ s.bytes[p] \notin {"{", "}"}
                => s.depth[p] = s.depth[p - 1]
  <1> DEFINE t == s.text[p - 1]
             b == s.bytes[p]
             n == s.depth[p - 1]
  <1>1. /\ s.text[p] = CASE t = "escaped" -> "quoted"
                         [] t = "quoted" /\ b = "escape" -> "escaped"
                         [] t = "quoted" /\ b = "quote" -> "plain"
                         [] t = "plain" /\ b = "quote" -> "quoted"
                         [] OTHER -> t
        /\ s.depth[p] = CASE t = "plain" /\ b = "{" -> n + 1
                          [] t = "plain" /\ b = "}" -> n - 1
                          [] OTHER -> n
    BY SimShape, Zenon DEF Nested
  <1> HIDE DEF t, b, n
  <1>2. /\ t = "escaped" => s.text[p] = "quoted"
        /\ t = "quoted" /\ b = "escape" => s.text[p] = "escaped"
        /\ t = "quoted" /\ b = "quote" => s.text[p] = "plain"
        /\ t = "quoted" /\ b \notin {"escape", "quote"} => s.text[p] = "quoted"
        /\ t = "plain" /\ b = "quote" => s.text[p] = "quoted"
        /\ t = "plain" /\ b # "quote" => s.text[p] = "plain"
    BY <1>1
  <1>3. /\ t = "plain" /\ b = "{" => s.depth[p] = n + 1
        /\ t = "plain" /\ b = "}" => s.depth[p] = n - 1
        /\ t # "plain" \/ b \notin {"{", "}"} => s.depth[p] = n
    BY <1>1
  <1> QED
    BY <1>2, <1>3 DEF t, b, n

\* An object ends only where the depth falls to 0.
LEMMA EndsAtZero ==
    ASSUME NEW s \in SimStreams, NEW i \in Nat, s.depth[i] # 0 \/ ~(s.depth[i - 1] > 0)
    PROVE  NoEnd(s, i)
  <1> SUFFICES ASSUME NEW j \in 1..Len(s.bytes), Object(s, j, i) PROVE FALSE
    BY DEF NoEnd
  <1>1. s.depth[i] = 0 /\ \A m \in j..(i - 1) : s.depth[m] > 0
    BY DEF Object
  <1>2. i - 1 \in j..(i - 1)
    BY SimShape DEF Object
  <1> QED
    BY <1>1, <1>2

\* A byte at which nothing begins or ends: the scanner keeps its counts.
LEMMA ScanPast ==
    ASSUME NEW s \in SimStreams, NEW c \in Nat, NEW d, NEW p \in (c + 1)..Len(s.bytes),
           NEW z \in ScanState, Scanned(s, c, d, z, p - 1),
           NEW y \in ScanState, Aware(s, c, y, p),
           y.start = z.start, y.consumed = z.consumed, y.out = z.out,
           NoEnd(s, p)
    PROVE  Scanned(s, c, d, y, p)
  <1>1. p \in Nat /\ p \in 1..Len(s.bytes) /\ p - 1 \in Nat /\ c <= p - 1
    BY SimShape
  <1>2. Begun(s, c, y, p)
    <2> SUFFICES ASSUME y.start # 0
                 PROVE  /\ c + y.start \in (c + 1)..p /\ s.depth[c + y.start - 1] = 0
                        /\ \A m \in (c + y.start)..p : s.depth[m] > 0
      BY DEF Begun
    <2>1. /\ c + y.start \in (c + 1)..(p - 1) /\ s.depth[c + y.start - 1] = 0
          /\ \A m \in (c + y.start)..(p - 1) : s.depth[m] > 0
      BY DEF Scanned, Begun
    <2>2. s.depth[p] > 0
      BY DEF Aware
    <2>3. y.start \in Nat
      BY DEF ScanState
    <2>4. \A m \in (c + y.start)..p : m = p \/ m \in (c + y.start)..(p - 1)
      BY <1>1, <2>3
    <2>5. c + y.start \in (c + 1)..p
      BY <1>1, <2>1
    <2> QED
      BY <2>1, <2>2, <2>4, <2>5
  <1>3. Heard(s, c, d, y, p)
    <2> DEFINE a == c + z.consumed
    <2>1. /\ z.consumed \in Nat /\ a \in c..(p - 1) /\ a \in Nat
          /\ s.text[a] = "plain" /\ s.depth[a] = 0
          /\ NoEnds(s, a, p - 1) /\ Said(s, a, d \o z.out)
      BY DEF Scanned, Heard
    <2> HIDE DEF a
    <2>2. NoEnds(s, a, p)
      <3>1. \A m \in (a + 1)..p : m = p \/ m \in (a + 1)..(p - 1)
        BY <1>1, <2>1
      <3> QED
        BY <2>1, <3>1 DEF NoEnds
    <2>3. a \in c..p
      BY <1>1, <2>1
    <2> QED
      BY <2>1, <2>2, <2>3 DEF Heard, a
  <1> QED
    BY <1>2, <1>3 DEF Scanned

LEMMA AppendToConcat ==
    ASSUME NEW d \in Seq(Seq(Symbol)), NEW t \in Seq(Seq(Symbol)), NEW x \in Seq(Symbol)
    PROVE  d \o Append(t, x) = Append(d \o t, x)
  <1> DEFINE X == Seq(Symbol)
  <1>0. d \in Seq(X) /\ t \in Seq(X) /\ x \in X
    OBVIOUS
  <1> HIDE DEF X
  <1>1. d \o t \in Seq(X) /\ <<x>> \in Seq(X)
    BY <1>0
  <1>2. Append(t, x) = t \o <<x>>
    BY <1>0, AppendIsConcat
  <1>3. Append(d \o t, x) = (d \o t) \o <<x>>
    BY <1>0, <1>1, AppendIsConcat
  <1>4. (d \o t) \o <<x>> = d \o (t \o <<x>>)
    BY <1>0, <1>1, ConcatAssociative
  <1> QED
    BY <1>2, <1>3, <1>4

\* A brace closes the object begun at j: the scanner has heard of it.
LEMMA ScanObject ==
    ASSUME NEW s \in SimStreams, NEW c \in Nat, NEW d \in Seq(Seq(Symbol)),
           NEW p \in (c + 1)..Len(s.bytes),
           NEW z \in ScanState, Scanned(s, c, d, z, p - 1), z.start # 0,
           s.text[p] = "plain", s.depth[p] = 0,
           NEW out \in Seq(Seq(Symbol)),
           out = IF IsResponse(SubSeq(s.bytes, c + z.start, p))
                 THEN Append(z.out, SubSeq(s.bytes, c + z.start, p)) ELSE z.out
    PROVE  Said(s, p, d \o out) /\ NoEnds(s, p, p)
  <1> DEFINE j == c + z.start
             a == c + z.consumed
             object == SubSeq(s.bytes, j, p)
             e == d \o z.out
  <1>1. /\ p \in Nat /\ p \in 1..Len(s.bytes) /\ p - 1 \in Nat /\ p \in (a + 1)..Len(s.bytes)
        /\ Len(s.bytes) \in Nat /\ a \in Nat /\ p \in a..Len(s.bytes)
    <2>1. z.consumed \in Nat /\ a \in c..(p - 1)
      BY DEF Scanned, Heard
    <2>2. Len(s.bytes) \in Nat
      BY SimShape
    <2>3. p \in Nat /\ c + 1 <= p /\ p <= Len(s.bytes)
      BY <2>2
    <2> HIDE DEF a
    <2>4. a \in Nat /\ a <= p - 1
      BY <2>1, <2>3
    <2> QED
      BY <2>2, <2>3, <2>4
  <1>2. NoEnds(s, a, p - 1) /\ Said(s, a, e)
    BY DEF Scanned, Heard
  <1>3. /\ j \in (c + 1)..(p - 1) /\ s.depth[j - 1] = 0
        /\ \A m \in j..(p - 1) : s.depth[m] > 0
    <2>1. Begun(s, c, z, p - 1) /\ z.start # 0
      BY DEF Scanned
    <2>2. /\ c + z.start \in (c + 1)..(p - 1) /\ s.depth[c + z.start - 1] = 0
          /\ \A m \in (c + z.start)..(p - 1) : s.depth[m] > 0
      BY <2>1 DEF Begun
    <2>3. z.start \in Nat
      BY DEF ScanState
    <2> QED
      BY <2>2, <2>3
  <1> HIDE DEF j, a
  <1>4. j \in 1..Len(s.bytes) /\ p \in (j + 1)..Len(s.bytes)
    BY <1>1, <1>3
  <1>5. Object(s, j, p)
    BY <1>3, <1>4 DEF Object
  <1>6. NoEnds(s, p, p)
    BY <1>1 DEF NoEnds
  <1>7. \A m \in (a + 1)..(p - 1) : \A n \in 1..Len(s.bytes) : ~Response(s, n, m)
    BY <1>2 DEF NoEnds, NoEnd, Response
  <1>8. CASE IsResponse(object)
    <2>1. Response(s, j, p)
      BY <1>5, <1>8 DEF Response
    <2> HIDE DEF object, e
    <2>2. Said(s, p, Append(e, object))
      BY <1>1, <1>2, <1>4, <1>7, <2>1, SaidMore DEF object
    <2>3. z.out \in Seq(Seq(Symbol))
      BY DEF ScanState
    <2>4. out = Append(z.out, object)
      BY <1>8 DEF object, j
    <2>5. object \in Seq(Symbol)
      <3>1. /\ j - 1 \in 0..Len(s.bytes) /\ p \in (j - 1)..Len(s.bytes)
            /\ (j - 1) + 1 = j
        BY <1>1, <1>4
      <3>2. SubSeq(s.bytes, (j - 1) + 1, p) \in Seq(Symbol)
        BY <3>1, SimShape, PartOfText
      <3> QED
        BY <3>1, <3>2 DEF object
    <2>6. d \o Append(z.out, object) = Append(d \o z.out, object)
      BY <2>3, <2>5, AppendToConcat
    <2> QED
      BY <1>6, <2>2, <2>4, <2>6 DEF e
  <1>9. CASE ~IsResponse(object)
    <2>1. \A n \in 1..Len(s.bytes) : ~Response(s, n, p)
      <3> SUFFICES ASSUME NEW n \in 1..Len(s.bytes), Response(s, n, p) PROVE FALSE
        OBVIOUS
      <3>1. n = j
        BY <1>5, OneObject DEF Response
      <3> QED
        BY <1>9, <3>1 DEF Response
    <2>2. \A m \in (a + 1)..p : m = p \/ m \in (a + 1)..(p - 1)
      BY <1>1
    <2>3. \A m \in (a + 1)..p : \A n \in 1..Len(s.bytes) : ~Response(s, n, m)
      BY <1>7, <2>1, <2>2
    <2> HIDE DEF e
    <2>4. Said(s, p, e)
      BY <1>1, <1>2, <2>3, SaidOn
    <2>5. out = z.out
      BY <1>9 DEF j
    <2> QED
      BY <1>6, <2>4, <2>5 DEF e
  <1> QED
    BY <1>8, <1>9

\* A part of a part of a text.
LEMMA PartOfPart ==
    ASSUME NEW s \in Seq(Symbol), NEW a \in 0..Len(s), NEW b \in a..Len(s),
           NEW j \in 1..(b - a), NEW i \in j..(b - a)
    PROVE  SubSeq(SubSeq(s, a + 1, b), j, i) = SubSeq(s, a + j, a + i)
  <1> DEFINE p == SubSeq(s, a + 1, b)
             l == SubSeq(p, (j - 1) + 1, i)
             r == SubSeq(s, (a + j - 1) + 1, a + i)
  <1>0. /\ a \in Nat /\ b \in Nat /\ i \in Nat /\ j \in Nat /\ Len(s) \in Nat
        /\ 1 <= j /\ j <= i /\ i <= b - a /\ b <= Len(s)
    BY LenProperties
  <1>1. /\ p \in Seq(Symbol) /\ Len(p) = b - a
        /\ \A m \in 1..(b - a) : p[m] = s[a + m]
    BY PartOfText
  <1>2. /\ l \in Seq(Symbol) /\ Len(l) = i - (j - 1)
        /\ \A m \in 1..(i - (j - 1)) : l[m] = p[(j - 1) + m]
    <2>1. j - 1 \in 0..Len(p) /\ i \in (j - 1)..Len(p)
      BY <1>0, <1>1
    <2>2. p \in Seq(Symbol)
      BY <1>1
    <2> HIDE DEF p
    <2> QED
      BY <2>1, <2>2, PartOfText
  <1>3. /\ r \in Seq(Symbol) /\ Len(r) = (a + i) - (a + j - 1)
        /\ \A m \in 1..((a + i) - (a + j - 1)) : r[m] = s[(a + j - 1) + m]
    <2>1. a + j - 1 \in 0..Len(s) /\ a + i \in (a + j - 1)..Len(s)
      BY <1>0
    <2> QED
      BY <2>1, PartOfText
  <1>4. (j - 1) + 1 = j /\ (a + j - 1) + 1 = a + j
    BY <1>0
  <1>5. l = SubSeq(p, j, i) /\ r = SubSeq(s, a + j, a + i)
    BY <1>4
  <1> HIDE DEF p, l, r
  <1>6. Len(l) = Len(r)
    BY <1>0, <1>2, <1>3
  <1>7. ASSUME NEW m \in 1..Len(l) PROVE l[m] = r[m]
    <2>1. /\ m \in 1..(i - (j - 1)) /\ m \in 1..((a + i) - (a + j - 1))
          /\ (j - 1) + m \in 1..(b - a) /\ a + ((j - 1) + m) = (a + j - 1) + m
      BY <1>0, <1>2
    <2>2. l[m] = p[(j - 1) + m]
      BY <1>2, <2>1
    <2>3. p[(j - 1) + m] = s[a + ((j - 1) + m)]
      BY <1>1, <2>1
    <2>4. r[m] = s[(a + j - 1) + m]
      BY <1>3, <2>1
    <2> QED
      BY <2>1, <2>2, <2>3, <2>4
  <1>8. l = r
    BY <1>2, <1>3, <1>6, <1>7, SeqEqual
  <1> QED
    BY <1>5, <1>8 DEF p

\* The scanner takes the i-th byte of its buffer, the p-th of the stream.
LEMMA ScanStep ==
    ASSUME NEW s \in SimStreams, NEW c \in 0..Len(s.bytes), NEW n \in c..Len(s.bytes),
           NEW d \in Seq(Seq(Symbol)), NEW i \in 1..(n - c), NEW p, p = c + i,
           NEW acc, acc = SubSeq(s.bytes, c + 1, n),
           NEW z \in ScanState, Scanned(s, c, d, z, p - 1)
    PROVE  Scanned(s, c, d, Scan(z, acc, i), p)
  <1> DEFINE b == s.bytes[p]
             y == Scan(z, acc, i)
  <1> SUFFICES Scanned(s, c, d, y, p)
    OBVIOUS
  <1>1. /\ s.bytes \in Seq(Symbol) /\ Len(s.bytes) \in Nat /\ c \in Nat /\ n \in Nat /\ i \in Nat
        /\ p \in Nat /\ p \in (c + 1)..Len(s.bytes) /\ p \in 1..Len(s.bytes)
        /\ p - 1 \in 0..Len(s.bytes) /\ p \in 0..Len(s.bytes) /\ i \in 1..Len(acc)
    <2>1. s.bytes \in Seq(Symbol) /\ Len(s.bytes) \in Nat
      BY SimShape
    <2>2. Len(acc) = n - c
      BY <2>1, PartOfText
    <2> QED
      BY <2>1, <2>2
  <1>2. acc \in Seq(Symbol) /\ acc[i] = b
    BY <1>1, PartOfText
  <1>3. y \in ScanState
    BY <1>1, <1>2, ScanType
  <1>4. /\ z.inStr <=> s.text[p - 1] # "plain"
        /\ z.esc <=> s.text[p - 1] = "escaped"
        /\ z.depth = s.depth[p - 1]
        /\ z.start # 0 <=> z.depth > 0
    BY DEF Scanned, Aware
  <1>5. /\ z.depth \in Int /\ z.start \in Nat /\ z.inStr \in BOOLEAN /\ z.esc \in BOOLEAN
        /\ z.out \in Seq(Seq(Symbol))
    BY DEF ScanState
  <1>6. /\ s.text[p - 1] \in {"plain", "quoted", "escaped"}
        /\ s.depth[p - 1] \in Int /\ s.depth[p] \in Int
    BY <1>1, SimShape
  <1> DEFINE Same == y.start = z.start /\ y.consumed = z.consumed /\ y.out = z.out
  <1>7. CASE s.text[p - 1] # "plain"
    <2>1. y = InString(z, b)
      BY <1>2, <1>4, <1>7, Zenon DEF Scan
    <2>2. /\ y.esc = (~z.esc /\ b = "escape") /\ y.inStr = (z.esc \/ b # "quote")
          /\ y.depth = z.depth /\ Same
      BY <2>1 DEF InString, ScanState
    <2> HIDE DEF y, b
    <2>3. s.depth[p] = s.depth[p - 1]
      BY <1>1, <1>7, NextByte
    <2>4. (y.inStr <=> s.text[p] # "plain") /\ (y.esc <=> s.text[p] = "escaped")
      BY <1>1, <1>4, <1>6, <1>7, <2>2, NextByte DEF b
    <2>5. Aware(s, c, y, p)
      BY <1>4, <2>2, <2>3, <2>4 DEF Aware
    <2>6. NoEnd(s, p)
      BY <1>1, <1>6, <2>3, EndsAtZero
    <2> QED
      BY <1>1, <1>3, <2>2, <2>5, <2>6, ScanPast
  <1>8. CASE s.text[p - 1] = "plain" /\ b = "quote"
    <2>1. y = [z EXCEPT !.inStr = TRUE]
      BY <1>2, <1>4, <1>5, <1>8, Zenon DEF Scan
    <2>2. y.inStr = TRUE /\ y.esc = z.esc /\ y.depth = z.depth /\ Same
      BY <2>1 DEF ScanState
    <2> HIDE DEF y, b
    <2>3. s.depth[p] = s.depth[p - 1] /\ s.text[p] = "quoted"
      BY <1>1, <1>8, NextByte DEF b
    <2>4. Aware(s, c, y, p)
      BY <1>4, <1>8, <2>2, <2>3 DEF Aware
    <2>5. NoEnd(s, p)
      BY <1>1, <1>6, <2>3, EndsAtZero
    <2> QED
      BY <1>1, <1>3, <2>2, <2>4, <2>5, ScanPast
  <1>9. CASE s.text[p - 1] = "plain" /\ b \notin {"quote", "{", "}"}
    <2>1. y = z
      BY <1>2, <1>4, <1>5, <1>9 DEF Scan
    <2>2. Same
      BY <2>1
    <2> HIDE DEF y, b
    <2>3. s.depth[p] = s.depth[p - 1] /\ s.text[p] = "plain"
      BY <1>1, <1>9, NextByte DEF b
    <2>4. Aware(s, c, y, p)
      BY <1>4, <1>9, <2>1, <2>3 DEF Aware
    <2>5. NoEnd(s, p)
      BY <1>1, <1>6, <2>3, EndsAtZero
    <2> QED
      BY <1>1, <1>3, <2>2, <2>4, <2>5, ScanPast
  <1>10. CASE s.text[p - 1] = "plain" /\ b = "{"
    <2>1. y = Opened(z, i)
      BY <1>2, <1>4, <1>5, <1>10 DEF Scan
    <2>2. /\ y.inStr = z.inStr /\ y.esc = z.esc /\ y.depth = z.depth + 1
          /\ y.start = (IF z.depth = 0 THEN i ELSE z.start)
          /\ y.consumed = z.consumed /\ y.out = z.out
      BY <2>1 DEF Opened, ScanState
    <2> HIDE DEF y, b
    <2>3. s.depth[p] = s.depth[p - 1] + 1 /\ s.text[p] = "plain"
      BY <1>1, <1>10, NextByte DEF b
    <2>4. y.start # 0 <=> y.depth > 0
      BY <1>1, <1>4, <1>5, <2>2
    <2>5. Aware(s, c, y, p)
      BY <1>4, <1>10, <2>2, <2>3, <2>4 DEF Aware
    <2>6. NoEnd(s, p)
      <3>1. s.depth[p] # 0 \/ ~(s.depth[p - 1] > 0)
        BY <1>6, <2>3
      <3> QED
        BY <1>1, <3>1, EndsAtZero
    <2>7. CASE z.depth # 0
      <3>1. Same
        BY <2>2, <2>7
      <3> QED
        BY <1>1, <1>3, <2>5, <2>6, <3>1, ScanPast
    <2>8. CASE z.depth = 0
      <3>1. y.start = i /\ c + y.start = p
        BY <2>2, <2>8
      <3>2. \A m \in p..p : m = p
        BY <1>1
      <3>3. p \in (c + 1)..p /\ s.depth[p - 1] = 0 /\ s.depth[p] > 0
        BY <1>1, <1>4, <1>6, <2>3, <2>8
      <3>4. Begun(s, c, y, p)
        BY <3>1, <3>2, <3>3 DEF Begun
      <3>5. Heard(s, c, d, y, p)
        <4>1. /\ z.consumed \in Nat /\ c + z.consumed \in c..(p - 1)
              /\ s.text[c + z.consumed] = "plain" /\ s.depth[c + z.consumed] = 0
              /\ NoEnds(s, c + z.consumed, p - 1) /\ Said(s, c + z.consumed, d \o z.out)
          BY DEF Scanned, Heard
        <4>2. \A m \in (c + z.consumed + 1)..p : m = p \/ m \in (c + z.consumed + 1)..(p - 1)
          BY <1>1, <4>1
        <4>3. NoEnds(s, c + z.consumed, p)
          BY <2>6, <4>1, <4>2 DEF NoEnds
        <4>4. c + z.consumed \in c..p
          BY <1>1, <4>1
        <4> QED
          BY <2>2, <4>1, <4>3, <4>4 DEF Heard
      <3> QED
        BY <2>5, <3>4, <3>5 DEF Scanned
    <2> QED
      BY <2>7, <2>8
  <1>11. CASE s.text[p - 1] = "plain" /\ b = "}"
    <2>1. y = Closed(z, acc, i)
      BY <1>2, <1>4, <1>5, <1>11 DEF Scan
    <2>2. s.depth[p] = s.depth[p - 1] - 1 /\ s.text[p] = "plain"
      BY <1>1, <1>11, NextByte DEF b
    <2>3. CASE z.depth = 1
      <3> DEFINE object == SubSeq(s.bytes, c + z.start, p)
                 out == IF IsResponse(object) THEN Append(z.out, object) ELSE z.out
      <3>1. z.start # 0
        BY <1>4, <2>3
      <3>2. SubSeq(acc, z.start, i) = object
        <4>1. c + z.start \in (c + 1)..(p - 1)
          BY <3>1 DEF Scanned, Begun
        <4>2. z.start \in 1..(n - c) /\ i \in z.start..(n - c)
          <5>1. c \in Nat /\ i \in Nat /\ n \in Nat /\ i <= n - c /\ p = c + i /\ z.start \in Nat
            BY <1>1, <1>5
          <5>2. c + 1 <= c + z.start /\ c + z.start <= p - 1
            BY <4>1, <5>1
          <5> HIDE DEF object, out
          <5> QED
            BY <5>1, <5>2
        <4>3. SubSeq(SubSeq(s.bytes, c + 1, n), z.start, i) = SubSeq(s.bytes, c + z.start, c + i)
          BY <1>1, <4>2, PartOfPart
        <4> QED
          BY <4>3
      <3>3. y = [z EXCEPT !.depth = 0, !.start = 0, !.consumed = i, !.out = out]
        BY <2>1, <2>3, <3>1, <3>2 DEF Closed
      <3> HIDE DEF out, object
      <3>4. /\ y.inStr = z.inStr /\ y.esc = z.esc /\ y.depth = 0 /\ y.start = 0
            /\ y.consumed = i /\ y.out = out
        BY <3>3 DEF ScanState
      <3> HIDE DEF y, b
      <3>5. Aware(s, c, y, p)
        <4>1. s.depth[p] = 0
          BY <1>4, <1>6, <2>2, <2>3
        <4>2. ~z.inStr /\ ~z.esc
          BY <1>4, <1>11
        <4>3. ~y.inStr /\ ~y.esc /\ y.depth = 0 /\ y.start = 0
          BY <3>4, <4>2
        <4>4. ~(y.depth > 0)
          BY <4>3
        <4> QED
          BY <2>2, <4>1, <4>3, <4>4 DEF Aware
      <3>6. Begun(s, c, y, p)
        BY <3>4 DEF Begun
      <3>7. out \in Seq(Seq(Symbol))
        BY <1>3, <3>4 DEF ScanState
      <3>8. Said(s, p, d \o out) /\ NoEnds(s, p, p)
        <4>1. s.depth[p] = 0
          BY <1>4, <1>6, <2>2, <2>3
        <4> QED
          BY <1>1, <2>2, <3>1, <3>7, <4>1, ScanObject DEF out, object
      <3>9. Heard(s, c, d, y, p)
        <4>1. c + y.consumed = p /\ p \in c..p /\ y.consumed \in Nat /\ s.depth[p] = 0
          BY <1>1, <1>4, <1>6, <2>2, <2>3, <3>4
        <4> QED
          BY <2>2, <3>4, <3>8, <4>1 DEF Heard
      <3> QED
        BY <3>5, <3>6, <3>9 DEF Scanned
    <2>4. CASE z.depth # 1
      <3>1. y = [z EXCEPT !.depth = @ - 1]
        BY <2>1, <2>4 DEF Closed
      <3>2. y.inStr = z.inStr /\ y.esc = z.esc /\ y.depth = z.depth - 1 /\ Same
        BY <3>1 DEF ScanState
      <3> HIDE DEF y, b
      <3>3. y.start # 0 <=> y.depth > 0
        BY <1>4, <1>5, <2>4, <3>2
      <3>4. Aware(s, c, y, p)
        BY <1>4, <1>11, <2>2, <3>2, <3>3 DEF Aware
      <3>5. NoEnd(s, p)
        <4>1. s.depth[p] # 0
          BY <1>4, <1>6, <2>2, <2>4
        <4> QED
          BY <1>1, <4>1, EndsAtZero
      <3> QED
        BY <1>1, <1>3, <3>2, <3>4, <3>5, ScanPast
    <2> QED
      BY <2>3, <2>4
  <1> QED
    BY <1>7, <1>8, <1>9, <1>10, <1>11

\* The scanner after the last byte of its buffer, which begins after the first c of s.
LEMMA ScanLoop ==
    ASSUME NEW s \in SimStreams, NEW c \in 0..Len(s.bytes), NEW n \in c..Len(s.bytes),
           NEW d \in Seq(Seq(Symbol)), s.text[c] = "plain", s.depth[c] = 0, Said(s, c, d),
           NEW acc, acc = SubSeq(s.bytes, c + 1, n)
    PROVE  /\ acc \in Seq(Symbol) /\ Len(acc) = n - c
           /\ Scans(acc)[Len(acc)] \in ScanState
           /\ Scanned(s, c, d, Scans(acc)[Len(acc)], n)
  <1> DEFINE at == Scans(acc)
             S == {i \in Nat : i <= n - c => Scanned(s, c, d, at[i], c + i)}
  <1>1. s.bytes \in Seq(Symbol) /\ Len(s.bytes) \in Nat /\ c \in Nat /\ n \in Nat /\ c <= n
    BY SimShape
  <1>2. acc \in Seq(Symbol) /\ Len(acc) = n - c
    BY <1>1, PartOfText
  <1>3. /\ at[0] = Scanner
        /\ \A i \in 1..(n - c) : at[i] = Scan(at[i - 1], acc, i)
        /\ \A i \in 0..(n - c) : at[i] \in ScanState
    BY <1>2, ScansAre
  <1> HIDE DEF at
  <1>4. 0 \in S
    <2>1. c + 0 = c /\ c + Scanner.consumed = c /\ d \o Scanner.out = d
      BY <1>1, ConcatEmptySeq DEF Scanner
    <2>2. Aware(s, c, Scanner, c)
      BY DEF Aware, Scanner
    <2>3. Begun(s, c, Scanner, c)
      BY DEF Begun, Scanner
    <2>4. Heard(s, c, d, Scanner, c)
      <3>1. NoEnds(s, c, c) /\ c \in c..c /\ Scanner.consumed \in Nat
        BY <1>1 DEF NoEnds, Scanner
      <3> QED
        BY <2>1, <3>1 DEF Heard
    <2>5. Scanned(s, c, d, at[0], c + 0)
      BY <1>3, <2>1, <2>2, <2>3, <2>4 DEF Scanned
    <2> QED
      BY <2>5
  <1>5. ASSUME NEW i \in S PROVE i + 1 \in S
    <2> SUFFICES ASSUME i + 1 <= n - c PROVE Scanned(s, c, d, at[i + 1], c + (i + 1))
      OBVIOUS
    <2>1. /\ i \in Nat /\ i + 1 \in 1..(n - c) /\ (i + 1) - 1 = i /\ i \in 0..(n - c)
          /\ (c + (i + 1)) - 1 = c + i
      BY <1>1
    <2>2. Scanned(s, c, d, at[i], (c + (i + 1)) - 1)
      BY <1>1, <2>1
    <2>3. at[i] \in ScanState /\ at[i + 1] = Scan(at[i], acc, i + 1)
      BY <1>3, <2>1
    <2>4. Scanned(s, c, d, Scan(at[i], acc, i + 1), c + (i + 1))
      BY <2>1, <2>2, <2>3, ScanStep
    <2> QED
      BY <2>3, <2>4
  <1>6. S \in SUBSET Nat
    OBVIOUS
  <1> HIDE DEF S
  <1>7. S = Nat
    BY <1>4, <1>5, <1>6, Induction
  <1>8. n - c \in Nat /\ n - c \in 0..(n - c) /\ c + (n - c) = n
    BY <1>1
  <1>9. Scanned(s, c, d, at[n - c], n)
    BY <1>7, <1>8 DEF S
  <1> QED
    BY <1>2, <1>3, <1>8, <1>9 DEF at

-----------------------------------------------------------------------------
(* The sim's responses *)

\* acc is what has arrived after some place outside of all objects, up to which all has
\* been handled that the messages say; between two reads no object has ended since.
SimInv ==
    link = "sim" =>
        /\ stream \in SimStreams
        /\ got \in 0..Len(stream.bytes)
        /\ splitting \in BOOLEAN
        /\ \E c \in 0..got :
            /\ buf = SubSeq(stream.bytes, c + 1, got)
            /\ stream.text[c] = "plain" /\ stream.depth[c] = 0
            /\ Said(stream, c, delivered)
            /\ splitting \/ NoEnds(stream, c, got)

LEMMA SimStart ==
    ASSUME NEW s \in SimStreams
    PROVE  /\ 0 \in 0..Len(s.bytes) /\ SubSeq(s.bytes, 0 + 1, 0) = <<>>
           /\ s.text[0] = "plain" /\ s.depth[0] = 0 /\ Said(s, 0, <<>>)
  <1>1. TextStream(s) /\ Len(s.bytes) \in Nat /\ s.text[0] = "plain" /\ s.depth[0] = 0
    BY SimShape
  <1>2. s.count \in Nat /\ s.ends[0] = 0 /\ s.meant[0] = <<>> /\ 0 \in 0..s.count
    BY <1>1, TextShape
  <1>3. 0 < s.count => 0 < s.ends[0 + 1]
    BY <1>1, <1>2, TextEnd
  <1>4. Arrived(s, 0, 0)
    BY <1>2, <1>3 DEF Arrived
  <1>5. Said(s, 0, <<>>)
    BY <1>2, <1>4 DEF Said
  <1>6. SubSeq(s.bytes, 0 + 1, 0) = <<>>
    BY SubSeqEmpty
  <1> QED
    BY <1>1, <1>5, <1>6

LEMMA SimRead ==
    ASSUME SimInv, link = "sim", Read
    PROVE  SimInv'
  <1> DEFINE bytes == stream.bytes
  <1>1. /\ stream \in SimStreams /\ got \in 0..Len(bytes) /\ bytes \in Seq(Symbol)
        /\ Len(bytes) \in Nat
    BY SimShape DEF SimInv
  <1>2. PICK c \in 0..got :
            /\ buf = SubSeq(bytes, c + 1, got)
            /\ stream.text[c] = "plain" /\ stream.depth[c] = 0
            /\ Said(stream, c, delivered)
    BY DEF SimInv
  <1>3. PICK m \in 1..(Len(bytes) - got) :
            /\ got' = got + m
            /\ buf' = buf \o SubSeq(bytes, got + 1, got + m)
    BY DEF Read, Text
  <1>4. link' = link /\ stream' = stream /\ delivered' = delivered /\ splitting' = TRUE
    BY DEF Read
  <1>5. /\ c \in 0..Len(bytes) /\ got \in c..Len(bytes) /\ got + m \in got..Len(bytes)
        /\ got + m \in 0..Len(bytes) /\ c \in 0..(got + m)
    BY <1>1
  <1>6. buf' = SubSeq(bytes, c + 1, got + m)
    <2>1. SubSeq(bytes, c + 1, got) \o SubSeq(bytes, got + 1, got + m)
            = SubSeq(bytes, c + 1, got + m)
      BY <1>1, <1>5, JoinedParts
    <2> QED
      BY <1>2, <1>3, <2>1
  <1>7. Said(stream, c, delivered)'  <=> Said(stream, c, delivered)
    BY <1>4 DEF Said, Arrived
  <1> QED
    BY <1>1, <1>2, <1>3, <1>4, <1>5, <1>6, <1>7 DEF SimInv

LEMMA SimDrain ==
    ASSUME SimInv, DrainResponses
    PROVE  SimInv'
  <1> DEFINE bytes == stream.bytes
             end == Scans(buf)[Len(buf)]
  <1>0. link = "sim"
    BY DEF DrainResponses
  <1>1. /\ stream \in SimStreams /\ got \in 0..Len(bytes) /\ bytes \in Seq(Symbol)
        /\ Len(bytes) \in Nat
    BY <1>0, SimShape DEF SimInv
  <1>2. PICK c \in 0..got :
            /\ buf = SubSeq(bytes, c + 1, got)
            /\ stream.text[c] = "plain" /\ stream.depth[c] = 0
            /\ Said(stream, c, delivered)
    BY <1>0 DEF SimInv
  <1>3. /\ delivered' = delivered \o end.out
        /\ buf' = SubSeq(buf, end.consumed + 1, Len(buf))
        /\ splitting' = FALSE /\ UNCHANGED <<link, stream, got>>
    BY DEF DrainResponses
  <1>4. c \in 0..Len(bytes) /\ got \in c..Len(bytes) /\ c \in Nat /\ got \in Nat
    BY <1>1
  <1>5. delivered \in Seq(Seq(Symbol))
    BY <1>1, <1>2, SimMeant DEF Said
  <1>6. Len(buf) = got - c /\ end \in ScanState /\ Scanned(stream, c, delivered, end, got)
    BY <1>1, <1>2, <1>4, <1>5, ScanLoop
  <1> HIDE DEF end
  <1>7. /\ end.consumed \in Nat /\ c + end.consumed \in c..got
        /\ stream.text[c + end.consumed] = "plain" /\ stream.depth[c + end.consumed] = 0
        /\ NoEnds(stream, c + end.consumed, got)
        /\ Said(stream, c + end.consumed, delivered \o end.out)
    BY <1>6 DEF Scanned, Heard
  <1>8. PICK k \in Nat : k = end.consumed
    BY <1>7
  <1> DEFINE a == c + k
  <1>9. buf' = SubSeq(bytes, a + 1, got) /\ a \in 0..got
    <2>1. k \in 0..(got - c) /\ a \in c..got
      BY <1>4, <1>7, <1>8
    <2>2. SubSeq(SubSeq(bytes, c + 1, got), k + 1, got - c) = SubSeq(bytes, c + k + 1, got)
      BY <1>1, <1>4, <2>1, RestOfText
    <2>3. buf' = SubSeq(SubSeq(bytes, c + 1, got), k + 1, got - c)
      BY <1>2, <1>3, <1>6, <1>8
    <2>4. a \in 0..got
      BY <1>4, <2>1
    <2> QED
      BY <2>2, <2>3, <2>4
  <1>10. /\ stream.text[a] = "plain" /\ stream.depth[a] = 0
         /\ NoEnds(stream, a, got) /\ Said(stream, a, delivered \o end.out)
    BY <1>7, <1>8
  <1> HIDE DEF a
  <1>11. NoEnds(stream, a, got)'
    BY <1>3, <1>10 DEF NoEnds, NoEnd, Object
  <1>12. Said(stream, a, delivered)'
    BY <1>3, <1>10 DEF Said, Arrived
  <1>13. /\ stream' \in SimStreams /\ got' \in 0..Len(stream'.bytes) /\ splitting' \in BOOLEAN
    BY <1>1, <1>3
  <1>14. /\ a \in 0..got' /\ buf' = SubSeq(stream'.bytes, a + 1, got')
         /\ stream'.text[a] = "plain" /\ stream'.depth[a] = 0
    BY <1>3, <1>9, <1>10
  <1> QED
    BY <1>11, <1>12, <1>13, <1>14 DEF SimInv

LEMMA SimStep ==
    ASSUME SimInv, [Next]_vars
    PROVE  SimInv'
  <1>1. ASSUME link # "sim" PROVE SimInv'
    <2>1. link' = link
      BY DEF Next, vars, Read, TakePacket, AwaitPacket, DrainResponses, TakeBlock,
             AwaitBlock, Reconnect, Quiet
    <2> QED
      BY <1>1, <2>1 DEF SimInv
  <1>2. ASSUME link = "sim" PROVE SimInv'
    <2>1. CASE Read
      BY <1>2, <2>1, SimRead
    <2>2. CASE DrainResponses
      BY <2>2, SimDrain
    <2>3. CASE TakePacket \/ AwaitPacket \/ TakeBlock \/ AwaitBlock
      BY <1>2, <2>3 DEF TakePacket, AwaitPacket, TakeBlock, AwaitBlock
    <2>4. CASE Reconnect
      <3>1. /\ link' = "sim" /\ stream' \in SimStreams /\ got' = 0 /\ buf' = <<>>
            /\ delivered' = <<>> /\ splitting' = FALSE
        BY <1>2, <2>4 DEF Reconnect, Streams
      <3>2. /\ 0 \in 0..Len(stream'.bytes) /\ SubSeq(stream'.bytes, 0 + 1, 0) = <<>>
            /\ stream'.text[0] = "plain" /\ stream'.depth[0] = 0 /\ Said(stream', 0, <<>>)
        BY <3>1, SimStart
      <3>3. 0 \in 0..got' /\ Said(stream, 0, delivered)' /\ NoEnds(stream, 0, got)'
        BY <3>1, <3>2 DEF Said, Arrived, NoEnds
      <3> QED
        BY <3>1, <3>2, <3>3 DEF SimInv
    <2>5. CASE UNCHANGED vars
      BY <2>5 DEF vars, SimInv, Said, Arrived, NoEnds, NoEnd, Object
    <2> QED
      BY <2>1, <2>2, <2>3, <2>4, <2>5 DEF Next, Quiet
  <1> QED
    BY <1>1, <1>2

LEMMA SimInit ==
    ASSUME Init
    PROVE  SimInv
  <1> SUFFICES ASSUME link = "sim" PROVE SimInv
    BY DEF SimInv
  <1>1. stream \in SimStreams /\ got = 0 /\ buf = <<>> /\ delivered = <<>> /\ splitting = FALSE
    BY DEF Init, Streams
  <1>2. NoEnds(stream, 0, 0) /\ 0 \in 0..0
    BY DEF NoEnds
  <1> QED
    BY <1>1, <1>2, SimStart DEF SimInv

LEMMA SimInvariant == Spec => []SimInv
  <1>1. Init => SimInv
    BY SimInit
  <1>2. SimInv /\ [Next]_vars => SimInv'
    BY SimStep
  <1> QED
    BY <1>1, <1>2, PTL DEF Spec

LEMMA SimInvSaysAll ==
    ASSUME SimInv
    PROVE  ResponsesWhole
  <1> SUFFICES ASSUME link = "sim", ~splitting PROVE Said(stream, got, delivered)
    BY DEF ResponsesWhole, Said
  <1>1. stream \in SimStreams /\ got \in 0..Len(stream.bytes) /\ Len(stream.bytes) \in Nat
    BY SimShape DEF SimInv
  <1>2. PICK c \in 0..got : Said(stream, c, delivered) /\ NoEnds(stream, c, got)
    BY DEF SimInv
  <1>3. c \in Nat /\ got \in c..Len(stream.bytes)
    BY <1>1
  <1>4. \A i \in (c + 1)..got : \A j \in 1..Len(stream.bytes) : ~Response(stream, j, i)
    BY <1>2 DEF NoEnds, NoEnd, Response
  <1> QED
    BY <1>1, <1>2, <1>3, <1>4, SaidOn

\* Whatever the sim sends and however it arrives, between two reads every response that
\* has wholly arrived has been handled, once and in order, and nothing else.
THEOREM ResponsesAreWhole == Spec => []ResponsesWhole
  <1>1. SimInv => ResponsesWhole
    BY SimInvSaysAll
  <1> QED
    BY <1>1, SimInvariant, PTL

-----------------------------------------------------------------------------
(* The lines of an event block *)

LineState == [type : Symbol, data : Seq(Symbol), field : Symbol]
Event == [type : Symbol, data : Seq(Symbol)]

LEMMA OnLineType ==
    ASSUME NEW b \in LineState, NEW x \in Symbol
    PROVE  OnLine(b, x) \in LineState
  <1>1. b.type \in Symbol /\ b.data \in Seq(Symbol) /\ b.field \in Symbol
    BY DEF LineState
  <1>2. Append(b.data, x) \in Seq(Symbol)
    BY <1>1, AppendFacts
  <1>3. \A w \in Symbol : /\ [b EXCEPT !.field = w] \in LineState
                           /\ [b EXCEPT !.type = w] \in LineState
    BY DEF LineState
  <1>4. [b EXCEPT !.data = Append(@, x)] \in LineState
    <2> DEFINE data == Append(b.data, x)
    <2>1. [b EXCEPT !.data = Append(@, x)] = [b EXCEPT !.data = data]
      OBVIOUS
    <2>2. data \in Seq(Symbol)
      BY <1>2
    <2> HIDE DEF data
    <2> QED
      BY <2>1, <2>2 DEF LineState
  <1>5. OnLine(b, x) \in {[b EXCEPT !.field = "none"], [b EXCEPT !.field = x],
                          [b EXCEPT !.type = x], [b EXCEPT !.data = Append(@, x)], b}
    BY Zenon DEF OnLine
  <1>6. "none" \in Symbol
    BY DEF Symbol
  <1> QED
    BY <1>3, <1>4, <1>5, <1>6

\* What is known after each word of a block, from what was before.
LEMMA LinesAre ==
    ASSUME NEW block \in Seq(Symbol)
    PROVE  /\ Len(block) \in Nat
           /\ Lines(block)[0] = Line
           /\ \A i \in 1..Len(block) : Lines(block)[i] = OnLine(Lines(block)[i - 1], block[i])
           /\ \A i \in 0..Len(block) : Lines(block)[i] \in LineState
  <1> DEFINE N == Len(block)
             step == [x \in LineState \X (1..N) |-> OnLine(x[1], block[x[2]])]
             IsLines(at) ==
                 at = [i \in 0..N |-> IF i = 0 THEN Line ELSE OnLine(at[i - 1], block[i])]
  <1>1. N \in Nat /\ Line \in LineState /\ \A i \in 1..N : block[i] \in Symbol
    <2>1. Line \in LineState
      BY DEF Line, LineState, Symbol
    <2>2. N \in Nat /\ \A i \in 1..N : block[i] \in Symbol
      BY LenProperties
    <2> QED
      BY <2>1, <2>2
  <1>2. step \in [LineState \X (1..N) -> LineState]
    BY <1>1, OnLineType
  <1>3. \A z \in LineState, i \in 1..N : step[<<z, i>>] = OnLine(z, block[i])
    OBVIOUS
  <1> HIDE DEF step
  <1>4. PICK f \in [0..N -> LineState] : Recursion(f, N, Line, step)
    BY <1>1, <1>2, RecursionExists
  <1>5. \A i \in 1..N : f[i] = OnLine(f[i - 1], block[i])
    <2> SUFFICES ASSUME NEW i \in 1..N PROVE f[i] = OnLine(f[i - 1], block[i])
      OBVIOUS
    <2>1. i - 1 \in 0..N
      BY <1>1
    <2> QED
      BY <1>3, <1>4, <2>1 DEF Recursion
  <1>6. IsLines(f)
    <2> DEFINE g == [i \in 0..N |-> IF i = 0 THEN Line ELSE OnLine(f[i - 1], block[i])]
    <2>1. ASSUME NEW i \in 0..N PROVE f[i] = g[i]
      <3>1. CASE i = 0
        BY <1>4, <3>1 DEF Recursion
      <3>2. CASE i # 0
        <4>1. i \in 1..N
          BY <1>1, <3>2
        <4> QED
          BY <1>5, <3>2, <4>1
      <3> QED
        BY <3>1, <3>2
    <2> QED
      BY <1>4, <2>1
  <1>7. Lines(block) = CHOOSE at : IsLines(at)
    BY Zenon DEF Lines
  <1>8. IsLines(Lines(block))
    BY <1>6, <1>7, Zenon
  <1> DEFINE h == Lines(block)
  <1>9. /\ h[0] = Line
        /\ \A i \in 1..N : h[i] = OnLine(h[i - 1], block[i])
    <2>1. h = [i \in 0..N |-> IF i = 0 THEN Line ELSE OnLine(h[i - 1], block[i])]
      BY <1>8
    <2> HIDE DEF h
    <2>2. 0 \in 0..N /\ \A i \in 1..N : i \in 0..N /\ i # 0
      BY <1>1
    <2> QED
      BY <2>1, <2>2
  <1>10. \A i \in 0..N : h[i] \in LineState
    <2> DEFINE S == {i \in Nat : i <= N => h[i] \in LineState}
    <2> HIDE DEF h
    <2>1. 0 \in S
      BY <1>1, <1>9
    <2>2. ASSUME NEW i \in S PROVE i + 1 \in S
      <3> SUFFICES ASSUME i + 1 <= N PROVE h[i + 1] \in LineState
        OBVIOUS
      <3>1. i \in Nat /\ i + 1 \in 1..N /\ (i + 1) - 1 = i /\ h[i] \in LineState
        BY <1>1
      <3>2. h[i + 1] = OnLine(h[i], block[i + 1])
        BY <1>9, <3>1
      <3> QED
        BY <1>1, <3>1, <3>2, OnLineType
    <2>3. S \in SUBSET Nat
      OBVIOUS
    <2> HIDE DEF S
    <2>4. S = Nat
      BY <2>1, <2>2, <2>3, Induction
    <2> QED
      BY <1>1, <2>4 DEF S
  <1> QED
    BY <1>1, <1>9, <1>10

\* At most one event is printed for a block, and nothing if it has no data.
LEMMA PrintedType ==
    ASSUME NEW block \in Seq(Symbol)
    PROVE  Printed(block) \in Seq(Event) /\ Len(Printed(block)) \in 0..1
  <1> DEFINE b == Lines(block)[Len(block)]
             event == [type |-> b.type, data |-> b.data]
  <1>1. b \in LineState
    <2>1. Len(block) \in 0..Len(block)
      BY LinesAre
    <2> QED
      BY <2>1, LinesAre
  <1>2. Printed(block) = IF b.data = <<>> \/ b.type = "keep-alive" THEN <<>> ELSE <<event>>
    BY Zenon DEF Printed
  <1> HIDE DEF b
  <1>3. event \in Event
    BY <1>1 DEF LineState, Event
  <1> HIDE DEF event
  <1>4. <<event>> \in Seq(Event) /\ Len(<<event>>) = 1 /\ <<>> \in Seq(Event) /\ Len(<<>>) = 0
    BY <1>3
  <1> QED
    BY <1>2, <1>4

-----------------------------------------------------------------------------
(* What a chunk that ends inside a character makes of it *)

\* x is y, or what a cut makes of it.
Like(x, y) == x = y \/ (x = "mark" /\ y \in {"char1", "char2"})

\* Text u is text v but for the marks of cuts.
Resembles(u, v) == Len(u) = Len(v) /\ \A i \in 1..Len(v) : Like(u[i], v[i])

\* The name of the type after "event:" is in ASCII.
Spelled(text) ==
    \A i, j \in 1..Len(text) :
        i < j /\ text[i] = "event:" /\ (\A m \in i..j : text[m] # "newline")
            => text[j] \notin {"char1", "char2"}

\* After i words of a block that resembles it: the same type, and alike data and field.
SameLine(u, v) == u.type = v.type /\ Like(u.field, v.field) /\ Resembles(u.data, v.data)

\* The field is event: because it says so, and the line is not over.
InEvent(block, v, i) ==
    v.field = "event:" =>
        \E h \in 1..i : block[h] = "event:" /\ \A m \in h..i : block[m] # "newline"

LEMMA SameLineKept ==
    ASSUME NEW u \in LineState, NEW v \in LineState, SameLine(u, v),
           NEW x \in Symbol, NEW y \in Symbol, Like(x, y),
           v.field = "event:" /\ y # "newline" => y \notin {"char1", "char2"}
    PROVE  SameLine(OnLine(u, x), OnLine(v, y))
  <1>1. /\ u.type = v.type /\ Like(u.field, v.field) /\ Resembles(u.data, v.data)
        /\ u.data \in Seq(Symbol) /\ v.data \in Seq(Symbol)
    BY DEF SameLine, LineState
  <1>2. /\ x = "newline" <=> y = "newline"
        /\ \A f \in {"none", "event:", "data:"} : u.field = f <=> v.field = f
    BY <1>1 DEF Like
  <1>3. CASE y = "newline"
    <2>1. OnLine(u, x) = [u EXCEPT !.field = "none"] /\ OnLine(v, y) = [v EXCEPT !.field = "none"]
      BY <1>2, <1>3 DEF OnLine
    <2> QED
      BY <1>1, <2>1 DEF SameLine, LineState, Like
  <1>4. CASE y # "newline" /\ v.field = "none"
    <2>1. OnLine(u, x) = [u EXCEPT !.field = x] /\ OnLine(v, y) = [v EXCEPT !.field = y]
      BY <1>2, <1>4 DEF OnLine
    <2> QED
      BY <1>1, <2>1 DEF SameLine, LineState
  <1>5. CASE y # "newline" /\ v.field = "event:"
    <2>1. OnLine(u, x) = [u EXCEPT !.type = x] /\ OnLine(v, y) = [v EXCEPT !.type = y]
      BY <1>2, <1>5 DEF OnLine
    <2>2. x = y
      BY <1>5 DEF Like
    <2> QED
      BY <1>1, <2>1, <2>2 DEF SameLine, LineState
  <1>6. CASE y # "newline" /\ v.field = "data:"
    <2> DEFINE d == Append(u.data, x)
               e == Append(v.data, y)
    <2>1. OnLine(u, x) = [u EXCEPT !.data = d] /\ OnLine(v, y) = [v EXCEPT !.data = e]
      BY <1>2, <1>6 DEF OnLine
    <2>2. Resembles(d, e)
      <3>1. /\ Len(u.data) \in Nat /\ Len(v.data) \in Nat /\ Len(u.data) = Len(v.data)
            /\ Len(d) = Len(u.data) + 1 /\ Len(e) = Len(v.data) + 1
            /\ \A i \in 1..Len(u.data) : d[i] = u.data[i]
            /\ \A i \in 1..Len(v.data) : e[i] = v.data[i]
            /\ d[Len(u.data) + 1] = x /\ e[Len(v.data) + 1] = y
        BY <1>1, AppendFacts DEF Resembles
      <3> HIDE DEF d, e
      <3>2. \A i \in 1..Len(e) : i = Len(v.data) + 1 \/ i \in 1..Len(v.data)
        BY <3>1
      <3> QED
        BY <1>1, <3>1, <3>2 DEF Resembles
    <2> HIDE DEF d, e
    <2>3. /\ OnLine(u, x).type = u.type /\ OnLine(u, x).field = u.field /\ OnLine(u, x).data = d
          /\ OnLine(v, y).type = v.type /\ OnLine(v, y).field = v.field /\ OnLine(v, y).data = e
      BY <2>1 DEF LineState
    <2> QED
      BY <1>1, <2>2, <2>3 DEF SameLine
  <1>7. CASE y # "newline" /\ v.field \notin {"none", "event:", "data:"}
    <2>1. OnLine(u, x) = u /\ OnLine(v, y) = v
      BY <1>2, <1>7 DEF OnLine
    <2> QED
      BY <2>1
  <1> QED
    BY <1>3, <1>4, <1>5, <1>6, <1>7

LEMMA InEventKept ==
    ASSUME NEW block \in Seq(Symbol), NEW i \in 0..(Len(block) - 1), NEW v \in LineState,
           InEvent(block, v, i)
    PROVE  InEvent(block, OnLine(v, block[i + 1]), i + 1)
  <1> DEFINE y == block[i + 1]
             w == OnLine(v, y)
  <1>1. i \in Nat /\ Len(block) \in Nat /\ i + 1 \in 1..Len(block)
    BY LenProperties
  <1> SUFFICES ASSUME w.field = "event:"
               PROVE  \E h \in 1..(i + 1) :
                        block[h] = "event:" /\ \A m \in h..(i + 1) : block[m] # "newline"
    BY DEF InEvent
  <1>2. y # "newline"
    <2> SUFFICES ASSUME y = "newline" PROVE FALSE
      OBVIOUS
    <2>1. w = [v EXCEPT !.field = "none"]
      BY DEF OnLine
    <2> QED
      BY <2>1 DEF LineState
  <1>3. CASE v.field = "none"
    <2>1. w = [v EXCEPT !.field = y]
      BY <1>2, <1>3 DEF OnLine
    <2>2. y = "event:"
      BY <2>1 DEF LineState
    <2>3. i + 1 \in 1..(i + 1) /\ \A m \in (i + 1)..(i + 1) : m = i + 1
      BY <1>1
    <2> QED
      BY <1>2, <2>2, <2>3
  <1>4. CASE v.field # "none"
    <2>1. w \in {[v EXCEPT !.type = y], [v EXCEPT !.data = Append(@, y)], v}
      BY <1>2, <1>4, Zenon DEF OnLine
    <2>2. w.field = v.field
      BY <2>1 DEF LineState
    <2>3. PICK h \in 1..i : block[h] = "event:" /\ \A m \in h..i : block[m] # "newline"
      BY <2>2 DEF InEvent
    <2>4. h \in 1..(i + 1) /\ \A m \in h..(i + 1) : m \in h..i \/ m = i + 1
      BY <1>1
    <2> QED
      BY <1>2, <2>3, <2>4
  <1> QED
    BY <1>3, <1>4

LEMMA LinesResemble ==
    ASSUME NEW u \in Seq(Symbol), NEW v \in Seq(Symbol), Resembles(u, v), Spelled(v)
    PROVE  SameLine(Lines(u)[Len(u)], Lines(v)[Len(v)])
  <1> DEFINE N == Len(v)
             f == Lines(u)
             g == Lines(v)
             S == {i \in Nat : i <= N => SameLine(f[i], g[i]) /\ InEvent(v, g[i], i)}
  <1>1. /\ N \in Nat /\ Len(u) = N
        /\ \A i \in 1..N : u[i] \in Symbol /\ v[i] \in Symbol /\ Like(u[i], v[i])
    BY LenProperties DEF Resembles
  <1>2. /\ f[0] = Line /\ g[0] = Line
        /\ \A i \in 1..N : f[i] = OnLine(f[i - 1], u[i]) /\ g[i] = OnLine(g[i - 1], v[i])
        /\ \A i \in 0..N : f[i] \in LineState /\ g[i] \in LineState
    BY <1>1, LinesAre
  <1> HIDE DEF f, g
  <1>3. 0 \in S
    <2>1. SameLine(Line, Line)
      BY DEF SameLine, Resembles, Like
    <2>2. InEvent(v, Line, 0)
      BY DEF InEvent, Line
    <2> QED
      BY <1>2, <2>1, <2>2
  <1>4. ASSUME NEW i \in S PROVE i + 1 \in S
    <2> SUFFICES ASSUME i + 1 <= N
                 PROVE  SameLine(f[i + 1], g[i + 1]) /\ InEvent(v, g[i + 1], i + 1)
      OBVIOUS
    <2>1. /\ i \in Nat /\ i + 1 \in 1..N /\ (i + 1) - 1 = i /\ i \in 0..(N - 1) /\ i \in 0..N
          /\ SameLine(f[i], g[i]) /\ InEvent(v, g[i], i)
      BY <1>1, <1>4
    <2>2. f[i + 1] = OnLine(f[i], u[i + 1]) /\ g[i + 1] = OnLine(g[i], v[i + 1])
      BY <1>2, <2>1
    <2>3. g[i].field = "event:" /\ v[i + 1] # "newline" => v[i + 1] \notin {"char1", "char2"}
      <3> SUFFICES ASSUME g[i].field = "event:", v[i + 1] # "newline"
                   PROVE  v[i + 1] \notin {"char1", "char2"}
        OBVIOUS
      <3>1. PICK h \in 1..i : v[h] = "event:" /\ \A m \in h..i : v[m] # "newline"
        BY <2>1 DEF InEvent
      <3>2. h \in 1..N /\ h < i + 1 /\ \A m \in h..(i + 1) : m \in h..i \/ m = i + 1
        BY <1>1, <2>1
      <3> QED
        BY <2>1, <3>1, <3>2 DEF Spelled
    <2>4. f[i] \in LineState /\ g[i] \in LineState
      BY <1>2, <2>1
    <2>5. SameLine(f[i + 1], g[i + 1])
      BY <1>1, <2>1, <2>2, <2>3, <2>4, SameLineKept
    <2>6. InEvent(v, g[i + 1], i + 1)
      BY <2>1, <2>2, <2>4, InEventKept
    <2> QED
      BY <2>5, <2>6
  <1>5. S \in SUBSET Nat
    OBVIOUS
  <1> HIDE DEF S
  <1>6. S = Nat
    BY <1>3, <1>4, <1>5, Induction
  <1>7. SameLine(f[N], g[N])
    BY <1>1, <1>6 DEF S
  <1> QED
    BY <1>1, <1>7 DEF f, g

\* What was printed is what was meant, but for data that is visibly marred.
Reported(d, h) ==
    /\ Len(d) = Len(h)
    /\ \A i \in 1..Len(h) :
        /\ d[i].type = h[i].type
        /\ d[i].data = h[i].data \/ \E m \in DOMAIN d[i].data : d[i].data[m] = "mark"

\* A block that resembles another is printed like it.
LEMMA PrintedResembles ==
    ASSUME NEW u \in Seq(Symbol), NEW v \in Seq(Symbol), Resembles(u, v), Spelled(v)
    PROVE  Reported(Printed(u), Printed(v))
  <1> DEFINE a == Lines(u)[Len(u)]
             b == Lines(v)[Len(v)]
             ea == [type |-> a.type, data |-> a.data]
             eb == [type |-> b.type, data |-> b.data]
  <1>1. SameLine(a, b)
    BY LinesResemble
  <1>2. a \in LineState /\ b \in LineState
    <2>1. Len(u) \in 0..Len(u) /\ Len(v) \in 0..Len(v)
      BY LinesAre
    <2> QED
      BY <2>1, LinesAre
  <1>3. /\ Printed(u) = IF a.data = <<>> \/ a.type = "keep-alive" THEN <<>> ELSE <<ea>>
        /\ Printed(v) = IF b.data = <<>> \/ b.type = "keep-alive" THEN <<>> ELSE <<eb>>
    BY Zenon DEF Printed
  <1> HIDE DEF a, b
  <1>4. /\ a.type = b.type /\ Len(a.data) = Len(b.data)
        /\ \A i \in 1..Len(b.data) : Like(a.data[i], b.data[i])
        /\ a.data \in Seq(Symbol) /\ b.data \in Seq(Symbol)
    BY <1>1, <1>2 DEF SameLine, Resembles, LineState
  <1>5. a.data = <<>> <=> b.data = <<>>
    BY <1>4, EmptySeq
  <1>6. a.data = b.data \/ \E m \in DOMAIN a.data : a.data[m] = "mark"
    <2> SUFFICES ASSUME \A m \in DOMAIN a.data : a.data[m] # "mark" PROVE a.data = b.data
      OBVIOUS
    <2>1. DOMAIN a.data = 1..Len(a.data)
      BY <1>4, LenProperties
    <2>2. \A i \in 1..Len(a.data) : a.data[i] = b.data[i]
      BY <1>4, <2>1 DEF Like
    <2> QED
      BY <1>4, <2>2, SeqEqual
  <1>7. CASE b.data = <<>> \/ b.type = "keep-alive"
    <2>1. Printed(u) = <<>> /\ Printed(v) = <<>>
      BY <1>3, <1>4, <1>5, <1>7
    <2> QED
      BY <2>1 DEF Reported
  <1>8. CASE ~(b.data = <<>> \/ b.type = "keep-alive")
    <2>1. Printed(u) = <<ea>> /\ Printed(v) = <<eb>>
      BY <1>3, <1>4, <1>5, <1>8
    <2>2. ea.type = eb.type /\ (ea.data = eb.data \/ \E m \in DOMAIN ea.data : ea.data[m] = "mark")
      BY <1>4, <1>6
    <2> HIDE DEF ea, eb
    <2>3. Len(<<ea>>) = 1 /\ Len(<<eb>>) = 1 /\ <<ea>>[1] = ea /\ <<eb>>[1] = eb
      OBVIOUS
    <2> QED
      BY <2>1, <2>2, <2>3 DEF Reported
  <1> QED
    BY <1>7, <1>8

LEMMA ReportedMore ==
    ASSUME NEW d \in Seq(Event), NEW h \in Seq(Event), Reported(d, h),
           NEW x \in Seq(Event), NEW y \in Seq(Event), Reported(x, y)
    PROVE  Reported(d \o x, h \o y) /\ d \o x \in Seq(Event)
  <1>1. /\ Len(d) \in Nat /\ Len(h) = Len(d) /\ Len(x) \in Nat /\ Len(y) = Len(x)
        /\ d \o x \in Seq(Event) /\ Len(d \o x) = Len(d) + Len(x)
        /\ Len(h \o y) = Len(h) + Len(y)
        /\ \A i \in 1..(Len(d) + Len(x)) :
              (d \o x)[i] = IF i <= Len(d) THEN d[i] ELSE x[i - Len(d)]
        /\ \A i \in 1..(Len(h) + Len(y)) :
              (h \o y)[i] = IF i <= Len(h) THEN h[i] ELSE y[i - Len(h)]
    <2>1. Len(d) \in Nat /\ Len(h) = Len(d) /\ Len(x) \in Nat /\ Len(y) = Len(x)
      BY LenProperties DEF Reported
    <2> QED
      BY <2>1, ConcatProperties
  <1> DEFINE p == d \o x
             q == h \o y
             n == Len(d)
  <1>2. /\ Len(p) = Len(q) /\ n \in Nat
        /\ \A i \in 1..Len(q) :
              \/ i \in 1..Len(h) /\ p[i] = d[i] /\ q[i] = h[i]
              \/ i - n \in 1..Len(y) /\ p[i] = x[i - n] /\ q[i] = y[i - n]
    BY <1>1
  <1> HIDE DEF p, q, n
  <1>3. Reported(p, q)
    <2>1. ASSUME NEW i \in 1..Len(q)
          PROVE  /\ p[i].type = q[i].type
                 /\ p[i].data = q[i].data \/ \E m \in DOMAIN p[i].data : p[i].data[m] = "mark"
      <3>1. CASE i \in 1..Len(h) /\ p[i] = d[i] /\ q[i] = h[i]
        BY <3>1 DEF Reported
      <3>2. CASE i - n \in 1..Len(y) /\ p[i] = x[i - n] /\ q[i] = y[i - n]
        BY <3>2 DEF Reported
      <3> QED
        BY <1>2, <3>1, <3>2
    <2> QED
      BY <1>2, <2>1 DEF Reported
  <1> QED
    BY <1>1, <1>3 DEF p, q

LEMMA LossyResembles ==
    ASSUME NEW chunk \in Seq(Symbol)
    PROVE  Lossy(chunk) \in Seq(Symbol) /\ Resembles(Lossy(chunk), chunk)
  <1> DEFINE whole(i) == /\ chunk[i] = "char1" => i < Len(chunk) /\ chunk[i + 1] = "char2"
                         /\ chunk[i] = "char2" => i > 1 /\ chunk[i - 1] = "char1"
             t == [i \in 1..Len(chunk) |-> IF whole(i) THEN chunk[i] ELSE "mark"]
  <1>1. Len(chunk) \in Nat /\ \A i \in 1..Len(chunk) : chunk[i] \in Symbol
    BY LenProperties
  <1>2. \A i : whole(i) \/ chunk[i] \in {"char1", "char2"}
    OBVIOUS
  <1>3. "mark" \in Symbol
    BY DEF Symbol
  <1>4. Lossy(chunk) = t
    BY Zenon DEF Lossy
  <1> HIDE DEF whole
  <1>5. t \in Seq(Symbol) /\ Len(t) = Len(chunk)
    BY <1>1, <1>3
  <1>6. \A i \in 1..Len(chunk) : Like(t[i], chunk[i])
    BY <1>2 DEF Like
  <1> QED
    BY <1>4, <1>5, <1>6 DEF Resembles

-----------------------------------------------------------------------------
(* Streams of events *)

LEMMA DaemonShape ==
    ASSUME NEW s \in DaemonStreams
    PROVE  /\ TextStream(s) /\ EventStream(s)
           /\ s.bytes \in Seq(Symbol) /\ Len(s.bytes) \in Nat
  BY FramingAssumption, TextShape DEF EventStream

LEMMA EventEnd ==
    ASSUME NEW s \in DaemonStreams, NEW k \in 1..s.count
    PROVE  /\ s.ends[k - 1] + 2 <= s.ends[k] /\ EmptyLine(s.bytes, s.ends[k])
           /\ \A i \in (s.ends[k - 1] + 2)..(s.ends[k] - 1) : ~EmptyLine(s.bytes, i)
           /\ s.meant[k] = s.meant[k - 1] \o Printed(Message(s, k))
  BY DaemonShape DEF EventStream

LEMMA MessageType ==
    ASSUME NEW s \in DaemonStreams, NEW n \in 0..s.count, n < s.count
    PROVE  /\ Message(s, n + 1) = SubSeq(s.bytes, s.ends[n] + 1, s.ends[n + 1])
           /\ Message(s, n + 1) \in Seq(Symbol)
           /\ Len(Message(s, n + 1)) = s.ends[n + 1] - s.ends[n]
           /\ \A i \in 1..(s.ends[n + 1] - s.ends[n]) :
                 Message(s, n + 1)[i] = s.bytes[s.ends[n] + i]
           /\ Spelled(Message(s, n + 1))
  <1> DEFINE a == s.ends[n]
             b == s.ends[n + 1]
             t == Message(s, n + 1)
  <1>1. /\ n + 1 \in 0..s.count /\ n + 1 \in 1..s.count /\ (n + 1) - 1 = n
        /\ a \in Nat /\ b \in Nat /\ a < b /\ b <= Len(s.bytes) /\ Len(s.bytes) \in Nat
    BY DaemonShape, TextEnd
  <1>2. t = SubSeq(s.bytes, a + 1, b)
    BY <1>1 DEF Message
  <1>3. t \in Seq(Symbol) /\ Len(t) = b - a /\ \A i \in 1..(b - a) : t[i] = s.bytes[a + i]
    <2>1. a \in 0..Len(s.bytes) /\ b \in a..Len(s.bytes)
      BY <1>1
    <2> HIDE DEF t, a, b
    <2>2. /\ SubSeq(s.bytes, a + 1, b) \in Seq(Symbol) /\ Len(SubSeq(s.bytes, a + 1, b)) = b - a
          /\ \A i \in 1..(b - a) : SubSeq(s.bytes, a + 1, b)[i] = s.bytes[a + i]
      BY <2>1, DaemonShape, PartOfText
    <2> QED
      BY <1>2, <2>2
  <1> HIDE DEF t, a, b
  <1>4. Spelled(t)
    <2> SUFFICES ASSUME NEW i \in 1..(b - a), NEW j \in 1..(b - a), i < j, t[i] = "event:",
                        \A m \in i..j : t[m] # "newline"
                 PROVE  t[j] \notin {"char1", "char2"}
      BY <1>3 DEF Spelled
    <2>0. /\ i \in Nat /\ j \in Nat /\ 1 <= i /\ 1 <= j /\ i <= b - a /\ j <= b - a
      BY <1>1
    <2>1. /\ a + i \in 1..Len(s.bytes) /\ a + j \in 1..Len(s.bytes) /\ a + i < a + j
          /\ t[i] = s.bytes[a + i] /\ t[j] = s.bytes[a + j]
      BY <1>1, <1>3, <2>0
    <2>2. \A m \in (a + i)..(a + j) : s.bytes[m] # "newline"
      <3> SUFFICES ASSUME NEW m \in (a + i)..(a + j) PROVE s.bytes[m] # "newline"
        OBVIOUS
      <3>1. m - a \in i..j /\ m - a \in 1..(b - a) /\ a + (m - a) = m
        BY <1>1
      <3>2. t[m - a] = s.bytes[a + (m - a)]
        BY <1>3, <3>1
      <3> QED
        BY <3>1, <3>2
    <2> QED
      BY <2>1, <2>2, DaemonShape DEF EventStream
  <1> QED
    BY <1>2, <1>3, <1>4 DEF t, a, b

LEMMA DaemonMeant ==
    ASSUME NEW s \in DaemonStreams, NEW k \in 0..s.count
    PROVE  s.meant[k] \in Seq(Event) /\ Len(s.meant[k]) <= k
  <1> DEFINE P(n) == s.meant[n] \in Seq(Event) /\ Len(s.meant[n]) <= n
             S == {n \in Nat : n <= s.count => P(n)}
  <1>0. s.count \in Nat /\ k \in Nat /\ k <= s.count
    BY DaemonShape, TextEnd
  <1>1. 0 \in S
    <2>1. s.meant[0] = <<>> /\ Len(<<>>) = 0 /\ <<>> \in Seq(Event)
      BY DaemonShape, TextShape
    <2>2. P(0)
      BY <2>1
    <2> HIDE DEF P
    <2> QED
      BY <2>2
  <1>2. ASSUME NEW n \in S PROVE n + 1 \in S
    <2> SUFFICES ASSUME n + 1 <= s.count PROVE P(n + 1)
      OBVIOUS
    <2>1. /\ n \in Nat /\ P(n) /\ n + 1 \in 1..s.count /\ (n + 1) - 1 = n
          /\ n \in 0..s.count /\ n < s.count
      BY <1>0, <1>2
    <2> DEFINE t == Printed(Message(s, n + 1))
    <2>2. t \in Seq(Event) /\ Len(t) \in 0..1
      BY <2>1, MessageType, PrintedType
    <2>3. s.meant[n + 1] = s.meant[n] \o t
      BY <2>1, EventEnd
    <2> HIDE DEF t
    <2>4. /\ s.meant[n] \o t \in Seq(Event)
          /\ Len(s.meant[n] \o t) = Len(s.meant[n]) + Len(t)
          /\ Len(s.meant[n]) \in Nat
      BY <2>1, <2>2, ConcatProperties, LenProperties
    <2> QED
      BY <2>1, <2>2, <2>3, <2>4
  <1>3. S \in SUBSET Nat
    OBVIOUS
  <1> HIDE DEF S
  <1>4. S = Nat
    BY <1>1, <1>2, <1>3, Induction
  <1> QED
    BY <1>0, <1>4 DEF S

\* Parts and sums of texts that resemble one another.
LEMMA ResemblesPart ==
    ASSUME NEW u \in Seq(Symbol), NEW v \in Seq(Symbol), Resembles(u, v),
           NEW a \in 0..Len(v), NEW b \in a..Len(v)
    PROVE  Resembles(SubSeq(u, a + 1, b), SubSeq(v, a + 1, b))
  <1> DEFINE x == SubSeq(u, a + 1, b)
             y == SubSeq(v, a + 1, b)
  <1>1. Len(u) = Len(v) /\ \A i \in 1..Len(v) : Like(u[i], v[i])
    BY DEF Resembles
  <1>2. Len(x) = b - a /\ \A i \in 1..(b - a) : x[i] = u[a + i]
    BY <1>1, PartOfText
  <1>3. Len(y) = b - a /\ \A i \in 1..(b - a) : y[i] = v[a + i]
    BY PartOfText
  <1>4. \A i \in 1..(b - a) : a + i \in 1..Len(v)
    BY LenProperties
  <1> HIDE DEF x, y
  <1>5. Resembles(x, y)
    BY <1>1, <1>2, <1>3, <1>4 DEF Resembles
  <1> QED
    BY <1>5 DEF x, y

LEMMA ResemblesSum ==
    ASSUME NEW u \in Seq(Symbol), NEW v \in Seq(Symbol), Resembles(u, v),
           NEW x \in Seq(Symbol), NEW y \in Seq(Symbol), Resembles(x, y)
    PROVE  Resembles(u \o x, v \o y) /\ u \o x \in Seq(Symbol)
  <1> DEFINE p == u \o x
             q == v \o y
             n == Len(v)
  <1>1. /\ Len(u) = n /\ Len(x) = Len(y) /\ n \in Nat /\ Len(y) \in Nat
        /\ \A i \in 1..n : Like(u[i], v[i])
        /\ \A i \in 1..Len(y) : Like(x[i], y[i])
    BY LenProperties DEF Resembles
  <1>2. /\ p \in Seq(Symbol) /\ Len(p) = n + Len(y) /\ Len(q) = n + Len(y)
        /\ \A i \in 1..(n + Len(y)) : p[i] = IF i <= n THEN u[i] ELSE x[i - n]
        /\ \A i \in 1..(n + Len(y)) : q[i] = IF i <= n THEN v[i] ELSE y[i - n]
    <2>1. /\ p \in Seq(Symbol) /\ Len(p) = Len(u) + Len(x)
          /\ \A i \in 1..(Len(u) + Len(x)) : p[i] = IF i <= Len(u) THEN u[i] ELSE x[i - Len(u)]
      BY ConcatProperties
    <2>2. /\ Len(q) = Len(v) + Len(y)
          /\ \A i \in 1..(Len(v) + Len(y)) : q[i] = IF i <= Len(v) THEN v[i] ELSE y[i - Len(v)]
      BY ConcatProperties
    <2> HIDE DEF p, q
    <2> QED
      BY <1>1, <2>1, <2>2
  <1> HIDE DEF p, q, n
  <1>3. \A i \in 1..(n + Len(y)) : (i <= n /\ i \in 1..n) \/ (~(i <= n) /\ i - n \in 1..Len(y))
    BY <1>1
  <1>4. Resembles(p, q)
    BY <1>1, <1>2, <1>3 DEF Resembles
  <1> QED
    BY <1>2, <1>4 DEF p, q

LEMMA SameEmptyLines ==
    ASSUME NEW u, NEW v \in Seq(Symbol), Resembles(u, v), NEW i \in 2..Len(v)
    PROVE  EmptyLine(u, i) <=> EmptyLine(v, i)
  <1>1. i \in 1..Len(v) /\ i - 1 \in 1..Len(v)
    BY LenProperties
  <1>2. Like(u[i], v[i]) /\ Like(u[i - 1], v[i - 1])
    BY <1>1 DEF Resembles
  <1> QED
    BY <1>2 DEF Like, EmptyLine

-----------------------------------------------------------------------------
(* The daemon's events *)

\* The first n events are off the buffer, which holds what has arrived since, but for the
\* marks of cuts.
Taken(n) ==
    /\ stream.ends[n] <= got
    /\ Resembles(buf, SubSeq(stream.bytes, stream.ends[n] + 1, got))
    /\ Reported(delivered, stream.meant[n])
    /\ splitting \/ Arrived(stream, n, got)

DaemonInv ==
    link = "daemon" =>
        /\ stream \in DaemonStreams
        /\ got \in 0..Len(stream.bytes)
        /\ splitting \in BOOLEAN
        /\ buf \in Seq(Symbol) /\ delivered \in Seq(Event)
        /\ \E n \in 0..stream.count : Taken(n)

LEMMA DaemonInit ==
    ASSUME Init
    PROVE  DaemonInv
  <1> SUFFICES ASSUME link = "daemon" PROVE DaemonInv
    BY DEF DaemonInv
  <1>1. stream \in DaemonStreams /\ got = 0 /\ buf = <<>> /\ delivered = <<>> /\ splitting = FALSE
    BY DEF Init, Streams
  <1>2. /\ stream.count \in Nat /\ stream.ends[0] = 0 /\ stream.meant[0] = <<>>
        /\ Len(stream.bytes) \in Nat
    BY <1>1, DaemonShape, TextShape
  <1>3. 0 < stream.count => 0 < stream.ends[0 + 1]
    <2>1. 0 \in 0..stream.count
      BY <1>2
    <2> QED
      BY <1>1, <1>2, <2>1, DaemonShape, TextEnd
  <1>4. Arrived(stream, 0, got)
    BY <1>1, <1>2, <1>3 DEF Arrived
  <1>5. Resembles(<<>>, <<>>) /\ Reported(<<>>, <<>>)
    BY DEF Resembles, Reported
  <1>6. SubSeq(stream.bytes, 0 + 1, 0) = <<>>
    BY SubSeqEmpty
  <1>7. Taken(0)
    <2>1. stream.ends[0] <= got /\ Reported(delivered, stream.meant[0])
      BY <1>1, <1>2, <1>5
    <2>2. Resembles(buf, SubSeq(stream.bytes, stream.ends[0] + 1, got))
      BY <1>1, <1>2, <1>5, <1>6
    <2> QED
      BY <1>4, <2>1, <2>2 DEF Taken
  <1>8. 0 \in 0..stream.count /\ 0 \in 0..Len(stream.bytes)
    BY <1>2
  <1>9. <<>> \in Seq(Symbol) /\ <<>> \in Seq(Event)
    OBVIOUS
  <1> QED
    BY <1>1, <1>7, <1>8, <1>9 DEF DaemonInv

LEMMA DaemonRead ==
    ASSUME DaemonInv, link = "daemon", Read
    PROVE  DaemonInv'
  <1> DEFINE bytes == stream.bytes
             ends == stream.ends
  <1>1. /\ stream \in DaemonStreams /\ got \in 0..Len(bytes) /\ bytes \in Seq(Symbol)
        /\ Len(bytes) \in Nat /\ buf \in Seq(Symbol) /\ delivered \in Seq(Event)
    BY DaemonShape DEF DaemonInv
  <1>2. PICK n \in 0..stream.count : Taken(n)
    BY DEF DaemonInv
  <1>3. PICK m \in 1..(Len(bytes) - got) :
            /\ got' = got + m
            /\ buf' = buf \o Lossy(SubSeq(bytes, got + 1, got + m))
    BY DEF Read, Text
  <1>4. link' = link /\ stream' = stream /\ delivered' = delivered /\ splitting' = TRUE
    BY DEF Read
  <1>5. /\ ends[n] \in Nat /\ ends[n] <= got
        /\ Resembles(buf, SubSeq(bytes, ends[n] + 1, got))
        /\ Reported(delivered, stream.meant[n])
    BY <1>1, <1>2, DaemonShape, TextEnd DEF Taken
  <1>6. /\ ends[n] \in 0..Len(bytes) /\ got \in ends[n]..Len(bytes)
        /\ got + m \in got..Len(bytes) /\ got + m \in 0..Len(bytes) /\ ends[n] <= got + m
    BY <1>1, <1>5
  <1> DEFINE chunk == SubSeq(bytes, got + 1, got + m)
             rest == SubSeq(bytes, ends[n] + 1, got)
  <1>7. chunk \in Seq(Symbol) /\ rest \in Seq(Symbol)
    BY <1>1, <1>6, PartOfText
  <1>8. rest \o chunk = SubSeq(bytes, ends[n] + 1, got + m)
    BY <1>1, <1>6, JoinedParts
  <1> HIDE DEF chunk
  <1>9. Lossy(chunk) \in Seq(Symbol) /\ Resembles(Lossy(chunk), chunk)
    BY <1>7, LossyResembles
  <1> HIDE DEF rest
  <1>10. buf' \in Seq(Symbol) /\ Resembles(buf', rest \o chunk)
    <2>1. Resembles(buf, rest) /\ buf' = buf \o Lossy(chunk)
      BY <1>3, <1>5 DEF rest, chunk
    <2> QED
      BY <1>1, <1>7, <1>9, <2>1, ResemblesSum
  <1>11. Taken(n)'
    <2>1. stream'.ends[n] <= got'
      BY <1>3, <1>4, <1>6
    <2>2. Resembles(buf', SubSeq(stream'.bytes, stream'.ends[n] + 1, got'))
      BY <1>3, <1>4, <1>8, <1>10
    <2> QED
      BY <1>4, <1>5, <2>1, <2>2 DEF Taken
  <1> QED
    BY <1>1, <1>3, <1>4, <1>6, <1>10, <1>11 DEF DaemonInv

\* The empty line that ends the next event is the first in the buffer, if it is there.
LEMMA NextBlock ==
    ASSUME DaemonInv, link = "daemon", NEW n \in 0..stream.count, Taken(n)
    PROVE  /\ stream.ends[n] \in Nat /\ Len(buf) = got - stream.ends[n]
           /\ n = stream.count => BlockEnds(buf) = {}
           /\ n < stream.count =>
                LET m == stream.ends[n + 1] - stream.ends[n]
                IN  /\ n + 1 \in 1..stream.count /\ n + 1 \in 0..stream.count
                    /\ stream.ends[n + 1] \in Nat /\ m \in Nat /\ m >= 2
                    /\ \A i \in BlockEnds(buf) : m <= i
                    /\ stream.ends[n + 1] <= got => m \in BlockEnds(buf)
                    /\ BlockEnds(buf) # {} => stream.ends[n + 1] <= got
  <1> DEFINE bytes == stream.bytes
             a == stream.ends[n]
             rest == SubSeq(bytes, a + 1, got)
  <1>1. /\ stream \in DaemonStreams /\ got \in Nat /\ got <= Len(bytes) /\ bytes \in Seq(Symbol)
        /\ Len(bytes) \in Nat /\ stream.count \in Nat /\ n \in Nat /\ a \in Nat /\ a <= got
        /\ buf \in Seq(Symbol) /\ Resembles(buf, rest)
        /\ stream.ends[stream.count] = Len(bytes)
    <2>1. /\ stream \in DaemonStreams /\ got \in 0..Len(bytes) /\ buf \in Seq(Symbol)
          /\ a <= got /\ Resembles(buf, rest)
      BY DEF DaemonInv, Taken
    <2>2. stream.count \in Nat /\ n \in Nat /\ a \in Nat /\ stream.ends[stream.count] = Len(bytes)
      BY <2>1, DaemonShape, TextShape, TextEnd
    <2> QED
      BY <2>1, <2>2, DaemonShape
  <1>2. /\ rest \in Seq(Symbol) /\ Len(rest) = got - a
        /\ \A i \in 1..(got - a) : rest[i] = bytes[a + i]
    <2>1. a \in 0..Len(bytes) /\ got \in a..Len(bytes)
      BY <1>1
    <2> HIDE DEF a
    <2> QED
      BY <1>1, <2>1, PartOfText
  <1>3. Len(buf) = got - a
    BY <1>1, <1>2 DEF Resembles
  <1> HIDE DEF rest
  <1>4. \A i \in 2..(got - a) : EmptyLine(buf, i) <=> EmptyLine(bytes, a + i)
    <2> SUFFICES ASSUME NEW i \in 2..(got - a)
                 PROVE  EmptyLine(buf, i) <=> EmptyLine(bytes, a + i)
      OBVIOUS
    <2>1. EmptyLine(buf, i) <=> EmptyLine(rest, i)
      BY <1>1, <1>2, SameEmptyLines
    <2>2. i \in 1..(got - a) /\ i - 1 \in 1..(got - a) /\ a + (i - 1) = (a + i) - 1
      BY <1>1
    <2>3. rest[i] = bytes[a + i] /\ rest[i - 1] = bytes[(a + i) - 1]
      BY <1>2, <2>2
    <2> QED
      BY <2>1, <2>3 DEF EmptyLine
  <1>5. BlockEnds(buf) = {i \in 2..(got - a) : EmptyLine(bytes, a + i)}
    BY <1>3, <1>4 DEF BlockEnds
  <1>6. ASSUME n = stream.count PROVE BlockEnds(buf) = {}
    <2>1. got - a = 0
      BY <1>1, <1>6
    <2> QED
      BY <1>5, <2>1
  <1>7. ASSUME n < stream.count
        PROVE  LET m == stream.ends[n + 1] - a
               IN  /\ n + 1 \in 1..stream.count /\ n + 1 \in 0..stream.count
                   /\ stream.ends[n + 1] \in Nat /\ m \in Nat /\ m >= 2
                   /\ \A i \in BlockEnds(buf) : m <= i
                   /\ stream.ends[n + 1] <= got => m \in BlockEnds(buf)
                   /\ BlockEnds(buf) # {} => stream.ends[n + 1] <= got
    <2> DEFINE e == stream.ends[n + 1]
               m == e - a
    <2>1. /\ n + 1 \in 0..stream.count /\ n + 1 \in 1..stream.count /\ (n + 1) - 1 = n
          /\ e \in Nat /\ a < e
      BY <1>1, <1>7, DaemonShape, TextEnd
    <2>2. /\ a + 2 <= e /\ EmptyLine(bytes, e)
          /\ \A i \in (a + 2)..(e - 1) : ~EmptyLine(bytes, i)
      BY <1>1, <2>1, EventEnd
    <2> HIDE DEF e, a
    <2>3. m \in Nat /\ m >= 2 /\ a + m = e
      BY <1>1, <2>1, <2>2
    <2>4. ASSUME NEW i \in BlockEnds(buf) PROVE m <= i /\ e <= got
      <3>1. i \in 2..(got - a) /\ EmptyLine(bytes, a + i)
        BY <1>5
      <3>2. a + i \notin (a + 2)..(e - 1)
        BY <2>2, <3>1
      <3>3. i \in Nat /\ 2 <= i /\ i <= got - a
        BY <1>1, <3>1
      <3> QED
        BY <1>1, <2>1, <3>2, <3>3
    <2>5. ASSUME e <= got PROVE m \in BlockEnds(buf)
      <3>1. m \in 2..(got - a)
        BY <1>1, <2>1, <2>3, <2>5
      <3> QED
        BY <1>5, <2>2, <2>3, <3>1
    <2> QED
      BY <2>1, <2>3, <2>4, <2>5 DEF e
  <1> QED
    BY <1>1, <1>3, <1>6, <1>7

LEMMA DaemonTake ==
    ASSUME DaemonInv, TakeBlock
    PROVE  DaemonInv'
  <1> DEFINE bytes == stream.bytes
             ends == stream.ends
             end == CHOOSE i \in BlockEnds(buf) : \A j \in BlockEnds(buf) : i <= j
  <1>0. link = "daemon" /\ splitting = TRUE /\ BlockEnds(buf) # {}
    BY DEF TakeBlock, DaemonInv
  <1>1. /\ stream \in DaemonStreams /\ got \in 0..Len(bytes) /\ bytes \in Seq(Symbol)
        /\ Len(bytes) \in Nat /\ buf \in Seq(Symbol) /\ delivered \in Seq(Event)
    BY <1>0, DaemonShape DEF DaemonInv
  <1>2. PICK n \in 0..stream.count : Taken(n)
    BY <1>0 DEF DaemonInv
  <1>3. stream.count \in Nat /\ n \in Nat /\ n <= stream.count
    BY <1>1, DaemonShape, TextEnd
  <1>4. n < stream.count
    BY <1>0, <1>2, <1>3, NextBlock
  <1>5. PICK m \in Nat : m = ends[n + 1] - ends[n]
    BY <1>0, <1>2, <1>4, NextBlock
  <1>6. /\ ends[n] \in Nat /\ Len(buf) = got - ends[n]
        /\ n + 1 \in 1..stream.count /\ n + 1 \in 0..stream.count
        /\ ends[n + 1] \in Nat /\ m >= 2 /\ ends[n + 1] <= got
        /\ \A i \in BlockEnds(buf) : m <= i
        /\ m \in BlockEnds(buf)
    BY <1>0, <1>2, <1>4, <1>5, NextBlock
  <1>7. end = m
    <2>1. \A j \in BlockEnds(buf) : m <= j
      BY <1>6
    <2>2. end \in BlockEnds(buf) /\ \A j \in BlockEnds(buf) : end <= j
      BY <1>6, <2>1
    <2>3. end <= m /\ m <= end
      BY <1>6, <2>2
    <2>4. end \in Nat
      <3>1. Len(buf) \in Nat
        BY <1>1, LenProperties
      <3> QED
        BY <2>2, <3>1 DEF BlockEnds
    <2> HIDE DEF end
    <2> QED
      BY <2>3, <2>4
  <1> HIDE DEF end
  <1> DEFINE block == SubSeq(buf, 1, m)
             a == ends[n]
             rest == SubSeq(bytes, a + 1, got)
             message == Message(stream, n + 1)
  <1>8. /\ delivered' = delivered \o Printed(block) /\ buf' = SubSeq(buf, m + 1, Len(buf))
        /\ UNCHANGED <<link, stream, got, splitting>>
    BY <1>7 DEF TakeBlock, end
  <1>9. /\ a \in 0..Len(bytes) /\ got \in a..Len(bytes) /\ m \in 0..(got - a)
        /\ a + m = ends[n + 1] /\ 1 \in 1..(got - a) /\ m \in 1..(got - a) /\ got - a \in Nat
        /\ 0 + 1 = 1
    <2>1. /\ got \in Nat /\ Len(bytes) \in Nat /\ got <= Len(bytes) /\ a \in Nat /\ m >= 2
          /\ a + m <= got
      BY <1>1, <1>5, <1>6
    <2>2. a + m = ends[n + 1]
      BY <1>5, <1>6
    <2> HIDE DEF a, bytes
    <2> QED
      BY <2>1, <2>2
  <1>10. /\ rest \in Seq(Symbol) /\ Len(rest) = got - a /\ Resembles(buf, rest)
         /\ Reported(delivered, stream.meant[n])
    <2>1. rest \in Seq(Symbol) /\ Len(rest) = got - a
      BY <1>1, <1>9, PartOfText
    <2> QED
      BY <1>2, <2>1 DEF Taken
  <1>11. /\ message = SubSeq(rest, 1, m) /\ message \in Seq(Symbol) /\ Spelled(message)
         /\ stream.meant[n + 1] = stream.meant[n] \o Printed(message)
         /\ stream.meant[n] \in Seq(Event)
    <2>1. /\ message = SubSeq(bytes, a + 1, ends[n + 1]) /\ message \in Seq(Symbol)
          /\ Spelled(message)
      BY <1>1, <1>4, MessageType
    <2>2. SubSeq(SubSeq(bytes, a + 1, got), 1, m) = SubSeq(bytes, a + 1, a + m)
      BY <1>1, <1>9, PartOfPart
    <2>3. /\ stream.meant[n + 1] = stream.meant[n] \o Printed(message)
          /\ stream.meant[n] \in Seq(Event)
      <3>1. (n + 1) - 1 = n
        BY <1>3
      <3> QED
        BY <1>1, <1>6, <3>1, EventEnd, DaemonMeant
    <2> QED
      BY <1>9, <2>1, <2>2, <2>3
  <1>12. SubSeq(rest, m + 1, got - a) = SubSeq(bytes, ends[n + 1] + 1, got)
    <2>1. SubSeq(SubSeq(bytes, a + 1, got), m + 1, got - a) = SubSeq(bytes, a + m + 1, got)
      BY <1>1, <1>9, RestOfText
    <2> QED
      BY <1>9, <2>1
  <1> HIDE DEF rest, message, a
  <1>13. block \in Seq(Symbol) /\ Resembles(block, message)
    <2>1. 0 \in 0..Len(rest) /\ m \in 0..Len(rest) /\ 0 \in 0..Len(buf) /\ m \in 0..Len(buf)
      BY <1>6, <1>9, <1>10 DEF a
    <2>2. Resembles(SubSeq(buf, 0 + 1, m), SubSeq(rest, 0 + 1, m))
      BY <1>1, <1>10, <2>1, ResemblesPart
    <2>3. SubSeq(buf, 0 + 1, m) \in Seq(Symbol)
      BY <1>1, <2>1, PartOfText
    <2> QED
      BY <1>9, <1>11, <2>2, <2>3
  <1> HIDE DEF block
  <1>14. /\ Reported(delivered \o Printed(block), stream.meant[n + 1])
         /\ delivered \o Printed(block) \in Seq(Event)
    <2>1. Reported(Printed(block), Printed(message))
      BY <1>11, <1>13, PrintedResembles
    <2>2. Printed(block) \in Seq(Event) /\ Printed(message) \in Seq(Event)
      BY <1>11, <1>13, PrintedType
    <2> QED
      BY <1>1, <1>10, <1>11, <2>1, <2>2, ReportedMore
  <1>15. buf' \in Seq(Symbol) /\ Resembles(buf', SubSeq(bytes, ends[n + 1] + 1, got))
    <2>1. /\ m \in 0..Len(rest) /\ got - a \in m..Len(rest)
          /\ m \in 0..Len(buf) /\ got - a \in m..Len(buf) /\ Len(buf) = got - a
      BY <1>6, <1>9, <1>10 DEF a
    <2>2. Resembles(SubSeq(buf, m + 1, got - a), SubSeq(rest, m + 1, got - a))
      BY <1>1, <1>10, <2>1, ResemblesPart
    <2>3. SubSeq(buf, m + 1, got - a) \in Seq(Symbol)
      BY <1>1, <2>1, PartOfText
    <2> QED
      BY <1>8, <1>12, <2>1, <2>2, <2>3
  <1>16. Taken(n + 1)'
    <2>1. stream'.ends[n + 1] <= got' /\ Reported(delivered', stream'.meant[n + 1])
      BY <1>6, <1>8, <1>14
    <2>2. Resembles(buf', SubSeq(stream'.bytes, stream'.ends[n + 1] + 1, got'))
      BY <1>8, <1>15
    <2>3. splitting'
      BY <1>0, <1>8
    <2> QED
      BY <2>1, <2>2, <2>3 DEF Taken
  <1> QED
    BY <1>0, <1>1, <1>6, <1>8, <1>14, <1>15, <1>16 DEF DaemonInv

LEMMA DaemonAwait ==
    ASSUME DaemonInv, AwaitBlock
    PROVE  DaemonInv'
  <1>0. /\ link = "daemon" /\ BlockEnds(buf) = {} /\ splitting' = FALSE
        /\ UNCHANGED <<link, stream, got, buf, delivered>>
    BY DEF AwaitBlock
  <1>1. /\ stream \in DaemonStreams /\ got \in Nat
    <2>1. stream \in DaemonStreams /\ got \in 0..Len(stream.bytes)
      BY <1>0 DEF DaemonInv
    <2> QED
      BY <2>1, DaemonShape
  <1>2. PICK n \in 0..stream.count : Taken(n)
    BY <1>0 DEF DaemonInv
  <1>3. Arrived(stream, n, got)
    <2>1. ASSUME n < stream.count PROVE got < stream.ends[n + 1]
      <3>1. stream.ends[n + 1] \in Nat /\ ~(stream.ends[n + 1] <= got)
        BY <1>0, <1>2, <2>1, NextBlock
      <3> QED
        BY <1>1, <3>1
    <2>2. stream.ends[n] <= got
      BY <1>2 DEF Taken
    <2> QED
      BY <2>1, <2>2 DEF Arrived
  <1>4. Taken(n)'
    BY <1>0, <1>2, <1>3 DEF Taken, Arrived
  <1> QED
    BY <1>0, <1>4 DEF DaemonInv

LEMMA DaemonStep ==
    ASSUME DaemonInv, [Next]_vars
    PROVE  DaemonInv'
  <1>1. ASSUME link # "daemon" PROVE DaemonInv'
    <2>1. link' = link
      BY DEF Next, vars, Read, TakePacket, AwaitPacket, DrainResponses, TakeBlock,
             AwaitBlock, Reconnect, Quiet
    <2> QED
      BY <1>1, <2>1 DEF DaemonInv
  <1>2. ASSUME link = "daemon" PROVE DaemonInv'
    <2>1. CASE Read
      BY <1>2, <2>1, DaemonRead
    <2>2. CASE TakeBlock
      BY <2>2, DaemonTake
    <2>3. CASE AwaitBlock
      BY <2>3, DaemonAwait
    <2>4. CASE TakePacket \/ AwaitPacket \/ DrainResponses \/ Reconnect
      BY <1>2, <2>4 DEF TakePacket, AwaitPacket, DrainResponses, Reconnect
    <2>5. CASE UNCHANGED vars
      BY <2>5 DEF vars, DaemonInv, Taken, Arrived
    <2> QED
      BY <2>1, <2>2, <2>3, <2>4, <2>5 DEF Next, Quiet
  <1> QED
    BY <1>1, <1>2

LEMMA DaemonInvariant == Spec => []DaemonInv
  <1>1. Init => DaemonInv
    BY DaemonInit
  <1>2. DaemonInv /\ [Next]_vars => DaemonInv'
    BY DaemonStep
  <1> QED
    BY <1>1, <1>2, PTL DEF Spec

\* Whatever events the daemon sends and however they arrive, also in the middle of a
\* character: between two reads the CLI has printed every event that has wholly arrived,
\* once, in order, under its own type, with its data unchanged or visibly marred.
THEOREM BlocksAreWhole == Spec => []BlocksWhole
  <1>1. DaemonInv => BlocksWhole
    BY DEF DaemonInv, Taken, BlocksWhole, Reported
  <1> QED
    BY <1>1, DaemonInvariant, PTL

-----------------------------------------------------------------------------
(* The types *)

\* What FramingTypeOK says that does not depend on the peer.
LinkTypes ==
    /\ link \in {"box", "sim", "daemon"}
    /\ stream \in Streams(link)
    /\ splitting \in BOOLEAN
    /\ connections \in 1..MaxConnections

LEMMA LinkTypesStep ==
    ASSUME LinkTypes, [Next]_vars
    PROVE  LinkTypes'
  <1>1. MaxConnections \in Nat
    BY FramingAssumption
  <1>2. CASE Read \/ TakePacket \/ AwaitPacket \/ DrainResponses \/ TakeBlock \/ AwaitBlock
    BY <1>2 DEF LinkTypes, Read, TakePacket, AwaitPacket, DrainResponses, TakeBlock, AwaitBlock
  <1>3. CASE Reconnect
    BY <1>1, <1>3 DEF LinkTypes, Reconnect
  <1>4. CASE UNCHANGED vars
    BY <1>4 DEF LinkTypes, vars
  <1> QED
    BY <1>2, <1>3, <1>4 DEF Next, Quiet

LEMMA LinkTypesInvariant == Spec => []LinkTypes
  <1>1. Init => LinkTypes
    <2>1. MaxConnections \in Nat /\ MaxConnections # 0
      BY FramingAssumption
    <2>2. 1 \in 1..MaxConnections
      BY <2>1
    <2>3. FALSE \in BOOLEAN
      OBVIOUS
    <2> QED
      BY <2>2, <2>3 DEF Init, LinkTypes
  <1>2. LinkTypes /\ [Next]_vars => LinkTypes'
    BY LinkTypesStep
  <1> QED
    BY <1>1, <1>2, PTL DEF Spec

LEMMA BoxTypesAll ==
    ASSUME LinkTypes, FramerInv, link = "box"
    PROVE  FramingTypeOK
  <1>1. /\ stream \in BoxStreams /\ got \in 0..Len(stream.bytes) /\ buf \in Seq(Nat)
        /\ delivered \in Seq(Seq(Nat)) /\ Len(delivered) <= stream.count
    BY DEF FramerInv, BoxTypes, PacketsWhole
  <1>2. Len(delivered) \in Nat /\ stream.count \in Nat
    BY <1>1, StreamShape, LenProperties
  <1> QED
    BY <1>1, <1>2 DEF LinkTypes, FramingTypeOK

LEMMA SimTypesAll ==
    ASSUME LinkTypes, SimInv, link = "sim"
    PROVE  FramingTypeOK
  <1>1. stream \in SimStreams /\ got \in 0..Len(stream.bytes)
    BY DEF SimInv
  <1>2. PICK c \in 0..got : buf = SubSeq(stream.bytes, c + 1, got) /\ Said(stream, c, delivered)
    BY DEF SimInv
  <1>3. buf \in Seq(Symbol)
    <2>1. stream.bytes \in Seq(Symbol) /\ c \in 0..Len(stream.bytes) /\ got \in c..Len(stream.bytes)
      BY <1>1, SimShape
    <2> QED
      BY <1>2, <2>1, PartOfText
  <1>4. PICK k \in 0..stream.count : delivered = stream.meant[k]
    BY <1>2 DEF Said
  <1>5. Len(delivered) \in 0..stream.count
    <2>1. delivered \in Seq(Seq(Symbol)) /\ Len(delivered) <= k
      BY <1>1, <1>4, SimMeant
    <2>2. Len(delivered) \in Nat
      BY <2>1, LenProperties
    <2>3. k \in Nat /\ k <= stream.count /\ stream.count \in Nat
      BY <1>1, SimShape, TextEnd
    <2> QED
      BY <2>1, <2>2, <2>3
  <1> QED
    BY <1>1, <1>3, <1>5 DEF LinkTypes, FramingTypeOK

LEMMA DaemonTypesAll ==
    ASSUME LinkTypes, DaemonInv, link = "daemon"
    PROVE  FramingTypeOK
  <1>1. /\ stream \in DaemonStreams /\ got \in 0..Len(stream.bytes) /\ buf \in Seq(Symbol)
        /\ delivered \in Seq(Event)
    BY DEF DaemonInv
  <1>2. PICK n \in 0..stream.count : Reported(delivered, stream.meant[n])
    BY DEF DaemonInv, Taken
  <1>3. Len(delivered) \in 0..stream.count
    <2>1. Len(delivered) <= n
      BY <1>1, <1>2, DaemonMeant DEF Reported
    <2>2. Len(delivered) \in Nat
      BY <1>1, LenProperties
    <2>3. n \in Nat /\ n <= stream.count /\ stream.count \in Nat
      BY <1>1, DaemonShape, TextEnd
    <2> QED
      BY <2>1, <2>2, <2>3
  <1> QED
    BY <1>1, <1>3 DEF LinkTypes, FramingTypeOK

\* Whoever sends and whatever: no parser reads past what has arrived, keeps anything but
\* text of its stream, or hands out more messages than were sent.
THEOREM FramingTypeCorrect == Spec => []FramingTypeOK
  <1>1. LinkTypes /\ FramerInv /\ SimInv /\ DaemonInv => FramingTypeOK
    <2> SUFFICES ASSUME LinkTypes, FramerInv, SimInv, DaemonInv PROVE FramingTypeOK
      OBVIOUS
    <2>1. link \in {"box", "sim", "daemon"}
      BY DEF LinkTypes
    <2> QED
      BY <2>1, BoxTypesAll, SimTypesAll, DaemonTypesAll
  <1> QED
    BY <1>1, LinkTypesInvariant, FramerInvariant, SimInvariant, DaemonInvariant, PTL
=============================================================================
