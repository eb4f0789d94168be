------------------------------ MODULE Framing ------------------------------
(***************************************************************************)
(* How trakr finds the messages in a stream of bytes that arrives in       *)
(* pieces of any size: Framer::feed for the packets of the box             *)
(* (trakr-skytrak/src/wire.rs), drain_responses for the JSON objects of    *)
(* the sim (trakr-openconnect/src/wire.rs) and events() of the CLI for the *)
(* event blocks of the daemon (trakr/src/main.rs).                         *)
(*                                                                         *)
(* A symbol stands for the bytes that are never told apart.  A packet is a *)
(* sequence of words: its magic, its length, data.  In text, braces,       *)
(* quotes, escapes and line ends are symbols, a field name is one, and so  *)
(* is each of the two bytes of a character that has two.  A stream also    *)
(* has the places where the peer's messages end and what they mean, which  *)
(* no parser sees.                                                         *)
(***************************************************************************)
EXTENDS Integers, Sequences

CONSTANTS
    BoxStreams, SimStreams, DaemonStreams,  \* what the peers may send
    MaxLength,                              \* the longest packet (0x80000)
    MaxConnections                          \* bound: connections

\* The magic and the length: the eight bytes of a header.
Header == 2
\* The words between two message ends.
Message(s, k) == SubSeq(s.bytes, s.ends[k - 1] + 1, s.ends[k])
LengthWord(s, k) == s.bytes[s.ends[k - 1] + Header]
Readable(s, k) == LengthWord(s, k) \in Header..MaxLength

Cut(s) ==
    /\ s.count \in Nat
    /\ s.ends \in [0..s.count -> Nat]
    /\ s.ends[0] = 0 /\ s.ends[s.count] = Len(s.bytes)

\* The box tells the length of each packet, or a length no packet may have.
PacketStream(s) ==
    /\ s.bytes \in Seq(Nat)
    /\ Cut(s)
    /\ \A k \in 1..s.count :
        /\ s.ends[k - 1] + Header <= s.ends[k]
        /\ Readable(s, k) => LengthWord(s, k) = s.ends[k] - s.ends[k - 1]

\* The symbols of a text; those that the parsers make are named, for a proof cannot tell
\* that they are strings.
Symbol == STRING \cup {"mark", "message", "none"}

\* Text in messages, none of them empty; meant[k] is what the first k say.
TextStream(s) ==
    /\ s.bytes \in Seq(Symbol)
    /\ Cut(s)
    /\ \A j, k \in 0..s.count : j < k => s.ends[j] < s.ends[k]
    /\ DOMAIN s.meant = 0..s.count /\ s.meant[0] = <<>>

\* JSON, as the sim that writes it sees it: where a byte is inside a string, and how
\* many objects it is inside of.
Nested(s) ==
    /\ s.text \in [0..Len(s.bytes) -> {"plain", "quoted", "escaped"}] /\ s.text[0] = "plain"
    /\ s.depth \in [0..Len(s.bytes) -> Int] /\ s.depth[0] = 0
    /\ \A i \in 1..Len(s.bytes) :
        /\ s.text[i] = CASE s.text[i - 1] = "escaped" -> "quoted"
                         [] s.text[i - 1] = "quoted" /\ s.bytes[i] = "escape" -> "escaped"
                         [] s.text[i - 1] = "quoted" /\ s.bytes[i] = "quote" -> "plain"
                         [] s.text[i - 1] = "plain" /\ s.bytes[i] = "quote" -> "quoted"
                         [] OTHER -> s.text[i - 1]
        /\ s.depth[i] = CASE s.text[i - 1] = "plain" /\ s.bytes[i] = "{" -> s.depth[i - 1] + 1
                          [] s.text[i - 1] = "plain" /\ s.bytes[i] = "}" -> s.depth[i - 1] - 1
                          [] OTHER -> s.depth[i - 1]

\* An object that is in no other: from where the depth leaves 0 to where it is back.
Object(s, j, i) ==
    /\ j \in 1..Len(s.bytes) /\ i \in (j + 1)..Len(s.bytes)
    /\ s.depth[j - 1] = 0 /\ s.depth[i] = 0 /\ \A m \in j..(i - 1) : s.depth[m] > 0

\* serde_json takes an object for a Response if it has a code.
IsResponse(object) == \E i \in DOMAIN object : object[i] = "code"

Response(s, j, i) == Object(s, j, i) /\ IsResponse(SubSeq(s.bytes, j, i))

\* Where a response ends a message does, and that is all that messages mean.
ResponseStream(s) ==
    /\ TextStream(s) /\ Nested(s)
    /\ \A j, i \in 1..Len(s.bytes) :
        Response(s, j, i) => \E k \in 1..s.count :
            s.ends[k] = i /\ s.meant[k] = Append(s.meant[k - 1], SubSeq(s.bytes, j, i))
    /\ \A k \in 1..s.count :
        (\A j \in 1..s.ends[k] : ~Response(s, j, s.ends[k])) => s.meant[k] = s.meant[k - 1]

\* In a text an empty line is over at i.
EmptyLine(text, i) == text[i - 1] = "newline" /\ text[i] = "newline"

Line == [type |-> "message", data |-> <<>>, field |-> "none"]

\* Fields other than event and data, and comments, are passed over.
OnLine(b, x) ==
    CASE x = "newline" -> [b EXCEPT !.field = "none"]
      [] x # "newline" /\ b.field = "none" -> [b EXCEPT !.field = x]
      [] x # "newline" /\ b.field = "event:" -> [b EXCEPT !.type = x]
      [] x # "newline" /\ b.field = "data:" -> [b EXCEPT !.data = Append(@, x)]
      [] OTHER -> b

\* The loop over the lines of a block: what is known after each word of it.
Lines(block) ==
    LET at[i \in 0..Len(block)] == IF i = 0 THEN Line ELSE OnLine(at[i - 1], block[i])
    IN  at

\* What is printed for a block: nothing if it has no data.
Printed(block) ==
    LET b == Lines(block)[Len(block)]
    IN  IF b.data = <<>> \/ b.type = "keep-alive" THEN <<>>
        ELSE <<[type |-> b.type, data |-> b.data]>>

\* The daemon ends each event with an empty line, the first after the event before, and
\* names its type in ASCII; an event means what is printed of it when it arrives whole.
EventStream(s) ==
    /\ TextStream(s)
    /\ \A k \in 1..s.count :
        /\ s.ends[k - 1] + 2 <= s.ends[k] /\ EmptyLine(s.bytes, s.ends[k])
        /\ \A i \in (s.ends[k - 1] + 2)..(s.ends[k] - 1) : ~EmptyLine(s.bytes, i)
        /\ s.meant[k] = s.meant[k - 1] \o Printed(Message(s, k))
    /\ \A i, j \in 1..Len(s.bytes) :
        /\ i < j /\ s.bytes[i] = "event:"
        /\ \A m \in i..j : s.bytes[m] # "newline"
        => s.bytes[j] \notin {"char1", "char2"}

ASSUME FramingAssumption ==
    /\ \A s \in BoxStreams : PacketStream(s)
    /\ \A s \in SimStreams : ResponseStream(s)
    /\ \A s \in DaemonStreams : EventStream(s)
    /\ MaxLength \in Nat /\ MaxConnections \in Nat \ {0}

Streams(peer) ==
    CASE peer = "box" -> BoxStreams [] peer = "sim" -> SimStreams [] OTHER -> DaemonStreams

VARIABLES
    link,       \* the peer: "box", "sim" or "daemon"
    stream,     \* what it sends on this connection
    got,        \* how much of that has been read
    buf,        \* Framer::buf, acc of run, buf of events
    splitting,  \* a chunk has been read, and the loop over the buffer is not done
    delivered,  \* the messages of this connection that have been found
    connections \* bound

vars == <<link, stream, got, buf, splitting, delivered, connections>>

Init ==
    /\ link \in {"box", "sim", "daemon"}
    /\ stream \in Streams(link)
    /\ got = 0 /\ buf = <<>> /\ splitting = FALSE /\ delivered = <<>>
    /\ connections = 1

-----------------------------------------------------------------------------
(* A chunk arrives *)

\* String::from_utf8_lossy of one chunk: a character cut in two is two marks.
Lossy(chunk) ==
    LET whole(i) == /\ chunk[i] = "char1" => i < Len(chunk) /\ chunk[i + 1] = "char2"
                    /\ chunk[i] = "char2" => i > 1 /\ chunk[i - 1] = "char1"
    IN  [i \in 1..Len(chunk) |-> IF whole(i) THEN chunk[i] ELSE "mark"]

Text(chunk) == IF link = "daemon" THEN Lossy(chunk) ELSE chunk

\* Mutant: what is left of the chunk before is forgotten.
ReadAnew ==
    /\ ~splitting
    /\ \E n \in 1..(Len(stream.bytes) - got) :
        /\ got' = got + n
        /\ buf' = Text(SubSeq(stream.bytes, got + 1, got + n))
    /\ splitting' = TRUE
    /\ UNCHANGED <<link, stream, delivered, connections>>

Read ==
    /\ ~splitting
    /\ \E n \in 1..(Len(stream.bytes) - got) :
        /\ got' = got + n
        /\ buf' = buf \o Text(SubSeq(stream.bytes, got + 1, got + n))
    /\ splitting' = TRUE
    /\ UNCHANGED <<link, stream, delivered, connections>>

-----------------------------------------------------------------------------
(* Framer::feed: one turn of its loop *)

WholePacket ==
    /\ Len(buf) >= Header
    /\ buf[Header] \in Header..MaxLength
    /\ buf[Header] <= Len(buf)

\* Mutant: one packet at most is taken out of a chunk.
TakeOnePacket ==
    /\ link = "box" /\ splitting /\ WholePacket
    /\ delivered' = Append(delivered, SubSeq(buf, 1, buf[Header]))
    /\ buf' = SubSeq(buf, buf[Header] + 1, Len(buf))
    /\ splitting' = FALSE
    /\ UNCHANGED <<link, stream, got, connections>>

TakePacket ==
    /\ link = "box" /\ splitting /\ WholePacket
    /\ delivered' = Append(delivered, SubSeq(buf, 1, buf[Header]))
    /\ buf' = SubSeq(buf, buf[Header] + 1, Len(buf))
    /\ UNCHANGED <<link, stream, got, splitting, connections>>

\* Too little has arrived, or the length is out of bounds, and stays so.
AwaitPacket ==
    /\ link = "box" /\ splitting /\ ~WholePacket
    /\ splitting' = FALSE
    /\ UNCHANGED <<link, stream, got, buf, delivered, connections>>

-----------------------------------------------------------------------------
(* drain_responses: the loop over all bytes of the buffer *)

Scanner ==
    [depth |-> 0, start |-> 0, consumed |-> 0, inStr |-> FALSE, esc |-> FALSE, out |-> <<>>]

InString(s, b) ==
    [s EXCEPT !.esc = ~s.esc /\ b = "escape", !.inStr = s.esc \/ b # "quote"]

Opened(s, i) == [s EXCEPT !.depth = @ + 1, !.start = IF s.depth = 0 THEN i ELSE @]

Closed(s, acc, i) ==
    LET object == SubSeq(acc, s.start, i)
    IN  IF s.depth = 1 /\ s.start # 0
        THEN [s EXCEPT !.depth = 0, !.start = 0, !.consumed = i,
                       !.out = IF IsResponse(object) THEN Append(@, object) ELSE @]
        ELSE [s EXCEPT !.depth = @ - 1]

\* Mutant: braces count in strings too.
ScanPlain(s, acc, i) ==
    CASE acc[i] = "{" -> Opened(s, i)
      [] acc[i] = "}" -> Closed(s, acc, i)
      [] OTHER -> s

Scan(s, acc, i) ==
    CASE s.inStr -> InString(s, acc[i])
      [] ~s.inStr /\ acc[i] = "quote" -> [s EXCEPT !.inStr = TRUE]
      [] ~s.inStr /\ acc[i] = "{" -> Opened(s, i)
      [] ~s.inStr /\ acc[i] = "}" -> Closed(s, acc, i)
      [] OTHER -> s

\* The scanner after each byte of the buffer.
Scans(acc) ==
    LET at[i \in 0..Len(acc)] == IF i = 0 THEN Scanner ELSE Scan(at[i - 1], acc, i)
    IN  at

DrainResponses ==
    /\ link = "sim" /\ splitting
    /\ LET end == Scans(buf)[Len(buf)]
       IN  /\ delivered' = delivered \o end.out
           /\ buf' = SubSeq(buf, end.consumed + 1, Len(buf))
    /\ splitting' = FALSE
    /\ UNCHANGED <<link, stream, got, connections>>

-----------------------------------------------------------------------------
(* events: one turn of its inner loop *)

BlockEnds(text) == {i \in 2..Len(text) : EmptyLine(text, i)}

TakeBlock ==
    /\ link = "daemon" /\ splitting
    /\ BlockEnds(buf) # {}
    /\ LET end == CHOOSE i \in BlockEnds(buf) : \A j \in BlockEnds(buf) : i <= j
       IN  /\ delivered' = delivered \o Printed(SubSeq(buf, 1, end))
           /\ buf' = SubSeq(buf, end + 1, Len(buf))
    /\ UNCHANGED <<link, stream, got, splitting, connections>>

AwaitBlock ==
    /\ link = "daemon" /\ splitting /\ BlockEnds(buf) = {}
    /\ splitting' = FALSE
    /\ UNCHANGED <<link, stream, got, buf, delivered, connections>>

-----------------------------------------------------------------------------
\* Mutant: the buffer outlives the connection.
ReconnectWithBuffer ==
    /\ link # "daemon" /\ ~splitting /\ connections < MaxConnections
    /\ stream' \in Streams(link)
    /\ got' = 0 /\ delivered' = <<>>
    /\ connections' = connections + 1
    /\ UNCHANGED <<link, buf, splitting>>

\* Mutant: the place in the stream does too.
ReconnectInPlace ==
    /\ link # "daemon" /\ ~splitting /\ connections < MaxConnections
    /\ stream' \in Streams(link)
    /\ buf' = <<>> /\ delivered' = <<>>
    /\ connections' = connections + 1
    /\ UNCHANGED <<link, got, splitting>>

\* The link is lost, in the middle of a message or not: the framer and acc are locals
\* of the connection. The CLI ends with its connection.
Reconnect ==
    /\ link # "daemon" /\ ~splitting /\ connections < MaxConnections
    /\ stream' \in Streams(link)
    /\ got' = 0 /\ buf' = <<>> /\ delivered' = <<>>
    /\ connections' = connections + 1
    /\ UNCHANGED <<link, splitting>>

\* The peer has no more to send.
Quiet == ~splitting /\ got = Len(stream.bytes) /\ UNCHANGED vars

Next ==
    \/ Read
    \/ TakePacket \/ AwaitPacket
    \/ DrainResponses
    \/ TakeBlock \/ AwaitBlock
    \/ Reconnect
    \/ Quiet

Spec == Init /\ [][Next]_vars

-----------------------------------------------------------------------------
FramingTypeOK ==
    /\ link \in {"box", "sim", "daemon"}
    /\ stream \in Streams(link)
    /\ got \in 0..Len(stream.bytes)
    /\ buf \in Seq(IF link = "box" THEN Nat ELSE Symbol)
    /\ splitting \in BOOLEAN
    /\ Len(delivered) \in 0..stream.count
    /\ connections \in 1..MaxConnections

\* However the bytes of the box are cut into chunks, and wherever the connection
\* before was lost: feed has handed out the packets sent, in order and unchanged, and
\* between two reads all of them that have wholly arrived, up to the first whose length
\* is out of bounds (wire.rs:257-279).
PacketsWhole ==
    link = "box" =>
        LET n == Len(delivered)
        IN  /\ n <= stream.count
            /\ \A k \in 1..n : Readable(stream, k) /\ delivered[k] = Message(stream, k)
            /\ splitting \/ n = stream.count \/ ~Readable(stream, n + 1)
                   \/ got < stream.ends[n + 1]

\* No byte of the box is lost or read twice: the framer holds what has arrived since
\* the last packet it handed out, which is less than one packet while lengths are in
\* bounds, and everything for good once one is not (wire.rs:271).
BufferIsTail ==
    link = "box" =>
        LET n == Len(delivered)
        IN  /\ n <= stream.count /\ stream.ends[n] <= got
            /\ buf = SubSeq(stream.bytes, stream.ends[n] + 1, got)
            /\ splitting \/ n = stream.count \/ ~Readable(stream, n + 1)
                   \/ Len(buf) < MaxLength

\* Of stream s, k messages are whole in the first b bytes.
Arrived(s, k, b) == s.ends[k] <= b /\ (k < s.count => b < s.ends[k + 1])

\* However the text of the sim is cut, and with braces, quotes and escapes inside its
\* strings: run handles every response that has wholly arrived, once and in order, with
\* what is no response passed over ("keep any trailing partial object", trakr-openconnect
\* wire.rs:140-141). A closing brace too many ends that for the whole connection.
ResponsesWhole ==
    link = "sim" /\ ~splitting =>
        \E k \in 0..stream.count : Arrived(stream, k, got) /\ delivered = stream.meant[k]

\* However the event stream is cut, also inside a character: the CLI prints every event
\* that has wholly arrived, once, in order and under its own type, and no keep-alive;
\* its data is unchanged or visibly marred by the cut (main.rs:1003-1004).
BlocksWhole ==
    link = "daemon" /\ ~splitting =>
        \E k \in 0..stream.count :
            LET heard == stream.meant[k]
            IN  /\ Arrived(stream, k, got)
                /\ Len(delivered) = Len(heard)
                /\ \A i \in 1..Len(heard) :
                    /\ delivered[i].type = heard[i].type
                    /\ delivered[i].data = heard[i].data
                           \/ \E m \in DOMAIN delivered[i].data : delivered[i].data[m] = "mark"
=============================================================================
