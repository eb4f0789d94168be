----------------------------- MODULE MCFraming -----------------------------
(* TLC instances of Framing: the streams are put together from messages. *)
EXTENDS Framing, SequencesExt

\* A stream of messages, each with its bytes and what it means to its reader.
Stream(messages) ==
    LET upTo(k) == FlattenSeq([i \in 1..k |-> messages[i].bytes])
    IN  [bytes |-> upTo(Len(messages)),
         count |-> Len(messages),
         ends |-> [k \in 0..Len(messages) |-> Len(upTo(k))],
         meant |-> [k \in 0..Len(messages) |->
                        FlattenSeq([i \in 1..k |-> messages[i].meant])]]

\* With the nesting of its braces: those outside of strings that open less those that close.
SimStream(messages) ==
    LET s == Stream(messages)
        free(j) == s.bytes[j - 1] # "escape" \/ s.bytes[j - 2] = "escape"
        quotes(i) == {j \in 1..i : s.bytes[j] = "quote" /\ (j < 3 \/ free(j))}
        inString(i) == Cardinality(quotes(i)) % 2 = 1
        escaped(i) == inString(i) /\ i > 0 /\ s.bytes[i] = "escape" /\ s.bytes[i - 1] # "escape"
        braces(i, b) == Cardinality({j \in 1..i : s.bytes[j] = b /\ ~inString(j)})
    IN  [bytes |-> s.bytes, count |-> s.count, ends |-> s.ends, meant |-> s.meant,
         text |-> [i \in 0..Len(s.bytes) |->
                       IF escaped(i) THEN "escaped" ELSE IF inString(i) THEN "quoted" ELSE "plain"],
         depth |-> [i \in 0..Len(s.bytes) |-> braces(i, "{") - braces(i, "}")]]

AllStreams(messages) == {Stream(m) : m \in [1..3 -> messages]}

Packet(words) == [bytes |-> words, meant |-> <<words>>]
\* Packets of each length, the longest and an empty one included; a length too short and
\* one too long for a packet.
MCBoxStreams ==
    AllStreams({Packet(<<7, 2>>), Packet(<<8, 3, 2>>), Packet(<<9, 4, 1, 4>>),
                Packet(<<7, 1>>), Packet(<<8, 5, 2, 2, 3>>)})

Reply(text) == [bytes |-> text, meant |-> <<text>>]
Noise(text) == [bytes |-> text, meant |-> <<>>]
\* A player message, a string with a brace and an escaped quote, objects that are no
\* responses, after which nothing is missing.
SimMessages ==
    {Reply(<<"{", "code", "{", "}", "}">>),
     Reply(<<"{", "quote", "}", "escape", "quote", "quote", "code", "}">>),
     Noise(<<"{", "quote", "escape", "escape", "quote", "}">>),
     [bytes |-> <<"newline", "{", "code", "}">>, meant |-> <<<<"{", "code", "}">>>>]}
\* After a closing brace too many nothing is found any more.
SimStreamsOfThree ==
    LET spoilt(m) == <<m, Noise(<<"}", "{", "code", "}">>), Noise(m.bytes)>>
    IN  {SimStream(m) : m \in [1..3 -> SimMessages] \cup {spoilt(m) : m \in SimMessages}}
\* TLC evaluates a definition once, unless a constant of the cfg stands for it.
MCSimStreams == SimStreamsOfThree

Block(type, data) ==
    [bytes |-> <<"event:", type, "newline", "data:">> \o data \o <<"newline", "newline">>,
     meant |-> <<[type |-> type, data |-> data]>>]
MCDaemonStreams ==
    AllStreams({Block("status", <<"a">>), Block("error", <<"char1", "char2", "b">>),
                Noise(<<":", "keep-alive", "newline", "newline">>)})
=============================================================================
