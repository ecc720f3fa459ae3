---------------------------- MODULE PacketParse ----------------------------
(***************************************************************************)
(* How received bytes become packets: CSessionBuffer (Common/              *)
(* SessionBuffer.hpp), the two parsers of PacketParse_Interface.cpp, and   *)
(* the receiving sides of CTcpSession and CUdpServer that feed them.       *)
(*                                                                         *)
(* A packet is a header of HeadLen bytes (40 in the code) and a body of    *)
(* the length the header names; a byte is modelled by the packet it is of, *)
(* its offset there, and the length a header at this place names.  A TCP   *)
(* read returns any part of the stream; a datagram holds packets up to any *)
(* cut.                                                                    *)
(*                                                                         *)
(* The parsers compare what is buffered with the body alone.  When the     *)
(* body's length is there but not header and body, they copy bytes that    *)
(* were never received and subtract past zero: nothing is known from there *)
(* on, and the model stops ("overrun").                                    *)
(***************************************************************************)
EXTENDS Naturals, Sequences

CONSTANTS HeadLen,         \* size of a header
          Limit,        \* body length from which a packet is illegal
          Bodies,       \* body lengths that are sent
          MaxBuff,      \* recv_buff_size of the session
          MaxPackets,   \* how many packets are sent over TCP
          MaxDatagrams  \* how many datagrams are received

ASSUME SizesOK ==
    /\ HeadLen \in Nat \ {0} /\ Limit \in Nat /\ Bodies \subseteq Nat
    /\ MaxPackets \in Nat /\ MaxDatagrams \in Nat
    /\ MaxBuff \in Nat /\ HeadLen <= MaxBuff
    /\ \A b \in Bodies : b < Limit => HeadLen + b <= MaxBuff

VARIABLES io_type,               \* "tcp" or "udp"
          sent,                  \* body lengths of the packets sent
          received,              \* tcp: bytes read; udp: the datagrams
          session_recv_buffer,   \* the bytes up to write_size_
          messages,              \* handed to assignation_thread_module_logic
          state                  \* "open", "closing" or "overrun"

parseVars == <<io_type, sent, received, session_recv_buffer, messages, state>>

\* The sequences of seqs, one behind the other.
Concat(seqs) ==
    LET first[n \in 0 .. Len(seqs)] == IF n = 0 THEN <<>> ELSE first[n - 1] \o seqs[n]
    IN  first[Len(seqs)]

Byte == [packet : Nat, offset : Nat, body : Nat]
Bytes(n, b) ==
    [i \in 1 .. HeadLen + b |-> [packet |-> n, offset |-> i - 1, body |-> b]]
Stream(bs) == Concat([n \in DOMAIN bs |-> Bytes(n, bs[n])])

ParseInit ==
    /\ io_type \in {"tcp", "udp"}
    /\ sent = <<>>
    /\ received = IF io_type = "tcp" THEN 0 ELSE <<>>
    /\ session_recv_buffer = <<>>
    /\ messages = <<>>
    /\ state = "open"
----------------------------------------------------------------------------
\* Variant: a buffer of which all is consumed is left as it is.
MoveNotAll(buffer, length) ==
    IF length >= Len(buffer) THEN buffer ELSE SubSeq(buffer, length + 1, Len(buffer))

\* CSessionBuffer::move.
Move(buffer, length) ==
    IF length >= Len(buffer) THEN <<>> ELSE SubSeq(buffer, length + 1, Len(buffer))

\* Variant: one byte more than the packet is asked for.
EndsBeyondByOne(left, body) == left <= HeadLen + body

\* The packet is longer than what is buffered, although its body is not.
EndsBeyond(left, body) == left < HeadLen + body

\* One round of the loop of parse_packet_from_recv_buffer_stream, at
\* packet_pos = pos; later[p] is what the rounds from p on come to.  What a
\* false returns with is not looked at.
ParseRound(buffer, pos, later) ==
    LET stop(result, rest) == [result |-> result, list |-> <<>>, buffer |-> rest]
        left == Len(buffer) - pos
        body == buffer[pos + 1].body
        next == pos + HeadLen + body
    IN  IF left < HeadLen THEN stop("ok", Move(buffer, pos))
        ELSE IF body >= Limit THEN stop("bad", buffer)
        ELSE IF left < body THEN stop("ok", Move(buffer, pos))
        ELSE IF EndsBeyond(left, body) THEN stop("overrun", <<>>)
        ELSE [later[next] EXCEPT !.list = <<SubSeq(buffer, pos + 1, next)>> \o @]

\* parse_packet_from_recv_buffer_stream: all packets of the buffer.
ParseStream(buffer) ==
    LET from[pos \in 0 .. Len(buffer)] == ParseRound(buffer, pos, from)
    IN  from[0]

\* parse_packet_from_recv_buffer_single: the first packet of a datagram.
ParseSingle(buffer) ==
    LET body == buffer[1].body
        size == HeadLen + body
    IN  IF Len(buffer) < HeadLen \/ body >= Limit \/ Len(buffer) < body
        THEN [result |-> "bad", list |-> <<>>, buffer |-> <<>>]
        ELSE IF EndsBeyond(Len(buffer), body)
        THEN [result |-> "overrun", list |-> <<>>, buffer |-> <<>>]
        ELSE [result |-> "ok", list |-> <<SubSeq(buffer, 1, size)>>,
              buffer |-> Move(buffer, Len(buffer) - size)]
----------------------------------------------------------------------------
\* The peer of a TCP session sends a packet.
Send(b) ==
    /\ io_type = "tcp"
    /\ Len(sent) < MaxPackets
    /\ sent' = Append(sent, b)
    /\ UNCHANGED <<io_type, received, session_recv_buffer, messages, state>>

\* n more bytes of the stream, within the room async_read_some was given,
\* are parsed behind the bytes already there; what a false was preceded by is
\* not handed on.
Read(n, there) ==
    LET parsed == ParseStream(there \o SubSeq(Stream(sent), received + 1, received + n))
    IN  /\ io_type = "tcp" /\ state = "open"
        /\ n <= Len(Stream(sent)) - received
        /\ n <= MaxBuff - Len(session_recv_buffer)
        /\ session_recv_buffer' = parsed.buffer
        /\ received' = received + n
        /\ \/ /\ parsed.result = "ok"
              /\ messages' = messages \o parsed.list
              /\ UNCHANGED state
           \/ /\ parsed.result # "ok"
              /\ state' = IF parsed.result = "bad" THEN "closing" ELSE "overrun"
              /\ UNCHANGED messages
        /\ UNCHANGED <<io_type, sent>>

\* Variant: the bytes are written to the beginning of the buffer.
ReadAnew(n) == Read(n, <<>>)

\* do_read and do_read_some of a session that is not bridged.
DoReadSome(n) == Read(n, session_recv_buffer)

\* The datagram with the packets bs, cut off by the sender or by the room in
\* the buffer; moved bytes leave the buffer after the parser.
Datagram(bs, cut, moved) ==
    LET datagram == SubSeq(Stream(bs), 1, cut)
        parsed == ParseSingle(session_recv_buffer \o datagram)
    IN  /\ io_type = "udp" /\ state = "open"
        /\ Len(received) < MaxDatagrams
        /\ cut <= MaxBuff - Len(session_recv_buffer)
        /\ received' = Append(received, datagram)
        /\ session_recv_buffer' = Move(parsed.buffer, moved)
        /\ messages' = messages \o parsed.list
        /\ state' = IF parsed.result = "overrun" THEN "overrun" ELSE "open"
        /\ UNCHANGED <<io_type, sent>>

\* Variant: the parser is trusted to have moved all.
ReceiveFromKeeps(bs, cut) == Datagram(bs, cut, 0)

\* do_receive_from of a CUdpServer whose endpoint is not bridged.  A false
\* closes the endpoint and not the server; the buffer is moved by the whole
\* length in the end.
DoReceiveFrom(bs, cut) == Datagram(bs, cut, cut)

Datagrams == {<<b>> : b \in Bodies} \cup {<<b, c>> : b \in Bodies, c \in Bodies}

ParseNext ==
    \/ \E b \in Bodies : Send(b)
    \/ \E n \in 1 .. MaxBuff : DoReadSome(n)
    \/ \E bs \in Datagrams, cut \in 1 .. MaxBuff :
          cut <= Len(Stream(bs)) /\ DoReceiveFrom(bs, cut)

ParseSpec == ParseInit /\ [][ParseNext]_parseVars
----------------------------------------------------------------------------
\* What is buffered and handed on consists of received bytes, and of no more
\* than have been sent.
ParseTypeOK ==
    /\ io_type \in {"tcp", "udp"} /\ sent \in Seq(Bodies)
    /\ io_type = "tcp" => received \in 0 .. Len(Stream(sent))
    /\ io_type = "udp" => received \in Seq(Seq(Byte) \ {<<>>})
    /\ session_recv_buffer \in Seq(Byte)
    /\ messages \in Seq(Seq(Byte))
    /\ state \in {"open", "closing", "overrun"}

\* How many bytes the first n packets have, and how many packets are whole
\* among the bytes received: what a parser has to find.
Ends(n) == Len(Stream(SubSeq(sent, 1, n)))
Whole == CHOOSE n \in 0 .. Len(sent) :
             /\ Ends(n) <= received
             /\ n < Len(sent) => Ends(n + 1) > received

\* However the stream was cut into reads, the packets handed on are the ones
\* that have arrived whole, in order and once, and the buffer holds the rest
\* (PacketParse_Interface.cpp:40, SessionBuffer.hpp:57).
CutsDoNotMatter ==
    io_type = "tcp" /\ state = "open" =>
        /\ messages = [n \in 1 .. Whole |-> Bytes(n, sent[n])]
        /\ session_recv_buffer = SubSeq(Stream(sent), Ends(Whole) + 1, received)

\* A session stops reading for a cause only.  The parser overruns the buffer
\* when a read ended inside a packet of which it has the header, and it refuses
\* the data when a header that arrived names an illegal length
\* (PacketParse_Interface.cpp:79, 100).
StopsForCause ==
    io_type = "tcp" =>
        /\ state = "overrun" =>
              \E n \in DOMAIN sent : Ends(n - 1) + HeadLen <= received /\ received < Ends(n)
        /\ state = "closing" =>
              \E n \in DOMAIN sent : sent[n] >= Limit /\ Ends(n - 1) + HeadLen <= received

\* A session that reads on has room to read into: what the parser leaves in
\* the buffer is less than a packet that fits (TcpSession.cpp:135,
\* SessionBuffer.hpp:44).
RoomForMore ==
    io_type = "tcp" /\ state = "open" => Len(session_recv_buffer) < MaxBuff

\* The packet a datagram yields: its first, if it is legal and whole.
Yield(d) ==
    LET size == HeadLen + d[1].body IN
    IF Len(d) >= size /\ d[1].body < Limit THEN <<SubSeq(d, 1, size)>> ELSE <<>>

\* A datagram is parsed on its own: nothing of the ones before it, refused or
\* with bytes left over, is in the buffer (UdpServer.cpp:166, 179).
DatagramsAreAlone ==
    io_type = "udp" /\ state = "open" =>
        /\ session_recv_buffer = <<>>
        /\ messages = Concat([i \in DOMAIN received |-> Yield(received[i])])

\* "收包不完整，继续接收" (PacketParse_Interface.cpp:102): a packet that is
\* not complete is left for the next read.
IncompleteIsKept == state # "overrun"
=============================================================================
