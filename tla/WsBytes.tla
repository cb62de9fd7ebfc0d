------------------------------- MODULE WsBytes -------------------------------
(***************************************************************************)
(* A websocket presented as a stream of bytes: one direction of it, the      *)
(* writer at one end and the reader at the other.  The multiplexer above     *)
(* writes and reads in pieces of any size; the websocket below carries       *)
(* messages, among them some that are not data.                             *)
(***************************************************************************)
EXTENDS Naturals, Sequences, SequencesExt

CONSTANTS MaxBytes,    \* bound: bytes written
          MaxPiece,    \* bound: bytes in one write or one read
          SinkRoom,    \* messages the websocket takes before it must be flushed
          MaxNoise     \* bound: messages that are not data, and lost connections

ASSUME WsAssumption == {MaxBytes, MaxPiece, SinkRoom, MaxNoise} \subseteq Nat

VARIABLES wsWritten, wsDelivered, wsClosed, wsEnded, wsBroken,   \* as in ByteStream
          sink,      \* messages accepted and not yet flushed
          wire,      \* messages on their way
          unread,    \* WsBytes::unread: the part of a message that did not fit
          parked,    \* the reader's task waits to be woken
          waker,     \* the websocket has somebody to wake when a message comes
          noise

wsInterface == <<wsWritten, wsDelivered, wsClosed, wsEnded, wsBroken>>
wsVars == <<wsInterface, sink, wire, unread, parked, waker, noise>>

Binary(bytes) == [kind |-> "binary", bytes |-> bytes]
Bare(kind)    == [kind |-> kind, bytes |-> <<>>]

WsInit ==
    /\ wsWritten = <<>> /\ wsDelivered = <<>>
    /\ wsClosed = FALSE /\ wsEnded = FALSE /\ wsBroken = FALSE
    /\ sink = <<>> /\ wire = <<>> /\ unread = <<>>
    /\ parked = FALSE /\ waker = FALSE /\ noise = 0

-----------------------------------------------------------------------------
(* The writer.                                                             *)

\* What is put on the wire wakes the reader if it left word to be woken.
Put(messages) ==
    /\ wire' = wire \o messages
    /\ parked' = (parked /\ ~waker)
    /\ waker' = FALSE

\* Faulty variant: the sink is not asked, and drops what it has no room for.
PollWriteUnasked(n) ==
    LET bytes == [i \in 1..n |-> Len(wsWritten) + i]
    IN  /\ ~wsClosed
        /\ sink' = IF Len(sink) < SinkRoom THEN Append(sink, Binary(bytes)) ELSE sink
        /\ wsWritten' = wsWritten \o bytes
        /\ UNCHANGED <<wsDelivered, wsClosed, wsEnded, wsBroken, wire, unread, parked, waker, noise>>

\* poll_write: one message per write, once the sink says it is ready.
PollWrite(n) ==
    LET bytes == [i \in 1..n |-> Len(wsWritten) + i]
    IN  /\ ~wsClosed
        /\ Len(sink) < SinkRoom
        /\ sink' = Append(sink, Binary(bytes))
        /\ wsWritten' = wsWritten \o bytes
        /\ UNCHANGED <<wsDelivered, wsClosed, wsEnded, wsBroken, wire, unread, parked, waker, noise>>

PollFlush ==
    /\ ~wsClosed /\ sink # <<>>
    /\ Put(sink)
    /\ sink' = <<>>
    /\ UNCHANGED <<wsInterface, unread, noise>>

\* poll_close: what is in the sink goes first.
PollClose ==
    /\ ~wsClosed
    /\ wsClosed' = TRUE
    /\ Put(Append(sink, Bare("close")))
    /\ sink' = <<>>
    /\ UNCHANGED <<wsWritten, wsDelivered, wsEnded, wsBroken, unread, noise>>

-----------------------------------------------------------------------------
(* The reader.                                                             *)

\* Messages that carry no bytes of the stream.
IsNoise(m) == m.kind = "ping" \/ (m.kind = "binary" /\ m.bytes = <<>>)

\* drain_into: what fits is taken, the rest kept.
DrainInto(bytes, size) ==
    LET taken == IF Len(bytes) < size THEN Len(bytes) ELSE size
    IN  /\ wsDelivered' = wsDelivered \o SubSeq(bytes, 1, taken)
        /\ unread' = SubSeq(bytes, taken + 1, Len(bytes))

Reading == ~parked /\ ~wsEnded /\ ~wsBroken

\* Anything left over from last time comes first.
ReadUnread(size) ==
    /\ Reading /\ unread # <<>>
    /\ DrainInto(unread, size)
    /\ UNCHANGED <<wsWritten, wsClosed, wsEnded, wsBroken, sink, wire, parked, waker, noise>>

\* Faulty variant: a message that is not data ends the poll, and nobody is left to wake it.
ReadSocketOnce(size) ==
    /\ Reading /\ unread = <<>>
    /\ IF wire = <<>>
       THEN /\ parked' = TRUE /\ waker' = TRUE
            /\ UNCHANGED <<wsInterface, wire, unread>>
       ELSE /\ wire' = Tail(wire)
            /\ parked' = IsNoise(Head(wire)) /\ waker' = FALSE
            /\ IF Head(wire).kind = "binary"
               THEN DrainInto(Head(wire).bytes, size)
               ELSE UNCHANGED <<wsDelivered, unread>>
            /\ wsEnded' = (Head(wire).kind = "close")
            /\ wsBroken' = (Head(wire).kind \in {"text", "error"})
            /\ UNCHANGED <<wsWritten, wsClosed>>
    /\ UNCHANGED <<sink, noise>>

\* The loop of poll_read: noise is passed over until a message says something, or there is
\* none and the websocket has been told whom to wake.
ReadSocket(size) ==
    /\ Reading /\ unread = <<>>
    /\ \/ /\ \A i \in 1..Len(wire) : IsNoise(wire[i])
          /\ wire' = <<>> /\ parked' = TRUE /\ waker' = TRUE
          /\ UNCHANGED <<wsInterface, unread>>
       \/ \E first \in 1..Len(wire) :
            LET m == wire[first] IN
            /\ ~IsNoise(m) /\ \A i \in 1..first - 1 : IsNoise(wire[i])
            /\ wire' = SubSeq(wire, first + 1, Len(wire))
            /\ IF m.kind = "binary" THEN DrainInto(m.bytes, size)
                                    ELSE UNCHANGED <<wsDelivered, unread>>
            /\ wsEnded' = (m.kind = "close")
            /\ wsBroken' = (m.kind \in {"text", "error"})
            /\ UNCHANGED <<wsWritten, wsClosed, parked, waker>>
    /\ UNCHANGED <<sink, noise>>

-----------------------------------------------------------------------------
(* The network and the library.                                            *)

\* A ping, an empty message, or text, which has no business here.
Noise ==
    /\ ~wsClosed /\ noise < MaxNoise /\ noise' = noise + 1
    /\ \E m \in {Bare("ping"), Bare("binary"), Bare("text")} : Put(<<m>>)
    /\ UNCHANGED <<wsInterface, sink, unread>>

\* The connection is lost with what was on it.
Lose ==
    /\ noise < MaxNoise /\ noise' = noise + 1
    /\ \E n \in 0..Len(wire) : wire' = SubSeq(wire, 1, n) \o <<Bare("error")>>
    /\ parked' = (parked /\ ~waker) /\ waker' = FALSE
    /\ UNCHANGED <<wsInterface, sink, unread>>

WsWriter == (\E n \in 1..MaxPiece : Len(wsWritten) + n <= MaxBytes /\ PollWrite(n)) \/ PollFlush \/ PollClose
WsReader == \E size \in 1..MaxPiece : ReadUnread(size) \/ ReadSocket(size)
WsNext   == WsWriter \/ WsReader \/ Noise \/ Lose

\* The multiplexer polls a reader that is not parked.
WsFairness == WF_wsVars(WsReader)

WsSpec == WsInit /\ [][WsNext]_wsVars /\ WsFairness

-----------------------------------------------------------------------------
\* Every byte the writer's calls have accepted is with the reader, kept for it, on the wire
\* or in the sink, in that order and once, unless the connection was lost.
EveryByteIsSomewhere ==
    LET BytesOf(messages) == FlattenSeq([i \in DOMAIN messages |-> messages[i].bytes])
    IN  (\A i \in DOMAIN wire : wire[i].kind \notin {"text", "error"}) /\ ~wsBroken
            => wsWritten = wsDelivered \o unread \o BytesOf(wire) \o BytesOf(sink)

Stream == INSTANCE ByteStream WITH written <- wsWritten, delivered <- wsDelivered,
                                   closed <- wsClosed, ended <- wsEnded, broken <- wsBroken

\* WsBytes is a stream of bytes: none lost, doubled or out of order, the end only at the
\* end, and a reader that goes on asking gets there.
IsAByteStream == Stream!Spec
=============================================================================
