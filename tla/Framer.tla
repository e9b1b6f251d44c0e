------------------------------- MODULE Framer -------------------------------
(***************************************************************************)
(* The bytes of the protocol (protocol.py): what create_handshake and      *)
(* create_message put on a connection and how a MessageFramer cuts it into *)
(* messages again.  The code has HeaderLen = 18, Padding = 10 zero bytes   *)
(* and numbers of Width = 4 bytes of base Base = 256.                      *)
(***************************************************************************)
EXTENDS Naturals, SequencesExt

CONSTANTS Header, Padding, Width, Base

\* MsgType, as far as a connection is set up with it.
HaveType     == 4
BitfieldType == 5

ASSUME FramerAssumption ==
    /\ Padding \in Nat /\ Width \in Nat \ {0}
    /\ Base \in Nat /\ BitfieldType < Base
    /\ Header \in Seq(0 .. Base - 1)

HandshakeLen == Len(Header) + Padding + Width

\* struct.pack and struct.unpack with ">I": the highest byte first.
Place[k \in Nat] == IF k = 0 THEN 1 ELSE Base * Place[k - 1]

Pack(n) == [k \in 1 .. Width |-> (n \div Place[Width - k]) % Base]

Unpack(bytes) ==
    LET value[k \in 0 .. Len(bytes)] ==
            IF k = 0 THEN 0 ELSE value[k - 1] * Base + bytes[k]
    IN  value[Len(bytes)]

\* What struct.pack takes; it raises on any other number.
Fits(n) == n \in Nat /\ n < Place[Width]

create_handshake(peer_id) ==
    Header \o [n \in 1 .. Padding |-> 0] \o Pack(peer_id)

create_message(msg_type, payload) ==
    Pack(1 + Len(payload)) \o <<msg_type>> \o payload

-----------------------------------------------------------------------------

NewFramer == [buffer |-> <<>>, handshake_done |-> FALSE]

feed(f, data) == [f EXCEPT !.buffer = @ \o data]

\* What next_message returns (None or an exception for two of the kinds) and
\* the framer it leaves.
Parsed(kind, value, payload, f) ==
    [kind |-> kind, value |-> value, payload |-> payload, framer |-> f]

Nothing(f) == Parsed("none", 0, <<>>, f)

Drop(f, n) == [f EXCEPT !.buffer = SubSeq(@, n + 1, Len(@))]

ParseHandshake(f) ==
    LET rest == Drop(f, HandshakeLen)
        peer_id == SubSeq(f.buffer, HandshakeLen - Width + 1, HandshakeLen)
    IN  IF Len(f.buffer) < HandshakeLen THEN Nothing(f)
        ELSE IF ~IsPrefix(Header, f.buffer) THEN Parsed("error", 0, <<>>, rest)
        ELSE Parsed("handshake", Unpack(peer_id), <<>>,
                    [rest EXCEPT !.handshake_done = TRUE])

\* Mistake: the message is cut off after as many bytes as the length says,
\* although the length does not count itself.
ParseShort(f) ==
    LET msg_len == Unpack(SubSeq(f.buffer, 1, Width)) IN
    IF Len(f.buffer) < Width \/ Len(f.buffer) < Width + msg_len THEN Nothing(f)
    ELSE Parsed("message", f.buffer[Width + 1],
                SubSeq(f.buffer, Width + 2, Width + msg_len), Drop(f, msg_len))

ParseMessage(f) ==
    LET msg_len == Unpack(SubSeq(f.buffer, 1, Width)) IN
    IF Len(f.buffer) < Width \/ Len(f.buffer) < Width + msg_len THEN Nothing(f)
    \* A keep-alive, which nobody sends.
    ELSE IF msg_len = 0 THEN Parsed("keepalive", 0, <<>>, Drop(f, Width))
    ELSE Parsed("message", f.buffer[Width + 1],
                SubSeq(f.buffer, Width + 2, Width + msg_len),
                Drop(f, Width + msg_len))

next_message(f) == IF f.handshake_done THEN ParseMessage(f) ELSE ParseHandshake(f)

=============================================================================
