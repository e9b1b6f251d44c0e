----------------------------- MODULE Connecting -----------------------------
(***************************************************************************)
(* How a connection of this peer comes to life, in bytes.  Three kinds of  *)
(* threads send on it: the one that opened or accepted it (handshake), its *)
(* receive thread (bitfield, once the handshake of the remote peer is in), *)
(* and the receive threads of other connections, which announce the pieces *)
(* they download meanwhile (peer_network.py:241-329, 391-403, 497-500,     *)
(* 552-616, connection.py).  The remote peer cuts the bytes into messages  *)
(* again and follows our bitfield.                                         *)
(*                                                                         *)
(* Only what the two peers do with this direction of the connection is     *)
(* modelled; that the remote peer stays alive is assumed.                  *)
(***************************************************************************)
EXTENDS Bitfield, Framer

CONSTANTS
    MyId,       \* our peer id
    Downloader, \* receive threads of other connections
    Downloads   \* bound: the pieces they download

ASSUME ConnectingAssumption ==
    /\ Base = Bit[ByteBits]
    /\ Downloads \subseteq Indices
    /\ Downloader \cap {"connector", "receiver", "nobody"} = {}
    \* The numbers that are packed.
    /\ Fits(MyId) /\ Fits(1 + Width) /\ Fits(1 + NumBytes)
    /\ \A i \in Indices : Fits(i)
    \* A HAVE is no longer than a handshake, and does not begin like one.
    /\ 1 + 2 * Width <= HandshakeLen
    /\ \E k \in 1 .. Width : k <= Len(Header) /\ Header[k] # Pack(1 + Width)[k]

VARIABLES
    outgoing,       \* we opened the connection, otherwise we accepted it
    key,            \* its key in connections: "none", "temporary" or "id"
    my_bitfield,    \* of our PeerState
    thread,         \* the threads that send
    lock,           \* who holds Connection.lock, "nobody" if free
    stream,         \* bytes sent and not received
    sent,           \* history: the messages sent, in order
    framer,         \* of the remote peer
    got,            \* history: the messages it parsed
    view,           \* what it holds of our bitfield
    open            \* it has not closed the connection

local == <<outgoing, key, my_bitfield>>
remote == <<framer, got, view, open>>
vars == <<local, thread, lock, stream, sent, remote>>

Threads == {"connector", "receiver"} \cup Downloader

\* A message is what next_message makes of it.
Message(value, payload) == [value |-> value, payload |-> payload]

Waits == [pc |-> "wait", piece |-> 0, message |-> Message(0, <<>>), bytes |-> <<>>]

TypeOK ==
    /\ outgoing \in BOOLEAN
    /\ key \in {"none", "temporary", "id"}
    /\ my_bitfield \in Data
    /\ \A t \in Threads :
          /\ thread[t].pc \in {"wait", "register", "broadcast", "count",
                               "snapshot", "send", "done"}
          /\ thread[t].piece \in Indices
          /\ thread[t].bytes \in Seq(Byte)
    /\ lock \in Threads \cup {"nobody"}
    /\ stream \in Seq(Byte)
    /\ framer.buffer \in Seq(Byte) /\ framer.handshake_done \in BOOLEAN
    /\ view \in Data
    /\ open \in BOOLEAN

Init ==
    /\ outgoing \in BOOLEAN
    /\ key = "none"
    /\ my_bitfield \in {NoPieces, AllPieces}
    /\ thread = [t \in Threads |->
                    IF t = "connector" THEN [Waits EXCEPT !.pc = "register"] ELSE Waits]
    /\ lock = "nobody"
    /\ stream = <<>>
    /\ sent = <<>>
    /\ framer = NewFramer
    /\ got = <<>>
    /\ view = NoPieces
    /\ open = TRUE

At(t, pc) == thread[t].pc = pc
Goes(t, pc) == thread' = [thread EXCEPT ![t].pc = pc]

\* Thread t calls conn.send.
Sends(t, m, bytes) ==
    thread' = [thread EXCEPT ![t].pc = "send", ![t].message = m, ![t].bytes = bytes]

-----------------------------------------------------------------------------
(* Connection.send: under the lock, as many bytes at a time as the socket  *)
(* takes.                                                                  *)

Chunk(t, n) ==
    LET bytes == thread[t].bytes
        done == n = Len(bytes)
    IN  /\ stream' = stream \o SubSeq(bytes, 1, n)
        /\ thread' = [thread EXCEPT
              ![t].bytes = SubSeq(bytes, n + 1, Len(bytes)),
              ![t].pc = IF done THEN "done" ELSE "send"]
        /\ lock' = IF done THEN "nobody" ELSE t
        /\ sent' = IF done THEN Append(sent, thread[t].message) ELSE sent

\* Mistake: without the lock.
SendUnlocked(t) ==
    /\ At(t, "send") /\ open
    /\ \E n \in 1 .. Len(thread[t].bytes) : Chunk(t, n)
    /\ UNCHANGED <<local, remote>>

Send(t) ==
    /\ At(t, "send") /\ open
    /\ lock \in {"nobody", t}
    /\ \E n \in 1 .. Len(thread[t].bytes) : Chunk(t, n)
    /\ UNCHANGED <<local, remote>>

\* On a connection that the remote peer closed, send raises; the exception is
\* printed.
SendFails(t) ==
    /\ At(t, "send") /\ ~open
    /\ lock \in {"nobody", t}
    /\ Goes(t, "done")
    /\ lock' = "nobody"
    /\ UNCHANGED <<local, stream, sent, remote>>

-----------------------------------------------------------------------------
(* The threads. *)

\* The connection is registered, then the handshake is sent and the receive
\* thread started.  An accepted connection has a temporary key first.
Register ==
    /\ At("connector", "register")
    /\ key' = IF outgoing THEN "id" ELSE "temporary"
    /\ Sends("connector", Message(MyId, <<>>), create_handshake(MyId))
    /\ UNCHANGED <<outgoing, my_bitfield, lock, stream, sent, remote>>

\* Mistake: an accepted connection keeps its temporary key.
ReceiveHandshakeKeepsKey ==
    /\ At("receiver", "wait") /\ At("connector", "done")
    /\ Goes("receiver", "count")
    /\ UNCHANGED <<local, lock, stream, sent, remote>>

\* The handshake of the remote peer: an accepted connection gets its id.
ReceiveHandshake ==
    /\ At("receiver", "wait") /\ At("connector", "done")
    /\ key' = "id"
    /\ Goes("receiver", "count")
    /\ UNCHANGED <<outgoing, my_bitfield, lock, stream, sent, remote>>

\* Is there anything to announce?
CountPieces ==
    /\ At("receiver", "count")
    /\ Goes("receiver", IF Pieces(my_bitfield) = {} THEN "done" ELSE "snapshot")
    /\ UNCHANGED <<local, lock, stream, sent, remote>>

\* to_bytes copies the bitfield, and the copy is sent.
TakeSnapshot ==
    /\ At("receiver", "snapshot")
    /\ Sends("receiver", Message(BitfieldType, my_bitfield),
             create_message(BitfieldType, my_bitfield))
    /\ UNCHANGED <<local, lock, stream, sent, remote>>

\* mark_piece_downloaded in another receive thread,
MarkPiece(d) ==
    /\ At(d, "wait")
    /\ \E i \in Downloads \ Pieces(my_bitfield) :
          /\ my_bitfield' = set_piece(my_bitfield, i)
          /\ thread' = [thread EXCEPT ![d].pc = "broadcast", ![d].piece = i]
    /\ UNCHANGED <<outgoing, key, lock, stream, sent, remote>>

\* and _broadcast_have, to the connections that have an id by now.
BroadcastHave(d) ==
    LET index == Pack(thread[d].piece) IN
    /\ At(d, "broadcast")
    /\ IF key = "id" THEN Sends(d, Message(HaveType, index), create_message(HaveType, index))
       ELSE Goes(d, "done")
    /\ UNCHANGED <<local, lock, stream, sent, remote>>

-----------------------------------------------------------------------------
(* The remote peer. *)

\* recv returns any part of what is there, once the framer has no message left.
Receive ==
    /\ open
    /\ next_message(framer).kind = "none"
    /\ \E n \in 1 .. Len(stream) :
          /\ framer' = feed(framer, SubSeq(stream, 1, n))
          /\ stream' = SubSeq(stream, n + 1, Len(stream))
    /\ UNCHANGED <<local, thread, lock, sent, got, view, open>>

\* The next message of the framer is handled.
HandleMessage ==
    LET p == next_message(framer)
        index == Unpack(SubSeq(p.payload, 1, Width))
    IN
    /\ open
    /\ p.kind \in {"handshake", "message"}
    /\ framer' = p.framer
    /\ got' = Append(got, Message(p.value, p.payload))
    /\ view' = IF p.kind = "handshake" THEN view
               ELSE IF p.value = BitfieldType THEN from_bytes(view, p.payload)
               ELSE IF p.value = HaveType /\ Len(p.payload) >= Width THEN set_piece(view, index)
               ELSE view
    /\ UNCHANGED <<local, thread, lock, stream, sent, open>>

\* A parse error closes the connection.
ParseError ==
    /\ open
    /\ next_message(framer).kind = "error"
    /\ framer' = next_message(framer).framer
    /\ open' = FALSE
    /\ UNCHANGED <<local, thread, lock, stream, sent, got, view>>

-----------------------------------------------------------------------------

Download(d) == MarkPiece(d) \/ BroadcastHave(d)

Greet == ReceiveHandshake \/ CountPieces \/ TakeSnapshot

RemoteThread == Receive \/ HandleMessage \/ ParseError

Next ==
    \/ Register
    \/ Greet
    \/ \E d \in Downloader : Download(d)
    \/ \E t \in Threads : Send(t) \/ SendFails(t)
    \/ RemoteThread

\* Every thread keeps running, and the socket takes bytes; whether another
\* piece is downloaded is open.
Fairness ==
    /\ WF_vars(Register)
    /\ WF_vars(Greet)
    /\ \A d \in Downloader : WF_vars(BroadcastHave(d))
    /\ \A t \in Threads : WF_vars(Send(t) \/ SendFails(t))
    /\ WF_vars(RemoteThread)

Spec == Init /\ [][Next]_vars /\ Fairness

-----------------------------------------------------------------------------
(* What the remote peer may rely on. *)

\* Everything that was to be sent was sent and read.
Settled ==
    /\ At("receiver", "done")
    /\ \A d \in Downloader : thread[d].pc \in {"wait", "done"}
    /\ stream = <<>> /\ next_message(framer).kind = "none"

\* Pieces whose HAVE was sent before a BITFIELD that lacks them.
Overtaken ==
    { i \in Indices : \E m, n \in DOMAIN sent :
        /\ m < n
        /\ sent[m] = Message(HaveType, Pack(i))
        /\ sent[n].value = BitfieldType /\ ~has_piece(sent[n].payload, i) }

\* The remote peer ends up with our bitfield, whenever we downloaded our
\* pieces: what the BITFIELD came too early for, a HAVE announces, because the
\* connection has its id before the snapshot is taken (306, 593 against 611)
\* and a piece is marked before the connections are listed (497 against 393).
\* Except for the pieces whose HAVE overtook the snapshot between 611 and 613.
ViewConverges ==
    Settled /\ open => Pieces(view) = Pieces(my_bitfield) \ Overtaken

\* It never credits us with a piece we have not got, however the bytes were
\* cut: bit order, spare bits, lengths and the send lock together.
ViewTrue == Pieces(view) \subseteq Pieces(my_bitfield)

\* README 4: "Upon connection establishment, both peers immediately transmit a
\* 32-byte handshake".  The remote peer closes the connection only if a HAVE of
\* another thread was faster (306 against 311), on connections that we opened.
ClosedByEarlyHave ==
    ~open => outgoing /\ sent # <<>> /\ sent[1].value = HaveType

Stream == INSTANCE MessageStream

\* The bytes, the threads and the framer implement a stream of messages.
ImplementsStream == Stream!Spec

=============================================================================
