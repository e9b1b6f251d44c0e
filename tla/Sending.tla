------------------------------- MODULE Sending -------------------------------
(***************************************************************************)
(* Two peers that exchange pieces over a connection whose socket buffers   *)
(* are bounded.  The receive thread of a connection sends its replies      *)
(* itself and reads nothing meanwhile (connection.py 22-46); the timer     *)
(* threads send on the same connection, behind the same lock               *)
(* (peer_network.py 175-196).  Each peer has pieces the other one wants,   *)
(* knows them, and is interested: BITFIELD and INTERESTED were exchanged.  *)
(***************************************************************************)
EXTENDS PeerState, SequencesExt

CONSTANTS
    Share,      \* Share[p]: the pieces p starts with
    Size,       \* units of a PIECE; the other messages are tiny
    Capacity,   \* units the socket buffers of one direction hold
    MaxChanges  \* bound: MaxChanges[p] CHOKEs and UNCHOKEs of p

ASSUME SendingAssumption ==
    /\ Cardinality(Peer) = 2
    /\ Share \in [Peer -> SUBSET Piece]
    /\ Size \in Nat \ {0} /\ Capacity \in Nat \ {0} /\ MaxChanges \in [Peer -> Nat]

VARIABLES
    ps,         \* ps[p]: peer_state of p
    out,        \* out[p][t]: units thread t of p still has to send
    lock,       \* lock[p]: who holds Connection.lock of p
    stream,     \* stream[p]: units sent by p and not received
    changes     \* changes[p]: CHOKEs and UNCHOKEs of p so far

vars == <<ps, out, lock, stream, changes>>

Threads == {"receiver", "timer"}

Other(p) == CHOOSE q \in Peer : q # p

Message(type, piece) == [type |-> type, piece |-> piece]
Signal(type) == Message(type, None)

MessageTypes ==
    { Signal(type) : type \in {"CHOKE", "UNCHOKE", "INTERESTED", "NOT_INTERESTED"} }
    \cup { Message(type, i) : type \in {"HAVE", "REQUEST", "PIECE"}, i \in Piece }

\* The framer has a message when its last unit is there.  Only a PIECE has more
\* units than one.
Part == Signal("part")

PieceUnits(i) == [k \in 1 .. Size |-> IF k = Size THEN Message("PIECE", i) ELSE Part]

Count(units, types) == Cardinality({ n \in DOMAIN units : units[n].type \in types })

\* What fills a buffer.
Load(units) == Count(units, {"part", "PIECE"})

Full(p) == Load(stream[p]) = Capacity

TypeOK ==
    /\ \A p \in Peer : IsStore(ps[p]) /\ Load(stream[p]) <= Capacity
    /\ out \in [Peer -> [Threads -> Seq(MessageTypes \cup {Part})]]
    /\ lock \in [Peer -> Threads \cup {"nobody"}]
    /\ stream \in [Peer -> Seq(MessageTypes \cup {Part})]
    /\ \A p \in Peer : changes[p] \in 0 .. MaxChanges[p]

Init ==
    /\ ps = [p \in Peer |->
          [NewStore(FALSE) EXCEPT
            !.my_bitfield = Share[p],
            !.neighbors = [q \in {Other(p)} |->
                [NewNeighbor EXCEPT
                    !.bitfield = Share[q],
                    !.am_interested = Share[q] \ Share[p] # {},
                    !.peer_interested = Share[p] \ Share[q] # {}]]]]
    /\ out = [p \in Peer |-> [t \in Threads |-> <<>>]]
    /\ lock = [p \in Peer |-> "nobody"]
    /\ stream = [p \in Peer |-> <<>>]
    /\ changes = [p \in Peer |-> 0]

-----------------------------------------------------------------------------
(* Connection: send and receive. *)

Says(p, t, units) == out' = [out EXCEPT ![p][t] = units]

\* The next unit, under the lock from the first one of a message to its last.
Send(p, t) ==
    /\ out[p][t] # <<>>
    /\ lock[p] \in {"nobody", t}
    /\ ~Full(p)
    /\ stream' = [stream EXCEPT ![p] = Append(@, Head(out[p][t]))]
    /\ out' = [out EXCEPT ![p][t] = Tail(@)]
    /\ lock' = [lock EXCEPT ![p] = IF Head(out[p][t]) = Part THEN t ELSE "nobody"]
    /\ UNCHANGED <<ps, changes>>

\* The receive thread of p reads, when it has nothing left to send.
Takes(p) ==
    /\ out[p]["receiver"] = <<>>
    /\ stream[Other(p)] # <<>>
    /\ stream' = [stream EXCEPT ![Other(p)] = Tail(@)]
    /\ UNCHANGED <<lock, changes>>

Receives(p, type) == Takes(p) /\ Head(stream[Other(p)]).type = type

ReceivePart(p) == Receives(p, "part") /\ UNCHANGED <<ps, out>>

-----------------------------------------------------------------------------
(* The handlers: the new store of p, and what it sends. *)

Becomes(p, s, units) ==
    /\ ps' = [ps EXCEPT ![p] = s]
    /\ Says(p, "receiver", units)

\* The interest in q as the pieces of store s call for it, and what is said.
Sync(s, q) == set_am_interested(s, q, get_interesting_pieces(s, q) # {})

SyncMessages(s, q) ==
    LET wanted == get_interesting_pieces(s, q) # {} IN
    IF wanted = is_am_interested_in_peer(s, q) THEN <<>>
    ELSE <<Signal(IF wanted THEN "INTERESTED" ELSE "NOT_INTERESTED")>>

\* Mistake: everything is requested at once.
RequestEverything(p, s, messages) ==
    LET q == Other(p)
        candidates == IF is_peer_choking_us(s, q) THEN {} ELSE Candidates(s, q)
    IN  Becomes(p, s, messages \o SetToSeq({ Message("REQUEST", i) : i \in candidates }))

\* Mistake: None is reserved when there is nothing to request.
RequestNone(p, s, messages) ==
    LET q == Other(p)
        candidates == IF is_peer_choking_us(s, q) THEN {} ELSE Candidates(s, q)
    IN  \/ candidates = {} /\ Becomes(p, reserve_request(s, q, None), messages)
        \/ \E i \in candidates :
              Becomes(p, reserve_request(s, q, i), Append(messages, Message("REQUEST", i)))

\* The next request, if there is anything to request.
RequestNext(p, s, messages) ==
    LET q == Other(p)
        candidates == IF is_peer_choking_us(s, q) THEN {}
                      ELSE { i \in Candidates(s, q) : CanReserve(s, q, i) }
    IN  \/ candidates = {} /\ Becomes(p, s, messages)
        \/ \E i \in candidates :
              Becomes(p, reserve_request(s, q, i), Append(messages, Message("REQUEST", i)))

\* Mistake: the request is not given up.
ReceiveChokeKeepsRequest(p) ==
    LET q == Other(p) IN
    /\ Receives(p, "CHOKE")
    /\ Becomes(p, set_peer_choking(ps[p], q, TRUE), <<>>)

ReceiveChoke(p) ==
    LET q == Other(p) IN
    /\ Receives(p, "CHOKE")
    /\ Becomes(p, clear_outstanding_request(set_peer_choking(ps[p], q, TRUE), q), <<>>)

ReceiveUnchoke(p) ==
    /\ Receives(p, "UNCHOKE")
    /\ RequestNext(p, set_peer_choking(ps[p], Other(p), FALSE), <<>>)

ReceiveInterest(p) ==
    /\ Takes(p)
    /\ Head(stream[Other(p)]).type \in {"INTERESTED", "NOT_INTERESTED"}
    /\ Becomes(p, set_peer_interested(ps[p], Other(p),
                    Head(stream[Other(p)]).type = "INTERESTED"), <<>>)

ReceiveHave(p) ==
    LET q == Other(p)
        s == neighbor_set_piece(ps[p], q, Head(stream[q]).piece)
    IN
    /\ Receives(p, "HAVE")
    /\ Becomes(p, Sync(s, q), SyncMessages(s, q))

\* Answered unless the other peer is choked.
ReceiveRequest(p) ==
    LET q == Other(p) IN
    /\ Receives(p, "REQUEST")
    /\ Becomes(p, ps[p], IF is_am_choking(ps[p], q) THEN <<>>
                         ELSE PieceUnits(Head(stream[q]).piece))

\* HAVE, the change of interest and the next request, in this order.
ReceivePiece(p) ==
    LET q == Other(p)
        i == Head(stream[q]).piece
        s == mark_piece_downloaded(clear_outstanding_request(ps[p], q), i)
        messages == <<Message("HAVE", i)>> \o SyncMessages(s, q)
    IN
    /\ Receives(p, "PIECE")
    /\ IF has_complete_file(s) THEN Becomes(p, Sync(s, q), messages)
       ELSE RequestNext(p, Sync(s, q), messages)

\* A timer thread unchokes the other peer if it is interested, or chokes it.
Tick(p) ==
    LET q == Other(p)
        choke == ~is_am_choking(ps[p], q)
    IN
    /\ changes[p] < MaxChanges[p]
    /\ out[p]["timer"] = <<>>
    /\ choke \/ ps[p].neighbors[q].peer_interested
    /\ ps' = [ps EXCEPT ![p] = IF choke THEN set_am_choking(@, {}, {q})
                               ELSE set_am_choking(@, {q}, {})]
    /\ Says(p, "timer", <<Signal(IF choke THEN "CHOKE" ELSE "UNCHOKE")>>)
    /\ changes' = [changes EXCEPT ![p] = @ + 1]
    /\ UNCHANGED <<lock, stream>>

-----------------------------------------------------------------------------

Receive(p) ==
    \/ ReceivePart(p)
    \/ ReceiveChoke(p) \/ ReceiveUnchoke(p) \/ ReceiveInterest(p)
    \/ ReceiveHave(p) \/ ReceiveRequest(p) \/ ReceivePiece(p)

Next ==
    \E p \in Peer :
        \/ Receive(p)
        \/ \E t \in Threads : Send(p, t)
        \/ Tick(p)

\* Every thread runs, and the sockets move bytes.  No tick is owed.
Fairness ==
    \A p \in Peer : WF_vars(Receive(p)) /\ \A t \in Threads : WF_vars(Send(p, t))

Spec == Init /\ [][Next]_vars /\ Fairness

-----------------------------------------------------------------------------

Sends(p, t) == out[p][t] # <<>>

\* Both receive threads wait for room in the buffer that the other one should
\* empty, and read nothing.  The sockets have no timeout (peer_network.py:296).
Circle == \A p \in Peer : Sends(p, "receiver") /\ Full(p)

\* README 3: a connection has a "background `_recv_loop` that continuously pulls
\* data from the TCP stream".  It does not while it sends an answer itself
\* (connection.py:28, called from connection.py:43), and two of them may wait
\* for each other.
NobodyWaitsInACircle == ~Circle

\* The REQUESTs and PIECEs under way between p and a peer that asks it.
Under(p) ==
    LET q == Other(p) IN
    Count(stream[q], {"REQUEST"}) + Count(out[q]["receiver"], {"REQUEST"})
        + Count(stream[p], {"PIECE"}) + Count(out[p]["receiver"], {"PIECE"})

\* README 7: "Request pipelining is disabled: the client must wait for the full
\* `PIECE`".  What is true of that: only an UNCHOKE can bring one more request
\* under way (a CHOKE before it gave up the last one), so that the UNCHOKEs of
\* a peer bound what the buffers have to hold for it.
FewUnderWay == \A p \in Peer : Under(p) <= (changes[p] + 1) \div 2

\* An outstanding request is answered, or given up for a CHOKE (717-730, 676-684),
\* however full the buffers are and whatever crosses it.  Only two receive
\* threads that wait for each other can hold it up.
RequestsSettle ==
    \A p \in Peer :
        Outstanding(ps[p], Other(p)) # None
            ~> Outstanding(ps[p], Other(p)) = None \/ Circle

=============================================================================
