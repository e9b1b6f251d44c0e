-------------------------------- MODULE Swarm --------------------------------
(***************************************************************************)
(* The peers of one swarm, exchanging messages over TCP (peer_network.py   *)
(* over connection.py and protocol.py, run by main.py).                    *)
(*                                                                         *)
(* One action is one run of a handler: a message taken off a connection by *)
(* its receive thread with everything on_bytes_handler does for it, one    *)
(* tick of a timer, one accepted or opened connection.  The interleavings  *)
(* of the threads INSIDE a handler are the subject of other modules.       *)
(*                                                                         *)
(* Peers are numbered by their position in PeerInfo.cfg.  A stream keeps   *)
(* order and loses nothing until a process crashes; a crash cuts it short. *)
(***************************************************************************)
EXTENDS PeerState, Sequences

CONSTANTS
    NumPeers,                   \* lines of PeerInfo.cfg
    Seeders,                    \* peers whose has_file flag is 1
    NumberOfPreferredNeighbors,
    MaxHasty,                   \* bound: timer ticks that overtake messages
    MaxFaults,                  \* bound: crashes and failed writes
    MaxLost                     \* bound: messages of a stream a crash loses

ASSUME SwarmAssumption ==
    /\ NumPeers \in Nat \ {0}
    /\ Peer = 1 .. NumPeers
    /\ Seeders \subseteq Peer
    /\ NumberOfPreferredNeighbors \in Nat
    /\ MaxHasty \in Nat /\ MaxFaults \in Nat /\ MaxLost \in Nat

VARIABLES
    status,            \* "off" before start, "up", then "stopped" or "crashed"
    ps,                \* peer_state of each peer
    connections,       \* keys > 0 of the connections dictionary
    incoming,          \* connections still under a temporary key < 0
    backlog,           \* opened by the remote side, not accepted yet
    next_peer,         \* loop variable of _connect_to_previous_peers
    chan,              \* chan[p][q]: the stream of bytes from p to q
    preferred_ids,
    optimistic_id,
    completion_logged,
    all_done,
    hasty,             \* timer ticks that changed a peer with messages under way
    faults             \* crashes and failed writes so far

netVars   == <<connections, incoming, backlog, next_peer>>
timerVars == <<preferred_ids, optimistic_id, hasty>>
doneVars  == <<completion_logged, all_done>>
vars == <<status, ps, netVars, chan, timerVars, doneVars, faults>>

-----------------------------------------------------------------------------
(* Messages.  Eof stands for the end of the stream: recv returns b"". *)

Signals == {"HANDSHAKE", "INTERESTED", "NOT_INTERESTED", "CHOKE", "UNCHOKE",
            "EOF"}

Message ==
    [type : Signals]
        \cup [type : {"HAVE", "REQUEST", "PIECE"}, piece : Piece]
        \cup [type : {"BITFIELD"}, bitfield : SUBSET Piece]

Signal(t)  == [type |-> t]
Have(i)    == [type |-> "HAVE", piece |-> i]
Request(i) == [type |-> "REQUEST", piece |-> i]
PieceMsg(i) == [type |-> "PIECE", piece |-> i]
BitfieldMsg(b) == [type |-> "BITFIELD", bitfield |-> b]

Status == {"off", "up", "stopped", "crashed"}

TypeOK ==
    /\ status \in [Peer -> Status]
    /\ ps = [p \in Peer |-> ps[p]] /\ \A p \in Peer : IsStore(ps[p])
    /\ connections \in [Peer -> SUBSET Peer]
    /\ incoming \in [Peer -> SUBSET Peer]
    /\ backlog \in [Peer -> SUBSET Peer]
    /\ next_peer \in [Peer -> Nat \ {0}]
    /\ chan \in [Peer -> [Peer -> Seq(Message)]]
    /\ preferred_ids \in [Peer -> SUBSET Peer]
    /\ optimistic_id \in [Peer -> Peer \cup {None}]
    /\ completion_logged \in [Peer -> BOOLEAN]
    /\ all_done \in [Peer -> BOOLEAN]
    /\ hasty \in Nat
    /\ faults \in Nat

Init ==
    /\ status = [p \in Peer |-> "off"]
    /\ ps = [p \in Peer |-> NewStore(p \in Seeders)]
    /\ connections = [p \in Peer |-> {}]
    /\ incoming = [p \in Peer |-> {}]
    /\ backlog = [p \in Peer |-> {}]
    /\ next_peer = [p \in Peer |-> 1]
    /\ chan = [p \in Peer |-> [q \in Peer |-> <<>>]]
    /\ preferred_ids = [p \in Peer |-> {}]
    /\ optimistic_id = [p \in Peer |-> None]
    /\ completion_logged = [p \in Peer |-> p \in Seeders]
    /\ all_done = [p \in Peer |-> FALSE]
    /\ hasty = 0
    /\ faults = 0

-----------------------------------------------------------------------------
(* Sending and receiving. *)

Up(p) == status[p] = "up"

\* p's streams after p sends sent[r] to every r.  Nobody will read what is
\* sent to a process that is gone.
Sending(p, sent) ==
    [r \in Peer |-> IF Up(r) THEN chan[p][r] \o sent[r] ELSE chan[p][r]]

\* Nothing to anybody but q.
OnlyTo(q, msgs) == [r \in Peer |-> IF r = q THEN msgs ELSE <<>>]

Transmit(p, sent) == chan' = [chan EXCEPT ![p] = Sending(p, sent)]

\* Connection.send raises on a connection whose other end is gone, unless the
\* kernel still takes the bytes.
SendOutcomes(q) == IF Up(q) THEN {TRUE} ELSE BOOLEAN

\* p's receive thread for q has the next message of the stream, of type t.
Receives(p, q, t) ==
    /\ Up(p) /\ p # q
    /\ chan[q][p] # <<>>
    /\ Head(chan[q][p]).type = t

\* p takes that message off the stream and sends sent[r] to every r.
Reply(p, q, sent) ==
    chan' = [chan EXCEPT ![q][p] = Tail(@), ![p] = Sending(p, sent)]

-----------------------------------------------------------------------------
(* Connecting. *)

\* main.py runs PeerNetwork.start.  Peers are started in the order of
\* PeerInfo.cfg.
Start(p) ==
    /\ status[p] = "off"
    /\ \A q \in Peer : q < p => status[q] # "off"
    /\ status' = [status EXCEPT ![p] = "up"]
    /\ UNCHANGED <<ps, netVars, chan, timerVars, doneVars, faults>>

\* _connect_to_previous_peers opens the connection to the next earlier peer,
\* registers it under the peer's id and sends the handshake.
Connect(p) ==
    LET q == next_peer[p] IN
    /\ Up(p) /\ q < p
    /\ Up(q)
    /\ connections' = [connections EXCEPT ![p] = @ \cup {q}]
    /\ backlog' = [backlog EXCEPT ![q] = @ \cup {p}]
    /\ next_peer' = [next_peer EXCEPT ![p] = q + 1]
    /\ Transmit(p, OnlyTo(q, <<Signal("HANDSHAKE")>>))
    /\ UNCHANGED <<status, ps, incoming, timerVars, doneVars, faults>>

\* All attempts to reach a process that is gone fail; on to the next peer.
GiveUp(p) ==
    LET q == next_peer[p] IN
    /\ Up(p) /\ q < p
    /\ status[q] \in {"stopped", "crashed"}
    /\ next_peer' = [next_peer EXCEPT ![p] = q + 1]
    /\ UNCHANGED <<status, ps, connections, incoming, backlog, chan,
                   timerVars, doneVars, faults>>

\* _accept_loop registers the connection under a temporary key and sends the
\* handshake.
Accept(p, q) ==
    /\ Up(p)
    /\ q \in backlog[p]
    /\ backlog' = [backlog EXCEPT ![p] = @ \ {q}]
    /\ incoming' = [incoming EXCEPT ![p] = @ \cup {q}]
    /\ Transmit(p, OnlyTo(q, <<Signal("HANDSHAKE")>>))
    /\ UNCHANGED <<status, ps, connections, next_peer, timerVars, doneVars,
                   faults>>

\* The receive thread of a connection runs once the connection is registered.
Attached(p, q) == q \in connections[p] \cup incoming[p]

-----------------------------------------------------------------------------
(* What several handlers share. *)

\* _check_termination sets all_done for a peer with store s.
Terminates(s, logged) ==
    /\ logged
    /\ has_complete_file(s)
    /\ all_neighbors_complete(s, NumPeers - 1)

\* Mistake: the loss of interest is not announced.
InterestMsgsOneWay(s, q) ==
    IF get_interesting_pieces(s, q) # {} /\ ~is_am_interested_in_peer(s, q)
    THEN <<Signal("INTERESTED")>> ELSE <<>>

\* The messages _sync_interest_for_peer sends to q, from store s.
InterestMsgs(s, q) ==
    LET interested == get_interesting_pieces(s, q) # {}
        current    == is_am_interested_in_peer(s, q)
    IN  IF interested = current THEN <<>>
        ELSE IF interested THEN <<Signal("INTERESTED")>>
        ELSE <<Signal("NOT_INTERESTED")>>

\* What _maybe_request_piece and _request_next_piece may do from store s: the
\* stores and the messages to q they can end in.  A reservation whose send
\* fails is cleared again.
RequestOutcomes(s, q) ==
    LET picks == { i \in Candidates(s, q) : CanReserve(s, q, i) }
        nothing == [store |-> s, msgs |-> <<>>]
    IN  IF is_peer_choking_us(s, q) \/ picks = {} THEN {nothing}
        ELSE { [store |-> reserve_request(s, q, i), msgs |-> <<Request(i)>>] :
                 i \in picks }
             \cup (IF FALSE \in SendOutcomes(q) THEN {nothing} ELSE {})

-----------------------------------------------------------------------------
(* The receive thread of p's connection to q: on_bytes_handler. *)

\* Mistake: only a complete bitfield is announced.
GreetingOfSeeders(s) ==
    IF has_complete_file(s) THEN <<BitfieldMsg(s.my_bitfield)>> ELSE <<>>

\* The answer to a handshake: the bitfield, when there is anything to announce.
Greeting(s) ==
    IF s.my_bitfield # {} THEN <<BitfieldMsg(s.my_bitfield)>> ELSE <<>>

\* HANDSHAKE: an incoming connection moves to the remote id.
ReceiveHandshake(p, q) ==
    /\ Attached(p, q) /\ Receives(p, q, "HANDSHAKE")
    /\ incoming' = [incoming EXCEPT ![p] = @ \ {q}]
    /\ connections' = [connections EXCEPT ![p] = @ \cup {q}]
    /\ ps' = [ps EXCEPT ![p] = add_neighbor(@, q)]
    /\ Reply(p, q, OnlyTo(q, Greeting(ps[p])))
    /\ UNCHANGED <<status, backlog, next_peer, timerVars, doneVars, faults>>

\* BITFIELD: always answered with INTERESTED or NOT_INTERESTED; the exception
\* of a failed answer skips the termination check.
ReceiveBitfield(p, q) ==
    /\ Attached(p, q) /\ Receives(p, q, "BITFIELD")
    /\ LET s == SetInterest(
                   update_neighbor_bitfield(ps[p], q, Head(chan[q][p]).bitfield),
                   {q})
           t == IF get_interesting_pieces(s, q) # {} THEN "INTERESTED"
                ELSE "NOT_INTERESTED"
       IN  /\ ps' = [ps EXCEPT ![p] = s]
           /\ Reply(p, q, OnlyTo(q, <<Signal(t)>>))
           /\ \E sent \in SendOutcomes(q) :
                all_done' = [all_done EXCEPT ![p] =
                    @ \/ (sent /\ Terminates(s, completion_logged[p]))]
    /\ UNCHANGED <<status, netVars, timerVars, completion_logged, faults>>

ReceiveInterested(p, q) ==
    /\ Attached(p, q) /\ Receives(p, q, "INTERESTED")
    /\ ps' = [ps EXCEPT ![p] = set_peer_interested(@, q, TRUE)]
    /\ Reply(p, q, OnlyTo(q, <<>>))
    /\ UNCHANGED <<status, netVars, timerVars, doneVars, faults>>

ReceiveNotInterested(p, q) ==
    /\ Attached(p, q) /\ Receives(p, q, "NOT_INTERESTED")
    /\ ps' = [ps EXCEPT ![p] = set_peer_interested(@, q, FALSE)]
    /\ Reply(p, q, OnlyTo(q, <<>>))
    /\ UNCHANGED <<status, netVars, timerVars, doneVars, faults>>

\* Mistake: a choked peer goes on waiting for the piece.
ReceiveChokeKeepsWaiting(p, q) ==
    /\ Attached(p, q) /\ Receives(p, q, "CHOKE")
    /\ ps' = [ps EXCEPT ![p] = set_peer_choking(@, q, TRUE)]
    /\ Reply(p, q, OnlyTo(q, <<>>))
    /\ UNCHANGED <<status, netVars, timerVars, doneVars, faults>>

\* CHOKE: the outstanding request is given up.
ReceiveChoke(p, q) ==
    /\ Attached(p, q) /\ Receives(p, q, "CHOKE")
    /\ ps' = [ps EXCEPT ![p] =
                clear_outstanding_request(set_peer_choking(@, q, TRUE), q)]
    /\ Reply(p, q, OnlyTo(q, <<>>))
    /\ UNCHANGED <<status, netVars, timerVars, doneVars, faults>>

\* UNCHOKE: a first request goes out.
ReceiveUnchoke(p, q) ==
    /\ Attached(p, q) /\ Receives(p, q, "UNCHOKE")
    /\ \E o \in RequestOutcomes(set_peer_choking(ps[p], q, FALSE), q) :
         /\ ps' = [ps EXCEPT ![p] = o.store]
         /\ Reply(p, q, OnlyTo(q, o.msgs))
    /\ UNCHANGED <<status, netVars, timerVars, doneVars, faults>>

\* HAVE: interest is re-evaluated; no request is made.
ReceiveHave(p, q) ==
    /\ Attached(p, q) /\ Receives(p, q, "HAVE")
    /\ LET s == neighbor_set_piece(ps[p], q, Head(chan[q][p]).piece)
       IN  /\ ps' = [ps EXCEPT ![p] = SetInterest(s, {q})]
           /\ Reply(p, q, OnlyTo(q, InterestMsgs(s, q)))
           /\ all_done' = [all_done EXCEPT ![p] =
                 @ \/ Terminates(s, completion_logged[p])]
    /\ UNCHANGED <<status, netVars, timerVars, completion_logged, faults>>

\* REQUEST: served from disk if we do not choke q and have the piece.
ReceiveRequest(p, q) ==
    /\ Attached(p, q) /\ Receives(p, q, "REQUEST")
    /\ LET i == Head(chan[q][p]).piece
           serves == ~is_am_choking(ps[p], q) /\ i \in ps[p].my_bitfield
       IN  Reply(p, q, OnlyTo(q, IF serves THEN <<PieceMsg(i)>> ELSE <<>>))
    /\ UNCHANGED <<status, ps, netVars, timerVars, doneVars, faults>>

\* PIECE, written to disk: _handle_piece_received clears the outstanding
\* request whatever it was, announces the piece to every connection,
\* re-evaluates interest everywhere, and requests the next piece from q unless
\* the file is complete.
ReceivePiece(p, q) ==
    /\ Attached(p, q) /\ Receives(p, q, "PIECE")
    /\ LET i == Head(chan[q][p]).piece
           s == mark_piece_downloaded(clear_outstanding_request(ps[p], q), i)
           synced == SetInterest(s, connections[p])
           logged == completion_logged[p] \/ has_complete_file(s)
           outcomes == IF has_complete_file(s)
                       THEN {[store |-> synced, msgs |-> <<>>]}
                       ELSE RequestOutcomes(synced, q)
           Announce(r) == IF r \in connections[p]
                          THEN <<Have(i)>> \o InterestMsgs(s, r)
                          ELSE <<>>
       IN  /\ \E o \in outcomes :
                /\ ps' = [ps EXCEPT ![p] = o.store]
                /\ Reply(p, q, [r \in Peer |->
                      Announce(r) \o (IF r = q THEN o.msgs ELSE <<>>)])
           /\ completion_logged' = [completion_logged EXCEPT ![p] = logged]
           /\ all_done' = [all_done EXCEPT ![p] = @ \/ Terminates(s, logged)]
    /\ UNCHANGED <<status, netVars, timerVars, faults>>

\* Mistake: the request of a piece that cannot be written stays outstanding.
WriteFailsKeepsWaiting(p, q) ==
    /\ faults < MaxFaults
    /\ Attached(p, q) /\ Receives(p, q, "PIECE")
    /\ Reply(p, q, OnlyTo(q, <<>>))
    /\ faults' = faults + 1
    /\ UNCHANGED <<status, ps, netVars, timerVars, doneVars>>

\* PIECE that cannot be written: the request is cleared and nothing follows.
ReceivePieceWriteFails(p, q) ==
    /\ faults < MaxFaults
    /\ Attached(p, q) /\ Receives(p, q, "PIECE")
    /\ ps' = [ps EXCEPT ![p] = clear_outstanding_request(@, q)]
    /\ Reply(p, q, OnlyTo(q, <<>>))
    /\ faults' = faults + 1
    /\ UNCHANGED <<status, netVars, timerVars, doneVars>>

\* End of the stream: on_conn_close_handler.
ReceiveEof(p, q) ==
    LET s == IF q \in connections[p] THEN remove_neighbor(ps[p], q) ELSE ps[p]
        alone == (connections[p] \cup incoming[p]) \ {q} = {}
    IN
    /\ Attached(p, q) /\ Receives(p, q, "EOF")
    /\ connections' = [connections EXCEPT ![p] = @ \ {q}]
    /\ incoming' = [incoming EXCEPT ![p] = @ \ {q}]
    /\ ps' = [ps EXCEPT ![p] = s]
    /\ Reply(p, q, OnlyTo(q, <<>>))
    /\ all_done' = [all_done EXCEPT ![p] =
          \/ @
          \/ completion_logged[p] /\ alone /\ has_complete_file(s)
          \/ Terminates(s, completion_logged[p])]
    /\ UNCHANGED <<status, backlog, next_peer, timerVars, completion_logged,
                   faults>>

-----------------------------------------------------------------------------
(* The timer threads. *)

\* Nothing is under way on p's connections.
Quiet(p) == \A q \in Peer : chan[p][q] = <<>> /\ chan[q][p] = <<>>

\* The timers tick every few seconds and a message takes milliseconds: the
\* ticks that change p in the middle of an exchange count against a bound.
Tick(p) ==
    LET calm == Quiet(p) \/ UNCHANGED <<ps, preferred_ids, optimistic_id>> IN
    /\ Up(p)
    /\ calm \/ hasty < MaxHasty
    /\ hasty' = IF calm THEN hasty ELSE hasty + 1

\* Mistake: a neighbour is not told that it is choked.
RechokeSilently(p, unchoke, choke) ==
    /\ ps' = [ps EXCEPT ![p] = set_am_choking(@, unchoke, choke)]
    /\ Transmit(p, [q \in Peer |->
          IF q \in unchoke /\ is_am_choking(ps[p], q)
          THEN <<Signal("UNCHOKE")>> ELSE <<>>])

\* Choke and unchoke p's neighbours, telling those it changes anything for.
Rechoke(p, unchoke, choke) ==
    /\ ps' = [ps EXCEPT ![p] = set_am_choking(@, unchoke, choke)]
    /\ Transmit(p, [q \in Peer |->
          IF q \in unchoke /\ is_am_choking(ps[p], q)
          THEN <<Signal("UNCHOKE")>>
          ELSE IF q \in choke /\ ~is_am_choking(ps[p], q)
          THEN <<Signal("CHOKE")>>
          ELSE <<>>])

\* _select_preferred_neighbors.  The download rates only order the choice
\* here: any k interested neighbours may be the ones selected.
SelectPreferredNeighbors(p) ==
    LET interested == get_interested_neighbors(ps[p])
        n == Cardinality(interested)
        k == IF n < NumberOfPreferredNeighbors THEN n
             ELSE NumberOfPreferredNeighbors
    IN
    /\ \E selected \in SUBSET interested :
         /\ Cardinality(selected) = k
         /\ preferred_ids' = [preferred_ids EXCEPT ![p] = selected]
         /\ Rechoke(p, selected \cap connections[p],
                    connections[p] \ (selected \cup {optimistic_id[p]}))
    /\ UNCHANGED <<status, netVars, optimistic_id, doneVars, faults>>
    /\ Tick(p)

\* _select_optimistic_neighbor, when it has a candidate.
SelectOptimisticNeighbor(p) ==
    /\ \E chosen \in get_choked_interested_neighbors(ps[p], preferred_ids[p]) :
         LET old == {optimistic_id[p]} \ ({None, chosen} \cup preferred_ids[p])
         IN  /\ optimistic_id' = [optimistic_id EXCEPT ![p] = chosen]
             /\ Rechoke(p, {chosen}, old)
    /\ UNCHANGED <<status, netVars, preferred_ids, doneVars, faults>>
    /\ Tick(p)

-----------------------------------------------------------------------------
(* The end of a process. *)

\* Stream c without its last n messages.
Without(c, n) == SubSeq(c, 1, IF n <= Len(c) THEN Len(c) - n ELSE 0)

\* The process is gone: its memory, its connections and what it had not read.
\* What it downloaded stays on its disk.  Every other end of a connection of
\* p finds the end of the stream; the last lost[r] messages before it are lost.
Exit(p, lost) ==
    LET peers == connections[p] \cup incoming[p] \cup backlog[p] IN
    /\ ps' = [ps EXCEPT ![p] =
                [NewStore(FALSE) EXCEPT !.my_bitfield = ps[p].my_bitfield]]
    /\ connections' = [connections EXCEPT ![p] = {}]
    /\ incoming' = [incoming EXCEPT ![p] = {}]
    /\ backlog' = [backlog EXCEPT ![p] = {}]
    /\ preferred_ids' = [preferred_ids EXCEPT ![p] = {}]
    /\ optimistic_id' = [optimistic_id EXCEPT ![p] = None]
    /\ chan' = [q \in Peer |-> [r \in Peer |->
          IF q = p /\ r \in peers /\ Up(r)
            THEN Without(chan[p][r], lost[r]) \o <<Signal("EOF")>>
          ELSE IF r = p THEN <<>>
          ELSE chan[q][r]]]
    /\ UNCHANGED <<next_peer, doneVars, hasty>>

\* main.py: all_done is set, the grace period has passed, stop() and _exit.
\* The grace period is taken to be long enough to deliver what p sent.
Stop(p) ==
    /\ Up(p) /\ all_done[p]
    /\ status' = [status EXCEPT ![p] = "stopped"]
    /\ Exit(p, [r \in Peer |-> 0])
    /\ UNCHANGED faults

\* The process is killed: any part of what is under way can be lost.
Crash(p) ==
    /\ faults < MaxFaults
    /\ Up(p)
    /\ status' = [status EXCEPT ![p] = "crashed"]
    /\ \E lost \in [Peer -> 0 .. MaxLost] : Exit(p, lost)
    /\ faults' = faults + 1

-----------------------------------------------------------------------------

Receive(p, q) ==
    \/ ReceiveHandshake(p, q)
    \/ ReceiveBitfield(p, q)
    \/ ReceiveInterested(p, q)
    \/ ReceiveNotInterested(p, q)
    \/ ReceiveChoke(p, q)
    \/ ReceiveUnchoke(p, q)
    \/ ReceiveHave(p, q)
    \/ ReceiveRequest(p, q)
    \/ ReceivePiece(p, q)
    \/ ReceiveEof(p, q)

Next ==
    \E p \in Peer :
        \/ Start(p) \/ Connect(p) \/ GiveUp(p)
        \/ SelectPreferredNeighbors(p) \/ SelectOptimisticNeighbor(p)
        \/ Stop(p) \/ Crash(p)
        \/ \E q \in Peer : \/ Accept(p, q)
                           \/ Receive(p, q)
                           \/ ReceivePieceWriteFails(p, q)

\* Every thread keeps running: the operating system schedules it and TCP
\* delivers.  The receive threads are those of the connections; the accept
\* loop, the thread that connects, the two timers and the main thread are one
\* each.  Crashes and failed writes are never owed.
Fairness ==
    \A p \in Peer :
        /\ WF_vars(Start(p))
        /\ WF_vars(Connect(p) \/ GiveUp(p))
        /\ WF_vars(\E q \in Peer : Accept(p, q))
        /\ WF_vars(SelectPreferredNeighbors(p))
        /\ WF_vars(SelectOptimisticNeighbor(p))
        /\ WF_vars(Stop(p))
        /\ \A q \in Peer \ {p} : WF_vars(Receive(p, q))

Spec == Init /\ [][Next]_vars
FairSpec == Spec /\ Fairness

=============================================================================
