------------------------------ MODULE Registry ------------------------------
(***************************************************************************)
(* The dictionary of the connections of ONE peer (peer_network.py 241-269, *)
(* 552-606, 748-757).  An accepted connection is kept under the negative   *)
(* port of the remote end until its handshake says who is there.  The      *)
(* accept loop and the receive thread of every connection change the       *)
(* dictionary, each under connections_lock, and forget the lock in         *)
(* between.  framers has the same keys and changes with it.                *)
(*                                                                         *)
(* The remote peers are the environment: the later ones connect to us, die *)
(* and, started again, connect once more; the earlier ones, which we       *)
(* connected to, only die.                                                 *)
(***************************************************************************)
EXTENDS FiniteSets, Naturals

CONSTANTS
    Earlier,    \* the peers before us in PeerInfo.cfg
    Later,      \* the peers after us
    Port,       \* remote ports, whose negatives are the temporary keys
    Incoming,   \* bound: the connections that are accepted
    None

Peer == Earlier \cup Later
Key  == Peer \cup Port

\* A connection that we opened goes by the name of the peer.
Conn == Incoming \cup Earlier

ASSUME RegistryAssumption ==
    /\ Earlier \cap Later = {} /\ Peer \cap Port = {} /\ Earlier \cap Incoming = {}
    /\ None \notin Key \cup Incoming

VARIABLES
    connections,    \* connections[k], None when k is not a key
    neighbors,      \* keys of peer_state.neighbors
    thread,         \* thread[c]: the receive thread of connection c
    far,            \* far[c]: the other end of connection c
    line,           \* line[p]: the connection of the process of p, if it runs
    collided,       \* history: connections that shared a temporary key
    refused         \* history: connections closed as duplicates

vars == <<connections, neighbors, thread, far, line, collided, refused>>

\* peer_id is the local variable of on_bytes_handler.
Thread == [ pc      : {"unused", "recv", "rekey", "add", "closing", "closed"},
            peer_id : Key \cup {None} ]

\* The handshake of the other end is in the stream, was parsed or was lost.
Far == [ peer      : Peer \cup {None},
         port      : Port \cup {None},      \* None for outgoing connections
         handshake : {"coming", "parsed", "lost"},
         open      : BOOLEAN ]

TypeOK ==
    /\ connections \in [Key -> Conn \cup {None}]
    /\ neighbors \subseteq Peer
    /\ thread \in [Conn -> Thread]
    /\ far \in [Conn -> Far]
    /\ line \in [Peer -> Conn \cup {None}]
    /\ collided \subseteq Conn
    /\ refused \subseteq Conn

\* The connections to the earlier peers are open, nothing was received.
Init ==
    /\ connections = [k \in Key |-> IF k \in Earlier THEN k ELSE None]
    /\ neighbors = {}
    /\ thread = [c \in Conn |-> [pc |-> IF c \in Earlier THEN "recv" ELSE "unused",
                                peer_id |-> None]]
    /\ far = [c \in Conn |-> [peer |-> IF c \in Earlier THEN c ELSE None, port |-> None,
                             handshake |-> "coming", open |-> TRUE]]
    /\ line = [p \in Peer |-> IF p \in Earlier THEN p ELSE None]
    /\ collided = {}
    /\ refused = {}

-----------------------------------------------------------------------------

At(c, pc) == thread[c].pc = pc
Goes(c, pc) == thread' = [thread EXCEPT ![c].pc = pc]

\* The keys of connection c.
Keys(c) == { k \in Key : connections[k] = c }

\* Connections that a new one with this port gets in the way of: they are
\* under its temporary key or are about to give that key up.
Sharing(port) ==
    { d \in Conn : \/ d = connections[port]
                   \/ At(d, "rekey") /\ thread[d].peer_id = port }

\* The accept loop registers a connection under its temporary key, sends our
\* handshake and starts the receive thread.  The ports of one host differ.
Accept(p, c, port) ==
    /\ line[p] = None
    /\ At(c, "unused")
    /\ \A d \in Conn : far[d].peer = p /\ far[d].port = port => At(d, "closed")
    /\ connections' = [connections EXCEPT ![port] = c]
    /\ Goes(c, "recv")
    /\ far' = [far EXCEPT ![c].peer = p, ![c].port = port]
    /\ line' = [line EXCEPT ![p] = c]
    /\ collided' = collided \cup Sharing(port)
                            \cup { d \in {c} : Sharing(port) # {} }
    /\ UNCHANGED <<neighbors, refused>>

\* The process of p dies; its handshake may be lost with it.
Die(p) ==
    /\ line[p] # None
    /\ \E lost \in BOOLEAN :
          far' = [far EXCEPT ![line[p]].open = FALSE,
                             ![line[p]].handshake =
                                IF lost /\ @ = "coming" THEN "lost" ELSE @]
    /\ line' = [line EXCEPT ![p] = None]
    /\ UNCHANGED <<connections, neighbors, thread, collided, refused>>

\* The handshake arrives, and on_bytes_handler looks for the connection.  An
\* unknown one loses what it received.
Lookup(c) ==
    /\ At(c, "recv") /\ far[c].handshake = "coming"
    /\ IF Keys(c) = {}
       THEN far' = [far EXCEPT ![c].handshake = "lost"] /\ UNCHANGED thread
       ELSE \E k \in Keys(c) :
              /\ far' = [far EXCEPT ![c].handshake = "parsed"]
              /\ thread' = [thread EXCEPT
                    ![c].pc = IF k \in Port THEN "rekey" ELSE "add",
                    ![c].peer_id = k]
    /\ UNCHANGED <<connections, neighbors, line, collided, refused>>

\* Mistake: the connection meets itself under its temporary key.
RefuseItself(c) ==
    /\ At(c, "rekey") /\ connections[thread[c].peer_id] # None
    /\ refused' = refused \cup {c}
    /\ Goes(c, "closing")
    /\ UNCHANGED <<connections, neighbors, far, line, collided>>

\* Somebody is connected under this id already: the connection is closed.
Refuse(c) ==
    /\ At(c, "rekey") /\ connections[far[c].peer] # None
    /\ refused' = refused \cup {c}
    /\ Goes(c, "closing")
    /\ UNCHANGED <<connections, neighbors, far, line, collided>>

\* Mistake: the temporary key is kept.
RekeyKeepsTemporary(c) ==
    /\ At(c, "rekey") /\ connections[far[c].peer] = None
    /\ connections[thread[c].peer_id] # None
    /\ connections' = [connections EXCEPT ![far[c].peer] = c]
    /\ Goes(c, "add")
    /\ UNCHANGED <<neighbors, far, line, collided, refused>>

\* The connection gets the id and leaves its temporary key, which by then may
\* be another's.
Rekey(c) ==
    /\ At(c, "rekey") /\ connections[far[c].peer] = None
    /\ connections[thread[c].peer_id] # None
    /\ connections' = [connections EXCEPT ![far[c].peer] = c,
                                          ![thread[c].peer_id] = None]
    /\ Goes(c, "add")
    /\ UNCHANGED <<neighbors, far, line, collided, refused>>

\* The temporary key is gone: the KeyError of del ends the handler after the
\* id was set, and is printed.
RekeyRaises(c) ==
    /\ At(c, "rekey") /\ connections[far[c].peer] = None
    /\ connections[thread[c].peer_id] = None
    /\ connections' = [connections EXCEPT ![far[c].peer] = c]
    /\ Goes(c, "recv")
    /\ UNCHANGED <<neighbors, far, line, collided, refused>>

\* Mistake: the key of the lookup is taken for the id.
AddNeighborByKey(c) ==
    /\ At(c, "add")
    /\ neighbors' = neighbors \cup {thread[c].peer_id}
    /\ Goes(c, "recv")
    /\ UNCHANGED <<connections, far, line, collided, refused>>

\* add_neighbor; the messages that follow are handled.
AddNeighbor(c) ==
    /\ At(c, "add")
    /\ neighbors' = neighbors \cup {far[c].peer}
    /\ Goes(c, "recv")
    /\ UNCHANGED <<connections, far, line, collided, refused>>

\* The end of the stream, after everything that was in it.
RecvEof(c) ==
    /\ At(c, "recv") /\ ~far[c].open /\ far[c].handshake # "coming"
    /\ Goes(c, "closing")
    /\ UNCHANGED <<connections, neighbors, far, line, collided, refused>>

\* Mistake: only the key with the id is removed.
CloseById(c) ==
    /\ At(c, "closing")
    /\ connections' = [k \in Key |-> IF k \in Keys(c) \cap Peer THEN None ELSE connections[k]]
    /\ neighbors' = neighbors \ Keys(c)
    /\ Goes(c, "closed")
    /\ UNCHANGED <<far, line, collided, refused>>

\* Mistake: whatever is under the id of the peer is removed.
CloseByPeer(c) ==
    /\ At(c, "closing")
    /\ connections' = [k \in Key |->
          IF k \in Keys(c) \cup {far[c].peer} THEN None ELSE connections[k]]
    /\ neighbors' = neighbors \ {far[c].peer}
    /\ Goes(c, "closed")
    /\ UNCHANGED <<far, line, collided, refused>>

\* Mistake: the neighbour is removed although another connection serves it.
CloseForgetsPeer(c) ==
    /\ At(c, "closing")
    /\ connections' = [k \in Key |-> IF k \in Keys(c) THEN None ELSE connections[k]]
    /\ neighbors' = neighbors \ {far[c].peer}
    /\ Goes(c, "closed")
    /\ UNCHANGED <<far, line, collided, refused>>

\* on_conn_close_handler removes the connection, whatever its key, and the
\* neighbour if the key is an id.
Close(c) ==
    /\ At(c, "closing")
    /\ connections' = [k \in Key |-> IF k \in Keys(c) THEN None ELSE connections[k]]
    /\ neighbors' = neighbors \ Keys(c)
    /\ Goes(c, "closed")
    /\ UNCHANGED <<far, line, collided, refused>>

-----------------------------------------------------------------------------

Receiver(c) ==
    \/ Lookup(c) \/ Refuse(c) \/ Rekey(c) \/ RekeyRaises(c) \/ AddNeighbor(c)
    \/ RecvEof(c) \/ Close(c)

Next ==
    \/ \E p \in Later, c \in Conn, port \in Port : Accept(p, c, port)
    \/ \E p \in Peer : Die(p)
    \/ \E c \in Conn : Receiver(c)

Spec == Init /\ [][Next]_vars

-----------------------------------------------------------------------------
(* Who is connected, whoever else comes and goes. *)

\* Every receive thread waits for something to read.
AtRest ==
    \A c \in Conn :
        \/ thread[c].pc \in {"unused", "closed"}
        \/ At(c, "recv") /\ far[c].open /\ far[c].handshake # "coming"

\* Messages for a peer go to that peer, once: an id is the key of a connection
\* to its owner, and no connection has two keys (586-596), in spite of ports
\* that several hosts use at the same time.
OneKeyEach ==
    /\ \A p \in Peer : connections[p] # None => far[connections[p]].peer = p
    /\ \A c \in Conn : Cardinality(Keys(c)) <= 1

\* The store never knows a neighbour without a connection, and between the
\* messages it knows all of the others (606 against 748-756), whichever
\* connections of a peer were opened and closed at the same time; except a
\* peer whose temporary key was shared (248).
NeighborsConnected ==
    /\ \A p \in neighbors : connections[p] # None
    /\ AtRest => \A p \in Peer :
          connections[p] \notin {None} \cup collided => p \in neighbors

\* A running peer that connected is connected between the messages, unless its
\* connection was refused or its temporary key shared: no other exit of the
\* handler and no end of an older connection costs it its place.
LiveConnected ==
    AtRest => \A p \in Peer :
        line[p] \notin {None} \cup collided \cup refused => connections[p] = line[p]

\* A peer that ended leaves nothing behind, its temporary key included: the
\* close handler can rely on len(connections) to see the last one go (760).
DeadForgotten ==
    AtRest => \A k \in Key : connections[k] # None => far[connections[k]].open

\* "Safety check in case they are already connected" (588): a connection is
\* refused only if its peer has two, one of them from a process that ended.
OnlyRestartsRefused ==
    \A c \in refused : \E d \in Conn \ {c} :
        far[d].peer = far[c].peer /\ ~(far[c].open /\ far[d].open)

=============================================================================
