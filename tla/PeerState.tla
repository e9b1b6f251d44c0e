------------------------------ MODULE PeerState ------------------------------
(***************************************************************************)
(* The state store of one peer process (state.py, class PeerState), as     *)
(* pure operators on a record.  Every operator is one method: the code     *)
(* runs each of them under PeerState.lock, so each is one atomic step, and *)
(* the modules that use them decide which calls form one step.             *)
(*                                                                         *)
(* A bitfield is the set of the piece indices whose bit is 1.              *)
(***************************************************************************)
EXTENDS Naturals, FiniteSets

CONSTANTS
    Peer,   \* the peer ids of PeerInfo.cfg
    Piece,  \* the piece indices 0 .. num_pieces-1
    None    \* Python's None

ASSUME PeerAssumption  == IsFiniteSet(Peer) /\ None \notin Peer
ASSUME PieceAssumption == IsFiniteSet(Piece) /\ Piece # {} /\ None \notin Piece

NeighborState ==
    [ bitfield            : SUBSET Piece,
      am_choking          : BOOLEAN,
      am_interested       : BOOLEAN,
      peer_choking        : BOOLEAN,
      peer_interested     : BOOLEAN,
      outstanding_request : Piece \cup {None} ]

NewNeighbor ==
    [ bitfield            |-> {},
      am_choking          |-> TRUE,
      am_interested       |-> FALSE,
      peer_choking        |-> TRUE,
      peer_interested     |-> FALSE,
      outstanding_request |-> None ]

\* The state of a PeerState object.  Only the ids that were added are keys of
\* the neighbors dictionary.
IsStore(s) ==
    /\ s \in [ my_bitfield            : SUBSET Piece,
               neighbors              : [DOMAIN s.neighbors -> NeighborState],
               requested_pieces       : SUBSET Piece,
               completed_neighbor_ids : SUBSET Peer ]
    /\ DOMAIN s.neighbors \subseteq Peer

NewStore(has_file) ==
    [ my_bitfield            |-> IF has_file THEN Piece ELSE {},
      neighbors              |-> [q \in {} |-> NewNeighbor],
      requested_pieces       |-> {},
      completed_neighbor_ids |-> {} ]

-----------------------------------------------------------------------------
(* Queries.  An operator marked as a mistake is used by no definition: it is *)
(* a wrong version of the one after it, which the properties tell apart.    *)

Complete(bitfield) == bitfield = Piece

Knows(s, q) == q \in DOMAIN s.neighbors

has_complete_file(s) == Complete(s.my_bitfield)

is_am_choking(s, q)     == Knows(s, q) => s.neighbors[q].am_choking
is_peer_choking_us(s, q) == Knows(s, q) => s.neighbors[q].peer_choking
is_am_interested_in_peer(s, q) == Knows(s, q) /\ s.neighbors[q].am_interested

get_interesting_pieces(s, q) ==
    IF Knows(s, q) THEN s.neighbors[q].bitfield \ s.my_bitfield ELSE {}

\* The list select_random_piece draws from.
Candidates(s, q) == get_interesting_pieces(s, q) \ s.requested_pieces

get_interested_neighbors(s) ==
    { q \in DOMAIN s.neighbors : s.neighbors[q].peer_interested }

get_choked_interested_neighbors(s, exclude) ==
    { q \in get_interested_neighbors(s) \ exclude : s.neighbors[q].am_choking }

SeenComplete(s) ==
    s.completed_neighbor_ids
        \cup { q \in DOMAIN s.neighbors : Complete(s.neighbors[q].bitfield) }

\* Mistake: the peer counts itself among the complete neighbours.
CountsItself(s, expected_count) ==
    Cardinality(SeenComplete(s)) + 1 >= expected_count

\* Mistake: the peer waits for as many neighbours as there are peers.
WaitsForItself(s, expected_count) ==
    Cardinality(SeenComplete(s)) > expected_count

\* Mistake: every connected neighbour counts as complete.
CountsConnections(s, expected_count) ==
    Cardinality(s.completed_neighbor_ids \cup DOMAIN s.neighbors)
        >= expected_count

all_neighbors_complete(s, expected_count) ==
    Cardinality(SeenComplete(s)) >= expected_count

-----------------------------------------------------------------------------
(* Updates.  A method that names an unknown neighbour changes nothing. *)

add_neighbor(s, q) ==
    IF Knows(s, q) THEN s
    ELSE [s EXCEPT !.neighbors =
            [r \in DOMAIN s.neighbors \cup {q} |->
                IF r = q THEN NewNeighbor ELSE s.neighbors[r]]]

\* Mistake: the request of a lost neighbour stays reserved.
RemoveKeepsReservation(s, q) ==
    IF ~Knows(s, q) THEN s
    ELSE [s EXCEPT
            !.neighbors = [r \in DOMAIN s.neighbors \ {q} |-> s.neighbors[r]],
            !.completed_neighbor_ids =
                IF Complete(s.neighbors[q].bitfield) THEN @ \cup {q} ELSE @]

\* Mistake: a neighbour without a request leaves None among the reservations.
RemoveReservesNone(s, q) ==
    IF ~Knows(s, q) THEN s
    ELSE [s EXCEPT
            !.neighbors = [r \in DOMAIN s.neighbors \ {q} |-> s.neighbors[r]],
            !.requested_pieces = @ \cup {s.neighbors[q].outstanding_request}]

\* Mistake: a neighbour that leaves is taken to be complete.
RemoveMeansComplete(s, q) ==
    IF ~Knows(s, q) THEN s
    ELSE [s EXCEPT
            !.neighbors = [r \in DOMAIN s.neighbors \ {q} |-> s.neighbors[r]],
            !.requested_pieces = @ \ {s.neighbors[q].outstanding_request},
            !.completed_neighbor_ids = @ \cup {q}]

remove_neighbor(s, q) ==
    IF ~Knows(s, q) THEN s
    ELSE [s EXCEPT
            !.neighbors = [r \in DOMAIN s.neighbors \ {q} |-> s.neighbors[r]],
            !.requested_pieces = @ \ {s.neighbors[q].outstanding_request},
            !.completed_neighbor_ids =
                IF Complete(s.neighbors[q].bitfield) THEN @ \cup {q} ELSE @]

\* Common to update_neighbor_bitfield and neighbor_set_piece: store the new
\* bitfield of a known neighbour and record its completion eagerly.
SetNeighborBitfield(s, q, bitfield) ==
    IF ~Knows(s, q) THEN s
    ELSE [s EXCEPT
            !.neighbors[q].bitfield = bitfield,
            !.completed_neighbor_ids =
                IF Complete(bitfield) THEN @ \cup {q} ELSE @]

update_neighbor_bitfield(s, q, bitfield) == SetNeighborBitfield(s, q, bitfield)

neighbor_set_piece(s, q, i) ==
    IF ~Knows(s, q) THEN s
    ELSE SetNeighborBitfield(s, q, s.neighbors[q].bitfield \cup {i})

CanReserve(s, q, i) ==
    /\ Knows(s, q)
    /\ s.neighbors[q].outstanding_request = None
    /\ i \notin s.requested_pieces

reserve_request(s, q, i) ==
    IF ~CanReserve(s, q, i) THEN s
    ELSE [s EXCEPT !.neighbors[q].outstanding_request = i,
                   !.requested_pieces = @ \cup {i}]

\* Mistake: the piece stays reserved when its request is given up.
ClearKeepsReservation(s, q) ==
    IF ~Knows(s, q) THEN s
    ELSE [s EXCEPT !.neighbors[q].outstanding_request = None]

clear_outstanding_request(s, q) ==
    IF ~Knows(s, q) THEN s
    ELSE [s EXCEPT
            !.neighbors[q].outstanding_request = None,
            !.requested_pieces = @ \ {s.neighbors[q].outstanding_request}]

mark_piece_downloaded(s, i) ==
    [s EXCEPT !.my_bitfield = @ \cup {i},
              !.requested_pieces = @ \ {i}]

\* set_am_choking for every neighbour in unchoke (FALSE) and in choke (TRUE).
set_am_choking(s, unchoke, choke) ==
    [s EXCEPT !.neighbors =
        [q \in DOMAIN s.neighbors |->
            [s.neighbors[q] EXCEPT !.am_choking =
                (@ \/ q \in choke) /\ q \notin unchoke]]]

\* set_am_interested for every neighbour in Q, to what Q's bitfields call for.
SetInterest(s, Q) ==
    [s EXCEPT !.neighbors =
        [q \in DOMAIN s.neighbors |->
            [s.neighbors[q] EXCEPT !.am_interested =
                IF q \in Q THEN get_interesting_pieces(s, q) # {} ELSE @]]]

set_am_interested(s, q, is_interested) ==
    IF ~Knows(s, q) THEN s
    ELSE [s EXCEPT !.neighbors[q].am_interested = is_interested]

set_peer_choking(s, q, is_choking) ==
    IF ~Knows(s, q) THEN s
    ELSE [s EXCEPT !.neighbors[q].peer_choking = is_choking]

set_peer_interested(s, q, is_interested) ==
    IF ~Knows(s, q) THEN s
    ELSE [s EXCEPT !.neighbors[q].peer_interested = is_interested]

-----------------------------------------------------------------------------
(* What the methods keep true of a store. *)

Outstanding(s, q) == s.neighbors[q].outstanding_request

\* requested_pieces holds nothing but outstanding requests; a piece that is
\* outstanding and not ours yet is reserved, and outstanding only once.
Reserved(s) ==
    /\ \A i \in s.requested_pieces :
          \E q \in DOMAIN s.neighbors : Outstanding(s, q) = i
    /\ \A q \in DOMAIN s.neighbors :
          LET i == Outstanding(s, q) IN
          i \in Piece \ s.my_bitfield =>
            /\ i \in s.requested_pieces
            /\ \A r \in DOMAIN s.neighbors \ {q} : Outstanding(s, r) # i

\* What the store of p believes of the others is true if they have the
\* pieces F.
Sound(s, p, F) ==
    /\ p \notin DOMAIN s.neighbors
    /\ \A q \in DOMAIN s.neighbors : s.neighbors[q].bitfield \subseteq F[q]
    /\ \A q \in s.completed_neighbor_ids : q # p /\ F[q] = Piece

=============================================================================
