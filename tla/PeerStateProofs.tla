--------------------------- MODULE PeerStateProofs ---------------------------
(***************************************************************************)
(* Every method of PeerState keeps the store well formed, its reservations *)
(* consistent, and what it believes of the other peers true.  The methods  *)
(* run under PeerState.lock, so this holds however threads interleave.     *)
(***************************************************************************)
EXTENDS PeerState, TLAPS

\* A store of p, when the peers have the pieces F.
Good(s, p, F) == IsStore(s) /\ Reserved(s) /\ Sound(s, p, F)

\* t is a good store with the same pieces as s.
GoodUpdate(s, t, p, F) == Good(t, p, F) /\ t.my_bitfield = s.my_bitfield

LEMMA NewStoreGood ==
    ASSUME NEW has_file \in BOOLEAN, NEW p \in Peer, NEW F
    PROVE  Good(NewStore(has_file), p, F)
  BY DEF NewStore, Good, IsStore, Reserved, Sound, NeighborState

LEMMA AddNeighborGood ==
    ASSUME NEW s, NEW p \in Peer, NEW F, NEW q \in Peer, q # p, Good(s, p, F)
    PROVE  GoodUpdate(s, add_neighbor(s, q), p, F)
<1> DEFINE t == add_neighbor(s, q)
<1>1. CASE Knows(s, q)
  BY <1>1 DEF add_neighbor, GoodUpdate
<1>2. CASE ~Knows(s, q)
  <2>1. /\ IsStore(s) /\ q \notin DOMAIN s.neighbors
        /\ None \notin Piece
    BY <1>2, PieceAssumption DEF Knows, Good
  <2>2. /\ t.my_bitfield = s.my_bitfield
        /\ t.requested_pieces = s.requested_pieces
        /\ t.completed_neighbor_ids = s.completed_neighbor_ids
        /\ DOMAIN t.neighbors = DOMAIN s.neighbors \cup {q}
        /\ t.neighbors[q] = NewNeighbor
        /\ \A r \in DOMAIN s.neighbors : t.neighbors[r] = s.neighbors[r]
    BY <1>2, <2>1 DEF add_neighbor, IsStore, Knows
  <2>3. IsStore(t)
    BY <1>2, <2>1 DEF add_neighbor, IsStore, Knows, NewNeighbor, NeighborState
  <2> HIDE DEF t
  <2>4. NewNeighbor.outstanding_request = None /\ NewNeighbor.bitfield = {}
    BY DEF NewNeighbor
  <2>5. Reserved(t)
    BY <2>1, <2>2, <2>4 DEF Good, Reserved, Outstanding
  <2>6. Sound(t, p, F)
    BY <2>2, <2>4 DEF Good, Sound
  <2> QED
    BY <2>2, <2>3, <2>5, <2>6 DEF GoodUpdate, Good, t
<1> QED
  BY <1>1, <1>2

LEMMA RemoveNeighborGood ==
    ASSUME NEW s, NEW p \in Peer, NEW F \in [Peer -> SUBSET Piece],
           NEW q \in Peer, Good(s, p, F)
    PROVE  GoodUpdate(s, remove_neighbor(s, q), p, F)
<1> DEFINE t == remove_neighbor(s, q)
<1>1. CASE ~Knows(s, q)
  BY <1>1 DEF remove_neighbor, GoodUpdate
<1>2. CASE Knows(s, q)
  <2> USE DEF Knows
  <2>1. /\ t.my_bitfield = s.my_bitfield
        /\ DOMAIN t.neighbors = DOMAIN s.neighbors \ {q}
        /\ \A r \in DOMAIN t.neighbors : t.neighbors[r] = s.neighbors[r]
        /\ t.requested_pieces = s.requested_pieces \ {Outstanding(s, q)}
        /\ t.completed_neighbor_ids =
              IF Complete(s.neighbors[q].bitfield)
              THEN s.completed_neighbor_ids \cup {q}
              ELSE s.completed_neighbor_ids
    BY <1>2 DEF remove_neighbor, Outstanding, Good, IsStore
  <2>2. IsStore(t)
    BY <1>2 DEF remove_neighbor, Good, IsStore
  <2> HIDE DEF t
  <2>3. \A r \in DOMAIN t.neighbors :
           /\ r \in DOMAIN s.neighbors /\ r # q
           /\ t.neighbors[r].bitfield = s.neighbors[r].bitfield
           /\ Outstanding(t, r) = Outstanding(s, r)
    BY <2>1 DEF Outstanding
  <2>4. Reserved(t)
    <3>1. ASSUME NEW i \in t.requested_pieces
          PROVE  \E r \in DOMAIN t.neighbors : Outstanding(t, r) = i
      <4>1. PICK r \in DOMAIN s.neighbors : Outstanding(s, r) = i
        BY <2>1, <3>1 DEF Good, Reserved
      <4> QED
        BY <2>1, <2>3, <3>1, <4>1
    <3>2. ASSUME NEW r \in DOMAIN t.neighbors,
                 Outstanding(t, r) \in Piece \ t.my_bitfield
          PROVE  /\ Outstanding(t, r) \in t.requested_pieces
                 /\ \A o \in DOMAIN t.neighbors \ {r} :
                       Outstanding(t, o) # Outstanding(t, r)
      BY <1>2, <2>1, <2>3, <3>2 DEF Good, Reserved
    <3> QED
      BY <3>1, <3>2 DEF Reserved
  <2>5. Sound(t, p, F)
    <3>1. p \notin DOMAIN t.neighbors
      BY <2>3 DEF Good, Sound
    <3>2. \A r \in DOMAIN t.neighbors : t.neighbors[r].bitfield \subseteq F[r]
      BY <2>3 DEF Good, Sound
    <3>3. Complete(s.neighbors[q].bitfield) => q # p /\ F[q] = Piece
      BY <1>2 DEF Good, Sound, Complete
    <3>4. \A r \in t.completed_neighbor_ids : r # p /\ F[r] = Piece
      BY <2>1, <3>3 DEF Good, Sound
    <3> QED
      BY <3>1, <3>2, <3>4 DEF Sound
  <2> QED
    BY <2>1, <2>2, <2>4, <2>5 DEF t, GoodUpdate, Good
<1> QED
  BY <1>1, <1>2

LEMMA SetNeighborBitfieldGood ==
    ASSUME NEW s, NEW p \in Peer, NEW F \in [Peer -> SUBSET Piece],
           NEW q \in Peer, NEW b \in SUBSET F[q], Good(s, p, F)
    PROVE  GoodUpdate(s, SetNeighborBitfield(s, q, b), p, F)
<1> DEFINE t == SetNeighborBitfield(s, q, b)
<1>1. CASE ~Knows(s, q)
  BY <1>1 DEF SetNeighborBitfield, GoodUpdate
<1>2. CASE Knows(s, q)
  <2> USE DEF Knows
  <2>1. /\ t.my_bitfield = s.my_bitfield
        /\ DOMAIN t.neighbors = DOMAIN s.neighbors
        /\ \A r \in DOMAIN s.neighbors :
              /\ t.neighbors[r].bitfield =
                    IF r = q THEN b ELSE s.neighbors[r].bitfield
              /\ Outstanding(t, r) = Outstanding(s, r)
        /\ t.requested_pieces = s.requested_pieces
        /\ t.completed_neighbor_ids =
              IF Complete(b) THEN s.completed_neighbor_ids \cup {q}
              ELSE s.completed_neighbor_ids
    BY <1>2 DEF SetNeighborBitfield, Outstanding, Good, IsStore, NeighborState
  <2>2. IsStore(t)
    <3> DEFINE n == [s.neighbors EXCEPT ![q].bitfield = b]
    <3>1. s.neighbors \in [DOMAIN s.neighbors -> NeighborState] /\ b \subseteq Piece
      BY DEF Good, IsStore
    <3>2. n \in [DOMAIN s.neighbors -> NeighborState]
      BY <3>1 DEF NeighborState
    <3>3. t = [s EXCEPT !.neighbors = n,
                        !.completed_neighbor_ids = t.completed_neighbor_ids]
      BY <1>2, <2>1 DEF SetNeighborBitfield, Good, IsStore
    <3>4. t.completed_neighbor_ids \subseteq Peer
      BY <2>1 DEF Good, IsStore
    <3> HIDE DEF t, n
    <3> QED
      BY <2>1, <3>2, <3>3, <3>4 DEF Good, IsStore
  <2> HIDE DEF t
  <2>3. Reserved(t)
    BY <2>1 DEF Good, IsStore, Reserved
  <2>4. Sound(t, p, F)
    <3>1. \A r \in DOMAIN t.neighbors : t.neighbors[r].bitfield \subseteq F[r]
      BY <2>1 DEF Good, Sound
    <3>2. Complete(b) => q # p /\ F[q] = Piece
      BY <1>2 DEF Good, Sound, Complete
    <3>3. \A r \in t.completed_neighbor_ids : r # p /\ F[r] = Piece
      BY <2>1, <3>2 DEF Good, Sound
    <3> QED
      BY <2>1, <3>1, <3>3 DEF Good, Sound
  <2> QED
    BY <2>1, <2>2, <2>3, <2>4 DEF t, GoodUpdate, Good
<1> QED
  BY <1>1, <1>2

\* Updates of the flags: t differs from s in nothing else.
LEMMA FlagsGood ==
    ASSUME NEW s, NEW t, NEW p \in Peer, NEW F, Good(s, p, F),
           t = [s EXCEPT !.neighbors = t.neighbors],
           DOMAIN t.neighbors = DOMAIN s.neighbors,
           t.neighbors \in [DOMAIN s.neighbors -> NeighborState],
           \A r \in DOMAIN s.neighbors :
              /\ t.neighbors[r].bitfield = s.neighbors[r].bitfield
              /\ Outstanding(t, r) = Outstanding(s, r)
    PROVE  GoodUpdate(s, t, p, F)
<1>1. /\ t.my_bitfield = s.my_bitfield
      /\ t.requested_pieces = s.requested_pieces
      /\ t.completed_neighbor_ids = s.completed_neighbor_ids
      /\ IsStore(t)
  BY DEF Good, IsStore
<1>2. Reserved(t)
  BY <1>1 DEF Good, Reserved
<1>3. Sound(t, p, F)
  BY <1>1 DEF Good, Sound
<1> QED
  BY <1>1, <1>2, <1>3 DEF GoodUpdate, Good

LEMMA SetAmChokingGood ==
    ASSUME NEW s, NEW p \in Peer, NEW F, NEW U, NEW C, Good(s, p, F)
    PROVE  GoodUpdate(s, set_am_choking(s, U, C), p, F)
<1> DEFINE t == set_am_choking(s, U, C)
<1>1. /\ t = [s EXCEPT !.neighbors = t.neighbors]
      /\ DOMAIN t.neighbors = DOMAIN s.neighbors
  BY DEF set_am_choking, Good, IsStore
<1>2. \A r \in DOMAIN s.neighbors :
         /\ t.neighbors[r] \in NeighborState
         /\ t.neighbors[r].bitfield = s.neighbors[r].bitfield
         /\ Outstanding(t, r) = Outstanding(s, r)
  BY ZenonT(30) DEF set_am_choking, Good, IsStore, NeighborState, Outstanding
<1>3. t.neighbors \in [DOMAIN s.neighbors -> NeighborState]
  BY <1>2 DEF set_am_choking, Good, IsStore
<1> QED
  BY <1>1, <1>2, <1>3, FlagsGood

LEMMA SetInterestGood ==
    ASSUME NEW s, NEW p \in Peer, NEW F, NEW Q, Good(s, p, F)
    PROVE  GoodUpdate(s, SetInterest(s, Q), p, F)
<1> DEFINE t == SetInterest(s, Q)
<1>1. /\ t = [s EXCEPT !.neighbors = t.neighbors]
      /\ DOMAIN t.neighbors = DOMAIN s.neighbors
  BY DEF SetInterest, Good, IsStore
<1>2. \A r \in DOMAIN s.neighbors :
         /\ t.neighbors[r] \in NeighborState
         /\ t.neighbors[r].bitfield = s.neighbors[r].bitfield
         /\ Outstanding(t, r) = Outstanding(s, r)
  BY ZenonT(30) DEF SetInterest, Good, IsStore, NeighborState, Outstanding
<1>3. t.neighbors \in [DOMAIN s.neighbors -> NeighborState]
  BY <1>2 DEF SetInterest, Good, IsStore
<1> QED
  BY <1>1, <1>2, <1>3, FlagsGood

LEMMA SetPeerChokingGood ==
    ASSUME NEW s, NEW p \in Peer, NEW F, NEW q, NEW b \in BOOLEAN, Good(s, p, F)
    PROVE  GoodUpdate(s, set_peer_choking(s, q, b), p, F)
<1> DEFINE t == set_peer_choking(s, q, b)
<1>1. /\ t = [s EXCEPT !.neighbors = t.neighbors]
      /\ DOMAIN t.neighbors = DOMAIN s.neighbors
      /\ t.neighbors \in [DOMAIN s.neighbors -> NeighborState]
  BY SMTT(30) DEF set_peer_choking, Knows, Good, IsStore, NeighborState
<1>2. \A r \in DOMAIN s.neighbors :
         /\ t.neighbors[r].bitfield = s.neighbors[r].bitfield
         /\ Outstanding(t, r) = Outstanding(s, r)
  BY DEF set_peer_choking, Knows, Good, IsStore, NeighborState, Outstanding
<1> QED
  BY <1>1, <1>2, FlagsGood

LEMMA SetAmInterestedGood ==
    ASSUME NEW s, NEW p \in Peer, NEW F, NEW q, NEW b \in BOOLEAN, Good(s, p, F)
    PROVE  GoodUpdate(s, set_am_interested(s, q, b), p, F)
<1> DEFINE t == set_am_interested(s, q, b)
<1>1. /\ t = [s EXCEPT !.neighbors = t.neighbors]
      /\ DOMAIN t.neighbors = DOMAIN s.neighbors
      /\ t.neighbors \in [DOMAIN s.neighbors -> NeighborState]
  BY ZenonT(30) DEF set_am_interested, Knows, Good, IsStore, NeighborState
<1>2. \A r \in DOMAIN s.neighbors :
         /\ t.neighbors[r].bitfield = s.neighbors[r].bitfield
         /\ Outstanding(t, r) = Outstanding(s, r)
  BY DEF set_am_interested, Knows, Good, IsStore, NeighborState, Outstanding
<1> QED
  BY <1>1, <1>2, FlagsGood

LEMMA SetPeerInterestedGood ==
    ASSUME NEW s, NEW p \in Peer, NEW F, NEW q, NEW b \in BOOLEAN, Good(s, p, F)
    PROVE  GoodUpdate(s, set_peer_interested(s, q, b), p, F)
<1> DEFINE t == set_peer_interested(s, q, b)
<1>1. /\ t = [s EXCEPT !.neighbors = t.neighbors]
      /\ DOMAIN t.neighbors = DOMAIN s.neighbors
      /\ t.neighbors \in [DOMAIN s.neighbors -> NeighborState]
  BY DEF set_peer_interested, Knows, Good, IsStore, NeighborState
<1>2. \A r \in DOMAIN s.neighbors :
         /\ t.neighbors[r].bitfield = s.neighbors[r].bitfield
         /\ Outstanding(t, r) = Outstanding(s, r)
  BY DEF set_peer_interested, Knows, Good, IsStore, NeighborState, Outstanding
<1> QED
  BY <1>1, <1>2, FlagsGood

LEMMA ReserveRequestGood ==
    ASSUME NEW s, NEW p \in Peer, NEW F, NEW q \in Peer, NEW i \in Piece,
           Good(s, p, F)
    PROVE  GoodUpdate(s, reserve_request(s, q, i), p, F)
<1> DEFINE t == reserve_request(s, q, i)
<1>1. CASE ~CanReserve(s, q, i)
  BY <1>1 DEF reserve_request, GoodUpdate
<1>2. CASE CanReserve(s, q, i)
  <2>1. /\ t.my_bitfield = s.my_bitfield
        /\ DOMAIN t.neighbors = DOMAIN s.neighbors
        /\ \A r \in DOMAIN s.neighbors :
              /\ t.neighbors[r].bitfield = s.neighbors[r].bitfield
              /\ Outstanding(t, r) = IF r = q THEN i ELSE Outstanding(s, r)
        /\ t.requested_pieces = s.requested_pieces \cup {i}
        /\ t.completed_neighbor_ids = s.completed_neighbor_ids
    BY <1>2 DEF reserve_request, CanReserve, Knows, Outstanding, Good, IsStore,
                NeighborState
  <2>2. IsStore(t)
    <3> DEFINE n == [s.neighbors EXCEPT ![q].outstanding_request = i]
    <3>1. s.neighbors \in [DOMAIN s.neighbors -> NeighborState]
      BY DEF Good, IsStore
    <3>2. n \in [DOMAIN s.neighbors -> NeighborState]
      BY <3>1 DEF NeighborState
    <3>3. t = [s EXCEPT !.neighbors = n,
                        !.requested_pieces = t.requested_pieces]
      BY <1>2, <2>1 DEF reserve_request, Good, IsStore
    <3> HIDE DEF t, n
    <3> QED
      BY <2>1, <3>2, <3>3 DEF Good, IsStore
  <2>3. q \in DOMAIN s.neighbors /\ Outstanding(s, q) = None /\ i \notin s.requested_pieces
    BY <1>2 DEF CanReserve, Knows, Outstanding
  <2> HIDE DEF t
  <2>4. Reserved(t)
    BY <2>1, <2>3, PieceAssumption DEF Good, IsStore, Reserved
  <2>5. Sound(t, p, F)
    BY <2>1 DEF Good, Sound
  <2> QED
    BY <2>1, <2>2, <2>4, <2>5 DEF t, GoodUpdate, Good
<1> QED
  BY <1>1, <1>2

LEMMA ClearOutstandingGood ==
    ASSUME NEW s, NEW p \in Peer, NEW F, NEW q \in Peer, Good(s, p, F)
    PROVE  GoodUpdate(s, clear_outstanding_request(s, q), p, F)
<1> DEFINE t == clear_outstanding_request(s, q)
<1>1. CASE ~Knows(s, q)
  BY <1>1 DEF clear_outstanding_request, GoodUpdate
<1>2. CASE Knows(s, q)
  <2> USE DEF Knows
  <2>1. /\ t.my_bitfield = s.my_bitfield
        /\ DOMAIN t.neighbors = DOMAIN s.neighbors
        /\ \A r \in DOMAIN s.neighbors :
              /\ t.neighbors[r].bitfield = s.neighbors[r].bitfield
              /\ Outstanding(t, r) = IF r = q THEN None ELSE Outstanding(s, r)
        /\ t.requested_pieces = s.requested_pieces \ {Outstanding(s, q)}
        /\ t.completed_neighbor_ids = s.completed_neighbor_ids
    BY <1>2 DEF clear_outstanding_request, Outstanding, Good, IsStore, NeighborState
  <2>2. IsStore(t)
    <3> DEFINE n == [s.neighbors EXCEPT ![q].outstanding_request = None]
    <3>1. s.neighbors \in [DOMAIN s.neighbors -> NeighborState]
      BY DEF Good, IsStore
    <3>2. n \in [DOMAIN s.neighbors -> NeighborState]
      BY <3>1 DEF NeighborState
    <3>3. t = [s EXCEPT !.neighbors = n,
                        !.requested_pieces = t.requested_pieces]
      BY <1>2, <2>1 DEF clear_outstanding_request, Good, IsStore
    <3> HIDE DEF t, n
    <3> QED
      BY <2>1, <3>2, <3>3 DEF Good, IsStore
  <2> HIDE DEF t
  <2>3. Reserved(t)
    BY <1>2, <2>1, PieceAssumption DEF Good, IsStore, Reserved
  <2>4. Sound(t, p, F)
    BY <2>1 DEF Good, Sound
  <2> QED
    BY <2>1, <2>2, <2>3, <2>4 DEF t, GoodUpdate, Good
<1> QED
  BY <1>1, <1>2

\* The one method that gives us a piece.
LEMMA MarkDownloadedGood ==
    ASSUME NEW s, NEW p \in Peer, NEW F, NEW i \in Piece, Good(s, p, F),
           NEW t, t = mark_piece_downloaded(s, i)
    PROVE  Good(t, p, F) /\ s.my_bitfield \subseteq t.my_bitfield /\ i \in t.my_bitfield
<1>1. /\ t.my_bitfield = s.my_bitfield \cup {i}
      /\ t.neighbors = s.neighbors
      /\ t.requested_pieces = s.requested_pieces \ {i}
      /\ t.completed_neighbor_ids = s.completed_neighbor_ids
      /\ IsStore(t)
  BY DEF mark_piece_downloaded, Good, IsStore
<1>2. Reserved(t)
  BY <1>1 DEF Good, Reserved, Outstanding
<1>3. Sound(t, p, F)
  BY <1>1 DEF Good, Sound
<1> QED
  BY <1>1, <1>2, <1>3 DEF Good

\* Beliefs stay true while the other peers obtain pieces.
LEMMA GoodMonotone ==
    ASSUME NEW s, NEW p \in Peer, NEW F \in [Peer -> SUBSET Piece],
           NEW G \in [Peer -> SUBSET Piece],
           \A q \in Peer : F[q] \subseteq G[q], Good(s, p, F)
    PROVE  Good(s, p, G)
<1>1. DOMAIN s.neighbors \subseteq Peer /\ s.completed_neighbor_ids \subseteq Peer
  BY DEF Good, IsStore
<1>2. \A q \in Peer : G[q] \subseteq Piece
  OBVIOUS
<1>3. \A q \in Peer : F[q] = Piece => G[q] = Piece
  BY <1>2
<1> QED
  BY <1>1, <1>3 DEF Good, Sound

=============================================================================
