---------------------------- MODULE SendingProofs ----------------------------
(***************************************************************************)
(* Two peers that exchange pieces through bounded buffers keep as few      *)
(* requests and pieces under way as their UNCHOKEs allow, whatever the     *)
(* pieces and the buffers (connection.py 22-46, peer_network.py 405-467).  *)
(***************************************************************************)
EXTENDS Sending, SequenceTheorems, FunctionTheorems, FiniteSetTheorems, TLAPS

Unit == MessageTypes \cup {Part}

-----------------------------------------------------------------------------
(* Two peers. *)

LEMMA TwoPeers ==
    ASSUME NEW p \in Peer
    PROVE  /\ Other(p) \in Peer /\ Other(p) # p
           /\ Other(Other(p)) = p
           /\ \A r \in Peer : r = p \/ r = Other(p)
<1>1. IsFiniteSet(Peer \ {p}) /\ Cardinality(Peer \ {p}) = 1
  <2>1. Cardinality(Peer) = 2 /\ IsFiniteSet(Peer)
    BY PeerAssumption, SendingAssumption
  <2>2. QED
    BY <2>1, FS_RemoveElement
<1>2. PICK q : Peer \ {p} = {q}
  BY <1>1, FS_Singleton
<1>3. q \in Peer /\ q # p /\ \A r \in Peer : r = p \/ r = q
  BY <1>2
<1>4. Other(p) = q
  BY <1>3 DEF Other
<1>5. Other(q) = p
  BY <1>3 DEF Other
<1>6. QED
  BY <1>3, <1>4, <1>5

-----------------------------------------------------------------------------
(* Counting units. *)

\* The units of s from position k on whose type is among types.
Positions(s, k, types) == { n \in k .. Len(s) : s[n].type \in types }
CountFrom(s, k, types) == Cardinality(Positions(s, k, types))
LoadFrom(s, k) == CountFrom(s, k, {"part", "PIECE"})

LEMMA CountNat ==
    ASSUME NEW S, NEW s \in Seq(S), NEW k \in Nat, NEW types
    PROVE  IsFiniteSet(Positions(s, k, types)) /\ CountFrom(s, k, types) \in Nat
<1>1. Len(s) \in Nat
  BY LenProperties
<1>2. IsFiniteSet(k .. Len(s))
  BY <1>1, FS_Interval
<1>3. IsFiniteSet(Positions(s, k, types))
  BY <1>2, FS_Subset DEF Positions
<1>4. QED
  BY <1>3, FS_CardinalityType DEF CountFrom

LEMMA CountAll ==
    ASSUME NEW S, NEW s \in Seq(S), NEW types
    PROVE  Count(s, types) = CountFrom(s, 1, types)
<1>1. DOMAIN s = 1 .. Len(s)
  BY LenProperties
<1>2. QED
  BY <1>1 DEF Count, CountFrom, Positions

LEMMA CountNothing ==
    ASSUME NEW S, NEW s \in Seq(S), NEW k \in Nat, NEW types,
           \A n \in k .. Len(s) : s[n].type \notin types
    PROVE  CountFrom(s, k, types) = 0
<1>1. Positions(s, k, types) = {}
  BY DEF Positions
<1>2. QED
  BY <1>1, FS_EmptySet DEF CountFrom

\* One position more.
LEMMA CountNext ==
    ASSUME NEW S, NEW s \in Seq(S), NEW k \in 1 .. Len(s), NEW types
    PROVE  CountFrom(s, k, types)
             = CountFrom(s, k + 1, types) + (IF s[k].type \in types THEN 1 ELSE 0)
<1>1. Len(s) \in Nat /\ k \in Nat
  BY LenProperties
<1>2. IsFiniteSet(Positions(s, k + 1, types)) /\ CountFrom(s, k + 1, types) \in Nat
  BY <1>1, CountNat
<1>3. CASE s[k].type \in types
  <2>1. Positions(s, k, types) = Positions(s, k + 1, types) \cup {k}
    BY <1>1, <1>3 DEF Positions
  <2>2. k \notin Positions(s, k + 1, types)
    BY <1>1 DEF Positions
  <2>3. QED
    BY <2>1, <2>2, <1>2, <1>3, FS_AddElement DEF CountFrom
<1>4. CASE s[k].type \notin types
  <2>1. Positions(s, k, types) = Positions(s, k + 1, types)
    BY <1>1, <1>4 DEF Positions
  <2>2. QED
    BY <2>1, <1>2, <1>4 DEF CountFrom
<1>5. QED
  BY <1>3, <1>4

LEMMA CountAppend ==
    ASSUME NEW S, NEW s \in Seq(S), NEW e \in S, NEW k \in 1 .. Len(s) + 1, NEW types
    PROVE  CountFrom(Append(s, e), k, types)
             = CountFrom(s, k, types) + (IF e.type \in types THEN 1 ELSE 0)
<1> DEFINE t == Append(s, e)
<1>1. /\ Len(s) \in Nat /\ k \in Nat
      /\ Len(t) = Len(s) + 1
      /\ \A n \in 1 .. Len(s) : t[n] = s[n]
      /\ t[Len(s) + 1] = e
  BY LenProperties, AppendProperties
<1> HIDE DEF t
<1>2. IsFiniteSet(Positions(s, k, types)) /\ CountFrom(s, k, types) \in Nat
  BY <1>1, CountNat
<1>3. CASE e.type \in types
  <2>1. Positions(t, k, types) = Positions(s, k, types) \cup {Len(s) + 1}
    BY <1>1, <1>3 DEF Positions
  <2>2. Len(s) + 1 \notin Positions(s, k, types)
    BY <1>1 DEF Positions
  <2>3. CountFrom(t, k, types) = CountFrom(s, k, types) + 1
    BY <2>1, <2>2, <1>2, FS_AddElement DEF CountFrom
  <2>4. QED
    BY <2>3, <1>3 DEF t
<1>4. CASE e.type \notin types
  <2>1. Positions(t, k, types) = Positions(s, k, types)
    BY <1>1, <1>4 DEF Positions
  <2>2. CountFrom(t, k, types) = CountFrom(s, k, types)
    BY <2>1 DEF CountFrom
  <2>3. QED
    BY <2>2, <1>2, <1>4 DEF t
<1>5. QED
  BY <1>3, <1>4

\* A stream that was read.
LEMMA CountTail ==
    ASSUME NEW S, NEW s \in Seq(S), s # <<>>, NEW k \in Nat \ {0}, NEW types
    PROVE  CountFrom(Tail(s), k, types) = CountFrom(s, k + 1, types)
<1> DEFINE t == Tail(s)
           A == Positions(t, k, types)
           B == Positions(s, k + 1, types)
           f == [n \in A |-> n + 1]
<1>1. /\ Len(s) \in Nat /\ Len(t) = Len(s) - 1 /\ t \in Seq(S)
      /\ \A n \in 1 .. Len(t) : t[n] = s[n + 1]
  BY LenProperties, HeadTailProperties
<1> HIDE DEF t
<1>2. IsFiniteSet(A)
  BY <1>1, CountNat
<1>3. /\ A \subseteq Int
      /\ \A n \in A : n + 1 \in B
      /\ \A m \in B : m - 1 \in A /\ m \in Int
  BY <1>1, SMTT(30) DEF Positions
<1>4. f \in Bijection(A, B)
  <2>1. f \in [A -> B]
    BY <1>3
  <2>2. \A a, b \in A : f[a] = f[b] => a = b
    BY <1>3
  <2>3. \A m \in B : \E n \in A : f[n] = m
    <3> TAKE m \in B
    <3>1. m - 1 \in A /\ f[m - 1] = m
      BY <1>3
    <3>2. QED
      BY <3>1
  <2> HIDE DEF f, A, B
  <2>4. QED
    BY <2>1, <2>2, <2>3, Fun_IsBij
<1>5. ExistsBijection(A, B)
  BY <1>4 DEF ExistsBijection
<1> HIDE DEF A, B
<1>6. Cardinality(B) = Cardinality(A)
  BY <1>2, <1>5, FS_Bijection
<1>7. QED
  BY <1>6 DEF CountFrom, A, B, t

-----------------------------------------------------------------------------
(* The stores: one neighbour, whose am_choking only the timer changes. *)

Kept(s, q, b) ==
    /\ IsStore(s)
    /\ DOMAIN s.neighbors = {q}
    /\ s.neighbors[q].am_choking = b

LEMMA KeptSetPeerChoking ==
    ASSUME NEW s, NEW q, NEW b, Kept(s, q, b), NEW x \in BOOLEAN
    PROVE  Kept(set_peer_choking(s, q, x), q, b)
  BY DEF Kept, IsStore, set_peer_choking, Knows, NeighborState

LEMMA KeptSetPeerInterested ==
    ASSUME NEW s, NEW q, NEW b, Kept(s, q, b), NEW x \in BOOLEAN
    PROVE  Kept(set_peer_interested(s, q, x), q, b)
  BY DEF Kept, IsStore, set_peer_interested, Knows, NeighborState

LEMMA KeptSetAmInterested ==
    ASSUME NEW s, NEW q, NEW b, Kept(s, q, b), NEW x \in BOOLEAN
    PROVE  Kept(set_am_interested(s, q, x), q, b)
  BY DEF Kept, IsStore, set_am_interested, Knows, NeighborState

LEMMA KeptSync ==
    ASSUME NEW s, NEW q, NEW b, Kept(s, q, b)
    PROVE  Kept(Sync(s, q), q, b)
<1>1. (get_interesting_pieces(s, q) # {}) \in BOOLEAN
  OBVIOUS
<1>2. QED
  BY <1>1, KeptSetAmInterested DEF Sync

LEMMA KeptHave ==
    ASSUME NEW s, NEW q, NEW b, Kept(s, q, b), NEW i \in Piece
    PROVE  Kept(neighbor_set_piece(s, q, i), q, b)
<1> DEFINE t == neighbor_set_piece(s, q, i)
<1>1. /\ t.my_bitfield = s.my_bitfield /\ t.requested_pieces = s.requested_pieces
      /\ t.completed_neighbor_ids \subseteq s.completed_neighbor_ids \cup {q}
      /\ t.neighbors = [s.neighbors EXCEPT ![q].bitfield = @ \cup {i}]
      /\ t = [s EXCEPT !.neighbors = t.neighbors,
                       !.completed_neighbor_ids = t.completed_neighbor_ids]
  BY DEF Kept, IsStore, neighbor_set_piece, SetNeighborBitfield, Knows
<1> HIDE DEF t
<1>2. t.neighbors[q] \in NeighborState /\ t.neighbors[q].am_choking = b
  BY <1>1 DEF Kept, IsStore, NeighborState
<1>3. QED
  BY <1>1, <1>2 DEF Kept, IsStore, t

LEMMA KeptClear ==
    ASSUME NEW s, NEW q, NEW b, Kept(s, q, b)
    PROVE  Kept(clear_outstanding_request(s, q), q, b)
<1> DEFINE t == clear_outstanding_request(s, q)
<1>1. /\ t.neighbors = [s.neighbors EXCEPT ![q].outstanding_request = None]
      /\ t.requested_pieces \subseteq s.requested_pieces
      /\ t = [s EXCEPT !.neighbors = t.neighbors,
                       !.requested_pieces = t.requested_pieces]
  BY DEF Kept, IsStore, clear_outstanding_request, Knows
<1> HIDE DEF t
<1>2. t.neighbors[q] \in NeighborState /\ t.neighbors[q].am_choking = b
  BY <1>1 DEF Kept, IsStore, NeighborState
<1>3. QED
  BY <1>1, <1>2 DEF Kept, IsStore, t

LEMMA KeptDownloaded ==
    ASSUME NEW s, NEW q, NEW b, Kept(s, q, b), NEW i \in Piece
    PROVE  Kept(mark_piece_downloaded(s, i), q, b)
  BY DEF Kept, IsStore, mark_piece_downloaded

LEMMA KeptReserve ==
    ASSUME NEW s, NEW q, NEW b, Kept(s, q, b), NEW i \in Piece
    PROVE  Kept(reserve_request(s, q, i), q, b)
<1> DEFINE t == reserve_request(s, q, i)
<1>1. CASE ~CanReserve(s, q, i)
  BY <1>1 DEF reserve_request
<1>2. CASE CanReserve(s, q, i)
  <2>1. /\ t.neighbors = [s.neighbors EXCEPT ![q].outstanding_request = i]
        /\ t.requested_pieces = s.requested_pieces \cup {i}
        /\ t = [s EXCEPT !.neighbors = t.neighbors,
                         !.requested_pieces = t.requested_pieces]
    BY <1>2 DEF Kept, IsStore, reserve_request
  <2> HIDE DEF t
  <2>2. t.neighbors[q] \in NeighborState /\ t.neighbors[q].am_choking = b
    BY <2>1 DEF Kept, IsStore, NeighborState
  <2>3. QED
    BY <2>1, <2>2 DEF Kept, IsStore, t
<1>3. QED
  BY <1>1, <1>2

LEMMA KeptSetAmChoking ==
    ASSUME NEW s, NEW q, NEW b, Kept(s, q, b)
    PROVE  /\ Kept(set_am_choking(s, {}, {q}), q, TRUE)
           /\ Kept(set_am_choking(s, {q}, {}), q, FALSE)
<1>1. ASSUME NEW U, NEW C, NEW x \in BOOLEAN,
             x = ((s.neighbors[q].am_choking \/ q \in C) /\ q \notin U)
      PROVE  Kept(set_am_choking(s, U, C), q, x)
  <2> DEFINE t == set_am_choking(s, U, C)
             n == [s.neighbors[q] EXCEPT !.am_choking = x]
  <2>1. s.neighbors[q] \in NeighborState
    BY DEF Kept, IsStore
  <2>2. n \in NeighborState /\ n.am_choking = x
    BY <2>1 DEF NeighborState
  <2>3. t = [s EXCEPT !.neighbors = [r \in {q} |-> n]]
    BY <1>1 DEF Kept, set_am_choking
  <2> HIDE DEF n, t
  <2>4. Kept(t, q, x)
    BY <2>2, <2>3 DEF Kept, IsStore
  <2>5. QED
    BY <2>4 DEF t
<1>2. QED
  BY <1>1

-----------------------------------------------------------------------------
(* What the handlers send. *)

\* Messages that ask for nothing, carry nothing and change no choke.
Tame(units) ==
    /\ units \in Seq(Unit)
    /\ \A n \in 1 .. Len(units) :
          units[n].type \in {"HAVE", "INTERESTED", "NOT_INTERESTED"}

\* Every suffix of what p still sends has the units of its PIECEs at most.
InPieces(units) ==
    \A k \in 1 .. Len(units) + 1 :
        LoadFrom(units, k) <= Size * CountFrom(units, k, {"PIECE"})

\* What a handler may send that brings at most requests REQUESTs and pieces
\* PIECEs under way.
Sendable(units, requests, pieces) ==
    /\ units \in Seq(Unit)
    /\ \A n \in 1 .. Len(units) : units[n].type \notin {"CHOKE", "UNCHOKE"}
    /\ InPieces(units)
    /\ Count(units, {"REQUEST"}) <= requests
    /\ Count(units, {"PIECE"}) <= pieces

LEMMA UnitTypes ==
    /\ \A u \in MessageTypes : u.type \in {"CHOKE", "UNCHOKE", "INTERESTED",
         "NOT_INTERESTED", "HAVE", "REQUEST", "PIECE"}
    /\ \A u \in MessageTypes :
         u.type \in {"HAVE", "REQUEST", "PIECE"} => u.piece \in Piece
    /\ Part.type = "part"
    /\ \A u \in Unit : u.type = "part" => u = Part
<1>1. \A u \in MessageTypes :
         \/ u.type \in {"CHOKE", "UNCHOKE", "INTERESTED", "NOT_INTERESTED"}
         \/ u.type \in {"HAVE", "REQUEST", "PIECE"} /\ u.piece \in Piece
  <2>1. \A t, i : Message(t, i).type = t /\ Message(t, i).piece = i
    BY DEF Message
  <2> SUFFICES ASSUME NEW u \in MessageTypes
               PROVE  \/ u.type \in {"CHOKE", "UNCHOKE", "INTERESTED", "NOT_INTERESTED"}
                      \/ u.type \in {"HAVE", "REQUEST", "PIECE"} /\ u.piece \in Piece
    OBVIOUS
  <2>2. CASE \E t \in {"CHOKE", "UNCHOKE", "INTERESTED", "NOT_INTERESTED"} : u = Signal(t)
    BY <2>1, <2>2 DEF Signal
  <2>3. CASE \E t \in {"HAVE", "REQUEST", "PIECE"}, i \in Piece : u = Message(t, i)
    BY <2>1, <2>3
  <2>4. QED
    BY <2>2, <2>3 DEF MessageTypes
<1>2. Part.type = "part"
  BY DEF Part, Signal, Message
<1>3. \A u \in MessageTypes :
         u.type \in {"HAVE", "REQUEST", "PIECE"} => u.piece \in Piece
  BY <1>1
<1>4. \A u \in Unit : u.type = "part" => u = Part
  BY <1>1 DEF Unit
<1>5. QED
  BY <1>1, <1>2, <1>3, <1>4

\* No unit fills a buffer.
LEMMA Tiny ==
    ASSUME NEW units \in Seq(Unit),
           \A n \in 1 .. Len(units) : units[n].type \notin {"part", "PIECE"}
    PROVE  InPieces(units) /\ Count(units, {"PIECE"}) = 0
<1>1. Len(units) \in Nat
  BY LenProperties
<1>2. ASSUME NEW k \in 1 .. Len(units) + 1
      PROVE  LoadFrom(units, k) = 0 /\ CountFrom(units, k, {"PIECE"}) = 0
  <2>1. k \in Nat
    BY <1>1
  <2>2. \A n \in k .. Len(units) : n \in 1 .. Len(units)
    BY <1>1
  <2>3. LoadFrom(units, k) = 0
    BY <2>1, <2>2, CountNothing DEF LoadFrom
  <2>4. CountFrom(units, k, {"PIECE"}) = 0
    BY <2>1, <2>2, CountNothing
  <2>5. QED
    BY <2>3, <2>4
<1>3. InPieces(units)
  BY <1>2, SendingAssumption DEF InPieces
<1>4. Count(units, {"PIECE"}) = 0
  BY <1>2, <1>1, CountAll
<1>5. QED
  BY <1>3, <1>4

LEMMA TameSendable ==
    ASSUME NEW units, Tame(units)
    PROVE  Sendable(units, 0, 0)
<1>1. Len(units) \in Nat /\ units \in Seq(Unit)
  BY LenProperties DEF Tame
<1>2. InPieces(units) /\ Count(units, {"PIECE"}) = 0
  BY <1>1, Tiny DEF Tame
<1>3. CountFrom(units, 1, {"REQUEST"}) = 0
  BY <1>1, CountNothing DEF Tame
<1>4. Count(units, {"REQUEST"}) = 0
  BY <1>1, <1>3, CountAll
<1>5. QED
  BY <1>1, <1>2, <1>4 DEF Sendable, Tame

LEMMA RequestSendable ==
    ASSUME NEW units, Tame(units), NEW i \in Piece
    PROVE  Sendable(Append(units, Message("REQUEST", i)), 1, 0)
<1> DEFINE m == Message("REQUEST", i)
           t == Append(units, m)
<1>1. m \in Unit /\ m.type = "REQUEST"
  BY DEF Unit, MessageTypes, Message
<1> HIDE DEF m
<1>2. /\ Len(units) \in Nat /\ units \in Seq(Unit)
      /\ t \in Seq(Unit) /\ Len(t) = Len(units) + 1
      /\ \A n \in 1 .. Len(units) : t[n] = units[n]
      /\ t[Len(units) + 1] = m
  BY <1>1, LenProperties, AppendProperties DEF Tame
<1>3. \A n \in 1 .. Len(t) :
        t[n].type \in {"HAVE", "INTERESTED", "NOT_INTERESTED", "REQUEST"}
  BY <1>1, <1>2 DEF Tame
<1>4. InPieces(t) /\ Count(t, {"PIECE"}) = 0
  <2>1. \A n \in 1 .. Len(t) : t[n].type \notin {"part", "PIECE"}
    BY <1>3
  <2> HIDE DEF t
  <2>2. QED
    BY <1>2, <2>1, Tiny
<1>5. Count(t, {"REQUEST"}) = 1
  <2>1. CountFrom(units, 1, {"REQUEST"}) = 0
    BY <1>2, CountNothing DEF Tame
  <2>2. CountFrom(t, 1, {"REQUEST"}) = CountFrom(units, 1, {"REQUEST"}) + 1
    <3>1. 1 \in 1 .. Len(units) + 1
      BY <1>2
    <3>2. QED
      BY <1>1, <1>2, <3>1, CountAppend
  <2> HIDE DEF t
  <2>3. QED
    BY <1>2, <2>1, <2>2, CountAll
<1> HIDE DEF t
<1>6. Sendable(t, 1, 0)
  BY <1>2, <1>3, <1>4, <1>5 DEF Sendable
<1>7. QED
  BY <1>6 DEF t, m

LEMMA PieceSendable ==
    ASSUME NEW i \in Piece
    PROVE  Sendable(PieceUnits(i), 0, 1)
<1> DEFINE t == PieceUnits(i)
<1>1. Size \in Nat \ {0} /\ Message("PIECE", i) \in Unit /\ Part \in Unit
  BY SendingAssumption DEF Unit, MessageTypes, Message, Part, Signal
<1>2. t \in Seq(Unit) /\ Len(t) = Size
  BY <1>1 DEF PieceUnits
<1>3. /\ t[Size].type = "PIECE"
      /\ \A n \in 1 .. Size : n # Size => t[n].type = "part"
  BY <1>1 DEF PieceUnits, Message, Part, Signal
<1> HIDE DEF t
<1>4. ASSUME NEW k \in 1 .. Size
      PROVE  CountFrom(t, k, {"PIECE"}) = 1 /\ LoadFrom(t, k) <= Size
  <2>1. Positions(t, k, {"PIECE"}) = {Size}
    BY <1>1, <1>2, <1>3 DEF Positions
  <2>2. CountFrom(t, k, {"PIECE"}) = 1
    BY <2>1, FS_Singleton DEF CountFrom
  <2>3. Positions(t, k, {"part", "PIECE"}) \in SUBSET (1 .. Size)
    BY <1>1, <1>2 DEF Positions
  <2>4. IsFiniteSet(1 .. Size) /\ Cardinality(1 .. Size) = Size
    BY <1>1, FS_Interval
  <2>5. LoadFrom(t, k) <= Size
    BY <2>3, <2>4, FS_Subset DEF LoadFrom, CountFrom
  <2>6. QED
    BY <2>2, <2>5
<1>5. InPieces(t)
  <2> SUFFICES ASSUME NEW k \in 1 .. Size + 1
               PROVE  LoadFrom(t, k) <= Size * CountFrom(t, k, {"PIECE"})
    BY <1>2 DEF InPieces
  <2>1. CASE k = Size + 1
    <3>1. LoadFrom(t, k) = 0 /\ CountFrom(t, k, {"PIECE"}) = 0
      BY <1>1, <1>2, <2>1, CountNothing DEF LoadFrom
    <3>2. QED
      BY <3>1, <1>1
  <2>2. CASE k # Size + 1
    BY <1>1, <1>4, <2>2
  <2>3. QED
    BY <2>1, <2>2
<1>6. Count(t, {"PIECE"}) = 1
  BY <1>1, <1>2, <1>4, CountAll
<1>7. Count(t, {"REQUEST"}) = 0
  <2>1. \A n \in 1 .. Len(t) : t[n].type \notin {"REQUEST"}
    BY <1>1, <1>2, <1>3
  <2>2. QED
    BY <1>1, <1>2, <2>1, CountNothing, CountAll
<1>8. Sendable(t, 0, 1)
  BY <1>1, <1>2, <1>3, <1>5, <1>6, <1>7 DEF Sendable
<1>9. QED
  BY <1>8 DEF t

-----------------------------------------------------------------------------
(* Units that move. *)

LEMMA CountMoves ==
    ASSUME NEW s \in Seq(Unit), NEW types
    PROVE  /\ Count(s, types) \in Nat
           /\ Count(<<>>, types) = 0
           /\ s # <<>> => Count(s, types) = Count(Tail(s), types)
                            + (IF Head(s).type \in types THEN 1 ELSE 0)
           /\ \A e \in Unit : Count(Append(s, e), types) = Count(s, types)
                                + (IF e.type \in types THEN 1 ELSE 0)
<1>1. Len(s) \in Nat
  BY LenProperties
<1>2. Count(s, types) = CountFrom(s, 1, types) /\ Count(s, types) \in Nat
  BY CountAll, CountNat
<1>3. Count(<<>>, types) = 0
  <2>1. DOMAIN <<>> = {}
    OBVIOUS
  <2>2. {n \in DOMAIN <<>> : <<>>[n].type \in types} = {}
    BY <2>1
  <2>3. QED
    BY <2>2, FS_EmptySet DEF Count
<1>4. ASSUME s # <<>>
      PROVE  Count(s, types) = Count(Tail(s), types)
               + (IF Head(s).type \in types THEN 1 ELSE 0)
  <2>1. 1 \in 1 .. Len(s) /\ Head(s) = s[1] /\ Tail(s) \in Seq(Unit)
    BY <1>1, <1>4
  <2>2. Count(Tail(s), types) = CountFrom(s, 1 + 1, types)
    <3>1. Count(Tail(s), types) = CountFrom(Tail(s), 1, types)
      BY <2>1, CountAll
    <3>2. CountFrom(Tail(s), 1, types) = CountFrom(s, 1 + 1, types)
      BY <1>4, CountTail
    <3>3. QED
      BY <3>1, <3>2
  <2>3. CountFrom(s, 1, types)
          = CountFrom(s, 1 + 1, types) + (IF s[1].type \in types THEN 1 ELSE 0)
    BY <2>1, CountNext
  <2>4. QED
    BY <1>2, <2>1, <2>2, <2>3
<1>5. ASSUME NEW e \in Unit
      PROVE  Count(Append(s, e), types) = Count(s, types)
               + (IF e.type \in types THEN 1 ELSE 0)
  <2>1. 1 \in 1 .. Len(s) + 1 /\ Append(s, e) \in Seq(Unit)
    BY <1>1
  <2>2. Count(Append(s, e), types) = CountFrom(Append(s, e), 1, types)
    BY <2>1, CountAll
  <2>3. QED
    BY <1>2, <2>1, <2>2, CountAppend
<1>6. QED
  BY <1>2, <1>3, <1>4, <1>5

LEMMA Scales ==
    ASSUME NEW a \in Nat, NEW b \in Nat, NEW c \in Nat, NEW d \in Nat,
           a <= Size * b, c <= Size * d
    PROVE  a + c <= Size * (b + d)
<1>1. Size \in Nat
  BY SendingAssumption
<1>2. Size * (b + d) = Size * b + Size * d
  BY <1>1
<1>3. Size * b \in Nat /\ Size * d \in Nat
  BY <1>1
<1>4. QED
  BY <1>2, <1>3

\* Every suffix of what p sent and of what it still has to send has the units
\* of its PIECEs at most: the parts of a PIECE come before its last unit.
Together(s, o) ==
    /\ InPieces(o)
    /\ \A k \in 1 .. Len(s) + 1 :
          LoadFrom(s, k) + LoadFrom(o, 1)
            <= Size * (CountFrom(s, k, {"PIECE"}) + CountFrom(o, 1, {"PIECE"}))

LEMMA TogetherRead ==
    ASSUME NEW s \in Seq(Unit), NEW o \in Seq(Unit), Together(s, o), s # <<>>
    PROVE  Together(Tail(s), o)
<1>1. Len(s) \in Nat /\ Len(Tail(s)) = Len(s) - 1
  BY LenProperties, HeadTailProperties
<1>2. ASSUME NEW k \in 1 .. Len(Tail(s)) + 1
      PROVE  /\ LoadFrom(Tail(s), k) = LoadFrom(s, k + 1)
             /\ CountFrom(Tail(s), k, {"PIECE"}) = CountFrom(s, k + 1, {"PIECE"})
             /\ k + 1 \in 1 .. Len(s) + 1
  BY <1>1, CountTail DEF LoadFrom
<1>3. QED
  BY <1>2 DEF Together

LEMMA TogetherReply ==
    ASSUME NEW s \in Seq(Unit), NEW o \in Seq(Unit), Together(s, <<>>), InPieces(o)
    PROVE  Together(s, o)
<1>1. Len(s) \in Nat /\ Len(o) \in Nat
  BY LenProperties
<1>2. <<>> \in Seq(Unit) /\ Len(<<>>) = 0
  OBVIOUS
<1>3. LoadFrom(<<>>, 1) = 0 /\ CountFrom(<<>>, 1, {"PIECE"}) = 0
  <2>1. 1 .. Len(<<>>) = {}
    BY <1>2
  <2>2. Positions(<<>>, 1, {"part", "PIECE"}) = {} /\ Positions(<<>>, 1, {"PIECE"}) = {}
    BY <2>1 DEF Positions
  <2>3. QED
    BY <2>2, FS_EmptySet DEF LoadFrom, CountFrom
<1>4. LoadFrom(o, 1) <= Size * CountFrom(o, 1, {"PIECE"})
  BY <1>1 DEF InPieces
<1>5. ASSUME NEW k \in 1 .. Len(s) + 1
      PROVE  LoadFrom(s, k) + LoadFrom(o, 1)
               <= Size * (CountFrom(s, k, {"PIECE"}) + CountFrom(o, 1, {"PIECE"}))
  <2>1. /\ LoadFrom(s, k) \in Nat /\ CountFrom(s, k, {"PIECE"}) \in Nat
        /\ LoadFrom(o, 1) \in Nat /\ CountFrom(o, 1, {"PIECE"}) \in Nat
    BY <1>1, CountNat DEF LoadFrom
  <2>2. LoadFrom(s, k) <= Size * CountFrom(s, k, {"PIECE"})
    BY <1>3, <2>1 DEF Together
  <2>3. QED
    BY <2>1, <2>2, <1>4, Scales
<1>6. QED
  BY <1>5 DEF Together

LEMMA TogetherMove ==
    ASSUME NEW s \in Seq(Unit), NEW o \in Seq(Unit), Together(s, o), o # <<>>
    PROVE  Together(Append(s, Head(o)), Tail(o))
<1> DEFINE e == Head(o)
           s2 == Append(s, e)
           o2 == Tail(o)
           load == IF e.type \in {"part", "PIECE"} THEN 1 ELSE 0
           piece == IF e.type \in {"PIECE"} THEN 1 ELSE 0
<1>1. /\ Len(s) \in Nat /\ Len(o) \in Nat \ {0} /\ e \in Unit /\ e = o[1]
      /\ Len(o2) = Len(o) - 1 /\ Len(s2) = Len(s) + 1
      /\ s2 \in Seq(Unit) /\ o2 \in Seq(Unit)
  BY LenProperties, HeadTailProperties, AppendProperties
<1>2. ASSUME NEW k \in 1 .. Len(o2) + 1
      PROVE  /\ LoadFrom(o2, k) = LoadFrom(o, k + 1)
             /\ CountFrom(o2, k, {"PIECE"}) = CountFrom(o, k + 1, {"PIECE"})
             /\ k + 1 \in 1 .. Len(o) + 1
  BY <1>1, CountTail DEF LoadFrom
<1>3. InPieces(o2)
  BY <1>2 DEF InPieces, Together
<1>4. /\ LoadFrom(o, 1) = LoadFrom(o2, 1) + load
      /\ CountFrom(o, 1, {"PIECE"}) = CountFrom(o2, 1, {"PIECE"}) + piece
  <2>1. 1 \in 1 .. Len(o) /\ 1 \in 1 .. Len(o2) + 1
    BY <1>1
  <2>2. /\ LoadFrom(o, 1) = LoadFrom(o, 1 + 1) + load
        /\ CountFrom(o, 1, {"PIECE"}) = CountFrom(o, 1 + 1, {"PIECE"}) + piece
    BY <1>1, <2>1, CountNext DEF LoadFrom
  <2>3. QED
    BY <1>2, <2>1, <2>2
<1>5. ASSUME NEW k \in 1 .. Len(s) + 1
      PROVE  /\ LoadFrom(s2, k) = LoadFrom(s, k) + load
             /\ CountFrom(s2, k, {"PIECE"}) = CountFrom(s, k, {"PIECE"}) + piece
  BY <1>1, CountAppend DEF LoadFrom
<1>6. load \in Nat /\ piece \in Nat
  OBVIOUS
<1> HIDE DEF load, piece, e, s2, o2
<1>7. ASSUME NEW k \in 1 .. Len(s2) + 1
      PROVE  LoadFrom(s2, k) + LoadFrom(o2, 1)
               <= Size * (CountFrom(s2, k, {"PIECE"}) + CountFrom(o2, 1, {"PIECE"}))
  <2>1. /\ LoadFrom(o2, 1) \in Nat /\ CountFrom(o2, 1, {"PIECE"}) \in Nat
    BY <1>1, CountNat DEF LoadFrom
  <2>2. CASE k = Len(s2) + 1
    <3>1. LoadFrom(s2, k) = 0 /\ CountFrom(s2, k, {"PIECE"}) = 0
      BY <1>1, <2>2, CountNothing DEF LoadFrom
    <3>2. LoadFrom(o2, 1) <= Size * CountFrom(o2, 1, {"PIECE"})
      BY <1>1, <1>3 DEF InPieces
    <3>3. QED
      BY <2>1, <3>1, <3>2
  <2>3. CASE k # Len(s2) + 1
    <3>1. k \in 1 .. Len(s) + 1 /\ k \in Nat
      BY <1>1, <2>3
    <3>2. LoadFrom(s, k) \in Nat /\ CountFrom(s, k, {"PIECE"}) \in Nat
      BY <3>1, CountNat DEF LoadFrom
    <3>3. LoadFrom(s, k) + LoadFrom(o, 1)
            <= Size * (CountFrom(s, k, {"PIECE"}) + CountFrom(o, 1, {"PIECE"}))
      BY <3>1 DEF Together
    <3>4. /\ LoadFrom(s2, k) + LoadFrom(o2, 1) = LoadFrom(s, k) + LoadFrom(o, 1)
          /\ CountFrom(s2, k, {"PIECE"}) + CountFrom(o2, 1, {"PIECE"})
               = CountFrom(s, k, {"PIECE"}) + CountFrom(o, 1, {"PIECE"})
      BY <3>1, <3>2, <2>1, <1>4, <1>5, <1>6
    <3>5. QED
      BY <3>3, <3>4
  <2>4. QED
    BY <2>2, <2>3
<1>8. Together(s2, o2)
  BY <1>3, <1>7 DEF Together
<1>9. QED
  BY <1>8 DEF s2, o2, e

LEMMA TogetherTimer ==
    ASSUME NEW s \in Seq(Unit), NEW o \in Seq(Unit), Together(s, o),
           NEW e \in Unit, e.type \notin {"part", "PIECE"}
    PROVE  Together(Append(s, e), o)
<1> DEFINE s2 == Append(s, e)
<1>1. /\ Len(s) \in Nat /\ Len(o) \in Nat
      /\ Len(s2) = Len(s) + 1 /\ s2 \in Seq(Unit)
  BY LenProperties, AppendProperties
<1>2. ASSUME NEW k \in 1 .. Len(s) + 1
      PROVE  /\ LoadFrom(s2, k) = LoadFrom(s, k)
             /\ CountFrom(s2, k, {"PIECE"}) = CountFrom(s, k, {"PIECE"})
  <2>1. k \in Nat /\ LoadFrom(s, k) \in Nat /\ CountFrom(s, k, {"PIECE"}) \in Nat
    BY <1>1, CountNat DEF LoadFrom
  <2>2. LoadFrom(s2, k) = LoadFrom(s, k) + 0
    BY <1>1, CountAppend DEF LoadFrom
  <2>3. CountFrom(s2, k, {"PIECE"}) = CountFrom(s, k, {"PIECE"}) + 0
    BY <1>1, CountAppend
  <2>4. QED
    BY <2>1, <2>2, <2>3
<1> HIDE DEF s2
<1>3. ASSUME NEW k \in 1 .. Len(s2) + 1
      PROVE  LoadFrom(s2, k) + LoadFrom(o, 1)
               <= Size * (CountFrom(s2, k, {"PIECE"}) + CountFrom(o, 1, {"PIECE"}))
  <2>1. LoadFrom(o, 1) \in Nat /\ CountFrom(o, 1, {"PIECE"}) \in Nat
    BY <1>1, CountNat DEF LoadFrom
  <2>2. CASE k = Len(s2) + 1
    <3>1. LoadFrom(s2, k) = 0 /\ CountFrom(s2, k, {"PIECE"}) = 0
      BY <1>1, <2>2, CountNothing DEF LoadFrom
    <3>2. LoadFrom(o, 1) <= Size * CountFrom(o, 1, {"PIECE"})
      BY <1>1 DEF InPieces, Together
    <3>3. QED
      BY <2>1, <3>1, <3>2
  <2>3. CASE k # Len(s2) + 1
    <3>1. k \in 1 .. Len(s) + 1
      BY <1>1, <2>3
    <3>2. QED
      BY <3>1, <1>2 DEF Together
  <2>4. QED
    BY <2>2, <2>3
<1>4. Together(s2, o)
  BY <1>3 DEF Together
<1>5. QED
  BY <1>4 DEF s2

-----------------------------------------------------------------------------
(* The invariant. *)

Formed ==
    /\ ps = [p \in Peer |-> ps[p]]
    /\ out \in [Peer -> [Threads -> Seq(Unit)]]
    /\ lock \in [Peer -> Threads \cup {"nobody"}]
    /\ stream \in [Peer -> Seq(Unit)]
    /\ changes \in [Peer -> Nat]
    /\ \A p \in Peer : changes[p] <= MaxChanges[p] /\ Load(stream[p]) <= Capacity

\* A peer chokes the other one after an even number of changes.
InTurn == \A p \in Peer : Kept(ps[p], Other(p), changes[p] % 2 = 0)

\* CHOKE and UNCHOKE come from the timer, everything else from the receiver.
Divided ==
    \A p \in Peer :
        /\ \A n \in 1 .. Len(out[p]["timer"]) :
              out[p]["timer"][n].type \in {"CHOKE", "UNCHOKE"}
        /\ \A n \in 1 .. Len(out[p]["receiver"]) :
              out[p]["receiver"][n].type \notin {"CHOKE", "UNCHOKE"}

\* The UNCHOKEs of p that the other peer has not read: each may still bring a
\* request.
Offered(p) == Count(stream[p], {"UNCHOKE"}) + Count(out[p]["timer"], {"UNCHOKE"})

\* A request and its answer use up the UNCHOKE that allowed them.
Counted == \A p \in Peer : Under(p) + Offered(p) <= (changes[p] + 1) \div 2

Whole == \A p \in Peer : Together(stream[p], out[p]["receiver"])

SInv == Formed /\ InTurn /\ Divided /\ Counted /\ Whole

\* The start: nothing is sent, everybody is choked.
LEMMA InitSInv == Init => SInv
<1> SUFFICES ASSUME Init PROVE SInv
  OBVIOUS
<1>1. /\ \A p \in Peer : Other(p) \in Peer
      /\ Share \in [Peer -> SUBSET Piece] /\ Capacity \in Nat /\ Size \in Nat
      /\ MaxChanges \in [Peer -> Nat]
  BY TwoPeers, SendingAssumption
<1>2. /\ <<>> \in Seq(Unit) /\ Len(<<>>) = 0 /\ 1 .. Len(<<>>) = {}
      /\ \A types : Count(<<>>, types) = 0
  <2>1. <<>> \in Seq(Unit) /\ Len(<<>>) = 0 /\ 1 .. Len(<<>>) = {}
    OBVIOUS
  <2>2. QED
    BY <2>1, CountMoves
<1>3. InPieces(<<>>) /\ Together(<<>>, <<>>)
  <2>1. \A n \in 1 .. Len(<<>>) : <<>>[n].type \notin {"part", "PIECE"}
    BY <1>2
  <2>2. InPieces(<<>>)
    BY <1>2, <2>1, Tiny
  <2>3. LoadFrom(<<>>, 1) <= Size * CountFrom(<<>>, 1, {"PIECE"})
    BY <1>2, <2>2 DEF InPieces
  <2>4. LoadFrom(<<>>, 1) = 0 /\ CountFrom(<<>>, 1, {"PIECE"}) = 0
    BY <1>2, CountAll DEF LoadFrom
  <2>5. Together(<<>>, <<>>)
    BY <1>1, <1>2, <2>2, <2>4 DEF Together
  <2>6. QED
    BY <2>2, <2>5
<1> DEFINE nothing == [p \in Peer |-> [t \in Threads |-> <<>>]]
<1>10. /\ out = nothing /\ stream = [p \in Peer |-> <<>>]
      /\ \A p \in Peer : /\ stream[p] = <<>>
                        /\ out[p]["receiver"] = <<>> /\ out[p]["timer"] = <<>>
                        /\ changes[p] = 0
  BY DEF Init, Threads
<1>4. Formed
  <2>1. nothing \in [Peer -> [Threads -> Seq(Unit)]]
    BY <1>2
  <2>2. stream \in [Peer -> Seq(Unit)]
    BY <1>10, <1>2
  <2>3. \A p \in Peer : changes[p] <= MaxChanges[p] /\ Load(stream[p]) <= Capacity
    BY <1>10, <1>1, <1>2 DEF Load
  <2> HIDE DEF nothing
  <2>4. QED
    BY <1>10, <2>1, <2>2, <2>3 DEF Init, Formed
<1>5. InTurn
  <2> SUFFICES ASSUME NEW p \in Peer
               PROVE  Kept(ps[p], Other(p), changes[p] % 2 = 0)
    BY DEF InTurn
  <2> DEFINE q == Other(p)
             n == [NewNeighbor EXCEPT
                    !.bitfield = Share[q],
                    !.am_interested = Share[q] \ Share[p] # {},
                    !.peer_interested = Share[p] \ Share[q] # {}]
  <2>1. ps[p] = [NewStore(FALSE) EXCEPT !.my_bitfield = Share[p],
                                        !.neighbors = [r \in {q} |-> n]]
    BY DEF Init
  <2>2. n \in NeighborState /\ n.am_choking = TRUE
    BY <1>1 DEF NewNeighbor, NeighborState
  <2> HIDE DEF n, q
  <2>3. Kept(ps[p], q, TRUE)
    <3>1. q \in Peer
      BY <1>1 DEF q
    <3>2. QED
      <4>1. ps[p] = [my_bitfield |-> Share[p], neighbors |-> [r \in {q} |-> n],
                     requested_pieces |-> {}, completed_neighbor_ids |-> {}]
        BY <2>1 DEF NewStore
      <4>2. [r \in {q} |-> n] \in [{q} -> NeighborState]
        BY <2>2
      <4>3. Share[p] \in SUBSET Piece
        BY <1>1
      <4>4. QED
        BY <4>1, <4>2, <4>3, <2>2, <3>1 DEF Kept, IsStore
  <2>4. (changes[p] % 2 = 0) = TRUE
    <3>1. changes[p] = 0
      BY <1>10
    <3>2. 0 % 2 = 0
      OBVIOUS
    <3>3. QED
      BY <3>1, <3>2
  <2>5. QED
    BY <2>3, <2>4 DEF q
<1>6. Divided
  BY <1>10, <1>2 DEF Divided
<1>7. Counted
  <2>1. \A p \in Peer : Under(p) + Offered(p) = 0 /\ changes[p] = 0
    BY <1>10, <1>1, <1>2 DEF Under, Offered
  <2>2. (0 + 1) \div 2 = 0
    OBVIOUS
  <2>3. QED
    BY <2>1, <2>2 DEF Counted
<1>8. Whole
  BY <1>3 DEF Init, Whole, Threads
<1>9. QED
  BY <1>4, <1>5, <1>6, <1>7, <1>8 DEF SInv

\* What a handler makes of the first message of the stream.
Handled(p, s, units) ==
    LET type == Head(stream[Other(p)]).type IN
    /\ Kept(s, Other(p), changes[p] % 2 = 0)
    /\ Sendable(units, IF type \in {"UNCHOKE", "PIECE"} THEN 1 ELSE 0,
                       IF type = "REQUEST" THEN 1 ELSE 0)

LEMMA ReceivedSInv ==
    ASSUME SInv, NEW p \in Peer, Takes(p), NEW s, NEW units,
           Becomes(p, s, units), Handled(p, s, units)
    PROVE  SInv'
<1> DEFINE q == Other(p)
           m == Head(stream[q])
<1>1. q \in Peer /\ q # p /\ Other(q) = p /\ \A r \in Peer : r = p \/ r = q
  BY TwoPeers
<1> HIDE DEF q
<1>2. /\ stream[q] \in Seq(Unit) /\ stream[q] # <<>>
      /\ stream[p] \in Seq(Unit)
      /\ out[p]["receiver"] = <<>>
      /\ out[p]["timer"] \in Seq(Unit)
      /\ out[q]["receiver"] \in Seq(Unit) /\ out[q]["timer"] \in Seq(Unit)
      /\ units \in Seq(Unit)
      /\ m \in Unit /\ Tail(stream[q]) \in Seq(Unit)
  BY <1>1, HeadTailProperties
     DEF Takes, SInv, Formed, Threads, Handled, Sendable, q
<1>3. /\ ps' = [ps EXCEPT ![p] = s]
      /\ stream' = [stream EXCEPT ![q] = Tail(@)]
      /\ out' = [out EXCEPT ![p]["receiver"] = units]
      /\ changes' = changes /\ lock' = lock
  BY DEF Takes, Becomes, Says, q
<1>4. /\ stream'[q] = Tail(stream[q]) /\ stream'[p] = stream[p]
      /\ out'[p]["receiver"] = units /\ out'[p]["timer"] = out[p]["timer"]
      /\ out'[q] = out[q]
      /\ ps'[p] = s /\ ps'[q] = ps[q]
      /\ ps' = [r \in Peer |-> ps'[r]]
  BY <1>1, <1>3 DEF SInv, Formed, Threads
<1>5. Sendable(units, IF m.type \in {"UNCHOKE", "PIECE"} THEN 1 ELSE 0,
                      IF m.type = "REQUEST" THEN 1 ELSE 0)
  BY DEF Handled, q
<1>6. /\ Load(Tail(stream[q])) <= Load(stream[q])
      /\ Count(stream[q], {"REQUEST"}) = Count(Tail(stream[q]), {"REQUEST"})
           + (IF m.type = "REQUEST" THEN 1 ELSE 0)
      /\ Count(stream[q], {"PIECE"}) = Count(Tail(stream[q]), {"PIECE"})
           + (IF m.type = "PIECE" THEN 1 ELSE 0)
      /\ Count(stream[q], {"UNCHOKE"}) = Count(Tail(stream[q]), {"UNCHOKE"})
           + (IF m.type = "UNCHOKE" THEN 1 ELSE 0)
  <2>1. \A types :
          /\ Count(stream[q], types) = Count(Tail(stream[q]), types)
               + (IF m.type \in types THEN 1 ELSE 0)
          /\ Count(Tail(stream[q]), types) \in Nat
    BY <1>2, CountMoves
  <2>2. QED
    BY <2>1 DEF Load
<1> DEFINE Counts(types) ==
             /\ Count(stream[p], types) \in Nat /\ Count(stream[q], types) \in Nat
             /\ Count(Tail(stream[q]), types) \in Nat
             /\ Count(units, types) \in Nat
             /\ Count(out[p]["timer"], types) \in Nat
             /\ Count(out[q]["receiver"], types) \in Nat
             /\ Count(out[q]["timer"], types) \in Nat
             /\ Count(out[p]["receiver"], types) = 0
<1>7. /\ Counts({"REQUEST"}) /\ Counts({"PIECE"}) /\ Counts({"UNCHOKE"})
      /\ Load(stream[p]) \in Nat
  <2>1. \A types : Counts(types)
    BY <1>2, CountMoves
  <2>2. QED
    BY <2>1 DEF Load
<1> HIDE DEF m
<1>8. Formed'
  <2>1. out' \in [Peer -> [Threads -> Seq(Unit)]] /\ stream' \in [Peer -> Seq(Unit)]
    BY <1>1, <1>2, <1>3 DEF SInv, Formed, Threads
  <2>2. \A r \in Peer : Load(stream'[r]) <= Load(stream[r])
    BY <1>1, <1>4, <1>6, <1>7
  <2>3. \A r \in Peer : Load(stream'[r]) \in Nat /\ Load(stream[r]) \in Nat
    BY <2>1, CountMoves DEF Load, SInv, Formed
  <2>4. \A r \in Peer : Load(stream'[r]) <= Capacity
    BY <2>2, <2>3, SendingAssumption DEF SInv, Formed
  <2>5. QED
    BY <1>3, <1>4, <2>1, <2>4 DEF SInv, Formed, Load, Count
<1>9. InTurn'
  BY <1>1, <1>3, <1>4 DEF SInv, InTurn, Handled, q
<1>10. Divided'
  <2>1. \A r \in Peer : /\ out'[r]["timer"] = out[r]["timer"]
                        /\ r # p => out'[r]["receiver"] = out[r]["receiver"]
    BY <1>1, <1>4
  <2>2. \A n \in 1 .. Len(units) : units[n].type \notin {"CHOKE", "UNCHOKE"}
    BY <1>5 DEF Sendable
  <2>3. \A r \in Peer :
          /\ \A n \in 1 .. Len(out[r]["timer"]) :
                out[r]["timer"][n].type \in {"CHOKE", "UNCHOKE"}
          /\ \A n \in 1 .. Len(out[r]["receiver"]) :
                out[r]["receiver"][n].type \notin {"CHOKE", "UNCHOKE"}
    BY DEF SInv, Divided
  <2>4. \A r \in Peer : \A n \in 1 .. Len(out'[r]["timer"]) :
          out'[r]["timer"][n].type \in {"CHOKE", "UNCHOKE"}
    <3> TAKE r \in Peer
    <3>1. out'[r]["timer"] = out[r]["timer"]
      BY <2>1
    <3>2. QED
      BY <3>1, <2>3
  <2>5. \A r \in Peer : \A n \in 1 .. Len(out'[r]["receiver"]) :
          out'[r]["receiver"][n].type \notin {"CHOKE", "UNCHOKE"}
    <3> TAKE r \in Peer
    <3>1. CASE r = p
      BY <3>1, <2>2, <1>4
    <3>2. CASE r # p
      <4>1. out'[r]["receiver"] = out[r]["receiver"]
        BY <3>2, <2>1
      <4>2. QED
        BY <4>1, <2>3
    <3>3. QED
      BY <3>1, <3>2
  <2>6. QED
    BY <2>4, <2>5 DEF Divided
<1>11. Counted'
  <2>1. Under(p) + Offered(p) <= (changes[p] + 1) \div 2
    BY DEF SInv, Counted
  <2>2. Under(q) + Offered(q) <= (changes[q] + 1) \div 2
    BY <1>1 DEF SInv, Counted
  <2>3. changes[p] \in Nat /\ changes[q] \in Nat
    BY <1>1 DEF SInv, Formed
  <2>a. /\ Under(p)' = Count(Tail(stream[q]), {"REQUEST"})
                         + Count(out[q]["receiver"], {"REQUEST"})
                         + Count(stream[p], {"PIECE"}) + Count(units, {"PIECE"})
        /\ Under(q)' = Count(stream[p], {"REQUEST"}) + Count(units, {"REQUEST"})
                         + Count(Tail(stream[q]), {"PIECE"})
                         + Count(out[q]["receiver"], {"PIECE"})
        /\ Offered(p)' = Offered(p)
        /\ Offered(q)' = Count(Tail(stream[q]), {"UNCHOKE"})
                         + Count(out[q]["timer"], {"UNCHOKE"})
    BY <1>1, <1>4 DEF Under, Offered, Count, q
  <2>b. /\ Under(p) = Count(stream[q], {"REQUEST"})
                         + Count(out[q]["receiver"], {"REQUEST"})
                         + Count(stream[p], {"PIECE"})
        /\ Under(q) = Count(stream[p], {"REQUEST"})
                         + Count(stream[q], {"PIECE"})
                         + Count(out[q]["receiver"], {"PIECE"})
        /\ Offered(q) = Count(stream[q], {"UNCHOKE"})
                         + Count(out[q]["timer"], {"UNCHOKE"})
        /\ Offered(p) \in Nat
    <3>1. /\ Count(out[p]["receiver"], {"REQUEST"}) = 0
          /\ Count(out[p]["receiver"], {"PIECE"}) = 0
      BY <1>7
    <3>2. Under(p) = Count(stream[q], {"REQUEST"})
                         + Count(out[q]["receiver"], {"REQUEST"})
                         + Count(stream[p], {"PIECE"}) + 0
      BY <3>1 DEF Under, q
    <3>3. Under(q) = Count(stream[p], {"REQUEST"}) + 0
                         + Count(stream[q], {"PIECE"})
                         + Count(out[q]["receiver"], {"PIECE"})
      BY <1>1, <3>1 DEF Under
    <3>4. QED
      BY <3>2, <3>3, <1>7 DEF Offered
  <2>d. /\ Count(units, {"REQUEST"})
              <= (IF m.type \in {"UNCHOKE", "PIECE"} THEN 1 ELSE 0)
        /\ Count(units, {"PIECE"}) <= (IF m.type = "REQUEST" THEN 1 ELSE 0)
    BY <1>5 DEF Sendable
  <2>e. m.type \in {"UNCHOKE", "PIECE"} <=> m.type = "UNCHOKE" \/ m.type = "PIECE"
    OBVIOUS
  <2>4. Under(p)' + Offered(p)' <= Under(p) + Offered(p)
    BY <2>a, <2>b, <2>d, <2>e, <1>6, <1>7
  <2>5. Under(q)' + Offered(q)' <= Under(q) + Offered(q)
    BY <2>a, <2>b, <2>d, <2>e, <1>6, <1>7
  <2>c. /\ Under(p) + Offered(p) \in Nat /\ Under(p)' + Offered(p)' \in Nat
        /\ Under(q) + Offered(q) \in Nat /\ Under(q)' + Offered(q)' \in Nat
    BY <2>a, <2>b, <1>7
  <2>6. /\ Under(p)' + Offered(p)' <= (changes[p] + 1) \div 2
        /\ Under(q)' + Offered(q)' <= (changes[q] + 1) \div 2
    BY <2>1, <2>2, <2>3, <2>4, <2>5, <2>c
  <2>7. QED
    BY <1>1, <1>3, <2>6 DEF Counted
<1>12. Whole'
  <2>1. Together(stream[p], units)
    BY <1>2, <1>5, TogetherReply DEF SInv, Whole, Sendable
  <2>2. Together(Tail(stream[q]), out[q]["receiver"])
    BY <1>1, <1>2, TogetherRead DEF SInv, Whole
  <2>3. QED
    BY <1>1, <1>4, <2>1, <2>2 DEF Whole
<1>13. QED
  BY <1>8, <1>9, <1>10, <1>11, <1>12 DEF SInv

-----------------------------------------------------------------------------
(* The handlers. *)

LEMMA RequestNextSends ==
    ASSUME NEW p, NEW s, NEW messages, NEW b, Kept(s, Other(p), b),
           Tame(messages), RequestNext(p, s, messages)
    PROVE  \E s2, units : /\ Becomes(p, s2, units)
                          /\ Kept(s2, Other(p), b)
                          /\ Sendable(units, 1, 0)
<1> DEFINE q == Other(p)
<1>1. CASE Becomes(p, s, messages)
  <2>1. Sendable(messages, 1, 0)
    BY TameSendable, CountMoves DEF Sendable
  <2>2. QED
    BY <1>1, <2>1
<1>2. CASE \E i \in Candidates(s, q) :
             Becomes(p, reserve_request(s, q, i), Append(messages, Message("REQUEST", i)))
  <2>1. PICK i \in Candidates(s, q) :
          Becomes(p, reserve_request(s, q, i), Append(messages, Message("REQUEST", i)))
    BY <1>2
  <2>2. i \in Piece
    BY DEF Candidates, get_interesting_pieces, Kept, IsStore, Knows, NeighborState
  <2>3. Kept(reserve_request(s, q, i), q, b)
    BY <2>2, KeptReserve
  <2>4. Sendable(Append(messages, Message("REQUEST", i)), 1, 0)
    BY <2>2, RequestSendable
  <2>5. QED
    BY <2>1, <2>3, <2>4
<1>3. QED
  BY <1>1, <1>2 DEF RequestNext

LEMMA TameMessages ==
    ASSUME NEW s, NEW q
    PROVE  /\ Tame(<<>>) /\ Tame(SyncMessages(s, q))
           /\ \A i \in Piece : Tame(<<Message("HAVE", i)>> \o SyncMessages(s, q))
<1> DEFINE sync == SyncMessages(s, q)
<1>1. Signal("INTERESTED") \in Unit /\ Signal("NOT_INTERESTED") \in Unit
  BY DEF Unit, MessageTypes
<1>2. /\ Signal("INTERESTED").type = "INTERESTED"
      /\ Signal("NOT_INTERESTED").type = "NOT_INTERESTED"
  BY DEF Signal, Message
<1>3. Tame(<<>>)
  BY DEF Tame
<1>4. \/ sync = <<>>
      \/ sync = <<Signal("INTERESTED")>> \/ sync = <<Signal("NOT_INTERESTED")>>
  BY DEF SyncMessages
<1> HIDE DEF sync
<1>5. ASSUME NEW m \in Unit, m.type \in {"HAVE", "INTERESTED", "NOT_INTERESTED"}
      PROVE  Tame(<<m>>)
  BY <1>5 DEF Tame
<1>6. Tame(sync)
  BY <1>1, <1>2, <1>3, <1>4, <1>5
<1>7. ASSUME NEW i \in Piece PROVE Tame(<<Message("HAVE", i)>> \o sync)
  <2> DEFINE m == Message("HAVE", i)
  <2>1. m \in Unit /\ m.type = "HAVE"
    BY DEF Unit, MessageTypes, Message
  <2> HIDE DEF m
  <2>2. Tame(<<m>>)
    BY <1>5, <2>1
  <2>3. /\ <<m>> \o sync \in Seq(Unit)
        /\ Len(<<m>> \o sync) = Len(<<m>>) + Len(sync)
        /\ Len(<<m>>) \in Nat /\ Len(sync) \in Nat
        /\ \A n \in 1 .. Len(<<m>>) + Len(sync) :
             (<<m>> \o sync)[n] = IF n <= Len(<<m>>) THEN <<m>>[n] ELSE sync[n - Len(<<m>>)]
    BY <1>6, <2>2, ConcatProperties, LenProperties DEF Tame
  <2>4. ASSUME NEW n \in 1 .. Len(<<m>> \o sync)
        PROVE  (<<m>> \o sync)[n].type \in {"HAVE", "INTERESTED", "NOT_INTERESTED"}
    <3>1. CASE n <= Len(<<m>>)
      BY <2>2, <2>3, <3>1 DEF Tame
    <3>2. CASE ~(n <= Len(<<m>>))
      <4>1. n - Len(<<m>>) \in 1 .. Len(sync)
        BY <2>3, <3>2
      <4>2. (<<m>> \o sync)[n] = sync[n - Len(<<m>>)]
        BY <2>3, <3>2
      <4>3. QED
        BY <1>6, <4>1, <4>2 DEF Tame
    <3>3. QED
      BY <3>1, <3>2
  <2>5. Tame(<<m>> \o sync)
    BY <2>3, <2>4 DEF Tame
  <2>6. QED
    BY <2>5 DEF m
<1>8. QED
  BY <1>3, <1>6, <1>7 DEF sync

LEMMA ReceiveSInv ==
    ASSUME SInv, NEW p \in Peer, Receive(p)
    PROVE  SInv'
<1> DEFINE q == Other(p)
           m == Head(stream[q])
           b == (changes[p] % 2 = 0)
<1>1. q \in Peer
  BY TwoPeers
<1>2. Kept(ps[p], q, b)
  BY DEF SInv, InTurn
<1>3. SUFFICES ASSUME Takes(p)
               PROVE  \E s, units : Becomes(p, s, units) /\ Handled(p, s, units)
  <2>1. Takes(p)
    BY DEF Receive, ReceivePart, ReceiveChoke, ReceiveUnchoke, ReceiveInterest,
           ReceiveHave, ReceiveRequest, ReceivePiece, Receives
  <2>2. PICK s, units : Becomes(p, s, units) /\ Handled(p, s, units)
    BY <1>3, <2>1
  <2>3. QED
    BY <2>1, <2>2, ReceivedSInv
<1>4. m \in Unit
  <2>1. stream[q] \in Seq(Unit) /\ stream[q] # <<>>
    BY <1>1, <1>3 DEF Takes, SInv, Formed
  <2>2. QED
    BY <2>1, HeadTailProperties
<1>5. m.type \in {"HAVE", "REQUEST", "PIECE"} => m.piece \in Piece
  BY <1>4, UnitTypes DEF Unit
<1>6. Sendable(<<>>, 0, 0) /\ Tame(<<>>)
  BY TameSendable, TameMessages
<1> USE DEF Handled
<1> HIDE DEF b
<1>7. CASE ReceivePart(p)
  <2>1. Becomes(p, ps[p], <<>>)
    BY <1>7 DEF ReceivePart, Receives, Takes, Becomes, Says, SInv, Formed, Threads
  <2>2. Handled(p, ps[p], <<>>)
    BY <1>7, <1>2, <1>6 DEF ReceivePart, Receives, b
  <2>3. QED
    BY <2>1, <2>2
<1>8. CASE ReceiveChoke(p)
  <2> DEFINE s == set_peer_choking(ps[p], q, TRUE)
  <2>1. Kept(s, q, b)
    BY <1>2, KeptSetPeerChoking
  <2> HIDE DEF s
  <2>2. Kept(clear_outstanding_request(s, q), q, b)
    BY <2>1, KeptClear
  <2>3. Handled(p, clear_outstanding_request(s, q), <<>>)
    BY <1>8, <1>6, <2>2 DEF ReceiveChoke, Receives, b
  <2>4. QED
    BY <1>8, <2>3 DEF ReceiveChoke, s
<1>9. CASE ReceiveUnchoke(p)
  <2> DEFINE s == set_peer_choking(ps[p], q, FALSE)
  <2>1. Kept(s, q, b)
    BY <1>2, KeptSetPeerChoking
  <2>2. m.type = "UNCHOKE" /\ RequestNext(p, s, <<>>)
    BY <1>9 DEF ReceiveUnchoke, Receives
  <2> HIDE DEF s
  <2>3. \E s2, units : /\ Becomes(p, s2, units) /\ Kept(s2, q, b)
                       /\ Sendable(units, 1, 0)
    BY <2>1, <2>2, <1>6, RequestNextSends
  <2>4. QED
    BY <2>2, <2>3 DEF b
<1>10. CASE ReceiveInterest(p)
  <2> DEFINE x == (m.type = "INTERESTED")
  <2>1. x \in BOOLEAN
    OBVIOUS
  <2>2. /\ Becomes(p, set_peer_interested(ps[p], q, x), <<>>)
        /\ m.type \in {"INTERESTED", "NOT_INTERESTED"}
    BY <1>10 DEF ReceiveInterest
  <2> HIDE DEF x
  <2>3. Kept(set_peer_interested(ps[p], q, x), q, b)
    BY <1>2, <2>1, KeptSetPeerInterested
  <2>4. Handled(p, set_peer_interested(ps[p], q, x), <<>>)
    BY <1>6, <2>2, <2>3 DEF b
  <2>5. QED
    BY <2>2, <2>4
<1>11. CASE ReceiveHave(p)
  <2> DEFINE s == neighbor_set_piece(ps[p], q, m.piece)
  <2>1. m.type = "HAVE" /\ Becomes(p, Sync(s, q), SyncMessages(s, q))
    BY <1>11 DEF ReceiveHave, Receives
  <2>2. Kept(s, q, b)
    BY <1>2, <1>5, <2>1, KeptHave
  <2> HIDE DEF s
  <2>3. Kept(Sync(s, q), q, b) /\ Sendable(SyncMessages(s, q), 0, 0)
    BY <2>2, KeptSync, TameMessages, TameSendable
  <2>4. Handled(p, Sync(s, q), SyncMessages(s, q))
    BY <2>1, <2>3 DEF b
  <2>5. QED
    BY <2>1, <2>4
<1>12. CASE ReceiveRequest(p)
  <2>1. /\ m.type = "REQUEST" /\ m.piece \in Piece
        /\ \/ Becomes(p, ps[p], <<>>)
           \/ Becomes(p, ps[p], PieceUnits(m.piece))
    BY <1>12, <1>5 DEF ReceiveRequest, Receives
  <2>2. Sendable(PieceUnits(m.piece), 0, 1)
    BY <2>1, PieceSendable
  <2>3. Sendable(<<>>, 0, 1)
    <3>1. <<>> \in Seq(Unit)
      BY <1>6 DEF Sendable
    <3>2. Count(<<>>, {"PIECE"}) = 0
      BY <3>1, CountMoves
    <3>3. QED
      BY <1>6, <3>2 DEF Sendable
  <2>4. /\ Handled(p, ps[p], <<>>)
        /\ Handled(p, ps[p], PieceUnits(m.piece))
    BY <2>1, <2>2, <2>3, <1>2 DEF b
  <2>5. QED
    BY <2>1, <2>4
<1>13. CASE ReceivePiece(p)
  <2> DEFINE s1 == clear_outstanding_request(ps[p], q)
             s == mark_piece_downloaded(s1, m.piece)
             messages == <<Message("HAVE", m.piece)>> \o SyncMessages(s, q)
  <2>1. /\ m.type = "PIECE" /\ m.piece \in Piece
        /\ \/ Becomes(p, Sync(s, q), messages)
           \/ RequestNext(p, Sync(s, q), messages)
    BY <1>13, <1>5 DEF ReceivePiece, Receives
  <2>2. Kept(s1, q, b)
    BY <1>2, KeptClear
  <2> HIDE DEF s1
  <2>3. Kept(s, q, b)
    BY <2>1, <2>2, KeptDownloaded
  <2>4. Tame(messages)
    BY <2>1, TameMessages
  <2> HIDE DEF s
  <2>5. Kept(Sync(s, q), q, b)
    BY <2>3, KeptSync
  <2> HIDE DEF messages
  <2>6. \E s2, units : /\ Becomes(p, s2, units) /\ Kept(s2, q, b)
                       /\ Sendable(units, 1, 0)
    <3>1. CASE Becomes(p, Sync(s, q), messages)
      <4>1. Sendable(messages, 1, 0)
        BY <2>4, TameSendable, CountMoves DEF Sendable
      <4>2. QED
        BY <3>1, <4>1, <2>5
    <3>2. CASE RequestNext(p, Sync(s, q), messages)
      BY <3>2, <2>4, <2>5, RequestNextSends
    <3>3. QED
      BY <2>1, <3>1, <3>2
  <2>7. QED
    BY <2>1, <2>6 DEF b
<1>14. QED
  BY <1>7, <1>8, <1>9, <1>10, <1>11, <1>12, <1>13 DEF Receive

-----------------------------------------------------------------------------
(* The threads that send. *)

LEMMA SendSInv ==
    ASSUME SInv, NEW p \in Peer, NEW t \in Threads, Send(p, t)
    PROVE  SInv'
<1> DEFINE q == Other(p)
           h == Head(out[p][t])
           sent == Append(stream[p], h)
           left == Tail(out[p][t])
<1>1. q \in Peer /\ q # p /\ Other(q) = p /\ \A r \in Peer : r = p \/ r = q
  BY TwoPeers
<1> HIDE DEF q
<1>2. /\ stream[p] \in Seq(Unit) /\ stream[q] \in Seq(Unit)
      /\ out[p][t] \in Seq(Unit) /\ out[p][t] # <<>>
      /\ \A r \in Peer, u \in Threads : out[r][u] \in Seq(Unit)
  BY <1>1 DEF Send, SInv, Formed
<1>3. h \in Unit /\ h = out[p][t][1] /\ left \in Seq(Unit) /\ sent \in Seq(Unit)
      /\ Len(left) = Len(out[p][t]) - 1 /\ Len(out[p][t]) \in Nat \ {0}
      /\ \A n \in 1 .. Len(left) : left[n] = out[p][t][n + 1]
  BY <1>2, HeadTailProperties, AppendProperties, LenProperties
<1>4. \A types : /\ Count(sent, types) = Count(stream[p], types)
                      + (IF h.type \in types THEN 1 ELSE 0)
                 /\ Count(out[p][t], types) = Count(left, types)
                      + (IF h.type \in types THEN 1 ELSE 0)
                 /\ Count(left, types) \in Nat /\ Count(stream[p], types) \in Nat
  <2> SUFFICES ASSUME NEW types
               PROVE  /\ Count(sent, types) = Count(stream[p], types)
                           + (IF h.type \in types THEN 1 ELSE 0)
                      /\ Count(out[p][t], types) = Count(left, types)
                           + (IF h.type \in types THEN 1 ELSE 0)
                      /\ Count(left, types) \in Nat
                      /\ Count(stream[p], types) \in Nat
    OBVIOUS
  <2>1. Count(left, types) \in Nat /\ Count(stream[p], types) \in Nat
    BY <1>2, <1>3, CountMoves
  <2>2. Count(out[p][t], types) = Count(left, types)
          + (IF h.type \in types THEN 1 ELSE 0)
    BY <1>2, CountMoves
  <2>3. Count(sent, types) = Count(stream[p], types)
          + (IF h.type \in types THEN 1 ELSE 0)
    BY <1>2, <1>3, CountMoves
  <2>4. QED
    BY <2>1, <2>2, <2>3
<1>5. /\ ps' = ps /\ changes' = changes
      /\ stream' = [stream EXCEPT ![p] = sent]
      /\ out' = [out EXCEPT ![p][t] = left]
      /\ lock' \in [Peer -> Threads \cup {"nobody"}]
  BY DEF Send, SInv, Formed
<1> HIDE DEF h, sent, left
<1>6. /\ stream'[p] = sent /\ stream'[q] = stream[q]
      /\ out'[p][t] = left /\ out'[q] = out[q]
      /\ \A u \in Threads : u # t => out'[p][u] = out[p][u]
  BY <1>1, <1>5 DEF SInv, Formed
<1>7. Formed'
  <2>1. out' \in [Peer -> [Threads -> Seq(Unit)]] /\ stream' \in [Peer -> Seq(Unit)]
    BY <1>3, <1>5 DEF SInv, Formed
  <2>2. Load(sent) <= Capacity
    <3>1. Load(stream[p]) # Capacity /\ Load(stream[p]) <= Capacity
      BY DEF Send, Full, SInv, Formed
    <3>2. Load(stream[p]) \in Nat /\ Load(sent) <= Load(stream[p]) + 1
                                  /\ Load(sent) \in Nat
      BY <1>4 DEF Load
    <3>3. QED
      BY <3>1, <3>2, SendingAssumption
  <2>3. \A r \in Peer : Load(stream'[r]) <= Capacity
    BY <1>1, <1>6, <2>2 DEF SInv, Formed
  <2>4. QED
    BY <1>5, <2>1, <2>3 DEF SInv, Formed, Load, Count
<1>8. InTurn'
  BY <1>5 DEF SInv, InTurn
<1>9. Divided'
  <2>1. /\ \A n \in 1 .. Len(out[p]["timer"]) :
              out[p]["timer"][n].type \in {"CHOKE", "UNCHOKE"}
        /\ \A n \in 1 .. Len(out[p]["receiver"]) :
              out[p]["receiver"][n].type \notin {"CHOKE", "UNCHOKE"}
        /\ \A n \in 1 .. Len(out[q]["timer"]) :
              out[q]["timer"][n].type \in {"CHOKE", "UNCHOKE"}
        /\ \A n \in 1 .. Len(out[q]["receiver"]) :
              out[q]["receiver"][n].type \notin {"CHOKE", "UNCHOKE"}
    BY <1>1 DEF SInv, Divided
  <2>2. \A n \in 1 .. Len(left) : n + 1 \in 1 .. Len(out[p][t]) /\ left[n] = out[p][t][n + 1]
    BY <1>3
  <2>3. \A n \in 1 .. Len(out'[p]["timer"]) :
          out'[p]["timer"][n].type \in {"CHOKE", "UNCHOKE"}
    <3>1. CASE t = "timer"
      BY <3>1, <2>1, <2>2, <1>6
    <3>2. CASE t # "timer"
      <4>1. out'[p]["timer"] = out[p]["timer"]
        BY <3>2, <1>6 DEF Threads
      <4>2. QED
        BY <4>1, <2>1
    <3>3. QED
      BY <3>1, <3>2
  <2>4. \A n \in 1 .. Len(out'[p]["receiver"]) :
          out'[p]["receiver"][n].type \notin {"CHOKE", "UNCHOKE"}
    <3>1. CASE t = "receiver"
      BY <3>1, <2>1, <2>2, <1>6
    <3>2. CASE t # "receiver"
      <4>1. out'[p]["receiver"] = out[p]["receiver"]
        BY <3>2, <1>6 DEF Threads
      <4>2. QED
        BY <4>1, <2>1
    <3>3. QED
      BY <3>1, <3>2
  <2>5. ASSUME NEW r \in Peer
        PROVE  /\ \A n \in 1 .. Len(out'[r]["timer"]) :
                     out'[r]["timer"][n].type \in {"CHOKE", "UNCHOKE"}
               /\ \A n \in 1 .. Len(out'[r]["receiver"]) :
                     out'[r]["receiver"][n].type \notin {"CHOKE", "UNCHOKE"}
    <3>1. CASE r = p
      BY <3>1, <2>3, <2>4
    <3>2. CASE r = q
      BY <3>2, <2>1, <1>6
    <3>3. QED
      BY <1>1, <3>1, <3>2
  <2>6. QED
    BY <2>5 DEF Divided
<1>10. /\ t = "timer" => h.type \in {"CHOKE", "UNCHOKE"}
       /\ t = "receiver" => h.type \notin {"CHOKE", "UNCHOKE"}
  <2>1. 1 \in 1 .. Len(out[p][t])
    BY <1>3
  <2>2. QED
    BY <2>1, <1>3 DEF SInv, Divided
<1>11. Counted'
  <2>1. t = "timer" \/ t = "receiver"
    BY DEF Threads
  <2> DEFINE Moved(types) ==
               /\ Count(sent, types) = Count(stream[p], types)
                    + (IF h.type \in types THEN 1 ELSE 0)
               /\ Count(out[p][t], types) = Count(left, types)
                    + (IF h.type \in types THEN 1 ELSE 0)
               /\ Count(left, types) \in Nat /\ Count(stream[p], types) \in Nat
               /\ Count(stream[q], types) \in Nat
               /\ Count(out[p]["timer"], types) \in Nat
               /\ Count(out[p]["receiver"], types) \in Nat
               /\ Count(out[q]["receiver"], types) \in Nat
               /\ Count(out[q]["timer"], types) \in Nat
  <2>2. Moved({"REQUEST"}) /\ Moved({"PIECE"}) /\ Moved({"UNCHOKE"})
    <3>1. \A types : Moved(types)
      BY <1>1, <1>2, <1>4, CountMoves DEF Threads
    <3>2. QED
      BY <3>1
  <2>3. /\ Under(p) = Count(stream[q], {"REQUEST"})
             + Count(out[q]["receiver"], {"REQUEST"})
             + Count(stream[p], {"PIECE"}) + Count(out[p]["receiver"], {"PIECE"})
        /\ Under(q) = Count(stream[p], {"REQUEST"})
             + Count(out[p]["receiver"], {"REQUEST"})
             + Count(stream[q], {"PIECE"}) + Count(out[q]["receiver"], {"PIECE"})
    BY <1>1 DEF Under, q
  <2>4. /\ Under(p)' = Count(stream[q], {"REQUEST"})
             + Count(out[q]["receiver"], {"REQUEST"})
             + Count(sent, {"PIECE"}) + Count(out'[p]["receiver"], {"PIECE"})
        /\ Under(q)' = Count(sent, {"REQUEST"})
             + Count(out'[p]["receiver"], {"REQUEST"})
             + Count(stream[q], {"PIECE"}) + Count(out[q]["receiver"], {"PIECE"})
        /\ Offered(p)' = Count(sent, {"UNCHOKE"}) + Count(out'[p]["timer"], {"UNCHOKE"})
        /\ Offered(q)' = Offered(q)
    BY <1>1, <1>6 DEF Under, Offered, Count, q
  <2>5. /\ Under(p)' = Under(p) /\ Under(q)' = Under(q) /\ Offered(p)' = Offered(p)
    <3>1. CASE t = "timer"
      <4>1. /\ h.type \notin {"REQUEST"} /\ h.type \notin {"PIECE"}
            /\ out'[p]["receiver"] = out[p]["receiver"] /\ out'[p]["timer"] = left
        BY <3>1, <1>6, <1>10 DEF Threads
      <4>2. QED
        BY <3>1, <4>1, <2>2, <2>3, <2>4 DEF Offered
    <3>2. CASE t = "receiver"
      <4>1. /\ h.type \notin {"UNCHOKE"}
            /\ out'[p]["timer"] = out[p]["timer"] /\ out'[p]["receiver"] = left
        BY <3>2, <1>6, <1>10 DEF Threads
      <4>2. QED
        BY <3>2, <4>1, <2>2, <2>3, <2>4 DEF Offered
    <3>3. QED
      BY <2>1, <3>1, <3>2
  <2>6. \A r \in Peer : Under(r) + Offered(r) <= (changes[r] + 1) \div 2
    BY DEF SInv, Counted
  <2>7. \A r \in Peer : Under(r)' + Offered(r)' <= (changes'[r] + 1) \div 2
    BY <1>1, <1>5, <2>4, <2>5, <2>6
  <2>8. QED
    BY <2>7 DEF Counted
<1>12. Whole'
  <2>1. Together(stream[p], out[p]["receiver"]) /\ Together(stream[q], out[q]["receiver"])
    BY <1>1 DEF SInv, Whole
  <2>2. Together(sent, out'[p]["receiver"])
    <3>1. CASE t = "receiver"
      BY <3>1, <1>2, <1>6, <2>1, TogetherMove DEF sent, left, h
    <3>2. CASE t = "timer"
      <4>1. out'[p]["receiver"] = out[p]["receiver"] /\ out[p]["receiver"] \in Seq(Unit)
        BY <3>2, <1>2, <1>6 DEF Threads
      <4>2. h.type \notin {"part", "PIECE"}
        BY <3>2, <1>10
      <4>3. QED
        BY <4>1, <4>2, <1>2, <1>3, <2>1, TogetherTimer DEF sent
    <3>3. QED
      BY <3>1, <3>2 DEF Threads
  <2>3. QED
    BY <1>1, <1>6, <2>1, <2>2 DEF Whole
<1>13. QED
  BY <1>7, <1>8, <1>9, <1>11, <1>12 DEF SInv

LEMMA TickSInv ==
    ASSUME SInv, NEW p \in Peer, Tick(p)
    PROVE  SInv'
<1> DEFINE q == Other(p)
           b == (changes[p] % 2 = 0)
           choke == ~is_am_choking(ps[p], q)
           e == Signal(IF choke THEN "CHOKE" ELSE "UNCHOKE")
           s == IF choke THEN set_am_choking(ps[p], {}, {q})
                ELSE set_am_choking(ps[p], {q}, {})
<1>1. q \in Peer /\ q # p /\ Other(q) = p /\ \A r \in Peer : r = p \/ r = q
  BY TwoPeers
<1>2. Kept(ps[p], q, b) /\ changes[p] \in Nat
  BY DEF SInv, InTurn, Formed
<1>3. choke <=> ~b
  BY <1>2 DEF is_am_choking, Knows, Kept
<1>4. /\ e \in Unit
      /\ e.type = IF choke THEN "CHOKE" ELSE "UNCHOKE"
  <2>1. choke \in BOOLEAN
    OBVIOUS
  <2> HIDE DEF choke
  <2>2. e.type = IF choke THEN "CHOKE" ELSE "UNCHOKE"
    BY DEF Signal, Message
  <2>3. e \in Unit
    BY <2>1 DEF Unit, MessageTypes
  <2>4. QED
    BY <2>2, <2>3
<1>5. /\ changes[p] < MaxChanges[p]
      /\ out[p]["timer"] = <<>>
      /\ ps' = [ps EXCEPT ![p] = s]
      /\ out' = [out EXCEPT ![p]["timer"] = <<e>>]
      /\ changes' = [changes EXCEPT ![p] = changes[p] + 1]
      /\ lock' = lock /\ stream' = stream
  BY DEF Tick, Says
<1>6. /\ ps'[p] = s /\ ps'[q] = ps[q] /\ ps' = [r \in Peer |-> ps'[r]]
      /\ out'[p]["timer"] = <<e>> /\ out'[p]["receiver"] = out[p]["receiver"]
      /\ out'[q] = out[q]
      /\ changes'[p] = changes[p] + 1 /\ changes'[q] = changes[q]
  BY <1>1, <1>5 DEF SInv, Formed, Threads
<1>7. Kept(s, q, choke)
  <2>1. CASE choke
    <3>1. s = set_am_choking(ps[p], {}, {q})
      BY <2>1
    <3>2. Kept(set_am_choking(ps[p], {}, {q}), q, TRUE)
      BY <1>2, KeptSetAmChoking
    <3>3. QED
      BY <2>1, <3>1, <3>2
  <2>2. CASE ~choke
    <3>1. s = set_am_choking(ps[p], {q}, {})
      BY <2>2
    <3>2. Kept(set_am_choking(ps[p], {q}, {}), q, FALSE)
      BY <1>2, KeptSetAmChoking
    <3>3. QED
      BY <2>2, <3>1, <3>2
  <2>3. QED
    BY <2>1, <2>2
<1> HIDE DEF choke, e, s, q, b
<1>8. choke \in BOOLEAN /\ b \in BOOLEAN
  BY DEF choke, b
<1>9. Formed'
  <2>1. out' \in [Peer -> [Threads -> Seq(Unit)]]
    BY <1>4, <1>5 DEF SInv, Formed, Threads
  <2>2. changes' \in [Peer -> Nat] /\ \A r \in Peer : changes'[r] <= MaxChanges[r]
    BY <1>1, <1>2, <1>5, <1>6, SendingAssumption DEF SInv, Formed
  <2>3. QED
    BY <1>5, <1>6, <2>1, <2>2 DEF SInv, Formed, Load, Count
<1>10. InTurn'
  <2>1. choke = ((changes[p] + 1) % 2 = 0)
    <3>1. choke <=> ~(changes[p] % 2 = 0)
      BY <1>3 DEF b
    <3>2. ~(changes[p] % 2 = 0) <=> (changes[p] + 1) % 2 = 0
      BY <1>2
    <3>3. QED
      BY <1>8, <3>1, <3>2
  <2>2. Kept(ps'[p], Other(p), changes'[p] % 2 = 0)
    BY <1>6, <1>7, <2>1 DEF q
  <2>3. Kept(ps'[q], Other(q), changes'[q] % 2 = 0)
    BY <1>1, <1>6 DEF SInv, InTurn
  <2>4. QED
    BY <1>1, <2>2, <2>3 DEF InTurn
<1>11. Divided'
  <2>1. \A r \in Peer :
          /\ \A n \in 1 .. Len(out[r]["timer"]) :
                out[r]["timer"][n].type \in {"CHOKE", "UNCHOKE"}
          /\ \A n \in 1 .. Len(out[r]["receiver"]) :
                out[r]["receiver"][n].type \notin {"CHOKE", "UNCHOKE"}
    BY DEF SInv, Divided
  <2>2. \A n \in 1 .. Len(<<e>>) : <<e>>[n].type \in {"CHOKE", "UNCHOKE"}
    BY <1>4
  <2>3. ASSUME NEW r \in Peer
        PROVE  /\ \A n \in 1 .. Len(out'[r]["timer"]) :
                     out'[r]["timer"][n].type \in {"CHOKE", "UNCHOKE"}
               /\ \A n \in 1 .. Len(out'[r]["receiver"]) :
                     out'[r]["receiver"][n].type \notin {"CHOKE", "UNCHOKE"}
    <3>1. CASE r = p
      BY <3>1, <2>1, <2>2, <1>6
    <3>2. CASE r = q
      BY <3>2, <2>1, <1>6
    <3>3. QED
      BY <1>1, <3>1, <3>2
  <2>4. QED
    BY <2>3 DEF Divided
<1>12. Counted'
  <2>1. /\ Under(p)' = Under(p) /\ Under(q)' = Under(q)
        /\ Offered(q)' = Offered(q)
        /\ Offered(p)' = Count(stream[p], {"UNCHOKE"}) + Count(<<e>>, {"UNCHOKE"})
    BY <1>1, <1>5, <1>6 DEF Under, Offered, Count, q
  <2>2. Count(<<e>>, {"UNCHOKE"}) = IF choke THEN 0 ELSE 1
    <3>1. <<>> \in Seq(Unit) /\ <<e>> = Append(<<>>, e)
      BY <1>4
    <3>2. Count(Append(<<>>, e), {"UNCHOKE"}) = Count(<<>>, {"UNCHOKE"})
            + (IF e.type \in {"UNCHOKE"} THEN 1 ELSE 0)
      BY <3>1, <1>4, CountMoves
    <3>3. Count(<<>>, {"UNCHOKE"}) = 0
      BY <3>1, CountMoves
    <3>4. QED
      BY <3>1, <3>2, <3>3, <1>4, <1>8
  <2>3. /\ Offered(p) = Count(stream[p], {"UNCHOKE"})
        /\ Count(stream[p], {"UNCHOKE"}) \in Nat /\ Under(p) \in Nat
    <3>1. /\ stream[p] \in Seq(Unit) /\ stream[q] \in Seq(Unit)
          /\ out[p]["receiver"] \in Seq(Unit) /\ out[q]["receiver"] \in Seq(Unit)
      BY <1>1 DEF SInv, Formed, Threads
    <3>2. \A types : /\ Count(stream[p], types) \in Nat /\ Count(stream[q], types) \in Nat
                     /\ Count(out[p]["receiver"], types) \in Nat
                     /\ Count(out[q]["receiver"], types) \in Nat
                     /\ Count(<<>>, types) = 0
      BY <3>1, CountMoves
    <3>3. Under(p) \in Nat
      BY <3>2 DEF Under, q
    <3>4. Count(<<>>, {"UNCHOKE"}) = 0 /\ Count(stream[p], {"UNCHOKE"}) \in Nat
      BY <3>2
    <3>5. QED
      BY <3>3, <3>4, <1>5 DEF Offered
  <2>4. \A r \in Peer : Under(r) + Offered(r) <= (changes[r] + 1) \div 2
    BY DEF SInv, Counted
  <2>5. Under(p)' + Offered(p)' <= (changes'[p] + 1) \div 2
    <3>1. CASE choke
      <4>1. changes[p] % 2 = 1
        BY <3>1, <1>2, <1>3 DEF b
      <4>2. (changes[p] + 1 + 1) \div 2 = (changes[p] + 1) \div 2
        BY <4>1, <1>2
      <4>3. QED
        BY <3>1, <4>2, <1>6, <2>1, <2>2, <2>3, <2>4
    <3>2. CASE ~choke
      <4>1. changes[p] % 2 = 0
        BY <3>2, <1>3 DEF b
      <4>2. (changes[p] + 1 + 1) \div 2 = (changes[p] + 1) \div 2 + 1
        BY <4>1, <1>2
      <4>3. (changes[p] + 1) \div 2 \in Nat
        BY <1>2
      <4>4. QED
        BY <3>2, <4>2, <4>3, <1>6, <2>1, <2>2, <2>3, <2>4
    <3>3. QED
      BY <3>1, <3>2
  <2>6. Under(q)' + Offered(q)' <= (changes'[q] + 1) \div 2
    BY <1>1, <1>6, <2>1, <2>4
  <2>7. \A r \in Peer : Under(r)' + Offered(r)' <= (changes'[r] + 1) \div 2
    BY <1>1, <2>5, <2>6
  <2>8. QED
    BY <2>7 DEF Counted
<1>13. Whole'
  BY <1>1, <1>5, <1>6 DEF SInv, Whole
<1>14. QED
  BY <1>9, <1>10, <1>11, <1>12, <1>13 DEF SInv

-----------------------------------------------------------------------------
(* The theorems. *)

\* The invariant of two peers that exchange pieces through bounded buffers.
THEOREM SendingInvariance == Spec => []SInv
<1>1. SInv /\ [Next]_vars => SInv'
  <2> SUFFICES ASSUME SInv, [Next]_vars PROVE SInv'
    OBVIOUS
  <2>1. CASE Next
    <3>1. PICK p \in Peer : Receive(p) \/ (\E t \in Threads : Send(p, t)) \/ Tick(p)
      BY <2>1 DEF Next
    <3>2. QED
      BY <3>1, ReceiveSInv, SendSInv, TickSInv
  <2>2. CASE UNCHANGED vars
    BY <2>2, ZenonT(30)
       DEF vars, SInv, Formed, InTurn, Divided, Counted, Whole, Under, Offered, Load, Count
  <2>3. QED
    BY <2>1, <2>2
<1>2. QED
  BY <1>1, InitSInv, PTL DEF Spec

\* Stores, what the threads still send, the lock and the streams keep their
\* form, and no buffer overflows (connection.py 22-46).
THEOREM SendingTypeCorrect == Spec => []TypeOK
<1>1. SInv => TypeOK
  BY DEF SInv, Formed, InTurn, Kept, TypeOK, Unit
<1>2. QED
  BY <1>1, SendingInvariance, PTL

\* However the threads of the two peers interleave, whatever the size of the
\* buffers and of a PIECE, every request or PIECE under way was allowed by an
\* UNCHOKE of its own (peer_network.py 405-467, 676-696, 717-730).
THEOREM RequestsAreFew == Spec => []FewUnderWay
<1>1. SInv => FewUnderWay
  <2> SUFFICES ASSUME SInv, NEW p \in Peer
               PROVE  Under(p) <= (changes[p] + 1) \div 2
    BY DEF FewUnderWay
  <2>1. /\ stream[p] \in Seq(Unit) /\ stream[Other(p)] \in Seq(Unit)
        /\ \A r \in Peer, t \in Threads : out[r][t] \in Seq(Unit)
        /\ Other(p) \in Peer /\ changes[p] \in Nat
    BY TwoPeers DEF SInv, Formed
  <2>2. \A types : /\ Count(stream[p], types) \in Nat
                   /\ Count(stream[Other(p)], types) \in Nat
                   /\ \A r \in Peer, t \in Threads : Count(out[r][t], types) \in Nat
    BY <2>1, CountMoves
  <2>3. Offered(p) \in Nat /\ Under(p) \in Nat
    <3>1. /\ Count(stream[p], {"PIECE"}) \in Nat /\ Count(stream[p], {"UNCHOKE"}) \in Nat
          /\ Count(stream[Other(p)], {"REQUEST"}) \in Nat
      BY <2>2
    <3>2. /\ Count(out[p]["receiver"], {"PIECE"}) \in Nat
          /\ Count(out[p]["timer"], {"UNCHOKE"}) \in Nat
          /\ Count(out[Other(p)]["receiver"], {"REQUEST"}) \in Nat
      BY <2>1, <2>2 DEF Threads
    <3>3. QED
      BY <3>1, <3>2 DEF Offered, Under
  <2>4. Under(p) + Offered(p) <= (changes[p] + 1) \div 2
    BY DEF SInv, Counted
  <2>5. (changes[p] + 1) \div 2 \in Nat
    BY <2>1
  <2>6. QED
    BY <2>3, <2>4, <2>5
<1>2. QED
  BY <1>1, SendingInvariance, PTL

\* A buffer is full of PIECEs only after as many UNCHOKEs as it has room for.
FullTakesUnchokes ==
    \A p \in Peer : Full(p) => Capacity <= Size * ((changes[p] + 1) \div 2)

\* What bounds the buffers: a receive thread waits for room only after its peer
\* unchoked the other one as often as the buffer holds PIECEs
\* (connection.py 22-31).
THEOREM FullBuffersTakeUnchokes == Spec => []FullTakesUnchokes
<1>1. SInv => FullTakesUnchokes
  <2> SUFFICES ASSUME SInv, NEW p \in Peer, Full(p)
               PROVE  Capacity <= Size * ((changes[p] + 1) \div 2)
    BY DEF FullTakesUnchokes
  <2> DEFINE s == stream[p]
             o == out[p]["receiver"]
             n == Count(s, {"PIECE"}) + Count(o, {"PIECE"})
             c == (changes[p] + 1) \div 2
  <2>1. /\ s \in Seq(Unit) /\ o \in Seq(Unit) /\ stream[Other(p)] \in Seq(Unit)
        /\ out[Other(p)]["receiver"] \in Seq(Unit) /\ out[p]["timer"] \in Seq(Unit)
        /\ changes[p] \in Nat /\ Len(s) \in Nat
        /\ Together(s, o) /\ Capacity \in Nat /\ Size \in Nat
    BY TwoPeers, LenProperties, SendingAssumption DEF SInv, Formed, Whole, Threads
  <2>2. /\ Load(s) = LoadFrom(s, 1) /\ Load(o) = LoadFrom(o, 1)
        /\ Count(s, {"PIECE"}) = CountFrom(s, 1, {"PIECE"})
        /\ Count(o, {"PIECE"}) = CountFrom(o, 1, {"PIECE"})
        /\ Load(s) \in Nat /\ Load(o) \in Nat
        /\ Count(s, {"PIECE"}) \in Nat /\ Count(o, {"PIECE"}) \in Nat
    BY <2>1, CountAll, CountMoves, SMTT(30) DEF Load, LoadFrom
  <2>3. Load(s) + Load(o) <= Size * n
    BY <2>1, <2>2 DEF Together
  <2>4. Load(s) = Capacity
    BY DEF Full
  <2>5. n <= c /\ n \in Nat /\ c \in Nat
    <3>1. \A types : /\ Count(s, types) \in Nat /\ Count(o, types) \in Nat
                     /\ Count(stream[Other(p)], types) \in Nat
                     /\ Count(out[Other(p)]["receiver"], types) \in Nat
                     /\ Count(out[p]["timer"], types) \in Nat
      BY <2>1, CountMoves
    <3>2. /\ Count(stream[Other(p)], {"REQUEST"}) \in Nat
          /\ Count(out[Other(p)]["receiver"], {"REQUEST"}) \in Nat
          /\ Count(s, {"UNCHOKE"}) \in Nat /\ Count(out[p]["timer"], {"UNCHOKE"}) \in Nat
      BY <3>1
    <3>3. Under(p) + Offered(p) <= c
      BY DEF SInv, Counted
    <3>4. c \in Nat
      BY <2>1
    <3>5. QED
      BY <2>2, <3>2, <3>3, <3>4 DEF Under, Offered
  <2> HIDE DEF n, c
  <2>6. Size * n <= Size * c
    BY <2>1, <2>5
  <2>7. Capacity <= Size * c
    <3>1. Size * n \in Nat /\ Size * c \in Nat
      BY <2>1, <2>5
    <3>2. QED
      BY <2>1, <2>2, <2>3, <2>4, <2>6, <3>1
  <2>8. QED
    BY <2>7 DEF c
<1>2. QED
  BY <1>1, SendingInvariance, PTL

\* What p has asked for; None if nothing is outstanding.
Asked(p) == Outstanding(ps[p], Other(p))

LEMMA CircleStep ==
    ASSUME SInv, Circle, [Next]_vars
    PROVE  Circle' /\ \A p \in Peer : Asked(p)' = Asked(p)
<1>1. CASE UNCHANGED vars
  BY <1>1 DEF vars, Circle, Sends, Full, Load, Count, Asked
<1>2. CASE Next
  <2>1. PICK p \in Peer : Receive(p) \/ (\E t \in Threads : Send(p, t)) \/ Tick(p)
    BY <1>2 DEF Next
  <2>2. ~Receive(p)
    <3>1. out[p]["receiver"] # <<>>
      BY DEF Circle, Sends
    <3>2. Receive(p) => out[p]["receiver"] = <<>>
      BY DEF Receive, ReceivePart, ReceiveChoke, ReceiveUnchoke, ReceiveInterest,
             ReceiveHave, ReceiveRequest, ReceivePiece, Receives, Takes
    <3>3. QED
      BY <3>1, <3>2
  <2>3. ASSUME NEW t \in Threads PROVE ~Send(p, t)
    BY DEF Circle, Send
  <2>4. Tick(p)
    BY <2>1, <2>2, <2>3
  <2> DEFINE q == Other(p)
  <2>5. q \in Peer /\ q # p /\ \A r \in Peer : r = p \/ r = q
    BY TwoPeers
  <2>6. /\ stream' = stream
        /\ \A r \in Peer : out'[r]["receiver"] = out[r]["receiver"]
    BY <2>4 DEF Tick, Says, SInv, Formed, Threads
  <2>7. Circle'
    BY <2>6 DEF Circle, Sends, Full, Load, Count
  <2>8. ps'[q] = ps[q] /\ \E U, C : ps'[p] = set_am_choking(ps[p], U, C)
    BY <2>4, <2>5 DEF Tick, SInv, Formed
  <2>9. Kept(ps[p], q, changes[p] % 2 = 0)
    BY DEF SInv, InTurn
  <2>10. Outstanding(ps'[p], q) = Outstanding(ps[p], q)
    <3>1. PICK U, C : ps'[p] = set_am_choking(ps[p], U, C)
      BY <2>8
    <3>2. ps[p].neighbors[q] \in NeighborState /\ q \in DOMAIN ps[p].neighbors
      BY <2>9 DEF Kept, IsStore
    <3>3. ps'[p].neighbors[q] = [ps[p].neighbors[q] EXCEPT !.am_choking =
                                    (@ \/ q \in C) /\ q \notin U]
      BY <3>1, <3>2, <2>9 DEF set_am_choking, Kept, IsStore
    <3>4. QED
      BY <3>2, <3>3 DEF Outstanding, NeighborState
  <2>11. \A r \in Peer : Asked(r)' = Asked(r)
    BY <2>5, <2>8, <2>10 DEF Asked
  <2>12. QED
    BY <2>7, <2>11
<1>3. QED
  BY <1>1, <1>2

\* Nothing gets two receive threads out of a circle, for any sizes of buffers
\* and messages: the sockets have no timeout and the timers send behind the same
\* full buffers (connection.py 22-31).  A piece that is outstanding then is
\* outstanding for ever, so that the exception of RequestsSettle is no delay but
\* a deadlock.
THEOREM CirclesLast ==
    ASSUME NEW p \in Peer, NEW i
    PROVE  Spec => [](Circle /\ Asked(p) = i => [](Circle /\ Asked(p) = i))
<1>1. SInv /\ Circle /\ Asked(p) = i /\ [Next]_vars => (Circle /\ Asked(p) = i)'
  BY CircleStep
<1>2. QED
  BY <1>1, SendingInvariance, PTL DEF Spec
=============================================================================
