--------------------------- MODULE ReceiversProofs ---------------------------
(***************************************************************************)
(* Every invariant of Receivers, for any number of neighbours, pieces,     *)
(* chokes and faults, however the receive threads interleave: the types    *)
(* and the requests (RInv), the files (FInv) and the interest              *)
(* (InterestsOK), each an inductive invariant of its own on top of RInv.   *)
(***************************************************************************)
EXTENDS Receivers, PeerStateProofs, SequenceTheorems

-----------------------------------------------------------------------------
(* The inductive invariant. *)

\* The neighbours may have any pieces.
Anything == [q \in Peer |-> Piece]

GoodStore == Good(store, Me, Anything)

\* A neighbour is forgotten with its connection.
Connected == DOMAIN store.neighbors = connections

\* What the local variables of a thread hold at each step.
Fits(t, pc) ==
    /\ pc \in {"reserve", "write", "mark"} => t.piece \in Piece
    /\ pc \in {"compare", "set", "send"} => t.about \in Neighbor
    /\ pc \notin {"append", "log", "terminate"} => t.next = 0 /\ t.slot = 0
    /\ pc = "append" => t.next < NumPieces /\ t.slot <= t.next

ThreadOK(r) == Fits(thread[r], thread[r].pc)

IsChoking(s, q) == s.neighbors[q].peer_choking

Answerable(q) ==
    \/ thread[q].pc = "write"
    \/ \E n \in DOMAIN wire[q] : wire[q][n] = Outstanding(store, q)

\* A choking neighbour owes nothing, and only its own thread, which is not
\* about to request from it, can change that.
OwedOK(q) ==
    /\ IsChoking(store, q) => Outstanding(store, q) = None
    /\ thread[q].pc = "reserve" => ~IsChoking(store, q)
    /\ Outstanding(store, q) # None => Answerable(q)

RInv ==
    /\ TypeOK
    /\ GoodStore
    /\ Connected
    /\ \A r \in Neighbor : ThreadOK(r)
    /\ \A q \in connections : OwedOK(q)

-----------------------------------------------------------------------------
(* What the methods do to the requests of a good store. *)

\* t is a good store with the neighbours and the flags of s, in which only the
\* request of q may have changed, to i.
Requests(s, t, q, i) ==
    /\ Good(t, Me, Anything)
    /\ DOMAIN t.neighbors = DOMAIN s.neighbors
    /\ \A r \in DOMAIN s.neighbors :
          /\ IsChoking(t, r) = IsChoking(s, r)
          /\ Outstanding(t, r) = IF r = q THEN i ELSE Outstanding(s, r)

Same(s, t) ==
    /\ Good(t, Me, Anything)
    /\ DOMAIN t.neighbors = DOMAIN s.neighbors
    /\ \A r \in DOMAIN s.neighbors :
          /\ IsChoking(t, r) = IsChoking(s, r)
          /\ Outstanding(t, r) = Outstanding(s, r)

Chokes(s, t, q, b) ==
    /\ Good(t, Me, Anything)
    /\ DOMAIN t.neighbors = DOMAIN s.neighbors
    /\ \A r \in DOMAIN s.neighbors :
          /\ IsChoking(t, r) = IF r = q THEN b ELSE IsChoking(s, r)
          /\ Outstanding(t, r) = Outstanding(s, r)

LEMMA Constants ==
    /\ Me \in Peer /\ Anything \in [Peer -> SUBSET Piece]
    /\ \A q \in Peer : Anything[q] = Piece
    /\ None \notin Piece /\ None \notin Peer
    /\ Piece = 0 .. NumPieces - 1 /\ NumPieces \in Nat \ {0}
  BY ReceiversAssumption, PeerAssumption, PieceAssumption, NumPiecesAssumption
  DEF Anything, Indices

LEMMA BitfieldRequests ==
    ASSUME NEW s, Good(s, Me, Anything), NEW q \in Peer, NEW b \in SUBSET Piece
    PROVE  Same(s, SetNeighborBitfield(s, q, b))
<1>1. Good(SetNeighborBitfield(s, q, b), Me, Anything)
  BY Constants, SetNeighborBitfieldGood DEF GoodUpdate
<1>2. s.neighbors \in [DOMAIN s.neighbors -> NeighborState]
  BY DEF Good, IsStore
<1> QED
  BY <1>1, <1>2 DEF SetNeighborBitfield, Knows, Same, IsChoking, Outstanding,
                    NeighborState, Good, IsStore

LEMMA InterestRequests ==
    ASSUME NEW s, Good(s, Me, Anything), NEW q, NEW b \in BOOLEAN
    PROVE  Same(s, set_am_interested(s, q, b))
<1>1. Good(set_am_interested(s, q, b), Me, Anything)
  BY Constants, SetAmInterestedGood DEF GoodUpdate
<1>2. s.neighbors \in [DOMAIN s.neighbors -> NeighborState]
  BY DEF Good, IsStore
<1>3. /\ DOMAIN set_am_interested(s, q, b).neighbors = DOMAIN s.neighbors
      /\ \A r \in DOMAIN s.neighbors : set_am_interested(s, q, b).neighbors[r]
            = IF r = q THEN [s.neighbors[r] EXCEPT !.am_interested = b]
              ELSE s.neighbors[r]
  BY <1>2 DEF set_am_interested, Knows, Good, IsStore
<1> QED
  BY <1>1, <1>2, <1>3 DEF Same, IsChoking, Outstanding, NeighborState

LEMMA DownloadedRequests ==
    ASSUME NEW s, Good(s, Me, Anything), NEW i \in Piece
    PROVE  Same(s, mark_piece_downloaded(s, i))
<1>1. Good(mark_piece_downloaded(s, i), Me, Anything)
  BY Constants, MarkDownloadedGood
<1> QED
  BY <1>1 DEF mark_piece_downloaded, Same, IsChoking, Outstanding, Good, IsStore

LEMMA ClearRequests ==
    ASSUME NEW s, Good(s, Me, Anything), NEW q \in Peer
    PROVE  Requests(s, clear_outstanding_request(s, q), q, None)
<1>1. Good(clear_outstanding_request(s, q), Me, Anything)
  BY Constants, ClearOutstandingGood DEF GoodUpdate
<1> QED
  BY <1>1 DEF clear_outstanding_request, Knows, Requests, IsChoking, Outstanding,
              NeighborState, Good, IsStore

LEMMA ReserveRequests ==
    ASSUME NEW s, Good(s, Me, Anything), NEW q \in Peer, NEW i \in Piece
    PROVE  /\ CanReserve(s, q, i) => Requests(s, reserve_request(s, q, i), q, i)
           /\ ~CanReserve(s, q, i) => reserve_request(s, q, i) = s
<1>1. Good(reserve_request(s, q, i), Me, Anything)
  BY Constants, ReserveRequestGood DEF GoodUpdate
<1> QED
  BY <1>1 DEF reserve_request, CanReserve, Knows, Requests, IsChoking, Outstanding,
              NeighborState, Good, IsStore

\* set_peer_choking changes the flag of q and no request.
LEMMA ChokingRequests ==
    ASSUME NEW s, Good(s, Me, Anything), NEW q \in Peer, NEW b \in BOOLEAN
    PROVE  Chokes(s, set_peer_choking(s, q, b), q, b)
<1> DEFINE t == set_peer_choking(s, q, b)
<1>1. Good(t, Me, Anything)
  BY Constants, SetPeerChokingGood DEF GoodUpdate
<1>2. s.neighbors \in [DOMAIN s.neighbors -> NeighborState]
  BY DEF Good, IsStore
<1>3. /\ DOMAIN t.neighbors = DOMAIN s.neighbors
      /\ \A r \in DOMAIN s.neighbors : t.neighbors[r]
            = IF r = q THEN [s.neighbors[r] EXCEPT !.peer_choking = b]
              ELSE s.neighbors[r]
  BY <1>2 DEF set_peer_choking, Knows, Good, IsStore
<1> QED
  BY <1>1, <1>2, <1>3 DEF Chokes, IsChoking, Outstanding, NeighborState

LEMMA RemoveRequests ==
    ASSUME NEW s, Good(s, Me, Anything), NEW q \in DOMAIN s.neighbors,
           NEW t, t = remove_neighbor(s, q)
    PROVE  /\ Good(t, Me, Anything)
           /\ DOMAIN t.neighbors = DOMAIN s.neighbors \ {q}
           /\ \A r \in DOMAIN t.neighbors :
                 /\ IsChoking(t, r) = IsChoking(s, r)
                 /\ Outstanding(t, r) = Outstanding(s, r)
<1>1. q \in Peer
  BY DEF Good, IsStore
<1>2. Good(t, Me, Anything)
  BY <1>1, Constants, RemoveNeighborGood DEF GoodUpdate
<1> QED
  BY <1>2 DEF remove_neighbor, Knows, IsChoking, Outstanding, Good, IsStore

-----------------------------------------------------------------------------
(* What the file operations do to a disk. *)

LEMMA WrittenSeq ==
    ASSUME NEW S, Zeros \in S, NEW c \in Seq(S), NEW n \in Nat, NEW i \in S
    PROVE  Written(c, n, i) \in Seq(S)
<1> DEFINE k == IF n >= Len(c) THEN n + 1 ELSE Len(c)
<1>1. Len(c) \in Nat /\ k \in Nat
  BY LenProperties
<1>2. \A m \in 1 .. k : Written(c, n, i)[m] \in S
  BY <1>1, ElementOfSeq DEF Written
<1>3. Written(c, n, i) = [m \in 1 .. k |-> Written(c, n, i)[m]]
  BY DEF Written
<1>4. Written(c, n, i) \in [1 .. k -> S]
  BY <1>2, <1>3
<1> QED
  BY <1>1, <1>4, SeqDef

LEMMA DiskTypes ==
    ASSUME NEW d, IsDisk(d), NEW i \in Indices, NEW n \in Nat
    PROVE  /\ IsDisk(WriteOpened(d, i)) /\ IsDisk(WriteDone(d, i))
           /\ IsDisk(Opened(d)) /\ IsDisk(Appended(d, n, i))
<1>1. Written(d.content, n, i) \in Seq(Indices \cup {Zeros})
  BY WrittenSeq DEF IsDisk
<1>2. << >> \in Seq(Indices \cup {Zeros})
  BY EmptySeq
<1> QED
  BY <1>1, <1>2 DEF IsDisk, WriteOpened, WriteDone, Opened, Appended

-----------------------------------------------------------------------------
(* The shape of a step of the thread of r. *)

\* The variables but thread and contended have their types.
Typed ==
    /\ IsDisk(disk)
    /\ connections \subseteq Neighbor
    /\ wire \in [Neighbor -> Seq(Piece)]
    /\ told \in [Neighbor -> BOOLEAN]
    /\ completion_logged \in BOOLEAN
    /\ all_done \in BOOLEAN
    /\ unchokes \in 0 .. MaxChokes
    /\ faults \in 0 .. MaxFaults
    /\ mishaps \subseteq {"early", "twice", "short"}

\* The other threads stay where they are.
Moves(r) ==
    /\ thread' \in [Neighbor -> Thread]
    /\ \A q \in Neighbor \ {r} : thread'[q] = thread[q]
    /\ ThreadOK(r)'

LEMMA MovesTo ==
    ASSUME RInv, NEW r \in Neighbor, NEW t \in Thread, Fits(t, t.pc),
           thread' = [thread EXCEPT ![r] = t]
    PROVE  Moves(r) /\ thread'[r] = t
<1>1. thread \in [Neighbor -> Thread]
  BY DEF RInv, TypeOK
<1> QED
  BY <1>1 DEF Moves, ThreadOK

LEMMA GoesTo ==
    ASSUME RInv, NEW r \in Neighbor, NEW pc \in Step, Goes(r, pc), Fits(thread[r], pc)
    PROVE  Moves(r) /\ thread'[r].pc = pc
<1> DEFINE t == [thread[r] EXCEPT !.pc = pc]
<1>1. thread[r] \in Thread /\ thread' = [thread EXCEPT ![r] = t]
  BY DEF RInv, TypeOK, Goes
<1>2. t \in Thread /\ t.pc = pc /\ Fits(t, t.pc)
  BY <1>1 DEF Thread, Fits
<1> QED
  BY <1>1, <1>2, MovesTo

LEMMA FinishesTo ==
    ASSUME RInv, NEW r \in Neighbor, Finishes(r)
    PROVE  Moves(r) /\ thread'[r] = Idle /\ Idle.pc = "idle"
<1>1. Idle \in Thread /\ Idle.pc = "idle" /\ Fits(Idle, "idle")
  BY Constants DEF Idle, Thread, Step, Fits
<1> QED
  BY <1>1, MovesTo DEF Finishes

LEMMA StepKeepsRInv ==
    ASSUME RInv, NEW r \in Neighbor, Contend(r), Typed', Moves(r),
           GoodStore', Connected', connections' \subseteq connections,
           \A q \in Neighbor \ {r} : wire'[q] = wire[q],
           \A q \in connections' \ {r} :
               /\ IsChoking(store', q) = IsChoking(store, q)
               /\ Outstanding(store', q) = Outstanding(store, q),
           r \in connections' => OwedOK(r)'
    PROVE  RInv'
<1>1. ASSUME NEW q \in Neighbor PROVE ThreadOK(q)'
  BY <1>1 DEF RInv, Moves, ThreadOK
<1>2. ASSUME NEW q \in connections' PROVE OwedOK(q)'
  <2>1. q \in Neighbor /\ q \in connections /\ OwedOK(q)
    BY <1>2 DEF RInv, TypeOK
  <2> QED
    BY <2>1 DEF OwedOK, Answerable, Moves
<1>3. Syncing(r)' \subseteq Neighbor
  BY <1>1 DEF Syncing, ThreadOK, Fits
<1>4. contended' \subseteq Neighbor
  BY <1>3 DEF Contend, RInv, TypeOK
<1>5. TypeOK'
  BY <1>4 DEF TypeOK, Typed, Moves, GoodStore, Good
<1> QED
  BY <1>1, <1>2, <1>5 DEF RInv

\* Most steps change no request and touch no wire.
LEMMA QuietStep ==
    ASSUME RInv, NEW r \in Neighbor, Contend(r), Typed', Moves(r),
           UNCHANGED <<wire, connections>>,
           store' = store \/ Same(store, store'),
           thread[r].pc # "write", thread'[r].pc # "reserve"
    PROVE  RInv'
<1>1. Same(store, store')
  BY DEF RInv, GoodStore, Same
<1>2. GoodStore' /\ Connected'
  BY <1>1 DEF Same, GoodStore, RInv, Connected
<1>3. \A q \in connections :
         /\ IsChoking(store', q) = IsChoking(store, q)
         /\ Outstanding(store', q) = Outstanding(store, q)
  BY <1>1 DEF Same, RInv, Connected
<1>4. ASSUME r \in connections PROVE OwedOK(r)'
  BY <1>3, <1>4 DEF RInv, OwedOK, Answerable
<1> QED
  BY <1>2, <1>3, <1>4, StepKeepsRInv

-----------------------------------------------------------------------------
(* One lemma per action. *)

LEMMA BitfieldArrivesStep ==
    ASSUME RInv, NEW r \in Neighbor, Contend(r), BitfieldArrives(r)
    PROVE  RInv'
<1>1. Typed'
  BY DEF RInv, TypeOK, Typed, BitfieldArrives
<1>2. Moves(r)
  <2>1. Fits(thread[r], "reply")
    BY DEF RInv, ThreadOK, Fits, BitfieldArrives, Waiting, At
  <2> QED
    BY <2>1, GoesTo DEF Step, BitfieldArrives
<1>3. Same(store, store')
  BY BitfieldRequests DEF RInv, GoodStore, BitfieldArrives, update_neighbor_bitfield,
                          Neighbor
<1>4. thread[r].pc # "write" /\ thread'[r].pc # "reserve"
  BY DEF RInv, TypeOK, Thread, BitfieldArrives, Waiting, At, Goes
<1> QED
  BY <1>1, <1>2, <1>3, <1>4, QuietStep DEF BitfieldArrives

LEMMA DecideReplyStep ==
    ASSUME RInv, NEW r \in Neighbor, Contend(r), DecideReply(r)
    PROVE  RInv'
<1>1. Typed'
  BY DEF RInv, TypeOK, Typed, DecideReply
<1>2. Moves(r) /\ thread'[r].pc = "set"
  <2> DEFINE b == get_interesting_pieces(store, r) # {}
             t == [thread[r] EXCEPT !.pc = "set", !.about = r, !.missing = b]
  <2>1. thread[r] \in Thread /\ ThreadOK(r) /\ thread[r].pc = "reply"
    BY DEF RInv, TypeOK, DecideReply, At
  <2>2. thread' = [thread EXCEPT ![r] = t] /\ b \in BOOLEAN
    BY DEF DecideReply
  <2> HIDE DEF b
  <2>3. t \in Thread /\ t.pc = "set" /\ Fits(t, t.pc)
    BY <2>1, <2>2 DEF Thread, Step, ThreadOK, Fits
  <2> QED
    BY <2>2, <2>3, MovesTo
<1>3. thread[r].pc # "write" /\ thread'[r].pc # "reserve"
  BY <1>2 DEF DecideReply, At
<1> QED
  BY <1>1, <1>2, <1>3, QuietStep DEF DecideReply

LEMMA SyncDoneStep ==
    ASSUME RInv, NEW r \in Neighbor, Contend(r), SyncDone(r)
    PROVE  RInv'
<1>1. Typed'
  BY DEF RInv, TypeOK, Typed, SyncDone
<1>2. Moves(r) /\ thread'[r].pc \in {"terminate", "complete"}
  <2>1. ThreadOK(r) /\ thread[r].pc = "sync"
    BY DEF RInv, SyncDone, At
  <2>2. \A pc \in {"terminate", "complete"} : pc \in Step /\ Fits(thread[r], pc)
    BY <2>1 DEF Step, ThreadOK, Fits
  <2>3. \E pc \in {"terminate", "complete"} : Goes(r, pc)
    BY DEF SyncDone
  <2> QED
    BY <2>2, <2>3, GoesTo
<1> QED
  BY <1>1, <1>2, QuietStep DEF SyncDone, At

LEMMA SyncCompareStep ==
    ASSUME RInv, NEW r \in Neighbor, Contend(r), SyncCompare(r)
    PROVE  RInv'
<1>1. Typed'
  BY DEF RInv, TypeOK, Typed, SyncCompare
<1>2. Moves(r) /\ thread'[r].pc \in {"sync", "set"}
  <2>1. ThreadOK(r) /\ thread[r].pc = "compare" /\ thread[r].about \in Neighbor
    BY DEF RInv, ThreadOK, Fits, SyncCompare, At
  <2>2. \A pc \in {"sync", "set"} : pc \in Step /\ Fits(thread[r], pc)
    BY <2>1 DEF Step, ThreadOK, Fits
  <2>3. \E pc \in {"sync", "set"} : Goes(r, pc)
    BY DEF SyncCompare
  <2> QED
    BY <2>2, <2>3, GoesTo
<1> QED
  BY <1>1, <1>2, QuietStep DEF SyncCompare, At

LEMMA SyncSetStep ==
    ASSUME RInv, NEW r \in Neighbor, Contend(r), SyncSet(r)
    PROVE  RInv'
<1>1. Typed'
  BY DEF RInv, TypeOK, Typed, SyncSet
<1>2. Moves(r) /\ thread'[r].pc \in {"send"}
  <2>1. ThreadOK(r) /\ thread[r].pc = "set"
    BY DEF RInv, SyncSet, At
  <2>2. \A pc \in {"send"} : pc \in Step /\ Fits(thread[r], pc)
    BY <2>1 DEF Step, ThreadOK, Fits
  <2>3. \E pc \in {"send"} : Goes(r, pc)
    BY DEF SyncSet
  <2> QED
    BY <2>2, <2>3, GoesTo
<1>3. Same(store, store')
  BY InterestRequests DEF RInv, TypeOK, Thread, GoodStore, SyncSet
<1> QED
  BY <1>1, <1>2, <1>3, QuietStep DEF SyncSet, At

LEMMA SyncSendStep ==
    ASSUME RInv, NEW r \in Neighbor, Contend(r), SyncSend(r)
    PROVE  RInv'
<1>1. Typed'
  BY DEF RInv, TypeOK, Typed, SyncSend, Thread
<1>2. Moves(r) /\ thread'[r].pc \in {"sync"}
  <2>1. ThreadOK(r) /\ thread[r].pc = "send"
    BY DEF RInv, SyncSend, At
  <2>2. \A pc \in {"sync"} : pc \in Step /\ Fits(thread[r], pc)
    BY <2>1 DEF Step, ThreadOK, Fits
  <2>3. \E pc \in {"sync"} : Goes(r, pc)
    BY DEF SyncSend
  <2> QED
    BY <2>2, <2>3, GoesTo
<1> QED
  BY <1>1, <1>2, QuietStep DEF SyncSend, At

LEMMA CheckCompleteStep ==
    ASSUME RInv, NEW r \in Neighbor, Contend(r), CheckComplete(r)
    PROVE  RInv'
<1>1. Typed'
  BY DEF RInv, TypeOK, Typed, CheckComplete
<1>2. Moves(r) /\ thread'[r].pc \in {"select", "terminate", "assemble"}
  <2>1. ThreadOK(r) /\ thread[r].pc = "complete"
    BY DEF RInv, CheckComplete, At
  <2>2. \A pc \in {"select", "terminate", "assemble"} : pc \in Step /\ Fits(thread[r], pc)
    BY <2>1 DEF Step, ThreadOK, Fits
  <2>3. \E pc \in {"select", "terminate", "assemble"} : Goes(r, pc)
    BY DEF CheckComplete
  <2> QED
    BY <2>2, <2>3, GoesTo
<1> QED
  BY <1>1, <1>2, QuietStep DEF CheckComplete, At

LEMMA CheckExistsStep ==
    ASSUME RInv, NEW r \in Neighbor, Contend(r), CheckExists(r)
    PROVE  RInv'
<1>1. Typed'
  BY DEF RInv, TypeOK, Typed, CheckExists
<1>2. Moves(r) /\ thread'[r].pc \in {"log", "open"}
  <2>1. ThreadOK(r) /\ thread[r].pc = "assemble"
    BY DEF RInv, CheckExists, At
  <2>2. \A pc \in {"log", "open"} : pc \in Step /\ Fits(thread[r], pc)
    BY <2>1 DEF Step, ThreadOK, Fits
  <2>3. \E pc \in {"log", "open"} : Goes(r, pc)
    BY DEF CheckExists
  <2> QED
    BY <2>2, <2>3, GoesTo
<1> QED
  BY <1>1, <1>2, QuietStep DEF CheckExists, At

LEMMA OpenCompleteStep ==
    ASSUME RInv, NEW r \in Neighbor, Contend(r), OpenComplete(r)
    PROVE  RInv'
<1>1. Typed'
  <2>1. IsDisk(disk) /\ 0 \in Indices
    BY Constants DEF RInv, TypeOK, Indices
  <2>2. IsDisk(Opened(disk))
    BY <2>1, DiskTypes
  <2> QED
    BY <2>2 DEF RInv, TypeOK, Typed, OpenComplete
<1>2. Moves(r) /\ thread'[r].pc \in {"append"}
  <2>1. ThreadOK(r) /\ thread[r].pc = "open"
    BY DEF RInv, OpenComplete, At
  <2>2. \A pc \in {"append"} : pc \in Step /\ Fits(thread[r], pc)
    BY <2>1, Constants DEF Step, ThreadOK, Fits
  <2>3. \E pc \in {"append"} : Goes(r, pc)
    BY DEF OpenComplete
  <2> QED
    BY <2>2, <2>3, GoesTo
<1> QED
  BY <1>1, <1>2, QuietStep DEF OpenComplete, At

LEMMA AssembleFailsStep ==
    ASSUME RInv, NEW r \in Neighbor, Contend(r), AssembleFails(r)
    PROVE  RInv'
<1>1. Typed'
  BY ReceiversAssumption DEF RInv, TypeOK, Typed, AssembleFails, Fault
<1>2. Moves(r) /\ thread'[r].pc \in {"log"}
  <2>1. ThreadOK(r) /\ thread[r].pc \in {"open", "append"}
    BY DEF RInv, AssembleFails, At
  <2>2. \A pc \in {"log"} : pc \in Step /\ Fits(thread[r], pc)
    BY <2>1 DEF Step, ThreadOK, Fits
  <2>3. \E pc \in {"log"} : Goes(r, pc)
    BY DEF AssembleFails
  <2> QED
    BY <2>2, <2>3, GoesTo
<1> QED
  BY <1>1, <1>2, QuietStep DEF AssembleFails, At

LEMMA LogCompletionStep ==
    ASSUME RInv, NEW r \in Neighbor, Contend(r), LogCompletion(r)
    PROVE  RInv'
<1>1. Typed'
  BY DEF RInv, TypeOK, Typed, LogCompletion
<1>2. Moves(r) /\ thread'[r].pc \in {"terminate"}
  <2>1. ThreadOK(r) /\ thread[r].pc = "log"
    BY DEF RInv, LogCompletion, At
  <2>2. \A pc \in {"terminate"} : pc \in Step /\ Fits(thread[r], pc)
    BY <2>1 DEF Step, ThreadOK, Fits
  <2>3. \E pc \in {"terminate"} : Goes(r, pc)
    BY DEF LogCompletion
  <2> QED
    BY <2>2, <2>3, GoesTo
<1> QED
  BY <1>1, <1>2, QuietStep DEF LogCompletion, At

LEMMA CloseStep ==
    ASSUME RInv, NEW r \in Neighbor, Contend(r), Close(r)
    PROVE  RInv'
<1>1. Typed'
  BY DEF RInv, TypeOK, Typed, Close, Terminates, has_complete_file, Complete,
     all_neighbors_complete
<1>2. Moves(r) /\ thread'[r].pc \in {"gone"}
  <2>1. ThreadOK(r) /\ thread[r].pc = "closing"
    BY DEF RInv, Close, At
  <2>2. \A pc \in {"gone"} : pc \in Step /\ Fits(thread[r], pc)
    BY <2>1 DEF Step, ThreadOK, Fits
  <2>3. \E pc \in {"gone"} : Goes(r, pc)
    BY DEF Close
  <2> QED
    BY <2>2, <2>3, GoesTo
<1> QED
  BY <1>1, <1>2, QuietStep DEF Close, At

LEMMA CheckTerminationStep ==
    ASSUME RInv, NEW r \in Neighbor, Contend(r), CheckTermination(r)
    PROVE  RInv'
<1>1. Typed'
  BY DEF RInv, TypeOK, Typed, CheckTermination, Terminates, has_complete_file,
         Complete, all_neighbors_complete
<1>2. Moves(r) /\ thread'[r].pc = "idle"
  BY FinishesTo DEF CheckTermination
<1> QED
  BY <1>1, <1>2, QuietStep DEF CheckTermination, At

LEMMA HaveArrivesStep ==
    ASSUME RInv, NEW r \in Neighbor, Contend(r), HaveArrives(r)
    PROVE  RInv'
<1>1. Typed'
  BY DEF RInv, TypeOK, Typed, HaveArrives
<1>2. Moves(r) /\ thread'[r].pc \in {"sync"}
  <2> DEFINE t == [thread[r] EXCEPT !.pc = "sync", !.rest = {r}]
  <2>1. thread[r] \in Thread /\ ThreadOK(r) /\ thread[r].pc = "idle"
    BY DEF RInv, TypeOK, HaveArrives, At, Waiting
  <2>2. thread' = [thread EXCEPT ![r] = t]
    BY DEF HaveArrives
  <2>3. t \in Thread /\ t.pc \in {"sync"} /\ Fits(t, t.pc)
    BY <2>1, <2>2 DEF Thread, Step, ThreadOK, Fits
  <2> QED
    BY <2>2, <2>3, MovesTo
<1>3. Same(store, store')
  <2>1. PICK i \in Piece : store' = neighbor_set_piece(store, r, i)
    BY DEF HaveArrives
  <2>2. Good(store, Me, Anything) /\ r \in Peer
    BY DEF RInv, GoodStore, Neighbor
  <2>3. CASE Knows(store, r)
    <3>1. store.neighbors[r].bitfield \cup {i} \in SUBSET Piece
      BY <2>2, <2>3 DEF Good, IsStore, Knows, NeighborState
    <3> QED
      BY <2>1, <2>2, <2>3, <3>1, BitfieldRequests DEF neighbor_set_piece
  <2>4. CASE ~Knows(store, r)
    BY <2>1, <2>2, <2>4 DEF neighbor_set_piece, Same
  <2> QED
    BY <2>3, <2>4
<1> QED
  BY <1>1, <1>2, <1>3, QuietStep DEF HaveArrives, At, Waiting

LEMMA MarkDownloadedStep ==
    ASSUME RInv, NEW r \in Neighbor, Contend(r), MarkDownloaded(r)
    PROVE  RInv'
<1>1. Typed'
  BY DEF RInv, TypeOK, Typed, MarkDownloaded
<1>2. Moves(r) /\ thread'[r].pc \in {"sync"}
  <2> DEFINE t == [thread[r] EXCEPT !.pc = "sync", !.rest = connections]
  <2>1. thread[r] \in Thread /\ ThreadOK(r) /\ thread[r].pc = "mark" /\ connections \subseteq Neighbor
    BY DEF RInv, TypeOK, MarkDownloaded, At
  <2>2. thread' = [thread EXCEPT ![r] = t]
    BY DEF MarkDownloaded
  <2>3. t \in Thread /\ t.pc \in {"sync"} /\ Fits(t, t.pc)
    BY <2>1, <2>2 DEF Thread, Step, ThreadOK, Fits
  <2> QED
    BY <2>2, <2>3, MovesTo
<1>3. Same(store, store')
  BY DownloadedRequests DEF RInv, GoodStore, ThreadOK, Fits, MarkDownloaded, At
<1> QED
  BY <1>1, <1>2, <1>3, QuietStep DEF MarkDownloaded, At

LEMMA SyncNextStep ==
    ASSUME RInv, NEW r \in Neighbor, Contend(r), SyncNext(r)
    PROVE  RInv'
<1>1. Typed'
  BY DEF RInv, TypeOK, Typed, SyncNext
<1>2. Moves(r) /\ thread'[r].pc \in {"compare", "sync"}
  <2>0. PICK q \in thread[r].rest :
           thread' = [thread EXCEPT
             ![r].rest = @ \ {q},
             ![r].pc = IF q \in connections THEN "compare" ELSE "sync",
             ![r].about = q,
             ![r].missing = get_interesting_pieces(store, q) # {}]
    BY DEF SyncNext
  <2> DEFINE b == get_interesting_pieces(store, q) # {}
             k == IF q \in connections THEN "compare" ELSE "sync"
             t == [thread[r] EXCEPT !.rest = @ \ {q}, !.pc = k, !.about = q,
                                      !.missing = b]
  <2>1. thread[r] \in Thread /\ ThreadOK(r) /\ thread[r].pc = "sync"
    BY DEF RInv, TypeOK, SyncNext, At
  <2>2. thread' = [thread EXCEPT ![r] = t] /\ b \in BOOLEAN /\ k \in {"compare", "sync"}
    BY <2>0
  <2> HIDE DEF b, k
  <2>3. t \in Thread /\ t.pc \in {"compare", "sync"} /\ Fits(t, t.pc)
    BY <2>1, <2>2, <2>0 DEF Thread, Step, ThreadOK, Fits
  <2> QED
    BY <2>2, <2>3, MovesTo
<1> QED
  BY <1>1, <1>2, QuietStep DEF SyncNext, At

LEMMA AppendPieceStep ==
    ASSUME RInv, NEW r \in Neighbor, Contend(r), AppendPiece(r)
    PROVE  RInv'
<1> DEFINE i == thread[r].next
           n == thread[r].slot
           m == IF i \in disk.pieces THEN n + 1 ELSE n
           k == IF i + 1 = NumPieces THEN "log" ELSE "append"
           t == [thread[r] EXCEPT !.next = i + 1, !.slot = m, !.pc = k]
<1>1. /\ thread[r] \in Thread /\ thread[r].pc = "append"
      /\ i \in Nat /\ n \in Nat /\ i < NumPieces /\ n <= i
  BY Constants DEF RInv, TypeOK, ThreadOK, Fits, Thread, AppendPiece, At
<1>2. thread' = [thread EXCEPT ![r] = t] /\ disk' = Appended(disk, n, i)
  BY DEF AppendPiece
<1>3. /\ i + 1 \in 0 .. NumPieces /\ m \in 0 .. NumPieces /\ m <= i + 1
      /\ k \in {"log", "append"} /\ (k = "append" => i + 1 < NumPieces)
  BY <1>1, Constants, SMTT(30)
<1>4. i \in Indices /\ IsDisk(disk)
  BY <1>1, Constants DEF Indices, RInv, TypeOK
<1> HIDE DEF i, n, m, k
<1>5. t \in Thread /\ t.pc = k /\ Fits(t, k)
  BY <1>1, <1>3 DEF Thread, Step, Fits
<1> HIDE DEF t
<1>6. Moves(r) /\ thread'[r].pc = k
  BY <1>2, <1>5, MovesTo
<1>7. IsDisk(disk')
  BY <1>1, <1>2, <1>4, DiskTypes
<1>8. Typed'
  BY <1>7 DEF RInv, TypeOK, Typed, AppendPiece
<1> QED
  BY <1>1, <1>3, <1>6, <1>8, QuietStep DEF AppendPiece

\* What every step may use of the invariant.
LEMMA Known ==
    ASSUME RInv, NEW r \in Neighbor
    PROVE  /\ Good(store, Me, Anything) /\ r \in Peer
           /\ DOMAIN store.neighbors = connections /\ connections \subseteq Neighbor
           /\ thread[r] \in Thread /\ ThreadOK(r)
           /\ wire \in [Neighbor -> Seq(Piece)]
           /\ r \in connections => OwedOK(r)
           /\ IsDisk(disk)
  BY DEF RInv, GoodStore, Neighbor, Connected, TypeOK

LEMMA ChokeArrivesStep ==
    ASSUME RInv, NEW r \in Neighbor, Contend(r), ChokeArrives(r)
    PROVE  RInv'
<1> DEFINE s == set_peer_choking(store, r, TRUE)
<1>0. Chokes(store, s, r, TRUE)
  BY Known, ChokingRequests
<1>1. Good(s, Me, Anything) /\ DOMAIN s.neighbors = connections
  BY <1>0, Known DEF Chokes
<1>2. \A q \in connections :
         /\ IsChoking(s, q) = IF q = r THEN TRUE ELSE IsChoking(store, q)
         /\ Outstanding(s, q) = Outstanding(store, q)
  BY <1>0, Known DEF Chokes
<1>3. store' = clear_outstanding_request(s, r)
  BY DEF ChokeArrives
<1> HIDE DEF s
<1>4. Requests(s, store', r, None)
  BY <1>1, <1>3, Known, ClearRequests
<1>5. Typed' /\ Moves(r)
  BY DEF RInv, TypeOK, Typed, Moves, ThreadOK, ChokeArrives
<1>6. GoodStore' /\ Connected'
  BY <1>1, <1>4 DEF Requests, GoodStore, Connected, ChokeArrives
<1>7. \A q \in connections \ {r} :
         /\ IsChoking(store', q) = IsChoking(store, q)
         /\ Outstanding(store', q) = Outstanding(store, q)
  BY <1>1, <1>2, <1>4 DEF Requests
<1>8. ASSUME r \in connections PROVE OwedOK(r)'
  BY <1>1, <1>2, <1>4, <1>8 DEF Requests, OwedOK, ChokeArrives, Waiting, At
<1> QED
  BY <1>5, <1>6, <1>7, <1>8, StepKeepsRInv DEF ChokeArrives

LEMMA UnchokeArrivesStep ==
    ASSUME RInv, NEW r \in Neighbor, Contend(r), UnchokeArrives(r)
    PROVE  RInv'
<1>1. /\ GoodStore' /\ Connected'
      /\ \A q \in connections :
            /\ IsChoking(store', q) = IF q = r THEN FALSE ELSE IsChoking(store, q)
            /\ Outstanding(store', q) = Outstanding(store, q)
  <2>1. Chokes(store, store', r, FALSE)
    BY Known, ChokingRequests DEF UnchokeArrives
  <2> QED
    BY <2>1, Known DEF Chokes, GoodStore, Connected, UnchokeArrives
<1>2. PICK n \in 0 .. Len(wire[r]) :
         wire' = [wire EXCEPT ![r] = SubSeq(wire[r], n + 1, Len(wire[r]))]
  BY DEF UnchokeArrives
<1>3. SubSeq(wire[r], n + 1, Len(wire[r])) \in Seq(Piece)
  <2>1. wire[r] \in Seq(Piece) /\ Len(wire[r]) \in Nat
    BY Known, LenProperties
  <2>2. \A m \in n + 1 .. Len(wire[r]) : wire[r][m] \in Piece
    BY <2>1, ElementOfSeq
  <2> QED
    BY <2>1, <2>2, SubSeqProperties
<1>4. /\ wire' \in [Neighbor -> Seq(Piece)]
      /\ \A q \in Neighbor \ {r} : wire'[q] = wire[q]
  BY <1>2, <1>3, Known
<1>5. Typed'
  BY <1>4, ReceiversAssumption DEF RInv, TypeOK, Typed, UnchokeArrives
<1>6. r \in connections /\ thread[r].pc = "idle" /\ IsChoking(store, r)
  BY Known DEF UnchokeArrives, Waiting, At, is_peer_choking_us, Knows, IsChoking
<1>7. Moves(r) /\ thread'[r].pc = "select"
  <2>1. "select" \in Step /\ Fits(thread[r], "select")
    BY <1>6, Known DEF Step, ThreadOK, Fits
  <2> QED
    BY <2>1, GoesTo DEF UnchokeArrives
<1>8. OwedOK(r)'
  BY <1>1, <1>6, <1>7, Known DEF OwedOK, UnchokeArrives
<1> QED
  BY <1>1, <1>4, <1>5, <1>7, <1>8, StepKeepsRInv DEF UnchokeArrives

LEMMA SelectPieceStep ==
    ASSUME RInv, NEW r \in Neighbor, Contend(r), SelectPiece(r)
    PROVE  RInv'
<1>1. Typed' /\ GoodStore' /\ Connected'
  BY DEF RInv, TypeOK, Typed, GoodStore, Connected, SelectPiece
<1>2. thread[r].pc = "select"
  BY DEF SelectPiece, At
<1>3. CASE Finishes(r)
  <2>1. Moves(r) /\ thread'[r].pc = "idle"
    BY <1>3, FinishesTo
  <2>2. ASSUME r \in connections PROVE OwedOK(r)'
    BY <1>2, <2>1, <2>2, Known DEF OwedOK, Answerable, SelectPiece
  <2> QED
    BY <1>1, <2>1, <2>2, StepKeepsRInv DEF SelectPiece
<1>4. CASE ~Finishes(r)
  <2>1. PICK i \in IF is_peer_choking_us(store, r) THEN {} ELSE Candidates(store, r) :
           thread' = [thread EXCEPT ![r] = [Idle EXCEPT !.pc = "reserve", !.piece = i]]
    BY <1>4 DEF SelectPiece
  <2>2. i \in Piece /\ ~is_peer_choking_us(store, r)
    BY <2>1, Known DEF Candidates, get_interesting_pieces, Knows, Good, IsStore,
                       NeighborState
  <2> DEFINE t == [Idle EXCEPT !.pc = "reserve", !.piece = i]
  <2>3. t \in Thread /\ t.pc = "reserve" /\ Fits(t, t.pc)
    <3>1. Idle \in Thread /\ Idle.next = 0 /\ Idle.slot = 0
      BY Constants DEF Idle, Thread, Step
    <3> QED
      BY <2>2, <3>1 DEF Thread, Step, Fits
  <2>4. Moves(r) /\ thread'[r].pc = "reserve"
    BY <2>1, <2>3, MovesTo
  <2>5. ASSUME r \in connections PROVE OwedOK(r)'
    BY <1>2, <2>2, <2>4, <2>5, Known DEF OwedOK, Answerable, SelectPiece,
                                         is_peer_choking_us, Knows, IsChoking
  <2> QED
    BY <1>1, <2>4, <2>5, StepKeepsRInv DEF SelectPiece
<1> QED
  BY <1>3, <1>4

LEMMA ReserveStep ==
    ASSUME RInv, NEW r \in Neighbor, Contend(r), Reserve(r)
    PROVE  RInv'
<1> DEFINE i == thread[r].piece
<1>1. thread[r].pc = "reserve" /\ i \in Piece
  BY Known DEF Reserve, At, ThreadOK, Fits
<1>2. Moves(r) /\ thread'[r].pc = "idle"
  BY FinishesTo DEF Reserve
<1>3. CASE CanReserve(store, r, i)
  <2>1. Requests(store, store', r, i)
    BY <1>1, <1>3, Known, ReserveRequests DEF Reserve
  <2>2. wire' = [wire EXCEPT ![r] = Append(wire[r], i)]
    BY <1>3 DEF Reserve
  <2>3. wire[r] \in Seq(Piece) /\ Len(wire[r]) \in Nat
    BY Known, LenProperties
  <2>4. /\ Append(wire[r], i) \in Seq(Piece)
        /\ Len(wire[r]) + 1 \in DOMAIN Append(wire[r], i)
        /\ Append(wire[r], i)[Len(wire[r]) + 1] = i
    BY <1>1, <2>3
  <2> HIDE DEF i
  <2>5. /\ wire' \in [Neighbor -> Seq(Piece)]
        /\ \A q \in Neighbor \ {r} : wire'[q] = wire[q]
        /\ \E n \in DOMAIN wire'[r] : wire'[r][n] = i
    BY <2>2, <2>4, Known
  <2>6. Typed'
    BY <2>5 DEF RInv, TypeOK, Typed, Reserve
  <2>7. GoodStore' /\ Connected'
    BY <2>1, Known DEF Requests, GoodStore, Connected, Reserve
  <2>8. \A q \in connections :
           /\ IsChoking(store', q) = IsChoking(store, q)
           /\ Outstanding(store', q) = IF q = r THEN i ELSE Outstanding(store, q)
    BY <2>1, Known DEF Requests
  <2>9. ASSUME r \in connections PROVE OwedOK(r)'
    BY <1>1, <1>2, <2>5, <2>8, <2>9, Known DEF OwedOK, Answerable, Reserve
  <2> QED
    BY <1>2, <2>5, <2>6, <2>7, <2>8, <2>9, StepKeepsRInv DEF Reserve
<1>4. CASE ~CanReserve(store, r, i)
  <2>1. UNCHANGED <<store, wire, connections>>
    BY <1>1, <1>4, Known, ReserveRequests DEF Reserve
  <2>2. Typed'
    BY <2>1 DEF RInv, TypeOK, Typed, Reserve
  <2> QED
    BY <1>1, <1>2, <2>1, <2>2, QuietStep
<1> QED
  BY <1>3, <1>4

LEMMA PieceArrivesStep ==
    ASSUME RInv, NEW r \in Neighbor, Contend(r), PieceArrives(r)
    PROVE  RInv'
<1> DEFINE i == Head(wire[r])
           t == [thread[r] EXCEPT !.pc = "write", !.piece = i]
<1>1. /\ thread[r].pc = "idle"
      /\ wire[r] \in Seq(Piece) /\ wire[r] # <<>>
      /\ wire' = [wire EXCEPT ![r] = Tail(wire[r])]
      /\ disk' = WriteOpened(disk, i)
      /\ thread' = [thread EXCEPT ![r] = t]
  BY Known DEF PieceArrives, Waiting, At
<1>2. i \in Piece /\ Tail(wire[r]) \in Seq(Piece)
  BY <1>1, HeadTailProperties
<1> HIDE DEF i
<1>3. t \in Thread /\ t.pc = "write" /\ Fits(t, t.pc)
  <2>1. thread[r] \in Thread /\ thread[r].next = 0 /\ thread[r].slot = 0
    BY <1>1, Known DEF ThreadOK, Fits
  <2> QED
    BY <1>2, <2>1 DEF Thread, Step, Fits
<1>4. Moves(r) /\ thread'[r].pc = "write"
  BY <1>1, <1>3, MovesTo
<1>5. /\ wire' \in [Neighbor -> Seq(Piece)]
      /\ \A q \in Neighbor \ {r} : wire'[q] = wire[q]
  BY <1>1, <1>2, Known
<1>6. i \in Indices
  BY <1>2, Constants DEF Indices
<1>7. IsDisk(disk')
  BY <1>1, <1>6, Known, DiskTypes
<1>8. Typed'
  BY <1>5, <1>7 DEF RInv, TypeOK, Typed, PieceArrives
<1>9. ASSUME r \in connections PROVE OwedOK(r)'
  BY <1>4, <1>9, Known DEF OwedOK, Answerable, PieceArrives
<1>10. GoodStore' /\ Connected'
  BY DEF RInv, GoodStore, Connected, PieceArrives
<1> QED
  BY <1>4, <1>5, <1>8, <1>9, <1>10, StepKeepsRInv DEF PieceArrives

\* Common to the two ends of a write: the request of r is over.
LEMMA RequestOver ==
    ASSUME RInv, NEW r \in Neighbor, Contend(r), Typed', Moves(r),
           store' = clear_outstanding_request(store, r),
           UNCHANGED <<wire, connections>>, thread'[r].pc # "reserve"
    PROVE  RInv'
<1>1. Requests(store, store', r, None)
  BY Known, ClearRequests
<1>2. GoodStore' /\ Connected'
  BY <1>1, Known DEF Requests, GoodStore, Connected
<1>3. \A q \in connections :
         /\ IsChoking(store', q) = IsChoking(store, q)
         /\ Outstanding(store', q) = IF q = r THEN None ELSE Outstanding(store, q)
  BY <1>1, Known DEF Requests
<1>4. ASSUME r \in connections PROVE OwedOK(r)'
  BY <1>3, <1>4 DEF OwedOK
<1> QED
  BY <1>2, <1>3, <1>4, StepKeepsRInv

LEMMA WritePieceStep ==
    ASSUME RInv, NEW r \in Neighbor, Contend(r), WritePiece(r)
    PROVE  RInv'
<1>1. thread[r].pc = "write" /\ thread[r].piece \in Piece
  BY Known DEF WritePiece, At, ThreadOK, Fits
<1>2. Moves(r) /\ thread'[r].pc = "mark"
  <2>1. "mark" \in Step /\ Fits(thread[r], "mark")
    BY <1>1, Known DEF Step, ThreadOK, Fits
  <2> QED
    BY <2>1, GoesTo DEF WritePiece
<1>3. IsDisk(disk')
  BY <1>1, Known, Constants, DiskTypes DEF Indices, WritePiece
<1>4. Typed'
  BY <1>3 DEF RInv, TypeOK, Typed, WritePiece
<1> QED
  BY <1>2, <1>4, RequestOver DEF WritePiece

LEMMA WriteFailsStep ==
    ASSUME RInv, NEW r \in Neighbor, Contend(r), WriteFails(r)
    PROVE  RInv'
<1>1. Moves(r) /\ thread'[r].pc = "idle"
  BY FinishesTo DEF WriteFails
<1>2. Typed'
  BY ReceiversAssumption DEF RInv, TypeOK, Typed, WriteFails, Fault
<1> QED
  BY <1>1, <1>2, RequestOver DEF WriteFails

LEMMA CloseArrivesStep ==
    ASSUME RInv, NEW r \in Neighbor, Contend(r), CloseArrives(r)
    PROVE  RInv'
<1>1. r \in connections /\ thread[r].pc = "idle"
  BY DEF CloseArrives, Waiting, At
<1>2. /\ GoodStore' /\ Connected'
      /\ \A q \in connections \ {r} :
            /\ IsChoking(store', q) = IsChoking(store, q)
            /\ Outstanding(store', q) = Outstanding(store, q)
  BY <1>1, Known, RemoveRequests DEF GoodStore, Connected, CloseArrives
<1>3. Moves(r)
  <2>1. "closing" \in Step /\ Fits(thread[r], "closing")
    BY <1>1, Known DEF Step, ThreadOK, Fits
  <2> QED
    BY <2>1, GoesTo DEF CloseArrives
<1>4. wire' \in [Neighbor -> Seq(Piece)] /\ \A q \in Neighbor \ {r} : wire'[q] = wire[q]
  BY Known, EmptySeq DEF CloseArrives
<1>5. Typed'
  BY <1>4, ReceiversAssumption DEF RInv, TypeOK, Typed, CloseArrives, Fault
<1>6. connections' = connections \ {r}
  BY DEF CloseArrives
<1> QED
  BY <1>2, <1>3, <1>4, <1>5, <1>6, StepKeepsRInv

LEMMA StutterStep ==
    ASSUME RInv, UNCHANGED vars
    PROVE  RInv'
  BY DEF vars, RInv, TypeOK, GoodStore, Connected, ThreadOK, OwedOK, Answerable

LEMMA InitRInv == Init => RInv
<1> SUFFICES ASSUME Init PROVE RInv
  OBVIOUS
<1>1. NewNeighbor \in NeighborState /\ NewNeighbor.outstanding_request = None
      /\ NewNeighbor.bitfield = {}
  BY DEF NewNeighbor, NeighborState
<1>2. store = [ my_bitfield |-> {}, neighbors |-> [q \in Neighbor |-> NewNeighbor],
                requested_pieces |-> {}, completed_neighbor_ids |-> {} ]
  BY DEF Init, NewStore
<1>3. IsStore(store)
  BY <1>1, <1>2 DEF IsStore, Neighbor
<1>4. Good(store, Me, Anything)
  BY <1>1, <1>2, <1>3, Constants DEF Good, Reserved, Sound, Outstanding, Neighbor
<1>5. Idle \in Thread /\ Idle.pc = "idle" /\ Fits(Idle, "idle")
  BY Constants DEF Idle, Thread, Step, Fits
<1>6. \A r \in Neighbor : thread[r] = Idle
  BY DEF Init
<1>7. \A r \in Neighbor : ThreadOK(r)
  BY <1>5, <1>6 DEF ThreadOK
<1>8. thread \in [Neighbor -> Thread]
  BY <1>5 DEF Init
<1>9. wire \in [Neighbor -> Seq(Piece)]
  BY EmptySeq DEF Init
<1>10. IsDisk(disk)
  BY EmptySeq DEF Init, NewDisk, IsDisk
<1>11. TypeOK
  <2>1. 0 \in 0 .. MaxChokes /\ 0 \in 0 .. MaxFaults
    BY ReceiversAssumption
  <2>2. told \in [Neighbor -> BOOLEAN]
    BY DEF Init
  <2> QED
    BY <1>3, <1>8, <1>9, <1>10, <2>1, <2>2 DEF Init, TypeOK
<1>12. \A q \in connections : OwedOK(q)
  BY <1>1, <1>2, <1>5, <1>6 DEF Init, OwedOK, Outstanding
<1>13. Connected
  BY <1>2 DEF Init, Connected
<1> QED
  BY <1>4, <1>7, <1>11, <1>12, <1>13 DEF RInv, GoodStore

LEMMA NextRInv == RInv /\ [Next]_vars => RInv'
<1> SUFFICES ASSUME RInv, [Next]_vars PROVE RInv'
  OBVIOUS
<1>1. CASE UNCHANGED vars
  BY <1>1, StutterStep
<1>2. ASSUME NEW r \in Neighbor, Contend(r), Arrives(r) PROVE RInv'
  BY <1>2, BitfieldArrivesStep, HaveArrivesStep, ChokeArrivesStep,
     UnchokeArrivesStep, PieceArrivesStep, CloseArrivesStep DEF Arrives
<1>3. ASSUME NEW r \in Neighbor, Contend(r), Handle(r) PROVE RInv'
  BY <1>3, DecideReplyStep, SyncNextStep, SyncDoneStep, SyncCompareStep,
     SyncSetStep, SyncSendStep, SelectPieceStep, ReserveStep, WritePieceStep,
     MarkDownloadedStep, CheckCompleteStep, CheckExistsStep, OpenCompleteStep,
     AppendPieceStep, LogCompletionStep, CheckTerminationStep, CloseStep DEF Handle
<1>4. ASSUME NEW r \in Neighbor, Contend(r), Fails(r) PROVE RInv'
  BY <1>4, WriteFailsStep, AssembleFailsStep DEF Fails
<1> QED
  BY <1>1, <1>2, <1>3, <1>4 DEF Next

-----------------------------------------------------------------------------

\* The inductive invariant holds in every state of every run.
THEOREM Invariance == Spec => []RInv
  BY InitRInv, NextRInv, PTL DEF Spec

\* The store, the files and the local variables of the threads keep their
\* types; assemble_file never runs past the last piece (file_manager.py:97).
THEOREM TypeCorrect == Spec => []TypeOK
<1>1. RInv => TypeOK
  BY DEF RInv
<1> QED
  BY <1>1, Invariance, PTL

\* However the threads interleave between select_random_piece, reserve_request
\* and the calls that end a request, requested_pieces and the outstanding
\* requests agree (state.py:107-118, 194-228).
THEOREM ReservationsSurvive == Spec => []RequestsReserved
<1>1. RInv => RequestsReserved
  BY DEF RInv, GoodStore, Good, RequestsReserved
<1> QED
  BY <1>1, Invariance, PTL

\* A thread never waits for a PIECE that nobody owes it
\* (peer_network.py:474-487, 676-696).
THEOREM RequestsOwed == Spec => []RequestOwed
<1>1. RInv => RequestOwed
  BY DEF RInv, OwedOK, Answerable, RequestOwed, At
<1> QED
  BY <1>1, Invariance, PTL

-----------------------------------------------------------------------------
(* The files: an invariant about the disk and the threads that fill it. *)

Calm  == "short" \notin mishaps /\ faults = 0
Clean == mishaps = {} /\ faults = 0

\* Thread r has still to append the piece of slot m.
Appends(r, m) == thread[r].pc = "append" /\ thread[r].next < m

\* Slot m of the complete file holds its piece.
Right(m) == m <= Len(disk.content) /\ disk.content[m] = m - 1

\* Thread r is on its way from the last piece to the complete file.
Finishing(r) ==
    \/ thread[r].pc \in {"complete", "assemble", "open"}
    \/ thread[r].pc \in {"sync", "compare", "set", "send"} /\ thread[r].piece # None

AssemblySteps == {"assemble", "open", "append", "log"}

\* What is ours was written; a file is empty only while somebody writes it.
PiecesOK ==
    /\ disk.pieces \cap disk.torn = {}
    /\ store.my_bitfield \subseteq disk.pieces \cup disk.torn
    /\ \A r \in Neighbor :
          /\ thread[r].pc = "mark" => thread[r].piece \in disk.pieces \cup disk.torn
          /\ thread[r].pc \in AssemblySteps => has_complete_file(store)
    /\ faults = 0 =>
          \A i \in disk.torn : \E r \in Neighbor :
             thread[r].pc = "write" /\ thread[r].piece = i

\* Without faults the last piece leads to a complete file, and every slot of it
\* is right or will be written.
FileOK ==
    /\ \A r \in Neighbor : thread[r].pc = "append" => disk.exists
    /\ completion_logged \/ (\E r \in Neighbor : thread[r].pc = "log")
          => disk.exists \/ faults # 0
    /\ all_done => completion_logged
    /\ has_complete_file(store) /\ faults = 0 =>
          disk.exists \/ \E r \in Neighbor : Finishing(r)
    /\ Calm =>
          /\ \A r \in Neighbor : thread[r].pc = "append" => thread[r].slot = thread[r].next
          /\ disk.exists =>
                /\ Len(disk.content) <= NumPieces
                /\ \A m \in 1 .. NumPieces :
                      Right(m) \/ \E r \in Neighbor : Appends(r, m)

\* Without mishaps one thread assembles the file, before anybody logs it.
AloneOK ==
    Clean =>
        /\ \A r, q \in Neighbor :
              thread[r].pc = "append" /\ thread[q].pc = "append" => r = q
        /\ \A r \in Neighbor :
              thread[r].pc = "append" => Len(disk.content) = thread[r].next
        /\ completion_logged \/ (\E r \in Neighbor : thread[r].pc = "log")
              => \A r \in Neighbor : thread[r].pc # "append"

FInv == PiecesOK /\ FileOK /\ AloneOK

-----------------------------------------------------------------------------
(* Steps that leave some of it alone. *)

Others(r) == \A q \in Neighbor \ {r} : thread'[q] = thread[q]

Sticky == (faults' = 0 => faults = 0) /\ mishaps \subseteq mishaps'

LEMMA GoesKeeps ==
    ASSUME RInv, NEW r \in Neighbor, NEW pc, Goes(r, pc)
    PROVE  /\ Others(r) /\ thread'[r].pc = pc
           /\ thread'[r].piece = thread[r].piece /\ thread'[r].rest = thread[r].rest
           /\ thread'[r].about = thread[r].about /\ thread'[r].missing = thread[r].missing
           /\ thread'[r].next = thread[r].next /\ thread'[r].slot = thread[r].slot
<1>1. thread \in [Neighbor -> Thread]
  BY DEF RInv, TypeOK
<1>2. thread[r] \in Thread /\ thread'[r] = [thread[r] EXCEPT !.pc = pc]
      /\ \A q \in Neighbor \ {r} : thread'[q] = thread[q]
  BY <1>1 DEF Goes
<1> QED
  BY <1>2 DEF Others, Thread

LEMMA FinishesIdle ==
    ASSUME RInv, NEW r \in Neighbor, Finishes(r)
    PROVE  Others(r) /\ thread'[r].pc = "idle"
  BY DEF RInv, TypeOK, Finishes, Others, Idle

LEMMA PiecesKept ==
    ASSUME PiecesOK, NEW r \in Neighbor, Others(r), Sticky,
           disk'.pieces = disk.pieces, disk'.torn = disk.torn,
           store'.my_bitfield = store.my_bitfield,
           thread[r].pc # "write" \/ faults' # 0, thread'[r].pc # "mark",
           thread'[r].pc \in AssemblySteps => has_complete_file(store)
    PROVE  PiecesOK'
<1>1. has_complete_file(store') <=> has_complete_file(store)
  BY DEF has_complete_file
<1>2. ASSUME NEW q \in Neighbor
      PROVE  /\ thread'[q].pc = "mark" => thread'[q].piece \in disk.pieces \cup disk.torn
             /\ thread'[q].pc \in AssemblySteps => has_complete_file(store)
  BY DEF PiecesOK, Others
<1>3. ASSUME faults' = 0, NEW i \in disk.torn
      PROVE  \E q \in Neighbor : thread'[q].pc = "write" /\ thread'[q].piece = i
  BY <1>3 DEF PiecesOK, Others, Sticky
<1> QED
  BY <1>1, <1>2, <1>3 DEF PiecesOK

\* Steps that neither open nor fill the complete file.
LEMMA FileSettles ==
    ASSUME FileOK, AloneOK, NEW r \in Neighbor, Others(r), Sticky,
           disk'.exists = disk.exists, disk'.content = disk.content,
           store'.my_bitfield = store.my_bitfield,
           completion_logged => completion_logged',
           all_done' => all_done \/ completion_logged,
           thread[r].pc # "append" \/ faults' # 0, thread'[r].pc # "append",
           completion_logged' \/ thread'[r].pc = "log" =>
               /\ disk.exists \/ faults' # 0
               /\ Clean' => \A q \in Neighbor : thread[q].pc # "append",
           Finishing(r) => \/ Finishing(r)' \/ disk.exists
                           \/ ~has_complete_file(store) \/ faults' # 0
    PROVE  FileOK' /\ AloneOK'
<1>1. has_complete_file(store') <=> has_complete_file(store)
  BY DEF has_complete_file
<1>2. ASSUME NEW q \in Neighbor
      PROVE  /\ thread'[q].pc = "append" => thread'[q] = thread[q]
             /\ thread'[q].pc = "log" => thread[q].pc = "log" \/ q = r
             /\ Finishing(q) => Finishing(q)' \/ q = r
             /\ faults' = 0 => \A m : Appends(q, m)' <=> Appends(q, m)
  BY DEF Others, Finishing, Appends
<1>3. \A m : Right(m)' <=> Right(m)
  BY DEF Right
<1>4. (Calm' => Calm) /\ (Clean' => Clean)
  BY DEF Calm, Clean, Sticky
<1>5. completion_logged' \/ (\E q \in Neighbor : thread'[q].pc = "log")
         => disk'.exists \/ faults' # 0
  BY <1>2 DEF FileOK, Sticky
<1>6. has_complete_file(store') /\ faults' = 0 =>
         disk'.exists \/ \E q \in Neighbor : Finishing(q)'
  BY <1>1, <1>2 DEF FileOK, Sticky
<1>7. ASSUME Calm'
      PROVE  /\ \A q \in Neighbor : thread'[q].pc = "append" => thread'[q].slot = thread'[q].next
             /\ disk'.exists =>
                   /\ Len(disk'.content) <= NumPieces
                   /\ \A m \in 1 .. NumPieces :
                         Right(m)' \/ \E q \in Neighbor : Appends(q, m)'
  <2>1. faults' = 0 /\ Calm
    BY <1>4, <1>7 DEF Calm
  <2> QED
    BY <1>2, <1>3, <2>1 DEF FileOK
<1>8. FileOK'
  BY <1>2, <1>5, <1>6, <1>7 DEF FileOK
<1>9. AloneOK'
  BY <1>2, <1>4 DEF AloneOK
<1> QED
  BY <1>8, <1>9

LEMMA FileKept ==
    ASSUME FileOK, AloneOK, NEW r \in Neighbor, Others(r), Sticky,
           disk'.exists = disk.exists, disk'.content = disk.content,
           store'.my_bitfield = store.my_bitfield, UNCHANGED completion_logged,
           all_done' => all_done \/ completion_logged,
           thread[r].pc \notin {"append", "log"}, thread'[r].pc \notin {"append", "log"},
           Finishing(r) => \/ Finishing(r)' \/ disk.exists
                           \/ ~has_complete_file(store) \/ faults' # 0
    PROVE  FileOK' /\ AloneOK'
<1>1. completion_logged => disk.exists \/ faults' # 0
  BY DEF FileOK, Sticky
<1>2. completion_logged /\ Clean' => \A q \in Neighbor : thread[q].pc # "append"
  BY DEF AloneOK, Clean, Sticky
<1> QED
  BY <1>1, <1>2, FileSettles

\* Steps that have nothing to do with the files.
LEMMA FilesUntouched ==
    ASSUME RInv, FInv, NEW r \in Neighbor, Others(r), Sticky,
           UNCHANGED <<disk, completion_logged>>, store'.my_bitfield = store.my_bitfield,
           all_done' => all_done \/ completion_logged,
           thread[r].pc \notin {"append", "log", "write"},
           thread'[r].pc \notin {"append", "log", "mark"},
           thread'[r].pc \notin AssemblySteps,
           Finishing(r) => Finishing(r)'
    PROVE  FInv'
  BY FileKept, PiecesKept DEF FInv

\* The methods of the store but mark_piece_downloaded leave our pieces alone.
LEMMA MyPiecesStay ==
    ASSUME NEW s, IsStore(s), NEW q
    PROVE  /\ \A b : SetNeighborBitfield(s, q, b).my_bitfield = s.my_bitfield
           /\ \A i : neighbor_set_piece(s, q, i).my_bitfield = s.my_bitfield
           /\ \A b : set_peer_choking(s, q, b).my_bitfield = s.my_bitfield
           /\ \A b : set_am_interested(s, q, b).my_bitfield = s.my_bitfield
           /\ clear_outstanding_request(s, q).my_bitfield = s.my_bitfield
           /\ \A i : reserve_request(s, q, i).my_bitfield = s.my_bitfield
           /\ remove_neighbor(s, q).my_bitfield = s.my_bitfield
  BY DEF IsStore, SetNeighborBitfield, neighbor_set_piece, set_peer_choking,
         set_am_interested, clear_outstanding_request, reserve_request, remove_neighbor

LEMMA Tame ==
    ASSUME RInv
    PROVE  /\ IsStore(store) /\ IsDisk(disk) /\ faults \in Nat
           /\ thread \in [Neighbor -> Thread]
           /\ \A r \in Neighbor : ThreadOK(r)
           /\ UNCHANGED <<faults, mishaps>> => Sticky
           /\ Fault /\ UNCHANGED mishaps => Sticky /\ faults' # 0
<1>1. IsStore(store) /\ IsDisk(disk) /\ faults \in Nat /\ thread \in [Neighbor -> Thread]
  BY ReceiversAssumption DEF RInv, TypeOK
<1> QED
  BY <1>1 DEF RInv, Sticky, Fault

-----------------------------------------------------------------------------

\* Messages, interest, requests and the end of a connection.
LEMMA MessagesKeepFiles ==
    ASSUME RInv, FInv, NEW r \in Neighbor,
           \/ BitfieldArrives(r) \/ HaveArrives(r) \/ ChokeArrives(r) \/ UnchokeArrives(r)
           \/ CloseArrives(r) \/ SelectPiece(r) \/ Reserve(r)
    PROVE  FInv'
<1>1. UNCHANGED <<disk, completion_logged>> /\ Sticky /\ UNCHANGED all_done
  BY Tame DEF BitfieldArrives, HaveArrives, ChokeArrives, UnchokeArrives, CloseArrives,
     SelectPiece, Reserve
<1>2. /\ Others(r) /\ thread[r].pc \in {"idle", "select", "reserve"}
      /\ thread'[r].pc \in {"reply", "sync", "idle", "select", "reserve", "closing"}
  <2>1. CASE BitfieldArrives(r) \/ UnchokeArrives(r) \/ CloseArrives(r)
    BY <2>1, GoesKeeps DEF BitfieldArrives, UnchokeArrives, CloseArrives, Waiting, At
  <2>2. CASE HaveArrives(r)
    BY <2>2, Tame DEF HaveArrives, Waiting, At, Others, Thread
  <2>3. CASE ChokeArrives(r)
    BY <2>3 DEF ChokeArrives, Waiting, At, Others
  <2>4. CASE Reserve(r)
    BY <2>4, FinishesIdle DEF Reserve, At
  <2>5. CASE SelectPiece(r)
    <3>1. CASE Finishes(r)
      BY <2>5, <3>1, FinishesIdle DEF SelectPiece, At
    <3>2. CASE ~Finishes(r)
      <4>1. \E i : thread' = [thread EXCEPT ![r] = [Idle EXCEPT !.pc = "reserve", !.piece = i]]
        BY <2>5, <3>2 DEF SelectPiece
      <4> QED
        BY <2>5, <4>1, Tame DEF SelectPiece, At, Others, Idle
    <3> QED
      BY <3>1, <3>2
  <2> QED
    BY <2>1, <2>2, <2>3, <2>4, <2>5
<1>3. store'.my_bitfield = store.my_bitfield
  <2>1. CASE BitfieldArrives(r)
    BY <2>1, Tame, MyPiecesStay DEF BitfieldArrives, update_neighbor_bitfield
  <2>2. CASE HaveArrives(r)
    BY <2>2, Tame, MyPiecesStay DEF HaveArrives
  <2>3. CASE ChokeArrives(r)
    <3> DEFINE s == set_peer_choking(store, r, TRUE)
    <3>1. store' = clear_outstanding_request(s, r)
      BY <2>3 DEF ChokeArrives
    <3>2. IsStore(s) /\ s.my_bitfield = store.my_bitfield
      <4>1. s.my_bitfield = store.my_bitfield
        BY Tame DEF IsStore, set_peer_choking
      <4>2. Chokes(store, s, r, TRUE)
        BY Known, ChokingRequests
      <4> QED
        BY <4>1, <4>2 DEF Chokes, Good
    <3> HIDE DEF s
    <3> QED
      BY <3>1, <3>2, MyPiecesStay
  <2>4. CASE UnchokeArrives(r)
    BY <2>4, Tame DEF UnchokeArrives, IsStore, set_peer_choking
  <2>5. CASE CloseArrives(r)
    BY <2>5, Tame, MyPiecesStay DEF CloseArrives
  <2>6. CASE SelectPiece(r)
    BY <2>6 DEF SelectPiece
  <2>7. CASE Reserve(r)
    BY <2>7, Tame DEF Reserve, IsStore, reserve_request
  <2> QED
    BY <2>1, <2>2, <2>3, <2>4, <2>5, <2>6, <2>7
<1>4. ~Finishing(r) \/ Finishing(r)'
  BY <1>2 DEF Finishing
<1> QED
  BY <1>1, <1>2, <1>3, <1>4, FilesUntouched DEF AssemblySteps

\* Interest is synchronised on the way to the assembly.
LEMMA SyncKeepsFiles ==
    ASSUME RInv, FInv, NEW r \in Neighbor,
           \/ DecideReply(r) \/ SyncNext(r) \/ SyncDone(r) \/ SyncCompare(r)
           \/ SyncSet(r) \/ SyncSend(r)
    PROVE  FInv'
<1>1. UNCHANGED <<disk, completion_logged, all_done>> /\ Sticky
  BY Tame DEF DecideReply, SyncNext, SyncDone, SyncCompare, SyncSet, SyncSend
<1>2. store'.my_bitfield = store.my_bitfield
  <2>1. CASE SyncSet(r)
    BY <2>1, Tame DEF SyncSet, IsStore, set_am_interested
  <2>2. CASE ~SyncSet(r)
    BY <2>2 DEF DecideReply, SyncNext, SyncDone, SyncCompare, SyncSend
  <2> QED
    BY <2>1, <2>2
<1>3. /\ Others(r) /\ thread[r].pc \in {"reply", "sync", "compare", "set", "send"}
      /\ thread'[r].piece = thread[r].piece
      /\ \/ thread'[r].pc \in {"sync", "compare", "set", "send"}
         \/ thread'[r].pc = "complete"
         \/ thread'[r].pc = "terminate" /\ thread[r].piece = None
  <2>1. CASE DecideReply(r)
    BY <2>1, Tame DEF DecideReply, At, Others, Thread
  <2>2. CASE SyncNext(r)
    <3>1. PICK q \in thread[r].rest :
             thread' = [thread EXCEPT
               ![r].rest = @ \ {q},
               ![r].pc = IF q \in connections THEN "compare" ELSE "sync",
               ![r].about = q,
               ![r].missing = get_interesting_pieces(store, q) # {}]
      BY <2>2 DEF SyncNext
    <3> DEFINE b == get_interesting_pieces(store, q) # {}
               k == IF q \in connections THEN "compare" ELSE "sync"
               t == [thread[r] EXCEPT !.rest = @ \ {q}, !.pc = k, !.about = q,
                                      !.missing = b]
    <3>2. thread[r] \in Thread /\ thread[r].pc = "sync"
      BY <2>2, Tame DEF SyncNext, At
    <3>3. thread' = [thread EXCEPT ![r] = t] /\ k \in {"compare", "sync"}
      BY <3>1
    <3> HIDE DEF b, k
    <3>4. t.pc = k /\ t.piece = thread[r].piece
      BY <3>2 DEF Thread
    <3> QED
      BY <3>2, <3>3, <3>4, Tame DEF Others
  <2>3. CASE SyncDone(r)
    BY <2>3, GoesKeeps DEF SyncDone, At
  <2>4. CASE SyncCompare(r)
    BY <2>4, GoesKeeps DEF SyncCompare, At
  <2>5. CASE SyncSet(r) \/ SyncSend(r)
    BY <2>5, GoesKeeps DEF SyncSet, SyncSend, At
  <2> QED
    BY <2>1, <2>2, <2>3, <2>4, <2>5
<1>4. Finishing(r) => Finishing(r)'
  BY <1>3 DEF Finishing
<1> QED
  BY <1>1, <1>2, <1>3, <1>4, FilesUntouched DEF AssemblySteps

\* The end of a message: is everything done?
LEMMA EndKeepsFiles ==
    ASSUME RInv, FInv, NEW r \in Neighbor, CheckTermination(r) \/ Close(r)
    PROVE  FInv'
<1>1. UNCHANGED <<disk, completion_logged, store>> /\ Sticky
  BY Tame DEF CheckTermination, Close
<1>2. all_done' => all_done \/ completion_logged
  BY DEF CheckTermination, Close, Terminates
<1>3. Others(r) /\ thread[r].pc \in {"terminate", "closing"} /\ thread'[r].pc \in {"idle", "gone"}
  BY FinishesIdle, GoesKeeps DEF CheckTermination, Close, At
<1>4. ~Finishing(r)
  BY <1>3 DEF Finishing
<1> QED
  BY <1>1, <1>2, <1>3, <1>4, FilesUntouched DEF AssemblySteps

-----------------------------------------------------------------------------
(* The writes. *)

LEMMA PieceArrivesFiles ==
    ASSUME RInv, FInv, NEW r \in Neighbor, PieceArrives(r)
    PROVE  FInv'
<1> DEFINE i == Head(wire[r])
<1>1. /\ thread[r].pc = "idle"
      /\ disk' = WriteOpened(disk, i)
      /\ thread' = [thread EXCEPT ![r].pc = "write", ![r].piece = i]
      /\ UNCHANGED <<store, completion_logged, all_done>> /\ Sticky
  BY Tame DEF PieceArrives, Waiting, At
<1> HIDE DEF i
<1>2. Others(r) /\ thread'[r].pc = "write" /\ thread'[r].piece = i
  BY <1>1, Tame DEF Others, Thread
<1>3. /\ disk'.pieces = disk.pieces \ {i} /\ disk'.torn = disk.torn \cup {i}
      /\ disk'.exists = disk.exists /\ disk'.content = disk.content
  BY <1>1, Tame DEF IsDisk, WriteOpened
<1>4. FileOK' /\ AloneOK'
  BY <1>1, <1>2, <1>3, FileKept DEF FInv, Finishing
<1>5. disk.pieces \cup disk.torn \subseteq disk'.pieces \cup disk'.torn
  BY <1>3
<1>6. ASSUME NEW q \in Neighbor
      PROVE  /\ thread'[q].pc = "mark" => thread'[q].piece \in disk'.pieces \cup disk'.torn
             /\ thread'[q].pc \in AssemblySteps => has_complete_file(store')
  BY <1>1, <1>2, <1>5, ZenonT(30) DEF FInv, PiecesOK, Others, AssemblySteps
<1>7. ASSUME faults' = 0, NEW j \in disk'.torn
      PROVE  \E q \in Neighbor : thread'[q].pc = "write" /\ thread'[q].piece = j
  <2>1. CASE j = i
    BY <1>2, <2>1
  <2>2. CASE j # i
    <3>1. PICK q \in Neighbor : thread[q].pc = "write" /\ thread[q].piece = j
      BY <1>1, <1>3, <1>7, <2>2 DEF FInv, PiecesOK, Sticky
    <3> QED
      BY <1>1, <1>2, <3>1 DEF Others
  <2> QED
    BY <2>1, <2>2
<1>8. disk'.pieces \cap disk'.torn = {} /\ store'.my_bitfield \subseteq disk'.pieces \cup disk'.torn
  BY <1>1, <1>3, <1>5 DEF FInv, PiecesOK
<1>9. PiecesOK'
  BY <1>6, <1>7, <1>8 DEF PiecesOK
<1> QED
  BY <1>4, <1>9 DEF FInv

LEMMA WritePieceFiles ==
    ASSUME RInv, FInv, NEW r \in Neighbor, WritePiece(r)
    PROVE  FInv'
<1> DEFINE i == thread[r].piece
<1>1. /\ thread[r].pc = "write"
      /\ disk' = WriteDone(disk, i)
      /\ UNCHANGED <<completion_logged, all_done>> /\ Sticky
  BY Tame DEF WritePiece, At
<1>2. Others(r) /\ thread'[r].pc = "mark" /\ thread'[r].piece = i
  BY GoesKeeps DEF WritePiece
<1>3. store'.my_bitfield = store.my_bitfield
  BY Tame, MyPiecesStay DEF WritePiece
<1> HIDE DEF i
<1>4. /\ disk'.pieces = disk.pieces \cup {i} /\ disk'.torn = disk.torn \ {i}
      /\ disk'.exists = disk.exists /\ disk'.content = disk.content
  BY <1>1, Tame DEF IsDisk, WriteDone
<1>5. FileOK' /\ AloneOK'
  BY <1>1, <1>2, <1>3, <1>4, FileKept DEF FInv, Finishing
<1>6. disk.pieces \cup disk.torn \subseteq disk'.pieces \cup disk'.torn /\ i \in disk'.pieces
  BY <1>4
<1>7. ASSUME NEW q \in Neighbor
      PROVE  /\ thread'[q].pc = "mark" => thread'[q].piece \in disk'.pieces \cup disk'.torn
             /\ thread'[q].pc \in AssemblySteps => has_complete_file(store')
  BY <1>2, <1>3, <1>6 DEF FInv, PiecesOK, Others, AssemblySteps, has_complete_file
<1>8. ASSUME faults' = 0, NEW j \in disk'.torn
      PROVE  \E q \in Neighbor : thread'[q].pc = "write" /\ thread'[q].piece = j
  <2>1. PICK q \in Neighbor : thread[q].pc = "write" /\ thread[q].piece = j
    BY <1>1, <1>4, <1>8 DEF FInv, PiecesOK, Sticky
  <2>2. q # r
    BY <1>4, <1>8, <2>1 DEF i
  <2> QED
    BY <1>2, <2>1, <2>2 DEF Others
<1>9. disk'.pieces \cap disk'.torn = {} /\ store'.my_bitfield \subseteq disk'.pieces \cup disk'.torn
  BY <1>3, <1>4, <1>6 DEF FInv, PiecesOK
<1>10. PiecesOK'
  BY <1>7, <1>8, <1>9 DEF PiecesOK
<1> QED
  BY <1>5, <1>10 DEF FInv

LEMMA WriteFailsFiles ==
    ASSUME RInv, FInv, NEW r \in Neighbor, WriteFails(r)
    PROVE  FInv'
<1>1. /\ thread[r].pc = "write" /\ Others(r) /\ thread'[r].pc = "idle"
      /\ UNCHANGED <<disk, completion_logged, all_done>> /\ Sticky /\ faults' # 0
  BY Tame, FinishesIdle DEF WriteFails, At
<1>2. store'.my_bitfield = store.my_bitfield
  BY Tame, MyPiecesStay DEF WriteFails
<1>3. PiecesOK'
  BY <1>1, <1>2, PiecesKept DEF FInv, AssemblySteps
<1>4. FileOK' /\ AloneOK'
  BY <1>1, <1>2, FileKept DEF FInv, Finishing
<1> QED
  BY <1>3, <1>4 DEF FInv

LEMMA MarkDownloadedFiles ==
    ASSUME RInv, FInv, NEW r \in Neighbor, MarkDownloaded(r)
    PROVE  FInv'
<1> DEFINE i == thread[r].piece
<1>1. /\ thread[r].pc = "mark" /\ i \in Piece
      /\ UNCHANGED <<disk, completion_logged, all_done>> /\ Sticky /\ UNCHANGED <<faults, mishaps>>
      /\ store'.my_bitfield = store.my_bitfield \cup {i} /\ store.my_bitfield \subseteq Piece
  BY Tame DEF MarkDownloaded, At, ThreadOK, Fits, mark_piece_downloaded, IsStore
<1>2. Others(r) /\ thread'[r].pc = "sync" /\ thread'[r].piece = i
  BY Tame DEF MarkDownloaded, Others, Thread
<1>3. has_complete_file(store) => has_complete_file(store')
  BY <1>1 DEF has_complete_file, Complete
<1>4. Finishing(r)' /\ ~Finishing(r) /\ i # None
  BY <1>1, <1>2, Constants DEF Finishing
<1> HIDE DEF i
<1>5. ASSUME NEW q \in Neighbor
      PROVE  /\ thread'[q].pc = "mark" => thread'[q].piece \in disk.pieces \cup disk.torn
             /\ thread'[q].pc \in AssemblySteps => has_complete_file(store')
  BY <1>2, <1>3 DEF FInv, PiecesOK, Others, AssemblySteps
<1>6. ASSUME faults' = 0, NEW j \in disk'.torn
      PROVE  \E q \in Neighbor : thread'[q].pc = "write" /\ thread'[q].piece = j
  BY <1>1, <1>2, <1>6 DEF FInv, PiecesOK, Others
<1>7. store'.my_bitfield \subseteq disk'.pieces \cup disk'.torn
  BY <1>1 DEF FInv, PiecesOK, i
<1>8. PiecesOK'
  BY <1>1, <1>5, <1>6, <1>7 DEF FInv, PiecesOK
<1>9. ASSUME NEW q \in Neighbor
      PROVE  /\ thread'[q].pc \in {"append", "log"} <=> thread[q].pc \in {"append", "log"}
             /\ thread'[q].pc \in {"append", "log"} => thread'[q] = thread[q]
             /\ \A m : Appends(q, m)' <=> Appends(q, m)
  BY <1>1, <1>2 DEF Others, Appends
<1>10. \A m : Right(m)' <=> Right(m)
  BY <1>1 DEF Right
<1>11. FileOK'
  BY <1>1, <1>4, <1>9, <1>10 DEF FInv, FileOK, Calm
<1>12. AloneOK'
  BY <1>1, <1>9 DEF FInv, AloneOK, Clean
<1> QED
  BY <1>8, <1>11, <1>12 DEF FInv

\* With the complete file on to the assembly, unless it was logged.
LEMMA CheckCompleteFiles ==
    ASSUME RInv, FInv, NEW r \in Neighbor, CheckComplete(r)
    PROVE  FInv'
<1>1. /\ thread[r].pc = "complete" /\ Others(r)
      /\ \/ thread'[r].pc = "select" /\ ~has_complete_file(store)
         \/ thread'[r].pc = "terminate" /\ completion_logged
         \/ thread'[r].pc = "assemble" /\ has_complete_file(store)
      /\ UNCHANGED <<store, disk, completion_logged, all_done>> /\ Sticky
  <2>1. CASE ~has_complete_file(store)
    BY <2>1, Tame, GoesKeeps DEF CheckComplete, At
  <2>2. CASE has_complete_file(store) /\ completion_logged
    BY <2>2, Tame, GoesKeeps DEF CheckComplete, At
  <2>3. CASE has_complete_file(store) /\ ~completion_logged
    BY <2>3, Tame, GoesKeeps DEF CheckComplete, At
  <2> QED
    BY <2>1, <2>2, <2>3
<1>2. PiecesOK'
  BY <1>1, PiecesKept DEF FInv, AssemblySteps
<1>3. thread'[r].pc = "terminate" => disk.exists \/ faults' # 0
  BY <1>1 DEF FInv, FileOK, Sticky
<1>4. FileOK' /\ AloneOK'
  BY <1>1, <1>3, FileKept DEF FInv, Finishing
<1> QED
  BY <1>2, <1>4 DEF FInv

\* The file that exists is complete, or somebody is still filling it.
LEMMA CheckExistsFiles ==
    ASSUME RInv, FInv, NEW r \in Neighbor, CheckExists(r)
    PROVE  FInv'
<1>1. /\ thread[r].pc = "assemble" /\ Others(r)
      /\ \/ thread'[r].pc = "log" /\ disk.exists
         \/ thread'[r].pc = "open"
      /\ UNCHANGED <<store, disk, completion_logged, all_done, faults>>
  BY GoesKeeps DEF CheckExists, At
<1>2. mishaps' = mishaps \cup { m \in {"early"} : \E q \in Neighbor : Assembling(q) }
  BY DEF CheckExists
<1>3. Sticky
  BY <1>1, <1>2 DEF Sticky
<1>4. Clean' => \A q \in Neighbor : thread[q].pc # "append"
  BY <1>2 DEF Clean, Assembling, At
<1>5. PiecesOK'
  BY <1>1, <1>3, PiecesKept DEF FInv, PiecesOK, AssemblySteps
<1>6. completion_logged => disk.exists \/ faults' # 0
  BY <1>1 DEF FInv, FileOK
<1>7. FileOK' /\ AloneOK'
  BY <1>1, <1>3, <1>4, <1>6, FileSettles DEF FInv, Finishing
<1> QED
  BY <1>5, <1>7 DEF FInv

LEMMA AssembleFailsFiles ==
    ASSUME RInv, FInv, NEW r \in Neighbor, AssembleFails(r)
    PROVE  FInv'
<1>1. /\ thread[r].pc \in {"open", "append"} /\ Others(r) /\ thread'[r].pc = "log"
      /\ UNCHANGED <<store, disk, completion_logged, all_done>> /\ Sticky /\ faults' # 0
  BY Tame, GoesKeeps DEF AssembleFails
<1>2. PiecesOK'
  BY <1>1, PiecesKept DEF FInv, PiecesOK, AssemblySteps
<1>3. ~Clean'
  BY <1>1 DEF Clean
<1>4. FileOK' /\ AloneOK'
  BY <1>1, <1>3, FileSettles DEF FInv
<1> QED
  BY <1>2, <1>4 DEF FInv

LEMMA LogCompletionFiles ==
    ASSUME RInv, FInv, NEW r \in Neighbor, LogCompletion(r)
    PROVE  FInv'
<1>1. /\ thread[r].pc = "log" /\ Others(r) /\ thread'[r].pc = "terminate"
      /\ UNCHANGED <<store, disk, all_done>> /\ Sticky /\ completion_logged'
  BY Tame, GoesKeeps DEF LogCompletion, At
<1>2. PiecesOK'
  BY <1>1, PiecesKept DEF FInv, AssemblySteps
<1>3. disk.exists \/ faults' # 0
  BY <1>1 DEF FInv, FileOK, Sticky
<1>4. Clean' => \A q \in Neighbor : thread[q].pc # "append"
  BY <1>1 DEF FInv, AloneOK, Clean, Sticky
<1>5. FileOK' /\ AloneOK'
  BY <1>1, <1>3, <1>4, FileSettles DEF FInv, Finishing
<1> QED
  BY <1>2, <1>5 DEF FInv

\* The file starts empty, and the thread that truncates it fills it again.
LEMMA OpenCompleteFiles ==
    ASSUME RInv, FInv, NEW r \in Neighbor, OpenComplete(r)
    PROVE  FInv'
<1>1. /\ thread[r].pc = "open" /\ Others(r) /\ thread'[r].pc = "append"
      /\ thread'[r].next = 0 /\ thread'[r].slot = 0
      /\ UNCHANGED <<store, completion_logged, all_done, faults>>
  BY Tame, GoesKeeps DEF OpenComplete, At, ThreadOK, Fits
<1>2. /\ disk'.pieces = disk.pieces /\ disk'.torn = disk.torn
      /\ disk'.exists /\ disk'.content = << >>
  BY Tame DEF OpenComplete, Opened, IsDisk
<1>3. mishaps' = mishaps \cup { m \in {"twice"} : disk.exists }
  BY DEF OpenComplete
<1>4. Sticky /\ (Clean' => ~disk.exists)
  BY <1>1, <1>3 DEF Sticky, Clean
<1>5. PiecesOK'
  BY <1>1, <1>2, <1>4, PiecesKept DEF FInv, PiecesOK, AssemblySteps
<1>6. ASSUME Calm'
      PROVE  /\ \A q \in Neighbor : thread'[q].pc = "append" => thread'[q].slot = thread'[q].next
             /\ Len(disk'.content) <= NumPieces
             /\ \A m \in 1 .. NumPieces : Appends(r, m)'
  <2>1. Calm
    BY <1>4, <1>6 DEF Calm, Sticky
  <2>2. Len(disk'.content) = 0 /\ NumPieces \in Nat
    BY <1>2, Constants
  <2> QED
    BY <1>1, <2>1, <2>2 DEF FInv, FileOK, Others, Appends
<1>7. FileOK'
  BY <1>1, <1>2, <1>6 DEF FInv, FileOK
<1>8. ASSUME Clean'
      PROVE  /\ \A q \in Neighbor \ {r} : thread'[q].pc # "append"
             /\ Len(disk'.content) = thread'[r].next
             /\ ~completion_logged' /\ \A q \in Neighbor : thread'[q].pc # "log"
  <2>1. ~disk.exists /\ faults = 0
    BY <1>1, <1>4, <1>8 DEF Clean
  <2>2. /\ \A q \in Neighbor : thread[q].pc \notin {"append", "log"}
        /\ ~completion_logged
    BY <2>1 DEF FInv, FileOK
  <2> QED
    BY <1>1, <1>2, <2>2 DEF Others
<1>9. AloneOK'
  BY <1>8 DEF AloneOK
<1> QED
  BY <1>5, <1>7, <1>9 DEF FInv

\* A piece is written over its own slot.
LEMMA WrittenKeeps ==
    ASSUME NEW S, NEW c \in Seq(S), NEW n \in Nat, NEW i
    PROVE  /\ Len(Written(c, n, i)) = IF n >= Len(c) THEN n + 1 ELSE Len(c)
           /\ Written(c, n, i)[n + 1] = i
           /\ \A m \in 1 .. Len(c) : m # n + 1 => Written(c, n, i)[m] = c[m]
<1> DEFINE k == IF n >= Len(c) THEN n + 1 ELSE Len(c)
<1>1. Len(c) \in Nat /\ k \in Nat /\ n + 1 \in 1 .. k /\ 1 .. Len(c) \subseteq 1 .. k
  BY LenProperties
<1>2. Written(c, n, i) = [m \in 1 .. k |-> Written(c, n, i)[m]]
  BY DEF Written
<1>3. Len(Written(c, n, i)) = k
  BY <1>1, <1>2
<1>4. Written(c, n, i)[n + 1] = i
  BY <1>1 DEF Written
<1>5. ASSUME NEW m \in 1 .. Len(c), m # n + 1
      PROVE  Written(c, n, i)[m] = c[m]
  BY <1>1, <1>5 DEF Written
<1> QED
  BY <1>3, <1>4, <1>5

LEMMA AppendPieceFiles ==
    ASSUME RInv, FInv, NEW r \in Neighbor, AppendPiece(r)
    PROVE  FInv'
<1> DEFINE i == thread[r].next
           n == thread[r].slot
<1>1. /\ thread[r] \in Thread /\ thread[r].pc = "append"
      /\ i \in Nat /\ n \in Nat /\ i < NumPieces /\ NumPieces \in Nat
  BY Tame, Constants DEF ThreadOK, Fits, Thread, AppendPiece, At
<1>2. /\ disk' = Appended(disk, n, i)
      /\ UNCHANGED <<store, completion_logged, all_done, faults>>
      /\ mishaps' = mishaps \cup { m \in {"short"} : i \in disk.torn }
  BY DEF AppendPiece
<1>3. /\ Others(r)
      /\ thread'[r].next = i + 1
      /\ thread'[r].slot = IF i \in disk.pieces THEN n + 1 ELSE n
      /\ thread'[r].pc = IF i + 1 = NumPieces THEN "log" ELSE "append"
  <2> DEFINE m == IF i \in disk.pieces THEN n + 1 ELSE n
             k == IF i + 1 = NumPieces THEN "log" ELSE "append"
             t == [thread[r] EXCEPT !.next = i + 1, !.slot = m, !.pc = k]
  <2>1. thread' = [thread EXCEPT ![r] = t]
    BY DEF AppendPiece
  <2> HIDE DEF m, k, i
  <2>2. t.next = i + 1 /\ t.slot = m /\ t.pc = k
    BY <1>1 DEF Thread
  <2> HIDE DEF t
  <2>3. Others(r) /\ thread'[r] = t
    BY <2>1, Tame DEF Others
  <2> QED
    BY <2>2, <2>3 DEF m, k, i
<1>4. has_complete_file(store) /\ disk.exists /\ i \in store.my_bitfield
  <2>1. has_complete_file(store) /\ disk.exists
    BY <1>1 DEF FInv, PiecesOK, FileOK, AssemblySteps
  <2>2. i \in Piece
    BY <1>1, Constants
  <2> QED
    BY <2>1, <2>2 DEF has_complete_file, Complete
<1> HIDE DEF i, n
<1>5. /\ disk'.pieces = disk.pieces /\ disk'.torn = disk.torn /\ disk'.exists
      /\ i \in disk.pieces => disk'.content = Written(disk.content, n, i)
  BY <1>2, <1>4, Tame DEF Appended, IsDisk
<1>6. Sticky
  BY <1>2 DEF Sticky
<1>7. PiecesOK'
  BY <1>1, <1>2, <1>3, <1>4, <1>5, <1>6, PiecesKept DEF AssemblySteps, FInv
<1>8. ASSUME Calm'
      PROVE  /\ Calm /\ i \in disk.pieces /\ n = i
             /\ disk'.content = Written(disk.content, i, i)
  <2>1. Calm
    BY <1>6, <1>8 DEF Calm, Sticky
  <2>2. i \notin disk.torn
    BY <1>2, <1>8 DEF Calm
  <2>3. i \in disk.pieces
    BY <1>4, <2>2 DEF FInv, PiecesOK
  <2>4. n = i
    BY <1>1, <2>1 DEF FInv, FileOK, i, n
  <2> QED
    BY <1>5, <2>1, <2>3, <2>4
<1>9. disk.content \in Seq(Indices \cup {Zeros})
  BY Tame DEF IsDisk
<1>10. ASSUME Calm'
       PROVE  /\ Len(disk'.content) = IF i >= Len(disk.content) THEN i + 1
                                      ELSE Len(disk.content)
              /\ disk'.content[i + 1] = i
              /\ \A m \in 1 .. Len(disk.content) :
                    m # i + 1 => disk'.content[m] = disk.content[m]
  <2> DEFINE c == disk.content
             S == Indices \cup {Zeros}
  <2>1. c \in Seq(S) /\ i \in Nat
    BY <1>1, <1>9
  <2> HIDE DEF c, S
  <2>2. /\ Len(Written(c, i, i)) = IF i >= Len(c) THEN i + 1 ELSE Len(c)
        /\ Written(c, i, i)[i + 1] = i
        /\ \A m \in 1 .. Len(c) : m # i + 1 => Written(c, i, i)[m] = c[m]
    BY <2>1, WrittenKeeps
  <2>3. disk'.content = Written(c, i, i)
    BY <1>8, <1>10 DEF c
  <2> QED
    BY <2>2, <2>3 DEF c
<1>11. Len(disk.content) \in Nat
  BY <1>9, LenProperties
<1>12. ASSUME Calm', NEW m \in 1 .. NumPieces
       PROVE  Right(m)' \/ \E q \in Neighbor : Appends(q, m)'
  <2>1. CASE m = i + 1
    BY <1>1, <1>10, <1>11, <1>12, <2>1 DEF Right
  <2>2. CASE m # i + 1 /\ Right(m)
    BY <1>1, <1>10, <1>11, <1>12, <2>2 DEF Right
  <2>3. CASE m # i + 1 /\ Appends(r, m)
    <3>1. i + 1 < m
      BY <1>1, <2>3 DEF Appends, i
    <3> QED
      BY <1>1, <1>3, <3>1 DEF Appends
  <2>4. CASE \E q \in Neighbor \ {r} : Appends(q, m)
    BY <1>3, <2>4 DEF Others, Appends
  <2> QED
    BY <1>4, <1>8, <1>12, <2>1, <2>2, <2>3, <2>4 DEF FInv, FileOK
<1>13. ASSUME Calm'
       PROVE  /\ \A q \in Neighbor : thread'[q].pc = "append" => thread'[q].slot = thread'[q].next
              /\ Len(disk'.content) <= NumPieces
  <2>1. \A q \in Neighbor : thread'[q].pc = "append" => thread'[q].slot = thread'[q].next
    BY <1>3, <1>8, <1>13 DEF FInv, FileOK, Others
  <2>2. Len(disk.content) <= NumPieces
    BY <1>4, <1>8, <1>13 DEF FInv, FileOK
  <2> QED
    BY <1>1, <1>10, <1>11, <1>13, <2>1, <2>2
<1>14. FileOK'
  BY <1>2, <1>5, <1>12, <1>13 DEF FInv, FileOK
<1>15. ASSUME Clean'
       PROVE  /\ \A q \in Neighbor \ {r} : thread'[q].pc # "append"
              /\ Len(disk'.content) = i + 1
              /\ ~completion_logged' /\ \A q \in Neighbor \ {r} : thread'[q].pc # "log"
  <2>1. Clean /\ Calm'
    BY <1>6, <1>15 DEF Clean, Calm, Sticky
  <2>2. /\ \A q \in Neighbor \ {r} : thread[q].pc \notin {"append", "log"}
        /\ ~completion_logged /\ Len(disk.content) = i
    BY <1>1, <2>1 DEF FInv, AloneOK, i
  <2> QED
    BY <1>1, <1>2, <1>3, <1>10, <2>1, <2>2 DEF Others
<1>16. AloneOK'
  BY <1>3, <1>15 DEF AloneOK
<1> QED
  BY <1>7, <1>14, <1>16 DEF FInv

-----------------------------------------------------------------------------

LEMMA InitFInv == Init => FInv
<1> SUFFICES ASSUME Init PROVE FInv
  OBVIOUS
<1>1. /\ store.my_bitfield = {} /\ disk = NewDisk
      /\ \A r \in Neighbor : thread[r].pc = "idle"
      /\ ~completion_logged /\ ~all_done
  BY DEF Init, NewStore, Idle
<1>2. ~has_complete_file(store)
  BY <1>1, PieceAssumption DEF has_complete_file, Complete
<1>3. PiecesOK
  BY <1>1 DEF PiecesOK, NewDisk, AssemblySteps
<1>4. FileOK
  BY <1>1, <1>2 DEF FileOK, NewDisk
<1>5. AloneOK
  BY <1>1 DEF AloneOK
<1> QED
  BY <1>3, <1>4, <1>5 DEF FInv

LEMMA StutterFiles ==
    ASSUME FInv, UNCHANGED vars
    PROVE  FInv'
  BY DEF vars, FInv, PiecesOK, FileOK, AloneOK, Calm, Clean, Appends, Right, Finishing

LEMMA NextFInv == RInv /\ FInv /\ [Next]_vars => FInv'
<1> SUFFICES ASSUME RInv, FInv, [Next]_vars PROVE FInv'
  OBVIOUS
<1>1. CASE UNCHANGED vars
  BY <1>1, StutterFiles
<1>2. ASSUME NEW r \in Neighbor, Arrives(r) PROVE FInv'
  BY <1>2, MessagesKeepFiles, PieceArrivesFiles DEF Arrives
<1>3. ASSUME NEW r \in Neighbor, Handle(r) PROVE FInv'
  BY <1>3, MessagesKeepFiles, SyncKeepsFiles, WritePieceFiles, MarkDownloadedFiles,
     CheckCompleteFiles, CheckExistsFiles, OpenCompleteFiles, AppendPieceFiles,
     LogCompletionFiles, EndKeepsFiles DEF Handle
<1>4. ASSUME NEW r \in Neighbor, Fails(r) PROVE FInv'
  BY <1>4, WriteFailsFiles, AssembleFailsFiles DEF Fails
<1> QED
  BY <1>1, <1>2, <1>3, <1>4 DEF Next

\* A file that nobody is filling is whole.
LEMMA WholeUnfilled ==
    ASSUME RInv, FInv, Calm, disk.exists,
           \A r \in Neighbor : thread[r].pc # "append"
    PROVE  Whole(disk)
<1> DEFINE c == disk.content
<1>1. c \in Seq(Indices \cup {Zeros}) /\ NumPieces \in Nat \ {0}
  BY Tame, Constants DEF IsDisk
<1>2. \A m \in 1 .. NumPieces : m <= Len(c) /\ c[m] = m - 1
  BY DEF FInv, FileOK, Appends, Right
<1>3. Len(c) <= NumPieces
  BY DEF FInv, FileOK
<1> HIDE DEF c
<1>4. Len(c) = NumPieces
  <2>1. Len(c) \in Nat
    BY <1>1, LenProperties
  <2>2. NumPieces <= Len(c)
    BY <1>1, <1>2
  <2> QED
    BY <1>1, <1>3, <2>1, <2>2
<1>5. c = [n \in 1 .. NumPieces |-> n - 1]
  <2>1. c = [n \in 1 .. Len(c) |-> c[n]]
    BY <1>1
  <2>2. [n \in 1 .. NumPieces |-> c[n]] = [n \in 1 .. NumPieces |-> n - 1]
    BY <1>2
  <2> QED
    BY <1>4, <2>1, <2>2
<1> QED
  BY <1>5 DEF Whole, c

LEMMA FilesReadBack == RInv /\ FInv => ReadsBack
<1> SUFFICES ASSUME RInv, FInv, mishaps = {}, faults = 0, NEW i \in store.my_bitfield
             PROVE  \/ read_piece(disk, i) = i
                    \/ /\ read_piece(disk, i) = Failure
                       /\ \/ \E r \in Neighbor : Assembling(r)
                          \/ \E r \in Neighbor : At(r, "write") /\ thread[r].piece = i
  BY DEF ReadsBack
<1>1. Clean /\ Calm
  BY DEF Clean, Calm
<1>2. i \in 0 .. NumPieces - 1 /\ NumPieces \in Nat
  BY Tame, Constants DEF IsStore
<1>3. CASE ~disk.exists
  BY <1>1, <1>3 DEF FInv, PiecesOK, read_piece, At
<1>4. CASE disk.exists /\ \A r \in Neighbor : thread[r].pc # "append"
  <2>1. disk.content = [n \in 1 .. NumPieces |-> n - 1]
    BY <1>1, <1>4, WholeUnfilled DEF Whole
  <2>2. i < Len(disk.content) /\ disk.content[i + 1] = i
    BY <1>2, <2>1
  <2> QED
    BY <1>4, <2>2 DEF read_piece
<1>5. ASSUME disk.exists, NEW r \in Neighbor, thread[r].pc = "append"
      PROVE  read_piece(disk, i) = i \/ read_piece(disk, i) = Failure
  <2>1. CASE i < Len(disk.content)
    <3>1. Right(i + 1) \/ \E q \in Neighbor : Appends(q, i + 1)
      BY <1>1, <1>2, <1>5 DEF FInv, FileOK
    <3>2. \A q \in Neighbor : ~Appends(q, i + 1)
      <4>1. ASSUME NEW q \in Neighbor, Appends(q, i + 1) PROVE FALSE
        <5>1. Len(disk.content) = thread[q].next /\ thread[q].next < i + 1
          BY <1>1, <4>1 DEF FInv, AloneOK, Appends
        <5>2. thread[q].next \in Nat
          BY Tame, Constants DEF Thread
        <5> QED
          BY <1>2, <2>1, <5>1, <5>2
      <4> QED
        BY <4>1
    <3>3. disk.content[i + 1] = i
      BY <1>2, <3>1, <3>2 DEF Right
    <3> QED
      BY <1>5, <2>1, <3>3 DEF read_piece
  <2>2. CASE ~(i < Len(disk.content))
    BY <1>5, <2>2 DEF read_piece
  <2> QED
    BY <2>1, <2>2
<1> QED
  BY <1>3, <1>4, <1>5 DEF Assembling, At

\* What is written, opened, appended and logged fits together in every state of
\* every run, whatever the threads do to each other.
THEOREM FilesInvariance == Spec => []FInv
<1>1. Init => RInv /\ FInv
  BY InitRInv, InitFInv
<1>2. (RInv /\ FInv) /\ [Next]_vars => (RInv /\ FInv)'
  BY NextRInv, NextFInv
<1> QED
  BY <1>1, <1>2, PTL DEF Spec

\* Every piece that was announced reads back, unless the complete file is being
\* filled or the piece is being written again (file_manager.py:56-100).
THEOREM PiecesReadBack == Spec => []ReadsBack
  BY FilesReadBack, Invariance, FilesInvariance, PTL

\* However two assemblies collide, the file is whole when the threads rest,
\* unless one of them read a piece file that was empty (peer_network.py:513-519).
THEOREM AssembledAtRest == Spec => []AssembledInTheEnd
<1>1. RInv /\ FInv => AssembledInTheEnd
  <2> SUFFICES ASSUME RInv, FInv, AtRest, has_complete_file(store),
                      "short" \notin mishaps, faults = 0
               PROVE  Whole(disk)
    BY DEF AssembledInTheEnd
  <2>1. \A r \in Neighbor : thread[r].pc # "append" /\ ~Finishing(r)
    BY DEF AtRest, Finishing
  <2>2. disk.exists
    BY <2>1 DEF FInv, FileOK
  <2> QED
    BY <2>1, <2>2, WholeUnfilled DEF Calm
<1> QED
  BY <1>1, Invariance, FilesInvariance, PTL

\* The peer is done only when its file is whole, if one thread assembled it
\* undisturbed (peer_network.py:535-545).
THEOREM AssembledWhenDone == Spec => []DoneMeansAssembled
<1>1. RInv /\ FInv => DoneMeansAssembled
  <2> SUFFICES ASSUME RInv, FInv, all_done, mishaps = {}, faults = 0
               PROVE  Whole(disk)
    BY DEF DoneMeansAssembled
  <2>1. Clean /\ Calm /\ completion_logged
    BY DEF Clean, Calm, FInv, FileOK
  <2>2. disk.exists /\ \A r \in Neighbor : thread[r].pc # "append"
    BY <2>1 DEF FInv, FileOK, AloneOK
  <2> QED
    BY <2>1, <2>2, WholeUnfilled
<1> QED
  BY <1>1, Invariance, FilesInvariance, PTL

-----------------------------------------------------------------------------
(* The interest: an invariant about what a neighbour was told of it. *)

Missing(q) == get_interesting_pieces(store, q) # {}

\* Thread r is about to change, or to tell, the interest in q.
Syncs(r, q) == thread[r].pc \in {"compare", "set", "send"} /\ thread[r].about = q

Going == {"sync", "compare", "set", "send"}

\* A thread has still to read what is missing of q.
WillSync(q) ==
    \/ thread[q].pc = "reply"
    \/ \E r \in Neighbor : thread[r].pc \in Going /\ q \in thread[r].rest

\* One thread at most synchronises q; q was told what is stored, until that
\* thread sends; and what is missing is read again, is being told, or was told.
InterestOK(q) ==
    /\ \A r, s \in Neighbor : Syncs(r, q) /\ Syncs(s, q) => r = s
    /\ \A r \in Neighbor :
          Syncs(r, q) /\ thread[r].pc = "send" =>
              (is_am_interested_in_peer(store, q) <=> thread[r].missing)
    /\ (\A r \in Neighbor : ~(Syncs(r, q) /\ thread[r].pc = "send")) =>
          (told[q] <=> is_am_interested_in_peer(store, q))
    /\ \/ WillSync(q)
       \/ \E r \in Neighbor : Syncs(r, q) /\ (thread[r].missing <=> Missing(q))
       \/ (\A r \in Neighbor : ~Syncs(r, q)) /\ (told[q] <=> Missing(q))

InterestsOK == \A q \in connections \ contended : InterestOK(q)

\* The interest in q, and what calls for it, are the same in s and t.
Alike(s, t, q) ==
    /\ is_am_interested_in_peer(t, q) <=> is_am_interested_in_peer(s, q)
    /\ get_interesting_pieces(t, q) = get_interesting_pieces(s, q)

LEMMA AlikeAfter ==
    ASSUME NEW s, IsStore(s), NEW q \in DOMAIN s.neighbors, NEW t,
           q \in DOMAIN t.neighbors, t.my_bitfield = s.my_bitfield,
           t.neighbors[q].bitfield = s.neighbors[q].bitfield,
           t.neighbors[q].am_interested = s.neighbors[q].am_interested
    PROVE  Alike(s, t, q)
  BY DEF Alike, is_am_interested_in_peer, get_interesting_pieces, Knows

\* Choking and requests have nothing to do with the interest.
LEMMA RequestsAlike ==
    ASSUME NEW s, IsStore(s), NEW q \in DOMAIN s.neighbors, NEW r, NEW t,
           \/ \E b : t = set_peer_choking(s, r, b)
           \/ \E i : t = reserve_request(s, r, i)
           \/ t = clear_outstanding_request(s, r)
           \/ q # r /\ t = remove_neighbor(s, r)
           \/ q # r /\ \E b : t = set_am_interested(s, r, b)
           \/ q # r /\ \E b : t = SetNeighborBitfield(s, r, b)
    PROVE  Alike(s, t, q)
<1>1. s.neighbors[q] \in NeighborState
  BY DEF IsStore
<1>2. CASE \E b : t = set_peer_choking(s, r, b)
  BY <1>1, <1>2, AlikeAfter DEF set_peer_choking, Knows, NeighborState, IsStore
<1>3. CASE \E i : t = reserve_request(s, r, i)
  BY <1>1, <1>3, AlikeAfter DEF reserve_request, Knows, NeighborState, IsStore
<1>4. CASE t = clear_outstanding_request(s, r)
  BY <1>1, <1>4, AlikeAfter DEF clear_outstanding_request, Knows, NeighborState, IsStore
<1>5. CASE q # r /\ t = remove_neighbor(s, r)
  BY <1>1, <1>5, AlikeAfter DEF remove_neighbor, Knows, NeighborState, IsStore
<1>6. CASE q # r /\ \E b : t = set_am_interested(s, r, b)
  BY <1>1, <1>6, AlikeAfter DEF set_am_interested, Knows, NeighborState, IsStore
<1>7. CASE q # r /\ \E b : t = SetNeighborBitfield(s, r, b)
  BY <1>1, <1>7, AlikeAfter DEF SetNeighborBitfield, Knows, NeighborState, IsStore
<1> QED
  BY <1>2, <1>3, <1>4, <1>5, <1>6, <1>7

\* Steps of r that do not touch the interest in q.
LEMMA NotAbout ==
    ASSUME NEW q \in Neighbor, InterestOK(q), NEW r \in Neighbor, Others(r),
           ~Syncs(r, q), ~Syncs(r, q)', told'[q] = told[q],
           is_am_interested_in_peer(store, q)' <=> is_am_interested_in_peer(store, q),
           thread[r].pc \in Going /\ q \in thread[r].rest
              => thread'[r].pc \in Going /\ q \in thread'[r].rest,
           r = q /\ thread[r].pc = "reply" => thread'[r].pc = "reply",
           WillSync(q)' \/ (Missing(q)' <=> Missing(q))
    PROVE  InterestOK(q)'
<1>1. ASSUME NEW s \in Neighbor
      PROVE  /\ Syncs(s, q)' <=> Syncs(s, q)
             /\ Syncs(s, q) => thread'[s] = thread[s]
  BY DEF Others, Syncs
<1>2. WillSync(q) => WillSync(q)'
  BY DEF WillSync, Others
<1> QED
  BY <1>1, <1>2 DEF InterestOK

\* Two threads that synchronise q at once leave it contended.
LEMMA OneSyncs ==
    ASSUME NEW r \in Neighbor, Contend(r), NEW q \in Neighbor, q \notin contended',
           Syncs(r, q)', NEW s \in Neighbor \ {r}
    PROVE  ~Syncs(s, q)'
<1>1. Syncs(r, q)' => q \in Syncing(r)'
  BY DEF Syncs, Syncing
<1>2. Syncs(s, q)' => q \in Syncing(s)'
  BY DEF Syncs, Syncing
<1> QED
  BY <1>1, <1>2 DEF Contend

\* A step of r that reads what is missing of q.
LEMMA StartsAbout ==
    ASSUME NEW q \in Neighbor, InterestOK(q), NEW r \in Neighbor, Others(r),
           Contend(r), q \notin contended',
           ~Syncs(r, q), Syncs(r, q)', thread'[r].pc # "send",
           UNCHANGED <<told, store>>, thread'[r].missing <=> Missing(q)
    PROVE  InterestOK(q)'
<1>1. \A s \in Neighbor \ {r} : ~Syncs(s, q)' /\ ~Syncs(s, q)
  <2>1. ASSUME NEW s \in Neighbor \ {r} PROVE ~Syncs(s, q)' /\ (Syncs(s, q)' <=> Syncs(s, q))
    BY OneSyncs DEF Others, Syncs
  <2> QED
    BY <2>1
<1>2. told[q] <=> is_am_interested_in_peer(store, q)
  BY <1>1 DEF InterestOK
<1>3. Missing(q)' <=> Missing(q)
  BY DEF Missing
<1> QED
  BY <1>1, <1>2, <1>3 DEF InterestOK

LEMMA Uncontended ==
    ASSUME RInv, InterestsOK, NEW r \in Neighbor, Contend(r),
           connections' \subseteq connections, NEW q \in connections' \ contended'
    PROVE  /\ q \in Neighbor /\ InterestOK(q) /\ q \in connections
           /\ q \in DOMAIN store.neighbors /\ q \notin contended'
  BY DEF RInv, TypeOK, Connected, InterestsOK, Contend

\* Steps before and after the interest is synchronised.
LEMMA QuietInterest ==
    ASSUME NEW q \in Neighbor, InterestOK(q), NEW r \in Neighbor, Others(r),
           UNCHANGED told, Alike(store, store', q),
           thread[r].pc \notin Going \cup {"reply"},
           thread'[r].pc \notin {"compare", "set", "send"}
    PROVE  InterestOK(q)'
<1>1. ~Syncs(r, q) /\ ~Syncs(r, q)'
  BY DEF Syncs, Going
<1>2. /\ is_am_interested_in_peer(store, q)' <=> is_am_interested_in_peer(store, q)
      /\ Missing(q)' <=> Missing(q)
  BY DEF Alike, Missing
<1> QED
  BY <1>1, <1>2, NotAbout DEF Going

-----------------------------------------------------------------------------

\* Messages about choking, requests and the end of a connection.
LEMMA RequestsInterest ==
    ASSUME RInv, InterestsOK, NEW r \in Neighbor, Contend(r),
           \/ ChokeArrives(r) \/ UnchokeArrives(r) \/ CloseArrives(r)
           \/ SelectPiece(r) \/ Reserve(r) \/ PieceArrives(r)
           \/ WritePiece(r) \/ WriteFails(r)
    PROVE  InterestsOK'
<1>1. UNCHANGED told /\ connections' \subseteq connections
      /\ (UNCHANGED connections \/ CloseArrives(r))
  BY DEF ChokeArrives, UnchokeArrives, CloseArrives, SelectPiece, Reserve, PieceArrives,
     WritePiece, WriteFails
<1>2. /\ Others(r) /\ thread[r].pc \in {"idle", "select", "reserve", "write"}
      /\ thread'[r].pc \in {"idle", "select", "reserve", "closing", "write", "mark"}
  <2>1. CASE UnchokeArrives(r) \/ CloseArrives(r) \/ WritePiece(r)
    BY <2>1, GoesKeeps DEF UnchokeArrives, CloseArrives, WritePiece, Waiting, At
  <2>2. CASE PieceArrives(r)
    BY <2>2, Tame DEF PieceArrives, Waiting, At, Others, Thread
  <2>3. CASE ChokeArrives(r)
    BY <2>3 DEF ChokeArrives, Waiting, At, Others
  <2>4. CASE Reserve(r) \/ WriteFails(r)
    BY <2>4, FinishesIdle DEF Reserve, WriteFails, At
  <2>5. CASE SelectPiece(r)
    <3>1. CASE Finishes(r)
      BY <2>5, <3>1, FinishesIdle DEF SelectPiece, At
    <3>2. CASE ~Finishes(r)
      <4>1. \E i : thread' = [thread EXCEPT ![r] = [Idle EXCEPT !.pc = "reserve", !.piece = i]]
        BY <2>5, <3>2 DEF SelectPiece
      <4> QED
        BY <2>5, <4>1, Tame DEF SelectPiece, At, Others, Idle
    <3> QED
      BY <3>1, <3>2
  <2> QED
    BY <2>1, <2>2, <2>3, <2>4, <2>5
<1>3. ASSUME NEW q \in connections', q \in DOMAIN store.neighbors
      PROVE  Alike(store, store', q)
  <2>1. IsStore(store)
    BY Tame
  <2>2. CASE UnchokeArrives(r)
    BY <1>3, <2>1, <2>2, RequestsAlike DEF UnchokeArrives
  <2>3. CASE CloseArrives(r)
    BY <1>3, <2>1, <2>3, RequestsAlike DEF CloseArrives
  <2>4. CASE Reserve(r)
    BY <1>3, <2>1, <2>4, RequestsAlike DEF Reserve
  <2>5. CASE WritePiece(r) \/ WriteFails(r)
    BY <1>3, <2>1, <2>5, RequestsAlike DEF WritePiece, WriteFails
  <2>6. CASE ChokeArrives(r)
    <3> DEFINE s == set_peer_choking(store, r, TRUE)
    <3>1. Chokes(store, s, r, TRUE)
      BY Known, ChokingRequests
    <3>2. IsStore(s) /\ DOMAIN s.neighbors = DOMAIN store.neighbors
      BY <3>1 DEF Chokes, Good
    <3>3. Alike(store, s, q)
      BY <1>3, <2>1, RequestsAlike
    <3>4. store' = clear_outstanding_request(s, r)
      BY <2>6 DEF ChokeArrives
    <3> HIDE DEF s
    <3>5. Alike(s, store', q)
      BY <1>3, <3>2, <3>4, RequestsAlike
    <3> QED
      BY <3>3, <3>5 DEF Alike
  <2>7. CASE SelectPiece(r) \/ PieceArrives(r)
    BY <2>7 DEF Alike, SelectPiece, PieceArrives
  <2> QED
    BY <2>2, <2>3, <2>4, <2>5, <2>6, <2>7
<1>4. ASSUME NEW q \in connections' \ contended' PROVE InterestOK(q)'
  BY <1>1, <1>2, <1>3, Uncontended, QuietInterest DEF Going
<1> QED
  BY <1>4 DEF InterestsOK

\* The assembly and the end of a message.
LEMMA FilesInterest ==
    ASSUME RInv, InterestsOK, NEW r \in Neighbor, Contend(r),
           \/ CheckComplete(r) \/ CheckExists(r) \/ OpenComplete(r) \/ AppendPiece(r)
           \/ AssembleFails(r) \/ LogCompletion(r) \/ CheckTermination(r) \/ Close(r)
    PROVE  InterestsOK'
<1>1. UNCHANGED <<told, connections, store>>
  BY DEF CheckComplete, CheckExists, OpenComplete, AppendPiece, AssembleFails,
     LogCompletion, CheckTermination, Close
<1>2. thread[r].pc \in {"complete", "assemble", "open", "append", "log", "terminate", "closing"}
  BY DEF CheckComplete, CheckExists, OpenComplete, AppendPiece, AssembleFails,
     LogCompletion, CheckTermination, Close, At
<1>3. Others(r) /\ thread'[r].pc \in {"select", "terminate", "assemble", "log", "open",
                                       "append", "idle", "gone"}
  <2>1. CASE AppendPiece(r)
    BY <2>1, Tame DEF AppendPiece, Others, Thread
  <2>2. CASE CheckTermination(r)
    BY <2>2, FinishesIdle DEF CheckTermination
  <2>3. CASE ~AppendPiece(r) /\ ~CheckTermination(r)
    <3>1. \E pc \in {"select", "terminate", "assemble", "log", "open", "append", "gone"} :
             Goes(r, pc)
      BY <2>3 DEF CheckComplete, CheckExists, OpenComplete, AssembleFails,
         LogCompletion, Close
    <3> QED
      BY <3>1, GoesKeeps
  <2> QED
    BY <2>1, <2>2, <2>3
<1>4. ASSUME NEW q \in connections' \ contended' PROVE InterestOK(q)'
  <2>1. q \in Neighbor /\ InterestOK(q)
    BY <1>1, Uncontended
  <2>2. Alike(store, store', q)
    BY <1>1 DEF Alike
  <2> QED
    BY <1>1, <1>2, <1>3, <2>1, <2>2, QuietInterest DEF Going
<1> QED
  BY <1>4 DEF InterestsOK

\* What changes the missing pieces of a neighbour has it synchronised.
LEMMA NewsInterest ==
    ASSUME RInv, InterestsOK, NEW r \in Neighbor, Contend(r),
           BitfieldArrives(r) \/ HaveArrives(r) \/ MarkDownloaded(r)
    PROVE  InterestsOK'
<1>1. UNCHANGED <<told, connections>>
  BY DEF BitfieldArrives, HaveArrives, MarkDownloaded
<1>2. Others(r) /\ thread[r].pc \in {"idle", "mark"} /\ thread'[r].pc \in {"reply", "sync"}
  <2>1. CASE BitfieldArrives(r)
    BY <2>1, GoesKeeps DEF BitfieldArrives, Waiting, At
  <2>2. CASE HaveArrives(r) \/ MarkDownloaded(r)
    BY <2>2, Tame DEF HaveArrives, MarkDownloaded, Waiting, At, Others, Thread
  <2> QED
    BY <2>1, <2>2
<1>3. ASSUME NEW q \in connections, q = r \/ MarkDownloaded(r)
      PROVE  WillSync(q)'
  <2>1. CASE BitfieldArrives(r) /\ q = r
    BY <2>1, GoesKeeps DEF BitfieldArrives, WillSync
  <2>2. CASE HaveArrives(r) /\ q = r
    <3>1. thread'[r].pc = "sync" /\ thread'[r].rest = {r}
      BY <2>2, Tame DEF HaveArrives, Thread
    <3> QED
      BY <2>2, <3>1 DEF WillSync, Going
  <2>3. CASE MarkDownloaded(r)
    <3>1. thread'[r].pc = "sync" /\ thread'[r].rest = connections
      BY <2>3, Tame DEF MarkDownloaded, Thread
    <3> QED
      BY <3>1 DEF WillSync, Going
  <2> QED
    BY <1>3, <2>1, <2>2, <2>3
<1>4. ASSUME NEW q \in DOMAIN store.neighbors
      PROVE  /\ is_am_interested_in_peer(store, q)' <=> is_am_interested_in_peer(store, q)
             /\ q = r \/ MarkDownloaded(r) \/ (Missing(q)' <=> Missing(q))
  <2>1. IsStore(store) /\ store.neighbors[q] \in NeighborState
    BY Tame DEF IsStore
  <2>2. CASE MarkDownloaded(r)
    BY <2>1, <2>2 DEF MarkDownloaded, mark_piece_downloaded,
       is_am_interested_in_peer, Knows, IsStore
  <2>3. CASE BitfieldArrives(r) \/ HaveArrives(r)
    <3>1. \E b : store' = SetNeighborBitfield(store, r, b) \/ store' = store
      BY <2>3 DEF BitfieldArrives, HaveArrives, update_neighbor_bitfield,
         neighbor_set_piece
    <3>2. CASE q # r
      <4>1. Alike(store, store', q)
        BY <2>1, <3>1, <3>2, RequestsAlike DEF Alike
      <4> QED
        BY <4>1 DEF Alike, Missing
    <3>3. CASE q = r
      <4>1. CASE store' = store
        BY <3>3, <4>1 DEF is_am_interested_in_peer
      <4>2. CASE store' # store
        <5>1. PICK b : store' = SetNeighborBitfield(store, r, b)
          BY <3>1, <4>2
        <5>2. /\ DOMAIN store'.neighbors = DOMAIN store.neighbors
              /\ store'.neighbors[q] = [store.neighbors[q] EXCEPT !.bitfield = b]
          BY <2>1, <3>3, <5>1 DEF SetNeighborBitfield, Knows, IsStore
        <5>3. store'.neighbors[q].am_interested = store.neighbors[q].am_interested
          BY <2>1, <5>2 DEF NeighborState
        <5>4. is_am_interested_in_peer(store', q) <=> is_am_interested_in_peer(store, q)
          BY <5>2, <5>3 DEF is_am_interested_in_peer, Knows
        <5> QED
          BY <3>3, <5>4
      <4> QED
        BY <4>1, <4>2
    <3> QED
      BY <3>2, <3>3
  <2> QED
    BY <2>2, <2>3
<1>5. ASSUME NEW q \in connections' \ contended' PROVE InterestOK(q)'
  <2>1. q \in Neighbor /\ InterestOK(q) /\ q \in connections /\ q \in DOMAIN store.neighbors
    BY <1>1, Uncontended
  <2>2. ~Syncs(r, q) /\ ~Syncs(r, q)'
    BY <1>2 DEF Syncs
  <2>3. WillSync(q)' \/ (Missing(q)' <=> Missing(q))
    BY <1>3, <1>4, <2>1
  <2> QED
    BY <1>1, <1>2, <1>4, <2>1, <2>2, <2>3, NotAbout DEF Going
<1> QED
  BY <1>5 DEF InterestsOK

-----------------------------------------------------------------------------
(* The synchronisation itself. *)

LEMMA DecideReplyInterest ==
    ASSUME RInv, InterestsOK, NEW r \in Neighbor, Contend(r), DecideReply(r)
    PROVE  InterestsOK'
<1>1. UNCHANGED <<told, connections, store>> /\ thread[r].pc = "reply"
  BY DEF DecideReply, At
<1>2. /\ Others(r) /\ thread'[r].pc = "set" /\ thread'[r].about = r
      /\ thread'[r].missing <=> Missing(r)
  <2> DEFINE b == get_interesting_pieces(store, r) # {}
             t == [thread[r] EXCEPT !.pc = "set", !.about = r, !.missing = b]
  <2>1. thread' = [thread EXCEPT ![r] = t] /\ (b <=> Missing(r))
    BY DEF DecideReply, Missing
  <2> HIDE DEF b
  <2>2. t.pc = "set" /\ t.about = r /\ t.missing = b
    BY Tame DEF Thread
  <2> HIDE DEF t
  <2>3. thread'[r] = t /\ Others(r)
    BY <2>1, Tame DEF Others
  <2> QED
    BY <2>1, <2>2, <2>3
<1>3. ASSUME NEW q \in connections' \ contended' PROVE InterestOK(q)'
  <2>1. q \in Neighbor /\ InterestOK(q) /\ q \notin contended'
    BY <1>1, Uncontended
  <2>2. CASE q = r
    <3>1. ~Syncs(r, q) /\ Syncs(r, q)'
      BY <1>1, <1>2, <2>2 DEF Syncs
    <3> QED
      BY <1>1, <1>2, <2>1, <2>2, <3>1, StartsAbout
  <2>3. CASE q # r
    <3>1. ~Syncs(r, q) /\ ~Syncs(r, q)'
      BY <1>1, <1>2, <2>3 DEF Syncs
    <3>2. /\ Missing(q)' <=> Missing(q)
          /\ is_am_interested_in_peer(store, q)' <=> is_am_interested_in_peer(store, q)
      BY <1>1 DEF Missing
    <3> QED
      BY <1>1, <1>2, <2>1, <2>3, <3>1, <3>2, NotAbout DEF Going
  <2> QED
    BY <2>2, <2>3
<1> QED
  BY <1>3 DEF InterestsOK

LEMMA SyncNextInterest ==
    ASSUME RInv, InterestsOK, NEW r \in Neighbor, Contend(r), SyncNext(r)
    PROVE  InterestsOK'
<1>1. UNCHANGED <<told, connections, store>> /\ thread[r].pc = "sync"
  BY DEF SyncNext, At
<1>2. PICK p \in thread[r].rest :
         thread' = [thread EXCEPT
           ![r].rest = @ \ {p},
           ![r].pc = IF p \in connections THEN "compare" ELSE "sync",
           ![r].about = p,
           ![r].missing = get_interesting_pieces(store, p) # {}]
  BY DEF SyncNext
<1>3. /\ Others(r) /\ thread'[r].rest = thread[r].rest \ {p} /\ thread'[r].about = p
      /\ thread'[r].pc = IF p \in connections THEN "compare" ELSE "sync"
      /\ thread'[r].missing <=> Missing(p)
  <2> DEFINE b == get_interesting_pieces(store, p) # {}
             k == IF p \in connections THEN "compare" ELSE "sync"
             t == [thread[r] EXCEPT !.rest = @ \ {p}, !.pc = k, !.about = p, !.missing = b]
  <2>1. thread' = [thread EXCEPT ![r] = t] /\ (b <=> Missing(p))
    BY <1>2 DEF Missing
  <2> HIDE DEF b, k
  <2>2. t.pc = k /\ t.about = p /\ t.missing = b /\ t.rest = thread[r].rest \ {p}
    BY Tame DEF Thread
  <2> HIDE DEF t
  <2>3. thread'[r] = t /\ Others(r)
    BY <2>1, Tame DEF Others
  <2> QED
    BY <2>1, <2>2, <2>3 DEF k
<1>4. ASSUME NEW q \in connections' \ contended' PROVE InterestOK(q)'
  <2>1. q \in Neighbor /\ InterestOK(q) /\ q \in connections /\ q \notin contended'
    BY <1>1, Uncontended
  <2>2. CASE q = p
    <3>1. ~Syncs(r, q) /\ Syncs(r, q)' /\ thread'[r].pc = "compare"
      BY <1>1, <1>3, <2>1, <2>2 DEF Syncs
    <3> QED
      BY <1>1, <1>3, <2>1, <2>2, <3>1, StartsAbout
  <2>3. CASE q # p
    <3>1. ~Syncs(r, q) /\ ~Syncs(r, q)'
      BY <1>1, <1>3, <2>3 DEF Syncs
    <3>2. /\ Missing(q)' <=> Missing(q)
          /\ is_am_interested_in_peer(store, q)' <=> is_am_interested_in_peer(store, q)
      BY <1>1 DEF Missing
    <3> QED
      BY <1>1, <1>3, <2>1, <2>3, <3>1, <3>2, NotAbout DEF Going
  <2> QED
    BY <2>2, <2>3
<1> QED
  BY <1>4 DEF InterestsOK

\* A thread that goes on keeps the neighbours it has still to read.
LEMMA StillSyncs ==
    ASSUME NEW r \in Neighbor, Others(r), NEW q \in Neighbor, WillSync(q),
           thread[r].pc \in Going, thread'[r].pc \in Going,
           thread'[r].rest = thread[r].rest
    PROVE  WillSync(q)'
<1>1. CASE thread[q].pc = "reply"
  <2>1. q # r
    BY <1>1 DEF Going
  <2> QED
    BY <1>1, <2>1 DEF WillSync, Others
<1>2. CASE \E s \in Neighbor : thread[s].pc \in Going /\ q \in thread[s].rest
  <2>1. PICK s \in Neighbor : thread[s].pc \in Going /\ q \in thread[s].rest
    BY <1>2
  <2>2. thread'[s].pc \in Going /\ q \in thread'[s].rest
    BY <2>1 DEF Others
  <2> QED
    BY <2>2 DEF WillSync
<1> QED
  BY <1>1, <1>2 DEF WillSync

LEMMA SyncDoneInterest ==
    ASSUME RInv, InterestsOK, NEW r \in Neighbor, Contend(r), SyncDone(r)
    PROVE  InterestsOK'
<1>1. /\ UNCHANGED <<told, connections, store>>
      /\ thread[r].pc = "sync" /\ thread[r].rest = {}
  BY DEF SyncDone, At
<1>2. Others(r) /\ thread'[r].pc \in {"terminate", "complete"}
  BY GoesKeeps DEF SyncDone
<1>3. ASSUME NEW q \in connections' \ contended' PROVE InterestOK(q)'
  <2>1. q \in Neighbor /\ InterestOK(q)
    BY <1>1, Uncontended
  <2>2. ~Syncs(r, q) /\ ~Syncs(r, q)'
    BY <1>1, <1>2 DEF Syncs
  <2>3. /\ Missing(q)' <=> Missing(q)
        /\ is_am_interested_in_peer(store, q)' <=> is_am_interested_in_peer(store, q)
    BY <1>1 DEF Missing
  <2> QED
    BY <1>1, <1>2, <2>1, <2>2, <2>3, NotAbout DEF Going
<1> QED
  BY <1>3 DEF InterestsOK

\* A neighbour that was told what is true is left alone.
LEMMA SyncCompareInterest ==
    ASSUME RInv, InterestsOK, NEW r \in Neighbor, Contend(r), SyncCompare(r)
    PROVE  InterestsOK'
<1> DEFINE p == thread[r].about
<1>1. UNCHANGED <<told, connections, store>> /\ thread[r].pc = "compare"
  BY DEF SyncCompare, At
<1>2. /\ Others(r) /\ thread'[r].rest = thread[r].rest /\ thread'[r].about = p
      /\ thread'[r].missing = thread[r].missing
      /\ \/ thread'[r].pc = "set"
         \/ /\ thread'[r].pc = "sync"
            /\ is_am_interested_in_peer(store, p) <=> thread[r].missing
  <2>1. CASE is_am_interested_in_peer(store, p) = thread[r].missing
    BY <2>1, GoesKeeps DEF SyncCompare
  <2>2. CASE is_am_interested_in_peer(store, p) # thread[r].missing
    BY <2>2, GoesKeeps DEF SyncCompare
  <2> QED
    BY <2>1, <2>2
<1> HIDE DEF p
<1>3. ASSUME NEW q \in connections' \ contended' PROVE InterestOK(q)'
  <2>1. q \in Neighbor /\ InterestOK(q) /\ q \notin contended'
    BY <1>1, Uncontended
  <2>2. /\ Missing(q)' <=> Missing(q)
        /\ is_am_interested_in_peer(store, q)' <=> is_am_interested_in_peer(store, q)
        /\ told'[q] <=> told[q]
    BY <1>1 DEF Missing
  <2>3. CASE q # p
    <3>1. ~Syncs(r, q) /\ ~Syncs(r, q)'
      BY <1>2, <2>3 DEF Syncs, p
    <3> QED
      BY <1>1, <1>2, <2>1, <2>2, <3>1, NotAbout DEF Going
  <2>4. CASE q = p
    <3>1. Syncs(r, q) /\ \A s \in Neighbor \ {r} : ~Syncs(s, q)
      BY <1>1, <2>1, <2>4 DEF Syncs, InterestOK, p
    <3>2. \A s \in Neighbor \ {r} : ~Syncs(s, q)'
      BY <1>2, <3>1 DEF Others, Syncs
    <3>3. WillSync(q) => WillSync(q)'
      BY <1>1, <1>2, <2>1, StillSyncs DEF Going
    <3>4. told[q] <=> is_am_interested_in_peer(store, q)
      BY <1>1, <2>1, <3>1 DEF InterestOK
    <3>5. WillSync(q) \/ (thread[r].missing <=> Missing(q))
      BY <2>1, <3>1 DEF InterestOK
    <3>6. CASE thread'[r].pc = "set"
      <4>1. Syncs(r, q)'
        BY <1>2, <2>4, <3>6 DEF Syncs
      <4> QED
        BY <1>2, <2>2, <3>2, <3>3, <3>4, <3>5, <3>6, <4>1 DEF InterestOK
    <3>7. CASE thread'[r].pc = "sync"
      <4>1. ~Syncs(r, q)'
        BY <3>7 DEF Syncs
      <4>2. is_am_interested_in_peer(store, q) <=> thread[r].missing
        BY <1>2, <2>4, <3>7
      <4> QED
        BY <2>2, <3>2, <3>3, <3>4, <3>5, <4>1, <4>2 DEF InterestOK
    <3> QED
      BY <1>2, <3>6, <3>7
  <2> QED
    BY <2>3, <2>4
<1> QED
  BY <1>3 DEF InterestsOK

LEMMA SyncSetInterest ==
    ASSUME RInv, InterestsOK, NEW r \in Neighbor, Contend(r), SyncSet(r)
    PROVE  InterestsOK'
<1> DEFINE p == thread[r].about
<1>1. /\ UNCHANGED <<told, connections>> /\ thread[r].pc = "set"
      /\ store' = set_am_interested(store, p, thread[r].missing)
  BY DEF SyncSet, At
<1>2. /\ Others(r) /\ thread'[r].rest = thread[r].rest /\ thread'[r].about = p
      /\ thread'[r].missing = thread[r].missing /\ thread'[r].pc = "send"
  BY GoesKeeps DEF SyncSet
<1> HIDE DEF p
<1>3. ASSUME NEW q \in connections' \ contended' PROVE InterestOK(q)'
  <2>1. q \in Neighbor /\ InterestOK(q) /\ q \notin contended' /\ q \in DOMAIN store.neighbors
    BY <1>1, Uncontended
  <2>2. IsStore(store) /\ store.neighbors[q] \in NeighborState
    BY <2>1, Tame DEF IsStore
  <2>3. CASE q # p
    <3>1. ~Syncs(r, q) /\ ~Syncs(r, q)'
      BY <1>2, <2>3 DEF Syncs, p
    <3>2. Alike(store, store', q)
      BY <1>1, <2>1, <2>2, <2>3, RequestsAlike
    <3>3. /\ Missing(q)' <=> Missing(q)
          /\ is_am_interested_in_peer(store, q)' <=> is_am_interested_in_peer(store, q)
      BY <3>2 DEF Missing, Alike
    <3> QED
      BY <1>1, <1>2, <2>1, <3>1, <3>3, NotAbout DEF Going
  <2>4. CASE q = p
    <3>1. Syncs(r, q) /\ \A s \in Neighbor \ {r} : ~Syncs(s, q)
      BY <1>1, <2>1, <2>4 DEF Syncs, InterestOK, p
    <3>2. Syncs(r, q)' /\ \A s \in Neighbor \ {r} : ~Syncs(s, q)'
      BY <1>2, <2>4, <3>1 DEF Others, Syncs
    <3>3. WillSync(q) => WillSync(q)'
      BY <1>1, <1>2, <2>1, StillSyncs DEF Going
    <3>4. /\ DOMAIN store'.neighbors = DOMAIN store.neighbors
          /\ store'.my_bitfield = store.my_bitfield
          /\ store'.neighbors[q] = [store.neighbors[q] EXCEPT !.am_interested = thread[r].missing]
      BY <1>1, <2>1, <2>2, <2>4 DEF set_am_interested, Knows, IsStore
    <3>5. /\ store'.neighbors[q].am_interested = thread[r].missing
          /\ store'.neighbors[q].bitfield = store.neighbors[q].bitfield
      BY <2>2, <3>4 DEF NeighborState
    <3>6. is_am_interested_in_peer(store', q) <=> thread[r].missing
      BY <2>1, <3>4, <3>5 DEF is_am_interested_in_peer, Knows
    <3>7. Missing(q)' <=> Missing(q)
      BY <2>1, <3>4, <3>5 DEF Missing, get_interesting_pieces, Knows
    <3>8. WillSync(q) \/ (thread[r].missing <=> Missing(q))
      BY <2>1, <3>1 DEF InterestOK
    <3> QED
      BY <1>2, <3>2, <3>3, <3>6, <3>7, <3>8 DEF InterestOK
  <2> QED
    BY <2>3, <2>4
<1> QED
  BY <1>3 DEF InterestsOK

LEMMA SyncSendInterest ==
    ASSUME RInv, InterestsOK, NEW r \in Neighbor, Contend(r), SyncSend(r)
    PROVE  InterestsOK'
<1> DEFINE p == thread[r].about
<1>1. /\ UNCHANGED <<store, connections>> /\ thread[r].pc = "send"
      /\ told' = [told EXCEPT ![p] = thread[r].missing]
  BY DEF SyncSend, At
<1>2. /\ Others(r) /\ thread'[r].rest = thread[r].rest /\ thread'[r].pc = "sync"
  BY GoesKeeps DEF SyncSend
<1> HIDE DEF p
<1>3. told \in [Neighbor -> BOOLEAN]
  BY DEF RInv, TypeOK
<1>4. ASSUME NEW q \in connections' \ contended' PROVE InterestOK(q)'
  <2>1. q \in Neighbor /\ InterestOK(q)
    BY <1>1, Uncontended
  <2>2. /\ Missing(q)' <=> Missing(q)
        /\ is_am_interested_in_peer(store, q)' <=> is_am_interested_in_peer(store, q)
    BY <1>1 DEF Missing
  <2>3. ~Syncs(r, q)'
    BY <1>2 DEF Syncs
  <2>4. CASE q # p
    <3>1. ~Syncs(r, q) /\ told'[q] = told[q]
      BY <1>1, <1>3, <2>1, <2>4 DEF Syncs, p
    <3> QED
      BY <1>1, <1>2, <2>1, <2>2, <2>3, <3>1, NotAbout DEF Going
  <2>5. CASE q = p
    <3>1. Syncs(r, q) /\ \A s \in Neighbor \ {r} : ~Syncs(s, q)
      BY <1>1, <2>1, <2>5 DEF Syncs, InterestOK, p
    <3>2. \A s \in Neighbor : ~Syncs(s, q)'
      BY <1>2, <2>3, <3>1 DEF Others, Syncs
    <3>3. WillSync(q) => WillSync(q)'
      BY <1>1, <1>2, <2>1, StillSyncs DEF Going
    <3>4. told'[q] = thread[r].missing
      BY <1>1, <1>3, <2>1, <2>5
    <3>5. is_am_interested_in_peer(store, q) <=> thread[r].missing
      BY <1>1, <2>1, <3>1 DEF InterestOK
    <3>6. WillSync(q) \/ (thread[r].missing <=> Missing(q))
      BY <2>1, <3>1 DEF InterestOK
    <3> QED
      BY <2>2, <3>2, <3>3, <3>4, <3>5, <3>6 DEF InterestOK
  <2> QED
    BY <2>4, <2>5
<1> QED
  BY <1>4 DEF InterestsOK

-----------------------------------------------------------------------------

LEMMA InitInterests == Init => InterestsOK
<1> SUFFICES ASSUME Init, NEW q \in Neighbor PROVE InterestOK(q)
  BY DEF Init, InterestsOK
<1>1. \A r \in Neighbor : thread[r].pc = "idle"
  BY DEF Init, Idle
<1>2. store.neighbors = [r \in Neighbor |-> NewNeighbor]
  BY DEF Init, NewStore
<1>3. store.neighbors[q].bitfield = {} /\ store.neighbors[q].am_interested = FALSE
  BY <1>2 DEF NewNeighbor
<1>4. ~Missing(q) /\ ~is_am_interested_in_peer(store, q)
  BY <1>2, <1>3 DEF Missing, get_interesting_pieces, is_am_interested_in_peer, Knows
<1>5. told[q] = FALSE
  BY DEF Init
<1> QED
  BY <1>1, <1>4, <1>5 DEF InterestOK, Syncs

LEMMA StutterInterests ==
    ASSUME InterestsOK, UNCHANGED vars
    PROVE  InterestsOK'
  BY DEF vars, InterestsOK, InterestOK, Syncs, WillSync, Missing

LEMMA NextInterests == RInv /\ InterestsOK /\ [Next]_vars => InterestsOK'
<1> SUFFICES ASSUME RInv, InterestsOK, [Next]_vars PROVE InterestsOK'
  OBVIOUS
<1>1. CASE UNCHANGED vars
  BY <1>1, StutterInterests
<1>2. ASSUME NEW r \in Neighbor, Contend(r), Arrives(r) PROVE InterestsOK'
  BY <1>2, NewsInterest, RequestsInterest DEF Arrives
<1>3. ASSUME NEW r \in Neighbor, Contend(r), Handle(r) PROVE InterestsOK'
  BY <1>3, NewsInterest, RequestsInterest, FilesInterest, DecideReplyInterest,
     SyncNextInterest, SyncDoneInterest, SyncCompareInterest, SyncSetInterest,
     SyncSendInterest DEF Handle
<1>4. ASSUME NEW r \in Neighbor, Contend(r), Fails(r) PROVE InterestsOK'
  BY <1>4, RequestsInterest, FilesInterest DEF Fails
<1> QED
  BY <1>1, <1>2, <1>3, <1>4 DEF Next

\* The interest in a neighbour that no two threads synchronised at once is
\* stored, told and true in the end, in every state of every run.
THEOREM InterestsInvariance == Spec => []InterestsOK
<1>1. Init => RInv /\ InterestsOK
  BY InitRInv, InitInterests
<1>2. (RInv /\ InterestsOK) /\ [Next]_vars => (RInv /\ InterestsOK)'
  BY NextRInv, NextInterests
<1> QED
  BY <1>1, <1>2, PTL DEF Spec

\* A neighbour was last told the truth when the threads rest
\* (peer_network.py:364-386, 494-511).
THEOREM InterestsSettle == Spec => []InterestSettles
<1>1. RInv /\ InterestsOK => InterestSettles
  <2> SUFFICES ASSUME RInv, InterestsOK, AtRest, NEW r \in connections \ contended
               PROVE  told[r] = (get_interesting_pieces(store, r) # {})
    BY DEF InterestSettles
  <2>1. r \in Neighbor /\ InterestOK(r) /\ told[r] \in BOOLEAN
    BY DEF RInv, TypeOK, InterestsOK
  <2>2. \A s \in Neighbor : thread[s].pc \in {"idle", "gone"}
    BY DEF AtRest
  <2>3. told[r] <=> Missing(r)
    BY <2>1, <2>2 DEF InterestOK, Syncs, WillSync, Going
  <2> QED
    BY <2>1, <2>3 DEF Missing
<1> QED
  BY <1>1, Invariance, InterestsInvariance, PTL

=============================================================================
