----------------------------- MODULE SwarmProofs -----------------------------
(***************************************************************************)
(* The type invariant, the reservation table, the truth of what peers      *)
(* believe and the truth of the announcement of the end, for every number  *)
(* of peers and pieces, any schedule, crashes and failed writes.           *)
(***************************************************************************)
EXTENDS SwarmProperties, PeerStateProofs, SequenceTheorems, FiniteSetTheorems

-----------------------------------------------------------------------------
(* Streams. *)

Streams == [Peer -> [Peer -> Seq(Message)]]
Letters == [Peer -> Seq(Message)]

LEMMA ElemsType ==
    ASSUME NEW c \in Seq(Message)
    PROVE  Elems(c) \subseteq Message
  BY LenProperties, ElementOfSeq DEF Elems

LEMMA ElemsConcat ==
    ASSUME NEW c \in Seq(Message), NEW d \in Seq(Message)
    PROVE  c \o d \in Seq(Message) /\ Elems(c \o d) = Elems(c) \cup Elems(d)
<1>1. /\ c \o d \in Seq(Message)
      /\ Len(c) \in Nat /\ DOMAIN c = 1 .. Len(c)
      /\ Len(d) \in Nat /\ DOMAIN d = 1 .. Len(d)
      /\ DOMAIN (c \o d) = 1 .. Len(c) + Len(d)
      /\ \A i \in 1 .. Len(c) + Len(d) :
            (c \o d)[i] = IF i <= Len(c) THEN c[i] ELSE d[i - Len(c)]
  BY ConcatProperties, LenProperties
<1>2. Elems(c \o d) \subseteq Elems(c) \cup Elems(d)
  <2> SUFFICES ASSUME NEW n \in 1 .. Len(c) + Len(d)
               PROVE  (c \o d)[n] \in Elems(c) \cup Elems(d)
    BY <1>1 DEF Elems
  <2>1. CASE n <= Len(c)
    BY <1>1, <2>1 DEF Elems
  <2>2. CASE n > Len(c)
    <3>1. n - Len(c) \in 1 .. Len(d)
      BY <1>1, <2>2
    <3> QED
      BY <1>1, <2>2, <3>1 DEF Elems
  <2> QED
    BY <1>1, <2>1, <2>2
<1>3. Elems(c) \subseteq Elems(c \o d)
  <2> SUFFICES ASSUME NEW n \in 1 .. Len(c)
               PROVE  c[n] \in Elems(c \o d)
    BY <1>1 DEF Elems
  <2>1. n \in 1 .. Len(c) + Len(d) /\ (c \o d)[n] = c[n]
    BY <1>1
  <2> QED
    BY <1>1, <2>1 DEF Elems
<1>4. Elems(d) \subseteq Elems(c \o d)
  <2> SUFFICES ASSUME NEW n \in 1 .. Len(d)
               PROVE  d[n] \in Elems(c \o d)
    BY <1>1 DEF Elems
  <2>1. n + Len(c) \in 1 .. Len(c) + Len(d) /\ (c \o d)[n + Len(c)] = d[n]
    BY <1>1
  <2> QED
    BY <1>1, <2>1 DEF Elems
<1> QED
  BY <1>1, <1>2, <1>3, <1>4

LEMMA ElemsTail ==
    ASSUME NEW c \in Seq(Message), c # <<>>
    PROVE  /\ Head(c) \in Elems(c)
           /\ Tail(c) \in Seq(Message)
           /\ Elems(Tail(c)) \subseteq Elems(c)
<1>1. /\ Len(c) \in Nat /\ DOMAIN c = 1 .. Len(c) /\ Len(c) # 0
      /\ Tail(c) \in Seq(Message) /\ DOMAIN Tail(c) = 1 .. Len(c) - 1
      /\ \A i \in 1 .. Len(c) - 1 : Tail(c)[i] = c[i + 1]
  BY HeadTailProperties, LenProperties, EmptySeq
<1>2. Head(c) = c[1] /\ 1 \in DOMAIN c
  BY <1>1
<1>3. ASSUME NEW n \in 1 .. Len(c) - 1
      PROVE  Tail(c)[n] \in Elems(c)
  <2>1. n + 1 \in DOMAIN c
    BY <1>1
  <2> QED
    BY <1>1, <2>1 DEF Elems
<1> QED
  BY <1>1, <1>2, <1>3 DEF Elems

LEMMA ElemsWithout ==
    ASSUME NEW c \in Seq(Message), NEW n \in Nat
    PROVE  Without(c, n) \in Seq(Message) /\ Elems(Without(c, n)) \subseteq Elems(c)
<1> DEFINE m == IF n <= Len(c) THEN Len(c) - n ELSE 0
<1>1. Len(c) \in Nat /\ DOMAIN c = 1 .. Len(c) /\ \A i \in 1 .. Len(c) : c[i] \in Message
  BY LenProperties, ElementOfSeq
<1>2. m \in 0 .. Len(c)
  BY <1>1
<1>3. /\ SubSeq(c, 1, m) \in Seq(Message)
      /\ Len(SubSeq(c, 1, m)) = m
      /\ \A i \in 1 .. m : SubSeq(c, 1, m)[i] = c[i]
  <2> HIDE DEF m
  <2>1. \A i \in 1 .. m : c[i] \in Message
    BY <1>1, <1>2
  <2>2. /\ SubSeq(c, 1, m) \in Seq(Message)
        /\ Len(SubSeq(c, 1, m)) = (IF 1 <= m THEN m - 1 + 1 ELSE 0)
        /\ \A i \in 1 .. m - 1 + 1 : SubSeq(c, 1, m)[i] = c[1 + i - 1]
    BY <1>2, <2>1, SubSeqProperties
  <2>3. m \in Nat /\ \A i \in 1 .. m : 1 + i - 1 = i /\ i \in 1 .. m - 1 + 1
    BY <1>2
  <2> QED
    BY <2>2, <2>3
<1>4. DOMAIN SubSeq(c, 1, m) = 1 .. m
  BY <1>3, LenProperties
<1> QED
  BY <1>1, <1>2, <1>3, <1>4 DEF Without, Elems

LEMMA ElemsShort ==
    /\ Elems(<<>>) = {}
    /\ \A m : Elems(<<m>>) = {m}
  BY DEF Elems

\* The streams after p has sent sent: typed, and with nothing new but sent.
Carries(p, sent) ==
    /\ chan' \in Streams
    /\ \A a, b \in Peer :
          Elems(chan'[a][b]) \subseteq
             Elems(chan[a][b]) \cup (IF a = p THEN Elems(sent[b]) ELSE {})

LEMMA SendingStreams ==
    ASSUME NEW p \in Peer, NEW sent \in Letters, chan \in Streams
    PROVE  /\ Sending(p, sent) \in Letters
           /\ \A b \in Peer : Elems(Sending(p, sent)[b]) \subseteq
                                 Elems(chan[p][b]) \cup Elems(sent[b])
<1>1. ASSUME NEW b \in Peer
      PROVE  /\ Sending(p, sent)[b] \in Seq(Message)
             /\ Elems(Sending(p, sent)[b]) \subseteq Elems(chan[p][b]) \cup Elems(sent[b])
  <2>1. chan[p][b] \in Seq(Message) /\ sent[b] \in Seq(Message)
    BY DEF Streams, Letters
  <2>2. Sending(p, sent)[b] \in {chan[p][b], chan[p][b] \o sent[b]}
    BY DEF Sending
  <2> QED
    BY <2>1, <2>2, ElemsConcat
<1>2. DOMAIN Sending(p, sent) = Peer /\ Sending(p, sent) = [b \in Peer |-> Sending(p, sent)[b]]
  BY DEF Sending
<1> QED
  BY <1>1, <1>2 DEF Letters

LEMMA ReplyCarries ==
    ASSUME NEW p \in Peer, NEW q \in Peer, p # q, NEW sent \in Letters,
           chan \in Streams, chan[q][p] # <<>>, Reply(p, q, sent)
    PROVE  Carries(p, sent)
<1> DEFINE line == Sending(p, sent)
<1>1. line \in Letters
  BY SendingStreams
<1>2. /\ chan[q][p] \in Seq(Message) /\ Tail(chan[q][p]) \in Seq(Message)
      /\ Elems(Tail(chan[q][p])) \subseteq Elems(chan[q][p])
  BY ElemsTail DEF Streams
<1> HIDE DEF line
<1>3. chan' = [chan EXCEPT ![q][p] = Tail(@), ![p] = line]
  BY DEF Reply, line
<1>4. chan' \in Streams
  BY <1>1, <1>2, <1>3 DEF Streams, Letters
<1>5. /\ chan'[p] = line
      /\ chan'[q][p] = Tail(chan[q][p])
      /\ \A a, b \in Peer : a # p /\ <<a, b>> # <<q, p>> => chan'[a][b] = chan[a][b]
  BY <1>3 DEF Streams
<1>6. \A b \in Peer : Elems(line[b]) \subseteq Elems(chan[p][b]) \cup Elems(sent[b])
  BY SendingStreams DEF line
<1>7. ASSUME NEW a \in Peer, NEW b \in Peer
      PROVE  Elems(chan'[a][b]) \subseteq
                Elems(chan[a][b]) \cup (IF a = p THEN Elems(sent[b]) ELSE {})
  <2>1. CASE a = p
    BY <1>5, <1>6, <2>1
  <2>2. CASE a # p /\ <<a, b>> # <<q, p>>
    BY <1>5, <2>2
  <2>3. CASE <<a, b>> = <<q, p>>
    BY <1>2, <1>5, <2>3
  <2> QED
    BY <2>1, <2>2, <2>3
<1> QED
  BY <1>4, <1>7 DEF Carries

LEMMA TransmitCarries ==
    ASSUME NEW p \in Peer, NEW sent \in Letters, chan \in Streams, Transmit(p, sent)
    PROVE  Carries(p, sent)
<1> DEFINE line == Sending(p, sent)
<1>1. line \in Letters /\ \A b \in Peer : Elems(line[b]) \subseteq Elems(chan[p][b]) \cup Elems(sent[b])
  BY SendingStreams
<1> HIDE DEF line
<1>2. chan' = [chan EXCEPT ![p] = line]
  BY DEF Transmit, line
<1>3. chan' \in Streams
  BY <1>1, <1>2 DEF Streams, Letters
<1>4. \A a \in Peer : chan'[a] = IF a = p THEN line ELSE chan[a]
  BY <1>2 DEF Streams
<1> QED
  BY <1>1, <1>3, <1>4 DEF Carries

LEMMA OnlyToLetters ==
    ASSUME NEW q \in Peer, NEW c \in Seq(Message)
    PROVE  /\ OnlyTo(q, c) \in Letters
           /\ \A r \in Peer : Elems(OnlyTo(q, c)[r]) \subseteq Elems(c)
  BY ElemsShort, EmptySeq DEF OnlyTo, Letters

LEMMA MessageTypes ==
    /\ \A t \in Signals : <<Signal(t)>> \in Seq(Message)
    /\ \A i \in Piece : /\ <<Have(i)>> \in Seq(Message)
                        /\ <<Request(i)>> \in Seq(Message)
                        /\ <<PieceMsg(i)>> \in Seq(Message)
    /\ \A b \in SUBSET Piece : <<BitfieldMsg(b)>> \in Seq(Message)
    /\ <<>> \in Seq(Message)
<1>1. \A m \in Message : <<m>> \in Seq(Message)
  OBVIOUS
<1>2. \A t \in Signals : Signal(t) \in Message
  BY DEF Signal, Message
<1>3. \A i \in Piece : Have(i) \in Message /\ Request(i) \in Message /\ PieceMsg(i) \in Message
  BY DEF Have, Request, PieceMsg, Message
<1>4. \A b \in SUBSET Piece : BitfieldMsg(b) \in Message
  BY DEF BitfieldMsg, Message
<1> QED
  BY <1>1, <1>2, <1>3, <1>4, EmptySeq

-----------------------------------------------------------------------------
(* What one step of a peer may do. *)

GoodStores == \A p \in Peer : Good(ps[p], p, Holdings)

\* The part of TypeOK about variables the invariant does not constrain.
RestOK ==
    /\ connections \in [Peer -> SUBSET Peer]
    /\ incoming \in [Peer -> SUBSET Peer]
    /\ backlog \in [Peer -> SUBSET Peer]
    /\ next_peer \in [Peer -> Nat \ {0}]
    /\ preferred_ids \in [Peer -> SUBSET Peer]
    /\ optimistic_id \in [Peer -> Peer \cup {None}]
    /\ completion_logged \in [Peer -> BOOLEAN]
    /\ hasty \in Nat
    /\ faults \in Nat

LEMMA IInvParts ==
    IInv <=> /\ status \in [Peer -> Status]
             /\ ps = [p \in Peer |-> ps[p]]
             /\ GoodStores
             /\ chan \in Streams
             /\ all_done \in [Peer -> BOOLEAN]
             /\ RestOK
             /\ MessagesTrue
             /\ StoppedIsDone
             /\ NoFalseTermination
  BY DEF IInv, TypeOK, RestOK, GoodStores, Good, RequestsReserved, BeliefsTrue, Streams

LEMMA HoldingsType ==
    ASSUME GoodStores
    PROVE  Holdings \in [Peer -> SUBSET Piece]
  BY DEF GoodStores, Good, IsStore, Holdings

\* p's part in a step: it ends with store t, it sends nothing untrue, and
\* announces the end only if the file is everywhere.
Does(p, t) ==
    /\ ps' = [ps EXCEPT ![p] = t]
    /\ Good(t, p, Holdings)
    /\ ps[p].my_bitfield \subseteq t.my_bitfield
    /\ \A r \in Peer : status[r] \in {"stopped", "crashed"} => status'[r] = status[r]
    /\ status' \in [Peer -> Status]
    /\ \A r \in Peer : status'[r] = "stopped" => all_done[r]

SendsTrue(p, sent) ==
    /\ sent \in Letters
    /\ \A r \in Peer : \A m \in Elems(sent[r]) : MessageTrue(p, m)'
    /\ Carries(p, sent)

AnnouncesTrue(p) ==
    /\ all_done' \in [Peer -> BOOLEAN]
    /\ \A r \in Peer : all_done[r] => all_done'[r]
    /\ \A r \in Peer : all_done'[r] => all_done[r] \/ (NoCrash => AllComplete')

LEMMA HoldingsGrow ==
    ASSUME IInv, NEW p \in Peer, NEW t, Does(p, t)
    PROVE  /\ ps' = [r \in Peer |-> ps'[r]]
           /\ \A r \in Peer : ps'[r] = IF r = p THEN t ELSE ps[r]
           /\ \A r \in Peer : ps[r].my_bitfield \subseteq ps'[r].my_bitfield
           /\ GoodStores'
<1>1. ps = [r \in Peer |-> ps[r]] /\ GoodStores
  BY IInvParts
<1>2. \A r \in Peer : ps'[r] = IF r = p THEN t ELSE ps[r]
  BY <1>1 DEF Does
<1>3. ps' = [r \in Peer |-> ps'[r]]
  BY <1>1, <1>2 DEF Does
<1>4. \A r \in Peer : ps[r].my_bitfield \subseteq ps'[r].my_bitfield
  BY <1>2 DEF Does
<1>5. \A r \in Peer : Good(ps'[r], r, Holdings)
  BY <1>1, <1>2 DEF Does, GoodStores
<1>6. Holdings \in [Peer -> SUBSET Piece] /\ Holdings' \in [Peer -> SUBSET Piece]
  <2>1. \A r \in Peer : ps'[r].my_bitfield \subseteq Piece
    BY <1>5 DEF Good, IsStore
  <2> QED
    BY <1>1, <2>1, HoldingsType DEF Holdings
<1>7. \A r \in Peer : Holdings[r] \subseteq Holdings'[r]
  BY <1>4 DEF Holdings
<1>8. \A r \in Peer : Good(ps'[r], r, Holdings')
  BY <1>5, <1>6, <1>7, GoodMonotone
<1> QED
  BY <1>2, <1>3, <1>4, <1>8 DEF GoodStores

LEMMA MessagesStayTrue ==
    ASSUME IInv, NEW p \in Peer, NEW t, Does(p, t)
    PROVE  \A a \in Peer : \A m \in Message : MessageTrue(a, m) => MessageTrue(a, m)'
  BY HoldingsGrow DEF MessageTrue, Does

LEMMA AllCompleteStays ==
    ASSUME IInv, NEW p \in Peer, NEW t, Does(p, t), AllComplete
    PROVE  AllComplete'
<1>1. \A r \in Peer : ps[r].my_bitfield = Piece
  BY DEF AllComplete, has_complete_file, Complete
<1>2. \A r \in Peer : ps'[r].my_bitfield \subseteq Piece
  BY HoldingsGrow DEF GoodStores, Good, IsStore
<1>3. \A r \in Peer : Piece \subseteq ps'[r].my_bitfield
  BY <1>1, HoldingsGrow
<1>4. \A r \in Peer : ps'[r].my_bitfield = Piece
  BY <1>2, <1>3
<1> QED
  BY <1>4 DEF AllComplete, has_complete_file, Complete

\* A step of that kind keeps the invariant.
LEMMA StepKeepsIInv ==
    ASSUME IInv, NEW p \in Peer, NEW t, Does(p, t),
           NEW sent, SendsTrue(p, sent), AnnouncesTrue(p), RestOK'
    PROVE  IInv'
<1>1. MessagesTrue'
  <2> SUFFICES ASSUME NEW a \in Peer, NEW b \in Peer, NEW m \in Elems(chan'[a][b])
               PROVE  MessageTrue(a, m)'
    BY DEF MessagesTrue
  <2>1. CASE m \in Elems(chan[a][b])
    <3>1. MessageTrue(a, m) /\ m \in Message
      BY <2>1, ElemsType, IInvParts DEF MessagesTrue, Streams
    <3> QED
      BY <3>1, MessagesStayTrue
  <2>2. CASE a = p /\ m \in Elems(sent[b])
    BY <2>2 DEF SendsTrue
  <2> QED
    BY <2>1, <2>2 DEF SendsTrue, Carries
<1>2. StoppedIsDone'
  BY DEF StoppedIsDone, Does, AnnouncesTrue
<1>3. NoFalseTermination'
  <2> SUFFICES ASSUME NoCrash', NEW r \in Peer, all_done'[r]
               PROVE  AllComplete'
    BY DEF NoFalseTermination, AnnouncedIsTrue
  <2>1. NoCrash
    BY DEF NoCrash, Does
  <2>2. CASE all_done[r]
    <3>1. AllComplete
      BY <2>1, <2>2, IInvParts DEF NoFalseTermination, AnnouncedIsTrue
    <3> QED
      BY <3>1, AllCompleteStays
  <2>3. CASE AllComplete'
    BY <2>3
  <2> QED
    BY <2>1, <2>2, <2>3 DEF AnnouncesTrue
<1>4. /\ status' \in [Peer -> Status] /\ chan' \in Streams
      /\ all_done' \in [Peer -> BOOLEAN]
  BY DEF Does, SendsTrue, Carries, AnnouncesTrue
<1> QED
  BY <1>1, <1>2, <1>3, <1>4, HoldingsGrow, IInvParts
     DEF IInv, TypeOK, RestOK, GoodStores, Good, RequestsReserved, BeliefsTrue, Streams

-----------------------------------------------------------------------------
(* Termination, interest and requests. *)

\* A peer that terminates by its beliefs is right: it counts NumPeers - 1
\* other peers, and there are no more.
LEMMA TerminatesTrue ==
    ASSUME NEW s, NEW p \in Peer, NEW F \in [Peer -> SUBSET Piece], Good(s, p, F),
           all_neighbors_complete(s, NumPeers - 1)
    PROVE  \A q \in Peer \ {p} : F[q] = Piece
<1> DEFINE others == Peer \ {p}
           seen == SeenComplete(s)
<1>1. \A q \in seen : q \in others /\ F[q] = Piece
  <2>1. \A q \in s.completed_neighbor_ids : q \in others /\ F[q] = Piece
    BY DEF Good, IsStore, Sound
  <2>2. ASSUME NEW q \in DOMAIN s.neighbors, Complete(s.neighbors[q].bitfield)
        PROVE  q \in others /\ F[q] = Piece
    BY <2>2 DEF Good, IsStore, Sound, Complete
  <2> QED
    BY <2>1, <2>2 DEF SeenComplete
<1>2. IsFiniteSet(Peer) /\ Cardinality(Peer) = NumPeers
  BY SwarmAssumption, FS_Interval
<1>3. IsFiniteSet(others) /\ Cardinality(others) = NumPeers - 1
  BY <1>2, FS_RemoveElement
<1>4. seen \in SUBSET others
  BY <1>1
<1>5. IsFiniteSet(seen) /\ Cardinality(seen) <= NumPeers - 1
      /\ (Cardinality(others) = Cardinality(seen) => others = seen)
  BY <1>3, <1>4, FS_Subset
<1>6. Cardinality(seen) >= NumPeers - 1
  BY DEF all_neighbors_complete
<1>7. Cardinality(seen) \in Nat
  BY <1>5, FS_CardinalityType
<1>8. others = seen
  BY <1>3, <1>5, <1>6, <1>7, SwarmAssumption
<1> QED
  BY <1>1, <1>8

\* It terminates by the store s it has half way through a handler.
LEMMA EndTrue ==
    ASSUME IInv, NEW p \in Peer, NEW t, Does(p, t),
           NEW s, Good(s, p, Holdings), s.my_bitfield = t.my_bitfield,
           NEW logged, Terminates(s, logged)
    PROVE  AllComplete'
<1>1. \A q \in Peer \ {p} : Holdings[q] = Piece
  BY TerminatesTrue, IInvParts, HoldingsType DEF Terminates
<1>2. t.my_bitfield = Piece
  BY DEF Terminates, has_complete_file, Complete
<1>3. \A q \in Peer : ps'[q].my_bitfield = Piece
  BY <1>1, <1>2, HoldingsGrow DEF Holdings
<1> QED
  BY <1>3 DEF AllComplete, has_complete_file, Complete

LEMMA InterestMsgsType ==
    ASSUME NEW s, NEW q
    PROVE  /\ InterestMsgs(s, q) \in Seq(Message)
           /\ \A m \in Elems(InterestMsgs(s, q)) : m.type \in {"INTERESTED", "NOT_INTERESTED"}
<1>1. InterestMsgs(s, q) \in {<<>>, <<Signal("INTERESTED")>>, <<Signal("NOT_INTERESTED")>>}
  BY DEF InterestMsgs
<1>2. Signal("INTERESTED").type = "INTERESTED" /\ Signal("NOT_INTERESTED").type = "NOT_INTERESTED"
  BY DEF Signal
<1> QED
  BY <1>1, <1>2, MessageTypes, ElemsShort, ZenonT(30) DEF Signals

LEMMA RequestOutcomesGood ==
    ASSUME NEW s, NEW p \in Peer, NEW F, NEW q \in Peer, Good(s, p, F),
           NEW o \in RequestOutcomes(s, q)
    PROVE  /\ GoodUpdate(s, o.store, p, F)
           /\ o.msgs \in Seq(Message)
           /\ \A m \in Elems(o.msgs) : m.type = "REQUEST"
<1>1. CASE o = [store |-> s, msgs |-> <<>>]
  BY <1>1, MessageTypes, ElemsShort DEF GoodUpdate
<1>2. CASE o # [store |-> s, msgs |-> <<>>]
  <2>1. PICK i \in Candidates(s, q) :
           o = [store |-> reserve_request(s, q, i), msgs |-> <<Request(i)>>]
    BY <1>2 DEF RequestOutcomes
  <2>2. i \in Piece
    BY DEF Candidates, get_interesting_pieces, Good, IsStore, NeighborState, Knows
  <2>3. Request(i).type = "REQUEST"
    BY DEF Request
  <2> QED
    BY <2>1, <2>2, <2>3, ReserveRequestGood, MessageTypes, ElemsShort
<1> QED
  BY <1>1, <1>2

\* Messages that say nothing about their sender.
LEMMA SilentTrue ==
    ASSUME NEW p, NEW m,
           m.type \notin {"HAVE", "PIECE", "BITFIELD", "EOF"}
    PROVE  MessageTrue(p, m) /\ MessageTrue(p, m)'
  BY DEF MessageTrue

-----------------------------------------------------------------------------
(* The initial state and the actions. *)

LEMMA InitIInv == Init => IInv
<1> SUFFICES ASSUME Init PROVE IInv
  OBVIOUS
<1>1. ps = [p \in Peer |-> NewStore(p \in Seeders)]
  BY DEF Init
<1>2. ASSUME NEW p \in Peer
      PROVE  Good(ps[p], p, Holdings)
  <2>1. ps[p] \in {NewStore(TRUE), NewStore(FALSE)}
    BY <1>1 DEF NewStore
  <2> QED
    BY <2>1, NewStoreGood
<1>3. chan \in Streams /\ \A p, q \in Peer : chan[p][q] = <<>>
  BY MessageTypes DEF Init, Streams
<1>4. MessagesTrue
  BY <1>3, ElemsShort DEF MessagesTrue
<1>5. /\ status \in [Peer -> Status] /\ all_done \in [Peer -> BOOLEAN] /\ RestOK
      /\ StoppedIsDone /\ NoFalseTermination
  BY DEF Init, Status, RestOK, StoppedIsDone, NoFalseTermination, AnnouncedIsTrue
<1> QED
  BY <1>1, <1>2, <1>3, <1>4, <1>5, IInvParts DEF GoodStores

\* What a receive thread may rely on.
LEMMA Received ==
    ASSUME IInv, NEW p \in Peer, NEW q \in Peer, NEW t, Receives(p, q, t)
    PROVE  /\ p # q /\ chan \in Streams /\ chan[q][p] # <<>>
           /\ Head(chan[q][p]) \in Message /\ Head(chan[q][p]).type = t
           /\ MessageTrue(q, Head(chan[q][p]))
<1>1. /\ p # q /\ chan \in Streams /\ chan[q][p] # <<>>
      /\ Head(chan[q][p]).type = t /\ chan[q][p] \in Seq(Message)
  BY IInvParts DEF Receives, Streams
<1>2. Head(chan[q][p]) \in Elems(chan[q][p]) /\ Head(chan[q][p]) \in Message
  BY <1>1, ElemsTail, ElemsType
<1> QED
  BY <1>1, <1>2, IInvParts DEF MessagesTrue

LEMMA MyStore ==
    ASSUME IInv, NEW p \in Peer
    PROVE  /\ Good(ps[p], p, Holdings) /\ Holdings \in [Peer -> SUBSET Piece]
           /\ chan \in Streams /\ RestOK /\ all_done \in [Peer -> BOOLEAN]
           /\ status \in [Peer -> Status]
  BY IInvParts, HoldingsType DEF GoodStores

LEMMA DoesUpdate ==
    ASSUME IInv, NEW p \in Peer, NEW t, GoodUpdate(ps[p], t, p, Holdings),
           ps' = [ps EXCEPT ![p] = t], UNCHANGED status
    PROVE  Does(p, t)
  BY IInvParts DEF Does, GoodUpdate, StoppedIsDone

LEMMA DoesNothing ==
    ASSUME IInv, NEW p \in Peer, UNCHANGED <<ps, status>>
    PROVE  Does(p, ps[p])
<1>1. GoodUpdate(ps[p], ps[p], p, Holdings)
  BY MyStore DEF GoodUpdate
<1>2. ps' = [ps EXCEPT ![p] = ps[p]]
  BY IInvParts
<1> QED
  BY <1>1, <1>2, DoesUpdate

LEMMA AnnouncesNothing ==
    ASSUME IInv, NEW p \in Peer, UNCHANGED all_done
    PROVE  AnnouncesTrue(p)
  BY IInvParts DEF AnnouncesTrue

LEMMA AnnouncesEnd ==
    ASSUME IInv, NEW p \in Peer, NEW d,
           all_done' = [all_done EXCEPT ![p] = @ \/ d], d \in BOOLEAN,
           d => (NoCrash => AllComplete')
    PROVE  AnnouncesTrue(p)
<1>1. all_done \in [Peer -> BOOLEAN]
  BY IInvParts
<1>2. \A r \in Peer : all_done'[r] = IF r = p THEN all_done[p] \/ d ELSE all_done[r]
  BY <1>1
<1> QED
  BY <1>1, <1>2 DEF AnnouncesTrue

LEMMA SendsReply ==
    ASSUME IInv, NEW p \in Peer, NEW q \in Peer, NEW t, Receives(p, q, t),
           NEW sent \in Letters, Reply(p, q, sent),
           \A r \in Peer : \A m \in Elems(sent[r]) : MessageTrue(p, m)'
    PROVE  SendsTrue(p, sent)
  BY Received, ReplyCarries DEF SendsTrue

LEMMA SendsOne ==
    ASSUME IInv, NEW p \in Peer, NEW q \in Peer, NEW t, Receives(p, q, t),
           NEW c \in Seq(Message), Reply(p, q, OnlyTo(q, c)),
           \A m \in Elems(c) : MessageTrue(p, m)'
    PROVE  SendsTrue(p, OnlyTo(q, c))
  BY SendsReply, OnlyToLetters

LEMMA SendsNothing ==
    ASSUME IInv, NEW p \in Peer, NEW q \in Peer, NEW t, Receives(p, q, t),
           Reply(p, q, OnlyTo(q, <<>>))
    PROVE  SendsTrue(p, OnlyTo(q, <<>>))
  BY SendsOne, MessageTypes, ElemsShort

LEMMA ReceiveInterestedStep ==
    ASSUME IInv, NEW p \in Peer, NEW q \in Peer, ReceiveInterested(p, q)
    PROVE  IInv'
<1> DEFINE t == set_peer_interested(ps[p], q, TRUE)
<1>1. GoodUpdate(ps[p], t, p, Holdings)
  BY MyStore, SetPeerInterestedGood
<1>2. ps' = [ps EXCEPT ![p] = t] /\ UNCHANGED <<status, all_done>>
  BY DEF ReceiveInterested, doneVars
<1> HIDE DEF t
<1>3. Does(p, t) /\ AnnouncesTrue(p)
  BY <1>1, <1>2, DoesUpdate, AnnouncesNothing
<1>4. SendsTrue(p, OnlyTo(q, <<>>))
  BY SendsNothing DEF ReceiveInterested
<1>5. RestOK'
  BY MyStore DEF ReceiveInterested, RestOK, netVars, timerVars, doneVars
<1> QED
  BY <1>3, <1>4, <1>5, StepKeepsIInv

LEMMA ReceiveNotInterestedStep ==
    ASSUME IInv, NEW p \in Peer, NEW q \in Peer, ReceiveNotInterested(p, q)
    PROVE  IInv'
<1> DEFINE t == set_peer_interested(ps[p], q, FALSE)
<1>1. GoodUpdate(ps[p], t, p, Holdings)
  BY MyStore, SetPeerInterestedGood
<1>2. ps' = [ps EXCEPT ![p] = t] /\ UNCHANGED <<status, all_done>>
  BY DEF ReceiveNotInterested, doneVars
<1> HIDE DEF t
<1>3. Does(p, t) /\ AnnouncesTrue(p)
  BY <1>1, <1>2, DoesUpdate, AnnouncesNothing
<1>4. SendsTrue(p, OnlyTo(q, <<>>))
  BY SendsNothing DEF ReceiveNotInterested
<1>5. RestOK'
  BY MyStore DEF ReceiveNotInterested, RestOK, netVars, timerVars, doneVars
<1> QED
  BY <1>3, <1>4, <1>5, StepKeepsIInv

LEMMA ReceivePieceWriteFailsStep ==
    ASSUME IInv, NEW p \in Peer, NEW q \in Peer, ReceivePieceWriteFails(p, q)
    PROVE  IInv'
<1> DEFINE t == clear_outstanding_request(ps[p], q)
<1>1. GoodUpdate(ps[p], t, p, Holdings)
  BY MyStore, ClearOutstandingGood
<1>2. ps' = [ps EXCEPT ![p] = t] /\ UNCHANGED <<status, all_done>>
  BY DEF ReceivePieceWriteFails, doneVars
<1> HIDE DEF t
<1>3. Does(p, t) /\ AnnouncesTrue(p)
  BY <1>1, <1>2, DoesUpdate, AnnouncesNothing
<1>4. SendsTrue(p, OnlyTo(q, <<>>))
  BY SendsNothing DEF ReceivePieceWriteFails
<1>5. RestOK'
  BY MyStore DEF ReceivePieceWriteFails, RestOK, netVars, timerVars, doneVars
<1> QED
  BY <1>3, <1>4, <1>5, StepKeepsIInv

LEMMA ReceiveChokeStep ==
    ASSUME IInv, NEW p \in Peer, NEW q \in Peer, ReceiveChoke(p, q)
    PROVE  IInv'
<1> DEFINE choked == set_peer_choking(ps[p], q, TRUE)
           t == clear_outstanding_request(choked, q)
<1>1. GoodUpdate(ps[p], choked, p, Holdings)
  BY MyStore, SetPeerChokingGood
<1> HIDE DEF choked
<1>2. GoodUpdate(choked, t, p, Holdings)
  BY <1>1, ClearOutstandingGood DEF GoodUpdate
<1>3. ps' = [ps EXCEPT ![p] = t] /\ UNCHANGED <<status, all_done>>
  BY DEF ReceiveChoke, doneVars, choked
<1> HIDE DEF t
<1>4. Does(p, t) /\ AnnouncesTrue(p)
  BY <1>1, <1>2, <1>3, DoesUpdate, AnnouncesNothing DEF GoodUpdate
<1>5. SendsTrue(p, OnlyTo(q, <<>>))
  BY SendsNothing DEF ReceiveChoke
<1>6. RestOK'
  BY MyStore DEF ReceiveChoke, RestOK, netVars, timerVars, doneVars
<1> QED
  BY <1>4, <1>5, <1>6, StepKeepsIInv

LEMMA ReceiveUnchokeStep ==
    ASSUME IInv, NEW p \in Peer, NEW q \in Peer, ReceiveUnchoke(p, q)
    PROVE  IInv'
<1> DEFINE unchoked == set_peer_choking(ps[p], q, FALSE)
<1>1. GoodUpdate(ps[p], unchoked, p, Holdings)
  BY MyStore, SetPeerChokingGood
<1>2. PICK o \in RequestOutcomes(unchoked, q) :
         /\ ps' = [ps EXCEPT ![p] = o.store]
         /\ Reply(p, q, OnlyTo(q, o.msgs))
  BY DEF ReceiveUnchoke
<1> HIDE DEF unchoked
<1>3. /\ GoodUpdate(unchoked, o.store, p, Holdings)
      /\ o.msgs \in Seq(Message)
      /\ \A m \in Elems(o.msgs) : m.type = "REQUEST"
  BY <1>1, RequestOutcomesGood DEF GoodUpdate
<1>4. Does(p, o.store) /\ AnnouncesTrue(p)
  <2>1. GoodUpdate(ps[p], o.store, p, Holdings)
    BY <1>1, <1>3 DEF GoodUpdate
  <2> QED
    BY <1>2, <2>1, DoesUpdate, AnnouncesNothing DEF ReceiveUnchoke, doneVars
<1>5. SendsTrue(p, OnlyTo(q, o.msgs))
  <2>1. \A m \in Elems(o.msgs) : MessageTrue(p, m)'
    BY <1>3, SilentTrue
  <2> QED
    BY <1>2, <1>3, <2>1, SendsOne DEF ReceiveUnchoke
<1>6. RestOK'
  BY MyStore DEF ReceiveUnchoke, RestOK, netVars, timerVars, doneVars
<1> QED
  BY <1>4, <1>5, <1>6, StepKeepsIInv

LEMMA ReceiveHandshakeStep ==
    ASSUME IInv, NEW p \in Peer, NEW q \in Peer, ReceiveHandshake(p, q)
    PROVE  IInv'
<1> DEFINE t == add_neighbor(ps[p], q)
           b == ps[p].my_bitfield
           c == Greeting(ps[p])
<1>1. p # q
  BY Received DEF ReceiveHandshake
<1>2. GoodUpdate(ps[p], t, p, Holdings)
  BY <1>1, MyStore, AddNeighborGood
<1>3. ps' = [ps EXCEPT ![p] = t] /\ UNCHANGED <<status, all_done>>
  BY DEF ReceiveHandshake, doneVars
<1> HIDE DEF t
<1>4. Does(p, t) /\ AnnouncesTrue(p)
  BY <1>2, <1>3, DoesUpdate, AnnouncesNothing
<1>5. SendsTrue(p, OnlyTo(q, c))
  <2>1. b \subseteq Piece
    BY MyStore DEF Good, IsStore
  <2>2. c \in Seq(Message) /\ Elems(c) \subseteq {BitfieldMsg(b)}
    BY <2>1, MessageTypes, ElemsShort DEF Greeting
  <2>3. ps'[p].my_bitfield = b
    BY <1>2, <1>4, HoldingsGrow DEF GoodUpdate
  <2>4. ASSUME NEW m, m = BitfieldMsg(b)
        PROVE  MessageTrue(p, m)'
    BY <2>3, <2>4 DEF MessageTrue, BitfieldMsg
  <2> QED
    BY <2>2, <2>4, SendsOne DEF ReceiveHandshake
<1>6. RestOK'
  BY MyStore DEF ReceiveHandshake, RestOK, netVars, timerVars, doneVars
<1> QED
  BY <1>4, <1>5, <1>6, StepKeepsIInv

LEMMA ReceiveRequestStep ==
    ASSUME IInv, NEW p \in Peer, NEW q \in Peer, ReceiveRequest(p, q)
    PROVE  IInv'
<1> DEFINE i == Head(chan[q][p]).piece
           serves == ~is_am_choking(ps[p], q) /\ i \in ps[p].my_bitfield
           c == IF serves THEN <<PieceMsg(i)>> ELSE <<>>
<1>1. Does(p, ps[p]) /\ AnnouncesTrue(p)
  BY DoesNothing, AnnouncesNothing DEF ReceiveRequest, doneVars
<1>2. i \in Piece
  BY Received DEF ReceiveRequest, Message, Signals
<1>3. c \in Seq(Message) /\ \A m \in Elems(c) : m = PieceMsg(i) /\ i \in ps[p].my_bitfield
  BY <1>2, MessageTypes, ElemsShort
<1>4. ASSUME NEW m \in Elems(c)
      PROVE  MessageTrue(p, m)'
  <2>1. m.type = "PIECE" /\ m.piece \in ps'[p].my_bitfield
    BY <1>3, <1>4 DEF PieceMsg, ReceiveRequest
  <2> QED
    BY <2>1 DEF MessageTrue
<1>5. SendsTrue(p, OnlyTo(q, c))
  BY <1>3, <1>4, SendsOne DEF ReceiveRequest
<1>6. RestOK'
  BY MyStore DEF ReceiveRequest, RestOK, netVars, timerVars, doneVars
<1> QED
  BY <1>1, <1>5, <1>6, StepKeepsIInv

LEMMA ReceiveBitfieldStep ==
    ASSUME IInv, NEW p \in Peer, NEW q \in Peer, ReceiveBitfield(p, q)
    PROVE  IInv'
<1> DEFINE b == Head(chan[q][p]).bitfield
           told == update_neighbor_bitfield(ps[p], q, b)
           t == SetInterest(told, {q})
           answer == IF get_interesting_pieces(t, q) # {} THEN "INTERESTED"
                     ELSE "NOT_INTERESTED"
<1>1. b \subseteq Holdings[q]
  BY Received DEF ReceiveBitfield, MessageTrue, Holdings
<1>2. GoodUpdate(ps[p], told, p, Holdings)
  BY <1>1, MyStore, SetNeighborBitfieldGood DEF update_neighbor_bitfield
<1> HIDE DEF b
<1>3. GoodUpdate(ps[p], t, p, Holdings)
  <2> HIDE DEF told
  <2> QED
    BY <1>2, SetInterestGood DEF GoodUpdate
<1>4. /\ ps' = [ps EXCEPT ![p] = t]
      /\ UNCHANGED <<status, completion_logged>>
      /\ Reply(p, q, OnlyTo(q, <<Signal(answer)>>))
      /\ \E sent \in SendOutcomes(q) :
            all_done' = [all_done EXCEPT ![p] =
                @ \/ (sent /\ Terminates(t, completion_logged[p]))]
  BY DEF ReceiveBitfield, b
<1> HIDE DEF t
<1>5. Does(p, t)
  BY <1>3, <1>4, DoesUpdate
<1>6. AnnouncesTrue(p)
  <2>1. PICK sent \in BOOLEAN :
           all_done' = [all_done EXCEPT ![p] =
                @ \/ (sent /\ Terminates(t, completion_logged[p]))]
    BY <1>4 DEF SendOutcomes
  <2>2. (sent /\ Terminates(t, completion_logged[p])) \in BOOLEAN
    OBVIOUS
  <2>3. sent /\ Terminates(t, completion_logged[p]) => AllComplete'
    BY <1>5, EndTrue DEF Does
  <2> QED
    BY <2>1, <2>2, <2>3, AnnouncesEnd
<1>7. SendsTrue(p, OnlyTo(q, <<Signal(answer)>>))
  <2>1. answer \in {"INTERESTED", "NOT_INTERESTED"} /\ Signal(answer).type = answer
    BY DEF Signal
  <2>2. <<Signal(answer)>> \in Seq(Message)
    BY <2>1, MessageTypes DEF Signals
  <2>3. \A m \in Elems(<<Signal(answer)>>) : m.type \in {"INTERESTED", "NOT_INTERESTED"}
    BY <2>1, ElemsShort
  <2> HIDE DEF answer
  <2>4. \A m \in Elems(<<Signal(answer)>>) : MessageTrue(p, m)'
    BY <2>3, SilentTrue
  <2> QED
    BY <1>4, <2>2, <2>4, SendsOne DEF ReceiveBitfield
<1>8. RestOK'
  BY MyStore DEF ReceiveBitfield, RestOK, netVars, timerVars, doneVars
<1> QED
  BY <1>5, <1>6, <1>7, <1>8, StepKeepsIInv

LEMMA ReceiveHaveStep ==
    ASSUME IInv, NEW p \in Peer, NEW q \in Peer, ReceiveHave(p, q)
    PROVE  IInv'
<1> DEFINE i == Head(chan[q][p]).piece
           told == neighbor_set_piece(ps[p], q, i)
           t == SetInterest(told, {q})
           c == InterestMsgs(told, q)
<1>1. i \in Holdings[q]
  BY Received DEF ReceiveHave, MessageTrue, Holdings
<1>2. GoodUpdate(ps[p], told, p, Holdings)
  <2>1. CASE ~Knows(ps[p], q)
    BY <2>1, MyStore DEF neighbor_set_piece, GoodUpdate
  <2>2. CASE Knows(ps[p], q)
    <3>1. ps[p].neighbors[q].bitfield \cup {i} \in SUBSET Holdings[q]
      BY <1>1, <2>2, MyStore DEF Good, Sound, Knows
    <3> QED
      BY <2>2, <3>1, MyStore, SetNeighborBitfieldGood DEF neighbor_set_piece
  <2> QED
    BY <2>1, <2>2
<1>3. /\ ps' = [ps EXCEPT ![p] = t]
      /\ UNCHANGED <<status, completion_logged>>
      /\ Reply(p, q, OnlyTo(q, c))
      /\ all_done' = [all_done EXCEPT ![p] = @ \/ Terminates(told, completion_logged[p])]
  BY DEF ReceiveHave
<1> HIDE DEF told
<1>4. GoodUpdate(ps[p], t, p, Holdings)
  BY <1>2, SetInterestGood DEF GoodUpdate
<1>5. Does(p, t)
  <2> HIDE DEF t
  <2> QED
    BY <1>3, <1>4, DoesUpdate
<1>6. AnnouncesTrue(p)
  <2>1. Terminates(told, completion_logged[p]) \in BOOLEAN
    BY DEF Terminates, has_complete_file, Complete, all_neighbors_complete
  <2>2. ASSUME Terminates(told, completion_logged[p]) PROVE AllComplete'
    <3>1. Good(told, p, Holdings) /\ told.my_bitfield = t.my_bitfield
      BY <1>2, <1>4 DEF GoodUpdate
    <3> QED
      BY <1>5, <2>2, <3>1, EndTrue
  <2> QED
    BY <1>3, <2>1, <2>2, AnnouncesEnd
<1>7. SendsTrue(p, OnlyTo(q, c))
  <2>1. c \in Seq(Message) /\ \A m \in Elems(c) : m.type \in {"INTERESTED", "NOT_INTERESTED"}
    BY InterestMsgsType
  <2>2. \A m \in Elems(c) : MessageTrue(p, m)'
    BY <2>1, SilentTrue
  <2> QED
    BY <1>3, <2>1, <2>2, SendsOne DEF ReceiveHave
<1>8. RestOK'
  BY MyStore DEF ReceiveHave, RestOK, netVars, timerVars, doneVars
<1> QED
  BY <1>5, <1>6, <1>7, <1>8, StepKeepsIInv

LEMMA ReceivePieceStep ==
    ASSUME IInv, NEW p \in Peer, NEW q \in Peer, ReceivePiece(p, q)
    PROVE  IInv'
<1> DEFINE i == Head(chan[q][p]).piece
           cleared == clear_outstanding_request(ps[p], q)
           stored == mark_piece_downloaded(cleared, i)
           synced == SetInterest(stored, connections[p])
           logged == completion_logged[p] \/ has_complete_file(stored)
           outcomes == IF has_complete_file(stored)
                       THEN {[store |-> synced, msgs |-> <<>>]}
                       ELSE RequestOutcomes(synced, q)
           Announce(r) == IF r \in connections[p]
                          THEN <<Have(i)>> \o InterestMsgs(stored, r)
                          ELSE <<>>
<1>1. i \in Piece
  BY Received DEF ReceivePiece, Message, Signals
<1>2. PICK o \in outcomes :
         /\ ps' = [ps EXCEPT ![p] = o.store]
         /\ Reply(p, q, [r \in Peer |->
               Announce(r) \o (IF r = q THEN o.msgs ELSE <<>>)])
  BY DEF ReceivePiece
<1>3. /\ UNCHANGED status
      /\ completion_logged' = [completion_logged EXCEPT ![p] = logged]
      /\ all_done' = [all_done EXCEPT ![p] = @ \/ Terminates(stored, logged)]
      /\ Receives(p, q, "PIECE")
  BY DEF ReceivePiece
<1>4. logged \in BOOLEAN
  BY MyStore DEF RestOK, has_complete_file, Complete
<1> DEFINE sent == [r \in Peer |-> Announce(r) \o (IF r = q THEN o.msgs ELSE <<>>)]
<1> HIDE DEF i, logged
<1>5. GoodUpdate(ps[p], cleared, p, Holdings)
  BY MyStore, ClearOutstandingGood
<1> HIDE DEF cleared
<1>6. /\ Good(stored, p, Holdings)
      /\ ps[p].my_bitfield \subseteq stored.my_bitfield /\ i \in stored.my_bitfield
  <2>1. Good(cleared, p, Holdings) /\ cleared.my_bitfield = ps[p].my_bitfield
    BY <1>5 DEF GoodUpdate
  <2> QED
    BY <1>1, <2>1, MarkDownloadedGood
<1> HIDE DEF stored
<1>7. GoodUpdate(stored, synced, p, Holdings)
  BY <1>6, SetInterestGood
<1> HIDE DEF synced
<1>8. /\ GoodUpdate(stored, o.store, p, Holdings)
      /\ o.msgs \in Seq(Message)
      /\ \A m \in Elems(o.msgs) : m.type = "REQUEST"
  <2>1. CASE has_complete_file(stored)
    <3>1. o.store = synced /\ o.msgs = <<>>
      BY <2>1
    <3> QED
      BY <1>7, <3>1, MessageTypes, ElemsShort
  <2>2. CASE ~has_complete_file(stored)
    BY <1>7, <2>2, RequestOutcomesGood DEF GoodUpdate
  <2> QED
    BY <2>1, <2>2
<1> HIDE DEF outcomes
<1>9. Does(p, o.store)
  BY <1>2, <1>3, <1>6, <1>8, IInvParts DEF Does, GoodUpdate, StoppedIsDone
<1>10. AnnouncesTrue(p)
  <2>1. Terminates(stored, logged) \in BOOLEAN
    BY <1>4 DEF Terminates, has_complete_file, Complete, all_neighbors_complete
  <2>2. ASSUME Terminates(stored, logged) PROVE AllComplete'
    BY <1>6, <1>8, <1>9, <2>2, EndTrue DEF GoodUpdate
  <2> QED
    BY <1>3, <2>1, <2>2, AnnouncesEnd
<1>11. ASSUME NEW r \in Peer
       PROVE  /\ sent[r] \in Seq(Message)
              /\ \A m \in Elems(sent[r]) : m = Have(i)
                    \/ m.type \in {"INTERESTED", "NOT_INTERESTED", "REQUEST"}
  <2> DEFINE tail == IF r = q THEN o.msgs ELSE <<>>
             told == InterestMsgs(stored, r)
  <2>1. tail \in Seq(Message) /\ \A m \in Elems(tail) : m.type = "REQUEST"
    BY <1>8, MessageTypes, ElemsShort
  <2>2. /\ told \in Seq(Message)
        /\ \A m \in Elems(told) : m.type \in {"INTERESTED", "NOT_INTERESTED"}
    BY InterestMsgsType
  <2>3. <<Have(i)>> \in Seq(Message) /\ Elems(<<Have(i)>>) = {Have(i)}
    BY <1>1, MessageTypes, ElemsShort
  <2>4. sent[r] = Announce(r) \o tail
    OBVIOUS
  <2> HIDE DEF told, tail
  <2>5. /\ <<Have(i)>> \o told \in Seq(Message)
        /\ Elems(<<Have(i)>> \o told) = {Have(i)} \cup Elems(told)
    BY <2>2, <2>3, ElemsConcat
  <2>6. /\ Announce(r) \in Seq(Message)
        /\ Elems(Announce(r)) \subseteq {Have(i)} \cup Elems(told)
    BY <2>5, MessageTypes, ElemsShort DEF told
  <2> HIDE DEF Announce
  <2>7. /\ Announce(r) \o tail \in Seq(Message)
        /\ Elems(Announce(r) \o tail) = Elems(Announce(r)) \cup Elems(tail)
    BY <2>1, <2>6, ElemsConcat
  <2> QED
    BY <2>1, <2>2, <2>4, <2>6, <2>7
<1>12. SendsTrue(p, sent)
  <2>1. sent \in Letters
    BY <1>11 DEF Letters
  <2>2. ASSUME NEW m, m = Have(i) PROVE MessageTrue(p, m)'
    <3>1. i \in ps'[p].my_bitfield
      BY <1>6, <1>8, <1>9, HoldingsGrow DEF GoodUpdate
    <3> QED
      BY <2>2, <3>1 DEF MessageTrue, Have
  <2>3. \A r \in Peer : \A m \in Elems(sent[r]) : MessageTrue(p, m)'
    BY <1>11, <2>2, SilentTrue
  <2> HIDE DEF sent
  <2> QED
    BY <1>2, <1>3, <2>1, <2>3, SendsReply DEF sent
<1>13. RestOK'
  BY <1>3, <1>4, MyStore DEF ReceivePiece, RestOK, netVars, timerVars
<1> QED
  BY <1>9, <1>10, <1>12, <1>13, StepKeepsIInv

LEMMA ReceiveEofStep ==
    ASSUME IInv, NEW p \in Peer, NEW q \in Peer, ReceiveEof(p, q)
    PROVE  IInv'
<1> DEFINE t == IF q \in connections[p] THEN remove_neighbor(ps[p], q) ELSE ps[p]
           alone == (connections[p] \cup incoming[p]) \ {q} = {}
           d == \/ completion_logged[p] /\ alone /\ has_complete_file(t)
                \/ Terminates(t, completion_logged[p])
<1>1. GoodUpdate(ps[p], t, p, Holdings)
  BY MyStore, RemoveNeighborGood, ZenonT(30) DEF GoodUpdate
<1>2. /\ ps' = [ps EXCEPT ![p] = t]
      /\ UNCHANGED <<status, completion_logged>>
      /\ Reply(p, q, OnlyTo(q, <<>>))
      /\ all_done' = [all_done EXCEPT ![p] = @ \/ d]
  BY DEF ReceiveEof
<1> HIDE DEF t
<1>3. Does(p, t)
  BY <1>1, <1>2, DoesUpdate
<1>4. AnnouncesTrue(p)
  <2>1. d \in BOOLEAN
    BY MyStore DEF RestOK, has_complete_file, Complete, Terminates, all_neighbors_complete
  <2>2. ASSUME NoCrash PROVE AllComplete'
    <3>1. status[q] = "stopped"
      BY <2>2, Received DEF ReceiveEof, MessageTrue, NoCrash
    <3>2. AllComplete
      BY <2>2, <3>1, IInvParts DEF StoppedIsDone, NoFalseTermination, AnnouncedIsTrue
    <3> QED
      BY <1>3, <3>2, AllCompleteStays
  <2> HIDE DEF d
  <2> QED
    BY <1>2, <2>1, <2>2, AnnouncesEnd
<1>5. SendsTrue(p, OnlyTo(q, <<>>))
  BY SendsNothing DEF ReceiveEof
<1>6. RestOK'
  BY MyStore DEF ReceiveEof, RestOK, timerVars
<1> QED
  BY <1>3, <1>4, <1>5, <1>6, StepKeepsIInv

LEMMA SendsTransmit ==
    ASSUME IInv, NEW p \in Peer, NEW sent \in Letters, Transmit(p, sent),
           \A r \in Peer : \A m \in Elems(sent[r]) :
              m.type \in {"HANDSHAKE", "CHOKE", "UNCHOKE"}
    PROVE  SendsTrue(p, sent)
<1>1. \A r \in Peer : \A m \in Elems(sent[r]) : MessageTrue(p, m)'
  BY SilentTrue
<1> QED
  BY <1>1, MyStore, TransmitCarries DEF SendsTrue

\* Nothing is sent.
LEMMA SendsSilence ==
    ASSUME IInv, NEW p \in Peer, UNCHANGED chan
    PROVE  SendsTrue(p, [r \in Peer |-> <<>>])
<1> DEFINE sent == [r \in Peer |-> <<>>]
<1>1. sent \in Letters /\ \A r \in Peer : Elems(sent[r]) = {}
  BY MessageTypes, ElemsShort DEF Letters
<1> HIDE DEF sent
<1>2. Carries(p, sent)
  BY MyStore DEF Carries
<1>3. SendsTrue(p, sent)
  BY <1>1, <1>2 DEF SendsTrue
<1> QED
  BY <1>3 DEF sent

LEMMA SendsHandshake ==
    ASSUME IInv, NEW p \in Peer, NEW q \in Peer,
           Transmit(p, OnlyTo(q, <<Signal("HANDSHAKE")>>))
    PROVE  SendsTrue(p, OnlyTo(q, <<Signal("HANDSHAKE")>>))
<1> DEFINE c == <<Signal("HANDSHAKE")>>
<1>1. Signal("HANDSHAKE").type = "HANDSHAKE"
  BY DEF Signal
<1>2. c \in Seq(Message) /\ \A m \in Elems(c) : m.type = "HANDSHAKE"
  BY <1>1, MessageTypes, ElemsShort DEF Signals
<1> HIDE DEF c
<1>3. /\ OnlyTo(q, c) \in Letters
      /\ \A r \in Peer : \A m \in Elems(OnlyTo(q, c)[r]) : m.type = "HANDSHAKE"
  BY <1>2, OnlyToLetters
<1> QED
  BY <1>3, SendsTransmit DEF c

LEMMA StartStep ==
    ASSUME IInv, NEW p \in Peer, Start(p)
    PROVE  IInv'
<1>1. status \in [Peer -> Status] /\ ps = [r \in Peer |-> ps[r]]
  BY IInvParts
<1>2. \A r \in Peer : status'[r] = IF r = p THEN "up" ELSE status[r]
  BY <1>1 DEF Start
<1>3. Does(p, ps[p])
  BY <1>1, <1>2, MyStore, IInvParts DEF Start, Does, Status, StoppedIsDone
<1>4. AnnouncesTrue(p) /\ SendsTrue(p, [r \in Peer |-> <<>>])
  BY AnnouncesNothing, SendsSilence DEF Start, doneVars
<1>5. RestOK'
  BY MyStore DEF Start, RestOK, netVars, timerVars, doneVars
<1> QED
  BY <1>3, <1>4, <1>5, StepKeepsIInv

LEMMA ConnectStep ==
    ASSUME IInv, NEW p \in Peer, Connect(p)
    PROVE  IInv'
<1> DEFINE q == next_peer[p]
<1>1. q \in Peer /\ q \in Nat
  <2>1. q \in Nat \ {0} /\ p \in 1 .. NumPeers /\ q < p /\ NumPeers \in Nat
    BY SwarmAssumption, MyStore DEF Connect, RestOK
  <2> HIDE DEF q
  <2>2. q \in 1 .. NumPeers
    BY <2>1
  <2> QED
    BY <2>1, <2>2, SwarmAssumption
<1>2. Does(p, ps[p]) /\ AnnouncesTrue(p)
  BY DoesNothing, AnnouncesNothing DEF Connect, doneVars
<1>3. SendsTrue(p, OnlyTo(q, <<Signal("HANDSHAKE")>>))
  BY <1>1, SendsHandshake DEF Connect
<1>4. RestOK'
  BY <1>1, MyStore DEF Connect, RestOK, timerVars, doneVars
<1> QED
  BY <1>2, <1>3, <1>4, StepKeepsIInv

LEMMA GiveUpStep ==
    ASSUME IInv, NEW p \in Peer, GiveUp(p)
    PROVE  IInv'
<1>1. Does(p, ps[p]) /\ AnnouncesTrue(p) /\ SendsTrue(p, [r \in Peer |-> <<>>])
  BY DoesNothing, AnnouncesNothing, SendsSilence DEF GiveUp, doneVars
<1>2. RestOK'
  BY MyStore DEF GiveUp, RestOK, timerVars, doneVars
<1> QED
  BY <1>1, <1>2, StepKeepsIInv

LEMMA AcceptStep ==
    ASSUME IInv, NEW p \in Peer, NEW q \in Peer, Accept(p, q)
    PROVE  IInv'
<1>1. Does(p, ps[p]) /\ AnnouncesTrue(p)
  BY DoesNothing, AnnouncesNothing DEF Accept, doneVars
<1>2. SendsTrue(p, OnlyTo(q, <<Signal("HANDSHAKE")>>))
  BY SendsHandshake DEF Accept
<1>3. RestOK'
  BY MyStore DEF Accept, RestOK, timerVars, doneVars
<1> QED
  BY <1>1, <1>2, <1>3, StepKeepsIInv

LEMMA RechokeDoes ==
    ASSUME IInv, NEW p \in Peer, NEW U, NEW C, Rechoke(p, U, C),
           UNCHANGED <<status, all_done>>
    PROVE  \E t, sent : Does(p, t) /\ AnnouncesTrue(p) /\ SendsTrue(p, sent)
<1> DEFINE t == set_am_choking(ps[p], U, C)
           sent == [q \in Peer |->
                      IF q \in U /\ is_am_choking(ps[p], q) THEN <<Signal("UNCHOKE")>>
                      ELSE IF q \in C /\ ~is_am_choking(ps[p], q) THEN <<Signal("CHOKE")>>
                      ELSE <<>>]
<1>1. ps' = [ps EXCEPT ![p] = t] /\ Transmit(p, sent)
  BY DEF Rechoke
<1>2. Does(p, t) /\ AnnouncesTrue(p)
  <2>1. GoodUpdate(ps[p], t, p, Holdings)
    BY MyStore, SetAmChokingGood
  <2> HIDE DEF t
  <2> QED
    BY <1>1, <2>1, DoesUpdate, AnnouncesNothing
<1>3. Signal("UNCHOKE").type = "UNCHOKE" /\ Signal("CHOKE").type = "CHOKE"
  BY DEF Signal
<1>4. ASSUME NEW q \in Peer
      PROVE  /\ sent[q] \in Seq(Message)
             /\ \A m \in Elems(sent[q]) : m.type \in {"CHOKE", "UNCHOKE"}
  <2>1. sent[q] \in {<<>>, <<Signal("CHOKE")>>, <<Signal("UNCHOKE")>>}
    OBVIOUS
  <2> HIDE DEF sent
  <2> QED
    BY <1>3, <2>1, MessageTypes, ElemsShort, ZenonT(30) DEF Signals
<1>5. sent \in Letters
  BY <1>4 DEF Letters
<1> HIDE DEF sent, t
<1>6. SendsTrue(p, sent)
  BY <1>1, <1>4, <1>5, SendsTransmit
<1> QED
  BY <1>2, <1>6

LEMMA SelectPreferredNeighborsStep ==
    ASSUME IInv, NEW p \in Peer, SelectPreferredNeighbors(p)
    PROVE  IInv'
<1>1. PICK selected \in SUBSET get_interested_neighbors(ps[p]) :
         /\ preferred_ids' = [preferred_ids EXCEPT ![p] = selected]
         /\ Rechoke(p, selected \cap connections[p],
                    connections[p] \ (selected \cup {optimistic_id[p]}))
  BY DEF SelectPreferredNeighbors
<1>2. PICK t, sent : Does(p, t) /\ AnnouncesTrue(p) /\ SendsTrue(p, sent)
  BY <1>1, RechokeDoes DEF SelectPreferredNeighbors, doneVars
<1>3. selected \subseteq Peer
  BY MyStore DEF get_interested_neighbors, Good, IsStore
<1>4. RestOK'
  BY <1>1, <1>3, MyStore DEF SelectPreferredNeighbors, RestOK, netVars, doneVars, Tick
<1> QED
  BY <1>2, <1>4, StepKeepsIInv

LEMMA SelectOptimisticNeighborStep ==
    ASSUME IInv, NEW p \in Peer, SelectOptimisticNeighbor(p)
    PROVE  IInv'
<1>1. PICK chosen \in get_choked_interested_neighbors(ps[p], preferred_ids[p]) :
         /\ optimistic_id' = [optimistic_id EXCEPT ![p] = chosen]
         /\ Rechoke(p, {chosen},
                    {optimistic_id[p]} \ ({None, chosen} \cup preferred_ids[p]))
  BY DEF SelectOptimisticNeighbor
<1>2. PICK t, sent : Does(p, t) /\ AnnouncesTrue(p) /\ SendsTrue(p, sent)
  BY <1>1, RechokeDoes DEF SelectOptimisticNeighbor, doneVars
<1>3. chosen \in Peer
  BY MyStore DEF get_choked_interested_neighbors, get_interested_neighbors, Good, IsStore
<1>4. RestOK'
  BY <1>1, <1>3, MyStore DEF SelectOptimisticNeighbor, RestOK, netVars, doneVars, Tick
<1> QED
  BY <1>2, <1>4, StepKeepsIInv

\* A process ends, by itself or not.
LEMMA ExitStep ==
    ASSUME IInv, NEW p \in Peer, NEW lost \in [Peer -> Nat], Exit(p, lost), Up(p),
           NEW end \in {"stopped", "crashed"}, status' = [status EXCEPT ![p] = end],
           end = "stopped" => all_done[p], faults' \in Nat
    PROVE  IInv'
<1> DEFINE t == [NewStore(FALSE) EXCEPT !.my_bitfield = ps[p].my_bitfield]
           sent == [r \in Peer |-> <<Signal("EOF")>>]
<1>1. Good(t, p, Holdings) /\ t.my_bitfield = ps[p].my_bitfield
  BY MyStore DEF NewStore, Good, IsStore, Reserved, Sound
<1>2. \A r \in Peer : status'[r] = IF r = p THEN end ELSE status[r]
  BY MyStore
<1>3. Does(p, t)
  <2>1. ps' = [ps EXCEPT ![p] = t]
    BY DEF Exit
  <2> HIDE DEF t
  <2> QED
    BY <1>1, <1>2, <2>1, MyStore, IInvParts DEF Does, Status, StoppedIsDone, Up
<1>4. AnnouncesTrue(p)
  BY AnnouncesNothing DEF Exit, doneVars
<1>5. <<Signal("EOF")>> \in Seq(Message) /\ Elems(<<Signal("EOF")>>) = {Signal("EOF")}
  BY MessageTypes, ElemsShort DEF Signals
<1>6. ASSUME NEW q \in Peer, NEW r \in Peer
      PROVE  /\ chan'[q][r] \in Seq(Message)
             /\ Elems(chan'[q][r]) \subseteq
                   Elems(chan[q][r]) \cup (IF q = p THEN {Signal("EOF")} ELSE {})
  <2> DEFINE kept == Without(chan[p][r], lost[r])
  <2>1. chan[q][r] \in Seq(Message) /\ chan[p][r] \in Seq(Message) /\ lost[r] \in Nat
    BY MyStore DEF Streams
  <2>2. kept \in Seq(Message) /\ Elems(kept) \subseteq Elems(chan[p][r])
    BY <2>1, ElemsWithout
  <2>3. \/ q = p /\ chan'[q][r] = kept \o <<Signal("EOF")>>
        \/ chan'[q][r] = <<>>
        \/ chan'[q][r] = chan[q][r]
    BY DEF Exit
  <2> HIDE DEF kept
  <2>4. /\ kept \o <<Signal("EOF")>> \in Seq(Message)
        /\ Elems(kept \o <<Signal("EOF")>>) = Elems(kept) \cup {Signal("EOF")}
    BY <1>5, <2>2, ElemsConcat
  <2> QED
    BY <2>1, <2>2, <2>3, <2>4, MessageTypes, ElemsShort
<1>7. chan' \in Streams
  <2>1. chan' = [q \in Peer |-> [r \in Peer |-> chan'[q][r]]]
    BY DEF Exit
  <2> QED
    BY <1>6, <2>1 DEF Streams
<1>8. SendsTrue(p, sent)
  <2>1. sent \in Letters /\ \A r \in Peer : Elems(sent[r]) = {Signal("EOF")}
    BY <1>5 DEF Letters
  <2> HIDE DEF sent
  <2>2. Carries(p, sent)
    BY <1>6, <1>7, <2>1 DEF Carries
  <2>3. ASSUME NEW m, m = Signal("EOF") PROVE MessageTrue(p, m)'
    BY <1>2, <2>3 DEF MessageTrue, Signal
  <2> QED
    BY <2>1, <2>2, <2>3 DEF SendsTrue
<1>9. RestOK'
  BY MyStore DEF Exit, RestOK, doneVars
<1> QED
  BY <1>3, <1>4, <1>8, <1>9, StepKeepsIInv

LEMMA StutterStep ==
    ASSUME IInv, UNCHANGED vars
    PROVE  IInv'
  BY DEF vars, netVars, timerVars, doneVars, IInv, TypeOK, RequestsReserved, BeliefsTrue,
         Holdings, MessagesTrue, MessageTrue, StoppedIsDone, NoFalseTermination, NoCrash,
         AnnouncedIsTrue, AllComplete

LEMMA NextIInv == IInv /\ [Next]_vars => IInv'
<1> SUFFICES ASSUME IInv, [Next]_vars PROVE IInv'
  OBVIOUS
<1>1. CASE UNCHANGED vars
  BY <1>1, StutterStep
<1>2. ASSUME NEW p \in Peer, Start(p) PROVE IInv'
  BY <1>2, StartStep
<1>3. ASSUME NEW p \in Peer, Connect(p) PROVE IInv'
  BY <1>3, ConnectStep
<1>4. ASSUME NEW p \in Peer, GiveUp(p) PROVE IInv'
  BY <1>4, GiveUpStep
<1>5. ASSUME NEW p \in Peer, SelectPreferredNeighbors(p) PROVE IInv'
  BY <1>5, SelectPreferredNeighborsStep
<1>6. ASSUME NEW p \in Peer, SelectOptimisticNeighbor(p) PROVE IInv'
  BY <1>6, SelectOptimisticNeighborStep
<1>7. ASSUME NEW p \in Peer, Stop(p) PROVE IInv'
  <2>1. [r \in Peer |-> 0] \in [Peer -> Nat] /\ faults' \in Nat
    BY <1>7, MyStore DEF Stop, RestOK
  <2> QED
    BY <1>7, <2>1, ExitStep DEF Stop
<1>8. ASSUME NEW p \in Peer, Crash(p) PROVE IInv'
  <2>1. PICK lost \in [Peer -> 0 .. MaxLost] : Exit(p, lost)
    BY <1>8 DEF Crash
  <2>2. MaxLost \in Nat /\ faults \in Nat
    BY SwarmAssumption, MyStore DEF RestOK
  <2>3. lost \in [Peer -> Nat]
    BY <2>1, <2>2
  <2>4. faults' \in Nat
    BY <1>8, <2>2 DEF Crash
  <2> QED
    BY <1>8, <2>1, <2>3, <2>4, ExitStep DEF Crash
<1>9. ASSUME NEW p \in Peer, NEW q \in Peer, Accept(p, q) PROVE IInv'
  BY <1>9, AcceptStep
<1>10. ASSUME NEW p \in Peer, NEW q \in Peer, Receive(p, q) PROVE IInv'
  BY <1>10, ReceiveHandshakeStep, ReceiveBitfieldStep, ReceiveInterestedStep,
     ReceiveNotInterestedStep, ReceiveChokeStep, ReceiveUnchokeStep, ReceiveHaveStep,
     ReceiveRequestStep, ReceivePieceStep, ReceiveEofStep DEF Receive
<1>11. ASSUME NEW p \in Peer, NEW q \in Peer, ReceivePieceWriteFails(p, q) PROVE IInv'
  BY <1>11, ReceivePieceWriteFailsStep
<1> QED
  BY <1>1, <1>2, <1>3, <1>4, <1>5, <1>6, <1>7, <1>8, <1>9, <1>10, <1>11 DEF Next

-----------------------------------------------------------------------------

\* The inductive invariant holds in every state of every run.
THEOREM Invariance == Spec => []IInv
  BY InitIInv, NextIInv, PTL DEF Spec

\* Every variable keeps its type: messages, stores and dictionaries are well
\* formed whatever the peers do (peer_network.py, state.py).
THEOREM TypeCorrect == Spec => []TypeOK
<1>1. IInv => TypeOK
  BY DEF IInv
<1> QED
  BY <1>1, Invariance, PTL

\* requested_pieces and the outstanding requests agree in every peer
\* (state.py:107-118, 194-228), crashes and failed writes included.
THEOREM ReservationsAgree == Spec => []RequestsReserved
<1>1. IInv => RequestsReserved
  BY DEF IInv
<1> QED
  BY <1>1, Invariance, PTL

\* What a peer's store says of another peer's pieces is true of that peer
\* (state.py:120-140, 313-331).
THEOREM BeliefsCorrect == Spec => []BeliefsTrue
<1>1. IInv => BeliefsTrue
  BY DEF IInv
<1> QED
  BY <1>1, Invariance, PTL

\* As long as no process crashes, a peer that announces the end (all_done,
\* peer_network.py:535-545 and 759-766) is right: every peer has the file.
THEOREM TerminationCorrect == Spec => []NoFalseTermination
<1>1. IInv => NoFalseTermination
  BY DEF IInv
<1> QED
  BY <1>1, Invariance, PTL

-----------------------------------------------------------------------------
(* The refinement: step by step, a peer obtains a piece that some peer has, *)
(* or announces the end when the file is everywhere, or nothing happens to  *)
(* the file at all: the safety part of FileDistribution.                    *)

\* p's part in a step, as far as the file is concerned: one piece more, which
\* somebody has, or none, and perhaps the announcement.
Spreads(p) ==
    /\ \A r \in Peer \ {p} : /\ ps'[r].my_bitfield = ps[r].my_bitfield
                             /\ all_done'[r] = all_done[r]
    /\ all_done[p] => all_done'[p]
    /\ \/ ps'[p].my_bitfield = ps[p].my_bitfield
       \/ \E q \in Peer : \E i \in ps[q].my_bitfield :
             ps'[p].my_bitfield = ps[p].my_bitfield \cup {i}

Announced == { p \in Peer : all_done[p] }

\* The distribution without its announcements: what is left when processes
\* crash.
Copying == INSTANCE FileDistribution WITH pieces <- Holdings, announced <- {}

-----------------------------------------------------------------------------

\* A process that spreads the file takes a step of the distribution, or none.
LEMMA SpreadsMaps ==
    ASSUME IInv, IInv', NoCrash', NEW p \in Peer, Spreads(p)
    PROVE  [Distribution!DNext]_(Distribution!dvars)
<1>1. /\ Holdings \in [Peer -> SUBSET Piece] /\ Holdings' \in [Peer -> SUBSET Piece]
      /\ \A r \in Peer : Holdings[r] = ps[r].my_bitfield /\ Holdings'[r] = ps'[r].my_bitfield
  <2>1. /\ \A r \in Peer : ps[r].my_bitfield \in SUBSET Piece
        /\ \A r \in Peer : ps'[r].my_bitfield \in SUBSET Piece
    BY DEF IInv, TypeOK, IsStore
  <2> QED
    BY <2>1 DEF Holdings
<1>2. \/ Announced' = Announced
      \/ /\ Announced' = Announced \cup {p}
         /\ \A r \in Peer : Holdings'[r] = Piece
  <2>1. all_done \in [Peer -> BOOLEAN] /\ all_done' \in [Peer -> BOOLEAN]
    BY DEF IInv, TypeOK
  <2>2. all_done'[p] => \A r \in Peer : Holdings'[r] = Piece
    BY <1>1 DEF IInv, NoFalseTermination, AnnouncedIsTrue, AllComplete, has_complete_file,
       Complete
  <2>3. CASE all_done'[p] /\ ~all_done[p]
    BY <2>1, <2>2, <2>3 DEF Spreads, Announced
  <2>4. CASE all_done'[p] = all_done[p]
    BY <2>1, <2>4 DEF Spreads, Announced
  <2> QED
    BY <2>1, <2>3, <2>4 DEF Spreads
<1>3. CASE Holdings' = Holdings
  <2>1. CASE Announced' = Announced
    BY <1>3, <2>1 DEF Distribution!dvars, Announced
  <2>2. CASE Announced' # Announced
    <3>1. Distribution!Announce(p)
      BY <1>2, <1>3, <2>2 DEF Distribution!Announce, Distribution!Everywhere, Announced
    <3> QED
      BY <3>1 DEF Distribution!DNext
  <2> QED
    BY <2>1, <2>2
<1>4. CASE Holdings' # Holdings
  <2>1. PICK q \in Peer : \E i \in Holdings[q] : Holdings'[p] = Holdings[p] \cup {i}
    <3>1. ps'[p].my_bitfield # ps[p].my_bitfield
      BY <1>1, <1>4 DEF Spreads
    <3> QED
      BY <1>1, <3>1 DEF Spreads
  <2>5. PICK i \in Holdings[q] : Holdings'[p] = Holdings[p] \cup {i}
    BY <2>1
  <2>2. Holdings' = [Holdings EXCEPT ![p] = @ \cup {i}]
    BY <1>1, <2>5 DEF Spreads
  <2>3. i \in Holdings[q] \ Holdings[p]
    BY <1>1, <1>4, <2>2
  <2>4. Distribution!Acquire(p)
    BY <1>2, <2>2, <2>3
       DEF Distribution!Acquire, Distribution!Everywhere, Announced
  <2> QED
    BY <2>4 DEF Distribution!DNext
<1> QED
  BY <1>3, <1>4

\* Whatever crashes, it takes a step of the copying.
LEMMA SpreadsCopies ==
    ASSUME IInv, IInv', NEW p \in Peer, Spreads(p)
    PROVE  [Copying!DNext]_(Copying!dvars)
<1>1. /\ Holdings = [r \in Peer |-> ps[r].my_bitfield]
      /\ Holdings' = [r \in Peer |-> ps'[r].my_bitfield]
  BY DEF Holdings
<1>2. CASE ps'[p].my_bitfield = ps[p].my_bitfield
  <2>1. Holdings' = Holdings
    BY <1>1, <1>2 DEF Spreads
  <2> QED
    BY <2>1 DEF Copying!dvars
<1>3. CASE ps'[p].my_bitfield # ps[p].my_bitfield
  <2>1. PICK q \in Peer : \E i \in ps[q].my_bitfield :
           ps'[p].my_bitfield = ps[p].my_bitfield \cup {i}
    BY <1>3 DEF Spreads
  <2>2. PICK i \in ps[q].my_bitfield : ps'[p].my_bitfield = ps[p].my_bitfield \cup {i}
    BY <2>1
  <2>3. i \in Holdings[q] \ Holdings[p]
    BY <1>1, <1>3, <2>2
  <2>4. Holdings' = [Holdings EXCEPT ![p] = @ \cup {i}]
    BY <1>1, <2>2 DEF Spreads
  <2>5. Copying!Acquire(p)
    BY <2>3, <2>4 DEF Copying!Acquire
  <2> QED
    BY <2>5 DEF Copying!DNext
<1> QED
  BY <1>2, <1>3

\* Most steps give p a store with the same pieces.
LEMMA SamePieces ==
    ASSUME IInv, NEW p \in Peer, NEW t, ps' = [ps EXCEPT ![p] = t],
           t.my_bitfield = ps[p].my_bitfield, UNCHANGED all_done
    PROVE  Spreads(p)
  BY IInvParts DEF Spreads

LEMMA SamePiecesEnd ==
    ASSUME IInv, NEW p \in Peer, NEW t, ps' = [ps EXCEPT ![p] = t],
           t.my_bitfield = ps[p].my_bitfield,
           NEW d \in BOOLEAN, all_done' = [all_done EXCEPT ![p] = @ \/ d]
    PROVE  Spreads(p)
<1>1. \A r \in Peer : all_done'[r] = IF r = p THEN all_done[p] \/ d ELSE all_done[r]
  BY IInvParts
<1> QED
  BY <1>1, IInvParts DEF Spreads

LEMMA TerminatesBoolean ==
    ASSUME IInv, NEW p \in Peer, NEW s
    PROVE  Terminates(s, completion_logged[p]) \in BOOLEAN
  BY MyStore DEF RestOK, Terminates, has_complete_file, Complete, all_neighbors_complete

-----------------------------------------------------------------------------
(* One lemma per group of actions. *)

\* Connecting, serving, the timers and the end of a process leave the file
\* alone.
LEMMA IdleSpreads ==
    ASSUME IInv, NEW p \in Peer,
           \/ Start(p) \/ Connect(p) \/ GiveUp(p) \/ Stop(p) \/ Crash(p)
           \/ SelectPreferredNeighbors(p) \/ SelectOptimisticNeighbor(p)
           \/ \E q \in Peer : Accept(p, q) \/ ReceiveRequest(p, q)
    PROVE  Spreads(p)
<1>1. CASE UNCHANGED <<ps, all_done>>
  BY <1>1 DEF Spreads
<1>2. CASE Stop(p) \/ Crash(p)
  <2>1. /\ ps' = [ps EXCEPT ![p] = [NewStore(FALSE) EXCEPT !.my_bitfield = ps[p].my_bitfield]]
        /\ UNCHANGED all_done
    BY <1>2 DEF Stop, Crash, Exit, doneVars
  <2>2. [NewStore(FALSE) EXCEPT !.my_bitfield = ps[p].my_bitfield].my_bitfield
           = ps[p].my_bitfield
    BY DEF NewStore
  <2> QED
    BY <2>1, <2>2, SamePieces
<1>3. CASE SelectPreferredNeighbors(p) \/ SelectOptimisticNeighbor(p)
  <2>1. \E U, C : ps' = [ps EXCEPT ![p] = set_am_choking(ps[p], U, C)]
    BY <1>3 DEF SelectPreferredNeighbors, SelectOptimisticNeighbor, Rechoke
  <2>2. PICK U, C : ps' = [ps EXCEPT ![p] = set_am_choking(ps[p], U, C)]
    BY <2>1
  <2>3. set_am_choking(ps[p], U, C).my_bitfield = ps[p].my_bitfield
    BY MyStore, SetAmChokingGood DEF GoodUpdate
  <2> QED
    BY <1>3, <2>2, <2>3, SamePieces
       DEF SelectPreferredNeighbors, SelectOptimisticNeighbor, doneVars
<1> QED
  BY <1>1, <1>2, <1>3
     DEF Start, Connect, GiveUp, Accept, ReceiveRequest, doneVars

\* The messages that change a flag, a request or the set of neighbours.
LEMMA FlagsSpread ==
    ASSUME IInv, NEW p \in Peer, NEW q \in Peer,
           \/ ReceiveHandshake(p, q) \/ ReceiveInterested(p, q)
           \/ ReceiveNotInterested(p, q) \/ ReceiveChoke(p, q)
           \/ ReceiveUnchoke(p, q) \/ ReceivePieceWriteFails(p, q)
    PROVE  Spreads(p)
<1>1. UNCHANGED all_done
  BY DEF ReceiveHandshake, ReceiveInterested, ReceiveNotInterested, ReceiveChoke,
     ReceiveUnchoke, ReceivePieceWriteFails, doneVars
<1>2. CASE ReceiveHandshake(p, q)
  <2>1. p # q
    BY <1>2, Received DEF ReceiveHandshake
  <2>2. add_neighbor(ps[p], q).my_bitfield = ps[p].my_bitfield
    BY <2>1, MyStore, AddNeighborGood, ZenonT(30) DEF GoodUpdate
  <2> QED
    BY <1>1, <1>2, <2>2, SamePieces DEF ReceiveHandshake
<1>3. CASE ReceiveInterested(p, q) \/ ReceiveNotInterested(p, q)
  <2>1. PICK b \in BOOLEAN : ps' = [ps EXCEPT ![p] = set_peer_interested(ps[p], q, b)]
    BY <1>3 DEF ReceiveInterested, ReceiveNotInterested
  <2>2. set_peer_interested(ps[p], q, b).my_bitfield = ps[p].my_bitfield
    <3>1. GoodUpdate(ps[p], set_peer_interested(ps[p], q, b), p, Holdings)
      BY MyStore, SetPeerInterestedGood
    <3> QED
      BY <3>1 DEF GoodUpdate
  <2> QED
    BY <1>1, <2>1, <2>2, SamePieces
<1>4. CASE ReceiveChoke(p, q)
  <2> DEFINE s == set_peer_choking(ps[p], q, TRUE)
  <2>1. GoodUpdate(ps[p], s, p, Holdings)
    BY MyStore, SetPeerChokingGood
  <2>2. ps' = [ps EXCEPT ![p] = clear_outstanding_request(s, q)]
    BY <1>4 DEF ReceiveChoke
  <2> HIDE DEF s
  <2>3. clear_outstanding_request(s, q).my_bitfield = ps[p].my_bitfield
    BY <2>1, ClearOutstandingGood DEF GoodUpdate
  <2> QED
    BY <1>1, <2>2, <2>3, SamePieces
<1>5. CASE ReceiveUnchoke(p, q)
  <2> DEFINE s == set_peer_choking(ps[p], q, FALSE)
  <2>1. GoodUpdate(ps[p], s, p, Holdings)
    BY MyStore, SetPeerChokingGood
  <2>2. PICK o \in RequestOutcomes(s, q) : ps' = [ps EXCEPT ![p] = o.store]
    BY <1>5 DEF ReceiveUnchoke
  <2> HIDE DEF s
  <2>3. o.store.my_bitfield = ps[p].my_bitfield
    BY <2>1, <2>2, RequestOutcomesGood DEF GoodUpdate
  <2> QED
    BY <1>1, <2>2, <2>3, SamePieces
<1>6. CASE ReceivePieceWriteFails(p, q)
  <2>1. clear_outstanding_request(ps[p], q).my_bitfield = ps[p].my_bitfield
    BY MyStore, ClearOutstandingGood, ZenonT(30) DEF GoodUpdate
  <2> QED
    BY <1>1, <1>6, <2>1, SamePieces DEF ReceivePieceWriteFails
<1> QED
  BY <1>2, <1>3, <1>4, <1>5, <1>6

\* The messages after which p may see that the work is done.
LEMMA NewsSpreads ==
    ASSUME IInv, NEW p \in Peer, NEW q \in Peer,
           ReceiveBitfield(p, q) \/ ReceiveHave(p, q) \/ ReceiveEof(p, q)
    PROVE  Spreads(p)
<1>1. ASSUME NEW b \in SUBSET Holdings[q], NEW t,
             t = SetInterest(SetNeighborBitfield(ps[p], q, b), {q})
      PROVE  t.my_bitfield = ps[p].my_bitfield
  <2> DEFINE s == SetNeighborBitfield(ps[p], q, b)
  <2>1. Good(s, p, Holdings) /\ s.my_bitfield = ps[p].my_bitfield
    BY MyStore, SetNeighborBitfieldGood, ZenonT(30) DEF GoodUpdate
  <2> HIDE DEF s
  <2>2. t = SetInterest(s, {q})
    BY <1>1 DEF s
  <2> QED
    BY <2>1, <2>2, SetInterestGood DEF GoodUpdate
<1>2. CASE ReceiveBitfield(p, q)
  <2> DEFINE b == Head(chan[q][p]).bitfield
             t == SetInterest(SetNeighborBitfield(ps[p], q, b), {q})
  <2>1. b \in SUBSET Holdings[q]
    BY <1>2, Received DEF ReceiveBitfield, MessageTrue, Holdings
  <2>2. t.my_bitfield = ps[p].my_bitfield
    BY <1>1, <2>1
  <2>3. PICK sent \in BOOLEAN :
           /\ ps' = [ps EXCEPT ![p] = t]
           /\ all_done' = [all_done EXCEPT ![p] =
                              @ \/ (sent /\ Terminates(t, completion_logged[p]))]
    BY <1>2 DEF ReceiveBitfield, SendOutcomes, update_neighbor_bitfield
  <2> HIDE DEF t
  <2>4. (sent /\ Terminates(t, completion_logged[p])) \in BOOLEAN
    OBVIOUS
  <2> QED
    BY <2>2, <2>3, <2>4, SamePiecesEnd
<1>3. CASE ReceiveHave(p, q)
  <2> DEFINE i == Head(chan[q][p]).piece
             s == neighbor_set_piece(ps[p], q, i)
             t == SetInterest(s, {q})
  <2>1. i \in Holdings[q]
    BY <1>3, Received DEF ReceiveHave, MessageTrue, Holdings
  <2>2. t.my_bitfield = ps[p].my_bitfield
    <3>1. CASE Knows(ps[p], q)
      <4>1. ps[p].neighbors[q].bitfield \cup {i} \in SUBSET Holdings[q]
        BY <2>1, <3>1, MyStore DEF Good, Sound, Knows
      <4>2. s = SetNeighborBitfield(ps[p], q, ps[p].neighbors[q].bitfield \cup {i})
        BY <3>1 DEF neighbor_set_piece
      <4> QED
        BY <1>1, <4>1, <4>2
    <3>2. CASE ~Knows(ps[p], q)
      BY <3>2, MyStore, SetInterestGood DEF neighbor_set_piece, GoodUpdate
    <3> QED
      BY <3>1, <3>2
  <2>3. /\ ps' = [ps EXCEPT ![p] = t]
        /\ all_done' = [all_done EXCEPT ![p] = @ \/ Terminates(s, completion_logged[p])]
    BY <1>3 DEF ReceiveHave
  <2> HIDE DEF t, s
  <2> QED
    BY <2>2, <2>3, TerminatesBoolean, SamePiecesEnd
<1>4. CASE ReceiveEof(p, q)
  <2> DEFINE t == IF q \in connections[p] THEN remove_neighbor(ps[p], q) ELSE ps[p]
             d == \/ /\ completion_logged[p]
                     /\ (connections[p] \cup incoming[p]) \ {q} = {}
                     /\ has_complete_file(t)
                  \/ Terminates(t, completion_logged[p])
  <2>1. t.my_bitfield = ps[p].my_bitfield
    BY MyStore, RemoveNeighborGood DEF GoodUpdate
  <2>2. ps' = [ps EXCEPT ![p] = t] /\ all_done' = [all_done EXCEPT ![p] = @ \/ d]
    BY <1>4 DEF ReceiveEof
  <2> HIDE DEF t
  <2>3. d \in BOOLEAN
    OBVIOUS
  <2> HIDE DEF d
  <2> QED
    BY <2>1, <2>2, <2>3, SamePiecesEnd
<1> QED
  BY <1>2, <1>3, <1>4

\* PIECE: the one step that spreads the file.
LEMMA PieceSpreads ==
    ASSUME IInv, NEW p \in Peer, NEW q \in Peer, ReceivePiece(p, q)
    PROVE  Spreads(p)
<1> DEFINE i == Head(chan[q][p]).piece
           cleared == clear_outstanding_request(ps[p], q)
           s == mark_piece_downloaded(cleared, i)
           synced == SetInterest(s, connections[p])
           logged == completion_logged[p] \/ has_complete_file(s)
<1>1. i \in ps[q].my_bitfield /\ i \in Piece
  <2>1. i \in ps[q].my_bitfield
    BY Received DEF ReceivePiece, MessageTrue
  <2> QED
    BY <2>1, MyStore DEF Good, IsStore
<1>2. PICK o \in IF has_complete_file(s) THEN {[store |-> synced, msgs |-> <<>>]}
                ELSE RequestOutcomes(synced, q) :
         ps' = [ps EXCEPT ![p] = o.store]
  BY DEF ReceivePiece
<1>3. all_done' = [all_done EXCEPT ![p] = @ \/ Terminates(s, logged)]
  BY DEF ReceivePiece
<1> HIDE DEF i
<1>4. Good(cleared, p, Holdings) /\ cleared.my_bitfield = ps[p].my_bitfield
  BY MyStore, ClearOutstandingGood, ZenonT(30) DEF GoodUpdate
<1> HIDE DEF cleared
<1>5. Good(s, p, Holdings) /\ s.my_bitfield = ps[p].my_bitfield \cup {i}
  <2>1. Good(s, p, Holdings)
    BY <1>1, <1>4, MarkDownloadedGood
  <2>2. s.my_bitfield = cleared.my_bitfield \cup {i}
    BY <1>4 DEF mark_piece_downloaded, Good, IsStore
  <2> QED
    BY <1>4, <2>1, <2>2
<1> HIDE DEF s
<1>6. Good(synced, p, Holdings) /\ synced.my_bitfield = s.my_bitfield
  BY <1>5, SetInterestGood DEF GoodUpdate
<1> HIDE DEF synced
<1>7. o.store.my_bitfield = ps[p].my_bitfield \cup {i}
  <2>1. CASE has_complete_file(s)
    BY <1>2, <1>5, <1>6, <2>1
  <2>2. CASE ~has_complete_file(s)
    BY <1>2, <1>5, <1>6, <2>2, RequestOutcomesGood DEF GoodUpdate
  <2> QED
    BY <2>1, <2>2
<1>8. \A r \in Peer : /\ r # p => all_done'[r] = all_done[r]
                      /\ all_done[r] => all_done'[r]
  BY <1>3, IInvParts
<1> QED
  BY <1>1, <1>2, <1>7, <1>8, IInvParts DEF Spreads

\* Every step of the swarm spreads the file, or leaves it alone.
LEMMA NextSpreads ==
    ASSUME IInv, [Next]_vars
    PROVE  (\E p \in Peer : Spreads(p)) \/ UNCHANGED <<Holdings, Announced>>
<1>1. CASE UNCHANGED vars
  BY <1>1 DEF vars, doneVars, Holdings, Announced
<1>2. CASE Next
  BY <1>2, IdleSpreads, FlagsSpread, NewsSpreads, PieceSpreads DEF Next, Receive
<1> QED
  BY <1>1, <1>2

LEMMA NextMaps ==
    IInv /\ IInv' /\ NoCrash' /\ [Next]_vars => [Distribution!DNext]_(Distribution!dvars)
  BY NextSpreads, SpreadsMaps DEF Distribution!dvars, Announced

LEMMA NextCopies ==
    IInv /\ IInv' /\ [Next]_vars => [Copying!DNext]_(Copying!dvars)
  BY NextSpreads, SpreadsCopies DEF Copying!dvars

LEMMA InitMaps == Init => Distribution!DInit
  BY DEF Init, Distribution!DInit, Holdings, NewStore

LEMMA InitCopies == Init => Copying!DInit
  BY DEF Init, Copying!DInit, Holdings, NewStore

-----------------------------------------------------------------------------

\* As long as no process crashes the swarm is a distribution of the file: every
\* piece a peer gets comes from a peer that has it, no piece is lost, and the
\* end (all_done, peer_network.py:535-545, 759-766) is announced only when the
\* file is everywhere, whatever is sent, choked, refused or fails to be written.
THEOREM SwarmDistributes == Spec /\ []NoCrash => Distribution!DSafety
  BY InitMaps, NextMaps, Invariance, PTL DEF Spec, Distribution!DSafety

\* Whatever crashes, every piece a peer gets comes from a peer that has it, and
\* no peer loses one: the pieces are on disk before they are announced or
\* counted (peer_network.py:479-500).
THEOREM PiecesOnlySpread == Spec => Copying!DSafety
  BY InitCopies, NextCopies, Invariance, PTL DEF Spec, Copying!DSafety

=============================================================================
