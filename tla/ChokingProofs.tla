---------------------------- MODULE ChokingProofs ----------------------------
(***************************************************************************)
(* Every invariant of Choking, for any number of neighbours and any number *)
(* of preferred slots: the flags and the messages about them (CInv) and    *)
(* the slots (LeftInv).                                                    *)
(***************************************************************************)
EXTENDS Choking, FiniteSetTheorems, TLAPS

-----------------------------------------------------------------------------
(* The inductive invariant. *)

Flag(q) == is_am_choking(store, q)

\* Every neighbour stays connected.
Connected == DOMAIN store.neighbors = Peer

\* What the local variables of the two threads hold at each step.
ThreadsOK ==
    /\ unchoking.pc \in {"test", "set", "send"} => unchoking.pid \in Peer
    /\ unchoking.pc \in {"loop", "test", "set", "send"} =>
            preferred_ids = unchoking.selected
    /\ unchoking.pc \in {"test", "set", "send"} =>
            unchoking.choke = (unchoking.pid \notin unchoking.selected)
    /\ optimistic.pc \notin {"sleep", "choose"} => optimistic.chosen \in Peer
    /\ optimistic.pc \in {"test", "choke", "tell_old"} => optimistic.old \in Peer
    /\ optimistic.pc = "unchoke" => optimistic.chosen = optimistic_id

\* Both threads busy with one neighbour is what contended records.
BusyNoted == UnchokingBusy \cap OptimisticBusy \subseteq contended

\* The neighbour whose flag a thread has changed and not told yet.
Telling(q) ==
    \/ unchoking.pc = "send" /\ unchoking.pid = q
    \/ optimistic.pc = "tell_old" /\ optimistic.old = q
    \/ optimistic.pc = "tell_chosen" /\ optimistic.chosen = q

\* The flag is what is told or what is about to be told.
ToldOK(q) ==
    /\ unchoking.pc = "send" /\ unchoking.pid = q => Flag(q) = unchoking.choke
    /\ optimistic.pc = "tell_old" /\ optimistic.old = q => Flag(q)
    /\ optimistic.pc = "tell_chosen" /\ optimistic.chosen = q => ~Flag(q)
    /\ ~Telling(q) => told[q] = Flag(q)

\* A preferred neighbour is unchoked, unless the loop is still to reach it;
\* the other thread is not about to choke it.
PreferredOK(q) ==
    \/ unchoking.pc \in {"loop", "test", "set", "send"} /\ q \in unchoking.all_pids
    \/ unchoking.pc \in {"test", "set"} /\ unchoking.pid = q /\ ~unchoking.choke
    \/ ~Flag(q) /\ ~(optimistic.pc \in {"test", "choke"} /\ optimistic.old = q)

\* So is the optimistic one, unless it is just being replaced or unchoked.
OptimisticOK(q) ==
    \/ optimistic.pc \in {"test", "choke", "tell_old", "assign", "unchoke"}
    \/ ~Flag(q) /\ ~(/\ unchoking.pc \in {"test", "set"}
                     /\ unchoking.pid = q /\ unchoking.choke)

OrderlyAt(q) ==
    /\ ToldOK(q)
    /\ q \in preferred_ids => PreferredOK(q)
    /\ q = optimistic_id => OptimisticOK(q)

Orderly == \A q \in Peer \ contended : OrderlyAt(q)

CInv == TypeOK /\ Connected /\ ThreadsOK /\ BusyNoted /\ Orderly

-----------------------------------------------------------------------------
(* The store under the two methods that change it. *)

\* set_am_choking changes the flags it is given and nothing else.
LEMMA SetAmChokingFlags ==
    ASSUME NEW s, IsStore(s), DOMAIN s.neighbors = Peer, NEW U, NEW C,
           NEW t, t = set_am_choking(s, U, C)
    PROVE  /\ IsStore(t) /\ DOMAIN t.neighbors = Peer
           /\ \A q \in Peer : is_am_choking(t, q)
                 = ((is_am_choking(s, q) \/ q \in C) /\ q \notin U)
<1>1. /\ t = [s EXCEPT !.neighbors = t.neighbors]
      /\ t.neighbors = [q \in Peer |-> [s.neighbors[q] EXCEPT !.am_choking =
                            (@ \/ q \in C) /\ q \notin U]]
  BY DEF set_am_choking, IsStore
<1>2. s.neighbors \in [Peer -> NeighborState]
  BY DEF IsStore
<1>3. ASSUME NEW q \in Peer
      PROVE  /\ t.neighbors[q] \in NeighborState
             /\ t.neighbors[q].am_choking
                   = ((s.neighbors[q].am_choking \/ q \in C) /\ q \notin U)
  <2> DEFINE n == s.neighbors[q]
             b == (n.am_choking \/ q \in C) /\ q \notin U
  <2>1. t.neighbors[q] = [n EXCEPT !.am_choking = b]
    BY <1>1
  <2>2. n \in NeighborState /\ b \in BOOLEAN
    BY <1>2
  <2> HIDE DEF n, b
  <2>3. t.neighbors[q] \in NeighborState /\ t.neighbors[q].am_choking = b
    BY <2>1, <2>2 DEF NeighborState
  <2> QED
    BY <2>3 DEF n, b
<1>4. DOMAIN t.neighbors = Peer /\ t.neighbors \in [Peer -> NeighborState]
  BY <1>1, <1>3
<1>5. IsStore(t)
  BY <1>1, <1>4 DEF IsStore
<1> QED
  BY <1>3, <1>4, <1>5 DEF is_am_choking, Knows

\* set_peer_interested leaves the flags alone.
LEMMA SetPeerInterestedFlags ==
    ASSUME NEW s, IsStore(s), DOMAIN s.neighbors = Peer, NEW q \in Peer,
           NEW t, t = set_peer_interested(s, q, ~s.neighbors[q].peer_interested)
    PROVE  /\ IsStore(t) /\ DOMAIN t.neighbors = Peer
           /\ \A r \in Peer : is_am_choking(t, r) = is_am_choking(s, r)
<1>1. s.neighbors \in [Peer -> NeighborState]
  BY DEF IsStore
<1>2. /\ t = [s EXCEPT !.neighbors = t.neighbors]
      /\ t.neighbors = [s.neighbors EXCEPT ![q] =
            [s.neighbors[q] EXCEPT !.peer_interested = ~s.neighbors[q].peer_interested]]
  BY DEF set_peer_interested, Knows, IsStore
<1>3. ASSUME NEW r \in Peer
      PROVE  /\ t.neighbors[r] \in NeighborState
             /\ t.neighbors[r].am_choking = s.neighbors[r].am_choking
  <2> DEFINE n == s.neighbors[r]
             b == ~n.peer_interested
  <2>1. t.neighbors[r] = IF r = q THEN [n EXCEPT !.peer_interested = b] ELSE n
    BY <1>1, <1>2
  <2>2. n \in NeighborState /\ b \in BOOLEAN
    BY <1>1
  <2> HIDE DEF n, b
  <2>3. t.neighbors[r] \in NeighborState /\ t.neighbors[r].am_choking = n.am_choking
    BY <2>1, <2>2 DEF NeighborState
  <2> QED
    BY <2>3 DEF n
<1>4. DOMAIN t.neighbors = Peer /\ t.neighbors \in [Peer -> NeighborState]
  BY <1>1, <1>2, <1>3
<1>5. IsStore(t)
  BY <1>2, <1>4 DEF IsStore
<1> QED
  BY <1>3, <1>4, <1>5 DEF is_am_choking, Knows

-----------------------------------------------------------------------------
(* One lemma per action. *)

\* The variables but contended have their types.
Typed ==
    /\ IsStore(store)
    /\ told \in [Peer -> BOOLEAN]
    /\ preferred_ids \subseteq Peer
    /\ optimistic_id \in Peer \cup {None}
    /\ unchoking \in UnchokingThread
    /\ optimistic \in OptimisticThread

\* What is left to show of a step: types, threads, and Orderly of a neighbour
\* that is not contended after it, hence was not before.
LEMMA StepKeepsCInv ==
    ASSUME CInv, Contend, Typed', Connected', ThreadsOK',
           \A q \in Peer :
               /\ q \notin contended /\ OrderlyAt(q)
               /\ ~(q \in UnchokingBusy /\ q \in OptimisticBusy)
               /\ ~(q \in UnchokingBusy /\ q \in OptimisticBusy)'
               => OrderlyAt(q)'
    PROVE  CInv'
<1>1. contended \subseteq contended' /\ BusyNoted'
  BY DEF Contend, BusyNoted
<1>2. contended' \subseteq Peer
  BY DEF CInv, TypeOK, Contend, UnchokingBusy
<1>3. TypeOK'
  BY <1>2 DEF TypeOK, Typed
<1>4. ASSUME NEW q \in Peer, q \notin contended'
      PROVE  OrderlyAt(q)'
  <2>1. q \notin contended /\ OrderlyAt(q)
    BY <1>1, <1>4 DEF CInv, Orderly
  <2>2. /\ ~(q \in UnchokingBusy /\ q \in OptimisticBusy)
        /\ ~(q \in UnchokingBusy /\ q \in OptimisticBusy)'
    BY <1>1, <1>4, <2>1 DEF CInv, BusyNoted
  <2> QED
    BY <2>1, <2>2
<1> QED
  BY <1>1, <1>3, <1>4 DEF CInv, Orderly

LEMMA SelectPreferredStep ==
    ASSUME CInv, Contend, SelectPreferred
    PROVE  CInv'
<1>1. Typed' /\ Connected'
  BY ZenonT(30) DEF CInv, TypeOK, Typed, Connected, SelectPreferred, UnchokingThread,
         UnchokingSleeps, get_interested_neighbors
<1>2. ThreadsOK'
  BY DEF CInv, ThreadsOK, SelectPreferred, UnchokingSleeps
<1>3. ASSUME NEW q \in Peer, OrderlyAt(q) PROVE OrderlyAt(q)'
  BY <1>3 DEF OrderlyAt, ToldOK, Telling, PreferredOK, OptimisticOK, Flag,
              SelectPreferred, UnchokingSleeps
<1> QED
  BY <1>1, <1>2, <1>3, StepKeepsCInv

LEMMA NextNeighborStep ==
    ASSUME CInv, Contend, NextNeighbor
    PROVE  CInv'
<1> DEFINE Choke(r) == r \notin unchoking.selected
<1>1. PICK r \in unchoking.all_pids :
         unchoking' = [unchoking EXCEPT
            !.all_pids = @ \ {r}, !.pid = r, !.choke = Choke(r),
            !.pc = IF Choke(r) /\ r = optimistic_id THEN "loop" ELSE "test"]
  BY DEF NextNeighbor
<1>2. /\ unchoking \in UnchokingThread /\ unchoking.pc = "loop"
      /\ r \in Peer /\ preferred_ids = unchoking.selected
  BY <1>1 DEF CInv, TypeOK, ThreadsOK, NextNeighbor, UnchokingThread
<1> HIDE DEF Choke
<1>3. /\ unchoking'.all_pids = unchoking.all_pids \ {r}
      /\ unchoking'.pid = r /\ unchoking'.choke = Choke(r)
      /\ unchoking'.selected = unchoking.selected
      /\ unchoking'.pc = IF Choke(r) /\ r = optimistic_id THEN "loop" ELSE "test"
  BY <1>1, <1>2 DEF UnchokingThread
<1>4. Choke(r) \in BOOLEAN
  BY DEF Choke
<1>5. unchoking' \in UnchokingThread
  BY <1>1, <1>2, <1>4 DEF UnchokingThread
<1>6. Typed' /\ Connected'
  BY <1>5 DEF CInv, TypeOK, Typed, Connected, NextNeighbor
<1>7. ThreadsOK'
  BY <1>2, <1>3 DEF CInv, ThreadsOK, NextNeighbor, Choke
<1>8. ASSUME NEW q \in Peer, OrderlyAt(q) PROVE OrderlyAt(q)'
  BY <1>2, <1>3, <1>8 DEF OrderlyAt, ToldOK, Telling,
              PreferredOK, OptimisticOK, Flag, NextNeighbor, Choke
<1> QED
  BY <1>6, <1>7, <1>8, StepKeepsCInv

LEMMA AssignPreferredStep ==
    ASSUME CInv, Contend, AssignPreferred
    PROVE  CInv'
<1>1. Typed' /\ Connected'
  <2>1. unchoking' \in UnchokingThread
    BY DEF CInv, TypeOK, Connected, AssignPreferred, UnchokingThread
  <2> QED
    BY <2>1 DEF CInv, TypeOK, Typed, Connected, AssignPreferred, UnchokingThread
<1>2. ThreadsOK'
  BY DEF CInv, TypeOK, ThreadsOK, AssignPreferred, UnchokingThread
<1>3. ASSUME NEW q \in Peer, OrderlyAt(q)
      PROVE  OrderlyAt(q)'
  BY <1>3 DEF CInv, TypeOK, Connected, ThreadsOK, UnchokingThread, OrderlyAt, ToldOK,
     Telling, PreferredOK, OptimisticOK, Flag,
              AssignPreferred
<1> QED
  BY <1>1, <1>2, <1>3, StepKeepsCInv

LEMMA TickEndsStep ==
    ASSUME CInv, Contend, TickEnds
    PROVE  CInv'
<1>1. Typed' /\ Connected'
  BY DEF CInv, TypeOK, ThreadsOK, Typed, Connected, TickEnds, UnchokingThread,
     UnchokingSleeps
<1>2. ThreadsOK'
  BY DEF CInv, TypeOK, ThreadsOK, TickEnds, UnchokingThread, UnchokingSleeps
<1>3. ASSUME NEW q \in Peer, OrderlyAt(q)
      PROVE  OrderlyAt(q)'
  BY <1>3 DEF CInv, TypeOK, Connected, ThreadsOK, UnchokingThread, OrderlyAt, ToldOK,
     Telling, PreferredOK, OptimisticOK, Flag,
              TickEnds, UnchokingSleeps
<1> QED
  BY <1>1, <1>2, <1>3, StepKeepsCInv

LEMMA TestFlagStep ==
    ASSUME CInv, Contend, TestFlag
    PROVE  CInv'
<1>1. Typed' /\ Connected'
  BY DEF CInv, TypeOK, ThreadsOK, Typed, Connected, TestFlag, UnchokingThread
<1>2. ThreadsOK'
  BY DEF CInv, TypeOK, ThreadsOK, TestFlag, UnchokingThread
<1>3. ASSUME NEW q \in Peer, OrderlyAt(q),
             ~(q \in UnchokingBusy /\ q \in OptimisticBusy)
      PROVE  OrderlyAt(q)'
  BY <1>3 DEF CInv, TypeOK, Connected, ThreadsOK, UnchokingThread, OrderlyAt, ToldOK,
     Telling, PreferredOK, OptimisticOK, Flag,
              TestFlag, UnchokingBusy, OptimisticBusy
<1> QED
  BY <1>1, <1>2, <1>3, StepKeepsCInv

LEMMA SetFlagFlags ==
    ASSUME CInv, SetFlag
    PROVE  /\ IsStore(store') /\ Connected'
           /\ \A q \in Peer : Flag(q)' = IF q = unchoking.pid THEN unchoking.choke ELSE Flag(q)
<1>1. /\ IsStore(store) /\ DOMAIN store.neighbors = Peer
      /\ unchoking.choke \in BOOLEAN /\ unchoking.pid \in Peer
  BY DEF CInv, TypeOK, ThreadsOK, Connected, SetFlag, UnchokingThread
<1>2. CASE unchoking.choke = TRUE
  <2>1. store' = set_am_choking(store, {}, {unchoking.pid})
    BY <1>2 DEF SetFlag, SetChoking
  <2>2. /\ IsStore(store') /\ DOMAIN store'.neighbors = Peer
        /\ \A q \in Peer : is_am_choking(store', q)
              = ((is_am_choking(store, q) \/ q \in {unchoking.pid}) /\ q \notin {})
    BY <1>1, <2>1, SetAmChokingFlags
  <2> QED
    BY <1>2, <2>2 DEF Connected, Flag, is_am_choking
<1>3. CASE unchoking.choke = FALSE
  <2>1. store' = set_am_choking(store, {unchoking.pid}, {})
    BY <1>3 DEF SetFlag, SetChoking
  <2>2. /\ IsStore(store') /\ DOMAIN store'.neighbors = Peer
        /\ \A q \in Peer : is_am_choking(store', q)
              = ((is_am_choking(store, q) \/ q \in {}) /\ q \notin {unchoking.pid})
    BY <1>1, <2>1, SetAmChokingFlags
  <2> QED
    BY <1>3, <2>2 DEF Connected, Flag, is_am_choking
<1> QED
  BY <1>1, <1>2, <1>3

LEMMA SetFlagStep ==
    ASSUME CInv, Contend, SetFlag
    PROVE  CInv'
<1>0. /\ IsStore(store') /\ Connected'
      /\ \A q \in Peer : Flag(q)' = IF q = unchoking.pid THEN unchoking.choke ELSE Flag(q)
  BY SetFlagFlags
<1>1. Typed' /\ Connected'
  BY <1>0 DEF CInv, TypeOK, ThreadsOK, Typed, Connected, SetFlag, UnchokingThread
<1>2. ThreadsOK'
  BY <1>0 DEF CInv, TypeOK, ThreadsOK, SetFlag, UnchokingThread
<1>3. ASSUME NEW q \in Peer, OrderlyAt(q),
             ~(q \in UnchokingBusy /\ q \in OptimisticBusy)
      PROVE  OrderlyAt(q)'
  BY <1>0, <1>3 DEF CInv, TypeOK, Connected, ThreadsOK, UnchokingThread, OrderlyAt,
     ToldOK, Telling, PreferredOK, OptimisticOK,
              SetFlag, UnchokingBusy, OptimisticBusy
<1> QED
  BY <1>1, <1>2, <1>3, StepKeepsCInv

LEMMA SendFlagStep ==
    ASSUME CInv, Contend, SendFlag
    PROVE  CInv'
<1>1. Typed' /\ Connected'
  BY DEF CInv, TypeOK, ThreadsOK, Typed, Connected, SendFlag, UnchokingThread
<1>2. ThreadsOK'
  BY DEF CInv, TypeOK, ThreadsOK, SendFlag, UnchokingThread
<1>3. ASSUME NEW q \in Peer, OrderlyAt(q),
             ~(q \in UnchokingBusy /\ q \in OptimisticBusy)
      PROVE  OrderlyAt(q)'
  BY <1>3 DEF CInv, TypeOK, Connected, ThreadsOK, UnchokingThread, OrderlyAt, ToldOK,
     Telling, PreferredOK, OptimisticOK, Flag,
              SendFlag, UnchokingBusy, OptimisticBusy
<1> QED
  BY <1>1, <1>2, <1>3, StepKeepsCInv

LEMMA ReadPreferredStep ==
    ASSUME CInv, Contend, ReadPreferred
    PROVE  CInv'
<1>1. Typed' /\ Connected'
  <2>1. optimistic' \in OptimisticThread
    BY DEF CInv, TypeOK, Connected, ReadPreferred, OptimisticThread, OptimisticSleeps
  <2> QED
    BY <2>1 DEF CInv, TypeOK, Typed, Connected, ReadPreferred
<1>2. ThreadsOK'
  BY DEF CInv, TypeOK, ThreadsOK, ReadPreferred, OptimisticThread, OptimisticSleeps
<1>3. ASSUME NEW q \in Peer, OrderlyAt(q)
      PROVE  OrderlyAt(q)'
  BY <1>3 DEF CInv, TypeOK, Connected, ThreadsOK, OptimisticThread, OrderlyAt,
     ToldOK, Telling, PreferredOK, OptimisticOK, Flag,
              ReadPreferred, OptimisticSleeps
<1> QED
  BY <1>1, <1>2, <1>3, StepKeepsCInv

LEMMA ChooseOptimisticStep ==
    ASSUME CInv, Contend, ChooseOptimistic
    PROVE  CInv'
<1>1. /\ optimistic.pc = "choose" /\ optimistic \in OptimisticThread
      /\ get_choked_interested_neighbors(store, optimistic.exclude) \subseteq Peer
      /\ UNCHANGED <<store, told, preferred_ids, optimistic_id, unchoking>>
  BY DEF CInv, TypeOK, Connected, ChooseOptimistic, get_choked_interested_neighbors,
         get_interested_neighbors
<1>2. \/ optimistic' = OptimisticSleeps
      \/ \E r \in Peer :
            optimistic' = [optimistic EXCEPT !.pc = "compare", !.chosen = r]
  BY <1>1 DEF ChooseOptimistic
<1>3. /\ optimistic' \in OptimisticThread
      /\ optimistic'.pc \in {"sleep", "compare"}
      /\ optimistic'.pc = "compare" => optimistic'.chosen \in Peer
  <2>1. CASE optimistic' = OptimisticSleeps
    BY <2>1 DEF OptimisticThread, OptimisticSleeps
  <2>2. ASSUME NEW r \in Peer,
               optimistic' = [optimistic EXCEPT !.pc = "compare", !.chosen = r]
        PROVE  /\ optimistic' \in OptimisticThread
               /\ optimistic'.pc = "compare" /\ optimistic'.chosen \in Peer
    BY <1>1, <2>2 DEF OptimisticThread
  <2> QED
    BY <1>2, <2>1, <2>2
<1>4. Typed' /\ Connected'
  BY <1>1, <1>3 DEF CInv, TypeOK, Typed, Connected
<1>5. ThreadsOK'
  BY <1>1, <1>3 DEF CInv, ThreadsOK
<1>6. ASSUME NEW q \in Peer, OrderlyAt(q) PROVE OrderlyAt(q)'
  BY <1>1, <1>3, <1>6 DEF OrderlyAt, ToldOK, Telling, PreferredOK, OptimisticOK, Flag
<1> QED
  BY <1>4, <1>5, <1>6, StepKeepsCInv

LEMMA CompareOldStep ==
    ASSUME CInv, Contend, CompareOld
    PROVE  CInv'
<1>1. Typed' /\ Connected'
  <2>1. optimistic' \in OptimisticThread
    BY DEF CInv, TypeOK, Connected, CompareOld, OptimisticThread
  <2> QED
    BY <2>1 DEF CInv, TypeOK, Typed, Connected, CompareOld
<1>2. ThreadsOK'
  BY DEF CInv, TypeOK, ThreadsOK, CompareOld, OptimisticThread
<1>3. ASSUME NEW q \in Peer, OrderlyAt(q),
             ~(q \in UnchokingBusy /\ q \in OptimisticBusy)
      PROVE  OrderlyAt(q)'
  BY <1>3 DEF CInv, TypeOK, Connected, ThreadsOK, OptimisticThread, OrderlyAt,
     ToldOK, Telling, PreferredOK, OptimisticOK, Flag,
              CompareOld, UnchokingBusy, OptimisticBusy
<1> QED
  BY <1>1, <1>2, <1>3, StepKeepsCInv

LEMMA TestOldStep ==
    ASSUME CInv, Contend, TestOld
    PROVE  CInv'
<1>1. Typed' /\ Connected'
  BY DEF CInv, TypeOK, ThreadsOK, Typed, Connected, TestOld, OptimisticThread
<1>2. ThreadsOK'
  BY DEF CInv, TypeOK, ThreadsOK, TestOld, OptimisticThread
<1>3. ASSUME NEW q \in Peer, OrderlyAt(q),
             ~(q \in UnchokingBusy /\ q \in OptimisticBusy)
      PROVE  OrderlyAt(q)'
  BY <1>3 DEF CInv, TypeOK, Connected, ThreadsOK, OptimisticThread, OrderlyAt,
     ToldOK, Telling, PreferredOK, OptimisticOK, Flag,
              TestOld, UnchokingBusy, OptimisticBusy
<1> QED
  BY <1>1, <1>2, <1>3, StepKeepsCInv

LEMMA ChokeOldFlags ==
    ASSUME CInv, ChokeOld
    PROVE  /\ IsStore(store') /\ Connected'
           /\ \A q \in Peer : Flag(q)' = (q = optimistic.old \/ Flag(q))
  BY SetAmChokingFlags DEF CInv, TypeOK, ThreadsOK, Connected, Flag, ChokeOld,
     SetChoking, OptimisticThread

LEMMA ChokeOldStep ==
    ASSUME CInv, Contend, ChokeOld
    PROVE  CInv'
<1>0. /\ IsStore(store') /\ Connected'
      /\ \A q \in Peer : Flag(q)' = (q = optimistic.old \/ Flag(q))
  BY ChokeOldFlags
<1>1. Typed' /\ Connected'
  BY <1>0 DEF CInv, TypeOK, ThreadsOK, Typed, Connected, ChokeOld, OptimisticThread
<1>2. ThreadsOK'
  BY <1>0 DEF CInv, TypeOK, ThreadsOK, ChokeOld, OptimisticThread
<1>3. ASSUME NEW q \in Peer, OrderlyAt(q),
             ~(q \in UnchokingBusy /\ q \in OptimisticBusy)
      PROVE  OrderlyAt(q)'
  BY <1>0, <1>3 DEF CInv, TypeOK, Connected, ThreadsOK, OptimisticThread, OrderlyAt,
     ToldOK, Telling, PreferredOK, OptimisticOK,
              ChokeOld, UnchokingBusy, OptimisticBusy
<1> QED
  BY <1>1, <1>2, <1>3, StepKeepsCInv

LEMMA TellOldStep ==
    ASSUME CInv, Contend, TellOld
    PROVE  CInv'
<1>1. Typed' /\ Connected'
  BY DEF CInv, TypeOK, ThreadsOK, Typed, Connected, TellOld, OptimisticThread
<1>2. ThreadsOK'
  BY DEF CInv, TypeOK, ThreadsOK, TellOld, OptimisticThread
<1>3. ASSUME NEW q \in Peer, OrderlyAt(q),
             ~(q \in UnchokingBusy /\ q \in OptimisticBusy)
      PROVE  OrderlyAt(q)'
  BY <1>3 DEF CInv, TypeOK, Connected, ThreadsOK, OptimisticThread, OrderlyAt,
     ToldOK, Telling, PreferredOK, OptimisticOK, Flag,
              TellOld, UnchokingBusy, OptimisticBusy
<1> QED
  BY <1>1, <1>2, <1>3, StepKeepsCInv

LEMMA AssignOptimisticStep ==
    ASSUME CInv, Contend, AssignOptimistic
    PROVE  CInv'
<1>1. Typed' /\ Connected'
  BY DEF CInv, TypeOK, ThreadsOK, Typed, Connected, AssignOptimistic, OptimisticThread
<1>2. ThreadsOK'
  BY DEF CInv, TypeOK, ThreadsOK, AssignOptimistic, OptimisticThread
<1>3. ASSUME NEW q \in Peer, OrderlyAt(q),
             ~(q \in UnchokingBusy /\ q \in OptimisticBusy)
      PROVE  OrderlyAt(q)'
  BY <1>3 DEF CInv, TypeOK, Connected, ThreadsOK, OptimisticThread, OrderlyAt,
     ToldOK, Telling, PreferredOK, OptimisticOK, Flag,
              AssignOptimistic, UnchokingBusy, OptimisticBusy
<1> QED
  BY <1>1, <1>2, <1>3, StepKeepsCInv

LEMMA UnchokeChosenFlags ==
    ASSUME CInv, UnchokeChosen
    PROVE  /\ IsStore(store') /\ Connected'
           /\ \A q \in Peer : Flag(q)' = (q # optimistic.chosen /\ Flag(q))
  BY SetAmChokingFlags DEF CInv, TypeOK, ThreadsOK, Connected, Flag, UnchokeChosen,
     SetChoking, OptimisticThread

LEMMA UnchokeChosenStep ==
    ASSUME CInv, Contend, UnchokeChosen
    PROVE  CInv'
<1>0. /\ IsStore(store') /\ Connected'
      /\ \A q \in Peer : Flag(q)' = (q # optimistic.chosen /\ Flag(q))
  BY UnchokeChosenFlags
<1>1. Typed' /\ Connected'
  BY <1>0 DEF CInv, TypeOK, ThreadsOK, Typed, Connected, UnchokeChosen, OptimisticThread
<1>2. ThreadsOK'
  BY <1>0 DEF CInv, TypeOK, ThreadsOK, UnchokeChosen, OptimisticThread
<1>3. ASSUME NEW q \in Peer, OrderlyAt(q),
             ~(q \in UnchokingBusy /\ q \in OptimisticBusy)
      PROVE  OrderlyAt(q)'
  BY <1>0, <1>3 DEF CInv, TypeOK, Connected, ThreadsOK, OptimisticThread, OrderlyAt,
     ToldOK, Telling, PreferredOK, OptimisticOK,
              UnchokeChosen, UnchokingBusy, OptimisticBusy
<1> QED
  BY <1>1, <1>2, <1>3, StepKeepsCInv

LEMMA TellChosenStep ==
    ASSUME CInv, Contend, TellChosen
    PROVE  CInv'
<1>1. Typed' /\ Connected'
  BY DEF CInv, TypeOK, ThreadsOK, Typed, Connected, TellChosen, OptimisticThread,
     OptimisticSleeps
<1>2. ThreadsOK'
  BY DEF CInv, TypeOK, ThreadsOK, TellChosen, OptimisticThread, OptimisticSleeps
<1>3. ASSUME NEW q \in Peer, OrderlyAt(q),
             ~(q \in UnchokingBusy /\ q \in OptimisticBusy)
      PROVE  OrderlyAt(q)'
  <2>1. /\ optimistic.pc = "tell_chosen" /\ optimistic'.pc = "sleep"
        /\ optimistic.chosen \in Peer
        /\ UNCHANGED <<store, preferred_ids, optimistic_id, unchoking>>
        /\ q = optimistic.chosen => told'[q] = FALSE
        /\ q # optimistic.chosen => told'[q] = told[q]
    BY DEF CInv, TypeOK, ThreadsOK, TellChosen, OptimisticSleeps
  <2> QED
    BY <1>3, <2>1 DEF OrderlyAt, ToldOK, Telling, PreferredOK, OptimisticOK, Flag,
       is_am_choking,
                      UnchokingBusy, OptimisticBusy
<1> QED
  BY <1>1, <1>2, <1>3, StepKeepsCInv

LEMMA InterestArrivesStep ==
    ASSUME CInv, Contend, NEW r \in Peer, InterestArrives(r)
    PROVE  CInv'
<1>1. /\ IsStore(store') /\ Connected'
      /\ \A q \in Peer : Flag(q)' = Flag(q)
  BY SetPeerInterestedFlags DEF CInv, TypeOK, Connected, Flag, InterestArrives
<1>2. Typed' /\ ThreadsOK'
  BY <1>1 DEF CInv, TypeOK, Typed, ThreadsOK, InterestArrives
<1>3. ASSUME NEW q \in Peer, OrderlyAt(q) PROVE OrderlyAt(q)'
  BY <1>1, <1>3 DEF OrderlyAt, ToldOK, Telling, PreferredOK, OptimisticOK,
     InterestArrives
<1> QED
  BY <1>1, <1>2, <1>3, StepKeepsCInv

LEMMA StutterStep ==
    ASSUME CInv, UNCHANGED vars
    PROVE  CInv'
  BY DEF vars, CInv, TypeOK, Connected, ThreadsOK, BusyNoted, UnchokingBusy,
         OptimisticBusy, Orderly, OrderlyAt, ToldOK, Telling, PreferredOK,
         OptimisticOK, Flag

LEMMA InitCInv == Init => CInv
<1> SUFFICES ASSUME Init PROVE CInv
  OBVIOUS
<1>1. NewNeighbor \in NeighborState /\ NewNeighbor.am_choking = TRUE
  BY DEF NewNeighbor, NeighborState
<1>2. /\ store.neighbors = [q \in Peer |-> NewNeighbor]
      /\ store.my_bitfield = {} /\ store.requested_pieces = {}
      /\ store.completed_neighbor_ids = {}
      /\ store = [ my_bitfield |-> {}, neighbors |-> [q \in Peer |-> NewNeighbor],
                   requested_pieces |-> {}, completed_neighbor_ids |-> {} ]
  BY DEF Init, NewStore
<1>3. IsStore(store) /\ Connected
  BY <1>1, <1>2 DEF IsStore, Connected
<1>4. \A q \in Peer : Flag(q) = TRUE
  BY <1>1, <1>2 DEF Flag, is_am_choking, Knows
<1>5. TypeOK
  BY <1>3 DEF Init, TypeOK, UnchokingSleeps, UnchokingThread, OptimisticSleeps,
              OptimisticThread
<1>6. unchoking.pc = "sleep" /\ optimistic.pc = "sleep"
  BY DEF Init, UnchokingSleeps, OptimisticSleeps
<1>7. ThreadsOK /\ BusyNoted
  BY <1>6 DEF ThreadsOK, BusyNoted, UnchokingBusy
<1>8. None \notin Peer
  BY PeerAssumption
<1>9. Orderly
  BY <1>4, <1>6, <1>8 DEF Init, Orderly, OrderlyAt, ToldOK, Telling
<1> QED
  BY <1>3, <1>5, <1>7, <1>9 DEF CInv

LEMMA NextCInv == CInv /\ [Next]_vars => CInv'
<1> SUFFICES ASSUME CInv, [Next]_vars PROVE CInv'
  OBVIOUS
<1>1. CASE UNCHANGED vars
  BY <1>1, StutterStep
<1>2. CASE Next
  <2>1. Contend
    BY <1>2 DEF Next
  <2>2. CASE UnchokingTimer
    BY <2>1, <2>2, SelectPreferredStep, AssignPreferredStep, NextNeighborStep,
       TickEndsStep, TestFlagStep, SetFlagStep, SendFlagStep DEF UnchokingTimer
  <2>3. CASE OptimisticTimer
    BY <2>1, <2>3, ReadPreferredStep, ChooseOptimisticStep, CompareOldStep,
       TestOldStep, ChokeOldStep, TellOldStep, AssignOptimisticStep,
       UnchokeChosenStep, TellChosenStep DEF OptimisticTimer
  <2>4. ASSUME NEW r \in Peer, InterestArrives(r) PROVE CInv'
    BY <2>1, <2>4, InterestArrivesStep
  <2> QED
    BY <1>2, <2>2, <2>3, <2>4 DEF Next
<1> QED
  BY <1>1, <1>2

-----------------------------------------------------------------------------

\* The inductive invariant holds in every state of every run.
THEOREM Invariance == Spec => []CInv
  BY InitCInv, NextCInv, PTL DEF Spec

\* The local variables of the timer threads and the shared attributes keep
\* their types (peer_network.py:145-233).
THEOREM TypeCorrect == Spec => []TypeOK
<1>1. CInv => TypeOK
  BY DEF CInv
<1> QED
  BY <1>1, Invariance, PTL

\* Between the ticks a neighbour knows whether it is choked, unless the two
\* threads met on it (peer_network.py:179-193, 216-230).
THEOREM FlagsToldCorrect == Spec => []FlagsTold
<1>1. CInv => FlagsTold
  BY DEF CInv, Orderly, OrderlyAt, ToldOK, Telling, FlagsTold, AtRest, Flag
<1> QED
  BY <1>1, Invariance, PTL

\* Between the ticks the neighbours chosen last are unchoked, with the same
\* exception (peer_network.py:172-189, 211-230).
THEOREM ChosenServedCorrect == Spec => []ChosenServed
<1>1. CInv => ChosenServed
  BY DEF CInv, TypeOK, Orderly, OrderlyAt, PreferredOK, OptimisticOK, ChosenServed,
         AtRest, Unchoked, Flag
<1> QED
  BY <1>1, Invariance, PTL

-----------------------------------------------------------------------------
(* The slot that is left over: an invariant of its own. *)

\* The loop has still to choke q.
Pending(q) ==
    /\ unchoking.pc \in {"loop", "test", "set", "send"}
    /\ \/ q \in unchoking.all_pids
       \/ unchoking.pc \in {"test", "set"} /\ unchoking.pid = q /\ unchoking.choke

\* q has a slot that nobody gave it last, and nobody is about to take it away.
LeftOver(q) == ~Flag(q) /\ q \notin preferred_ids /\ q # optimistic_id /\ ~Pending(q)

\* Only its own thread replaces the optimistic neighbour.
OldKnown ==
    optimistic.pc \in {"test", "choke", "tell_old", "assign"} =>
        optimistic.old = optimistic_id

\* The next assignment leaves the previous optimistic neighbour its slot.
Threatens ==
    /\ optimistic.pc \in {"tell_old", "assign"}
    /\ optimistic.old \in Peer \ ({optimistic.chosen} \cup preferred_ids)
    /\ ~Flag(optimistic.old)

\* It can only do so after a loop began, which chokes whoever was left before.
LeftInv ==
    /\ OldKnown
    /\ \A q, r \in Peer : LeftOver(q) /\ LeftOver(r) => q = r
    /\ Threatens => \A q \in Peer : ~LeftOver(q)

\* Most steps leave nobody over and threaten to leave nobody over.
LEMMA NobodyNew ==
    ASSUME LeftInv, OldKnown', \A q \in Peer : LeftOver(q)' => LeftOver(q),
           Threatens' => Threatens
    PROVE  LeftInv'
  BY DEF LeftInv

LEMMA UnchokingQuiet ==
    ASSUME LeftInv, UNCHANGED <<optimistic, optimistic_id, preferred_ids>>,
           \A q \in Peer : LeftOver(q)' => LeftOver(q),
           \A q \in Peer \ preferred_ids : Flag(q) => Flag(q)'
    PROVE  LeftInv'
<1>1. OldKnown' /\ (Threatens' => Threatens)
  BY DEF LeftInv, OldKnown, Threatens
<1> QED
  BY <1>1, NobodyNew

-----------------------------------------------------------------------------

\* Before and after the loop of the unchoking timer.
LEMMA TicksLeave ==
    ASSUME CInv, LeftInv, SelectPreferred \/ TickEnds \/ SendFlag
    PROVE  LeftInv'
<1>1. /\ UNCHANGED <<store, optimistic, optimistic_id, preferred_ids>>
      /\ unchoking \in UnchokingThread
  BY DEF SelectPreferred, TickEnds, SendFlag, CInv, TypeOK
<1>2. ASSUME NEW q \in Peer PROVE Pending(q) => Pending(q)'
  <2>1. CASE SelectPreferred
    BY <2>1 DEF SelectPreferred, Pending
  <2>2. CASE TickEnds
    BY <2>2 DEF TickEnds, Pending
  <2>3. CASE SendFlag
    BY <1>1, <2>3 DEF SendFlag, Pending, UnchokingThread
  <2> QED
    BY <2>1, <2>2, <2>3
<1>3. \A q \in Peer : Flag(q)' <=> Flag(q)
  BY <1>1 DEF Flag
<1>4. \A q \in Peer : LeftOver(q)' => LeftOver(q)
  BY <1>1, <1>2, <1>3 DEF LeftOver
<1> QED
  BY <1>1, <1>3, <1>4, UnchokingQuiet

\* A new choice has everybody looked at.
LEMMA AssignPreferredLeaves ==
    ASSUME CInv, LeftInv, AssignPreferred
    PROVE  LeftInv'
<1>1. unchoking \in UnchokingThread /\ DOMAIN store.neighbors = Peer
  BY DEF CInv, TypeOK, Connected
<1>2. unchoking'.pc = "loop" /\ unchoking'.all_pids = Peer
  BY <1>1 DEF AssignPreferred, UnchokingThread
<1>3. \A q \in Peer : ~LeftOver(q)'
  BY <1>2 DEF LeftOver, Pending
<1>4. OldKnown'
  BY DEF AssignPreferred, LeftInv, OldKnown
<1> QED
  BY <1>3, <1>4 DEF LeftInv

\* Whoever is passed over keeps a slot that he was given.
LEMMA NextNeighborLeaves ==
    ASSUME CInv, LeftInv, NextNeighbor
    PROVE  LeftInv'
<1> DEFINE Choke(r) == r \notin unchoking.selected
<1>1. PICK r \in unchoking.all_pids :
         unchoking' = [unchoking EXCEPT
            !.all_pids = @ \ {r}, !.pid = r, !.choke = Choke(r),
            !.pc = IF Choke(r) /\ r = optimistic_id THEN "loop" ELSE "test"]
  BY DEF NextNeighbor
<1>2. /\ unchoking \in UnchokingThread /\ unchoking.pc = "loop"
      /\ preferred_ids = unchoking.selected
      /\ UNCHANGED <<store, optimistic, optimistic_id, preferred_ids>>
  BY DEF CInv, TypeOK, ThreadsOK, NextNeighbor
<1>3. Choke(r) <=> r \notin preferred_ids
  BY <1>2
<1> HIDE DEF Choke
<1>4. /\ unchoking'.all_pids = unchoking.all_pids \ {r}
      /\ unchoking'.pid = r /\ unchoking'.choke = Choke(r)
      /\ unchoking'.pc = IF Choke(r) /\ r = optimistic_id THEN "loop" ELSE "test"
  BY <1>1, <1>2 DEF UnchokingThread
<1>5. ASSUME NEW q \in Peer, q \notin preferred_ids, q # optimistic_id, Pending(q)
      PROVE  Pending(q)'
  BY <1>2, <1>3, <1>4, <1>5 DEF Pending
<1>6. \A q \in Peer : Flag(q)' <=> Flag(q)
  BY <1>2 DEF Flag
<1>7. \A q \in Peer : LeftOver(q)' => LeftOver(q)
  BY <1>2, <1>5, <1>6 DEF LeftOver
<1> QED
  BY <1>2, <1>6, <1>7, UnchokingQuiet

LEMMA TestFlagLeaves ==
    ASSUME CInv, LeftInv, TestFlag
    PROVE  LeftInv'
<1>1. /\ unchoking \in UnchokingThread /\ unchoking.pc = "test"
      /\ UNCHANGED <<store, optimistic, optimistic_id, preferred_ids>>
  BY DEF CInv, TypeOK, TestFlag
<1>2. /\ unchoking'.all_pids = unchoking.all_pids
      /\ unchoking'.pid = unchoking.pid /\ unchoking'.choke = unchoking.choke
      /\ \/ unchoking'.pc = "set"
         \/ unchoking'.pc = "loop" /\ (Flag(unchoking.pid) <=> unchoking.choke)
  BY <1>1 DEF TestFlag, UnchokingThread, Flag
<1>3. \A q \in Peer : Pending(q) => Pending(q)' \/ Flag(q)
  BY <1>1, <1>2 DEF Pending
<1>4. \A q \in Peer : Flag(q)' <=> Flag(q)
  BY <1>1 DEF Flag
<1>5. \A q \in Peer : LeftOver(q)' => LeftOver(q)
  BY <1>1, <1>3, <1>4 DEF LeftOver
<1> QED
  BY <1>1, <1>4, <1>5, UnchokingQuiet

LEMMA SetFlagLeaves ==
    ASSUME CInv, LeftInv, SetFlag
    PROVE  LeftInv'
<1>1. /\ unchoking \in UnchokingThread /\ unchoking.pc = "set"
      /\ UNCHANGED <<optimistic, optimistic_id, preferred_ids>>
      /\ unchoking.choke <=> unchoking.pid \notin preferred_ids
  BY DEF CInv, TypeOK, ThreadsOK, SetFlag
<1>2. /\ unchoking'.all_pids = unchoking.all_pids /\ unchoking'.pc = "send"
  BY <1>1 DEF SetFlag, UnchokingThread
<1>3. \A q \in Peer : Flag(q)' <=> IF q = unchoking.pid THEN unchoking.choke ELSE Flag(q)
  BY SetFlagFlags
<1>4. \A q \in Peer : Pending(q) => Pending(q)' \/ (q = unchoking.pid /\ unchoking.choke)
  BY <1>1, <1>2 DEF Pending
<1>5. \A q \in Peer : LeftOver(q)' => LeftOver(q)
  BY <1>1, <1>3, <1>4 DEF LeftOver
<1>6. \A q \in Peer \ preferred_ids : Flag(q) => Flag(q)'
  BY <1>1, <1>3
<1> QED
  BY <1>1, <1>5, <1>6, UnchokingQuiet

\* The optimistic timer, up to the assignment.
LEMMA ChoosingLeaves ==
    ASSUME CInv, LeftInv,
           ReadPreferred \/ ChooseOptimistic \/ CompareOld \/ TestOld \/ TellOld \/ TellChosen
    PROVE  LeftInv'
<1>1. /\ UNCHANGED <<store, unchoking, optimistic_id, preferred_ids>>
      /\ optimistic \in OptimisticThread
  BY DEF CInv, TypeOK, ReadPreferred, ChooseOptimistic, CompareOld, TestOld, TellOld,
     TellChosen
<1>2. \A q \in Peer : (LeftOver(q)' <=> LeftOver(q)) /\ (Flag(q)' <=> Flag(q))
  BY <1>1 DEF LeftOver, Pending, Flag
<1>3. OldKnown' /\ (Threatens' => Threatens)
  <2>1. CASE ReadPreferred \/ TellChosen
    <3>1. ReadPreferred => optimistic'.pc = "choose"
      BY DEF ReadPreferred, OptimisticSleeps
    <3>2. TellChosen => optimistic'.pc = "sleep"
      BY DEF TellChosen, OptimisticSleeps
    <3> QED
      BY <2>1, <3>1, <3>2 DEF OldKnown, Threatens
  <2>2. CASE ChooseOptimistic
    <3>1. optimistic'.pc \in {"sleep", "compare"}
      <4>1. \/ optimistic' = OptimisticSleeps
            \/ \E r : optimistic' = [optimistic EXCEPT !.pc = "compare", !.chosen = r]
        BY <2>2 DEF ChooseOptimistic
      <4>2. CASE optimistic' = OptimisticSleeps
        BY <4>2 DEF OptimisticSleeps
      <4>3. CASE \E r : optimistic' = [optimistic EXCEPT !.pc = "compare", !.chosen = r]
        BY <1>1, <4>3 DEF OptimisticThread
      <4> QED
        BY <4>1, <4>2, <4>3
    <3> QED
      BY <3>1 DEF OldKnown, Threatens
  <2>3. CASE CompareOld
    <3>1. /\ optimistic'.old = optimistic_id /\ optimistic'.chosen = optimistic.chosen
          /\ optimistic'.pc = IF optimistic_id \in {None, optimistic.chosen} \cup preferred_ids
                              THEN "assign" ELSE "test"
      BY <1>1, <2>3 DEF CompareOld, OptimisticThread
    <3> QED
      BY <1>1, <3>1, PeerAssumption DEF OldKnown, Threatens
  <2>4. CASE TestOld
    <3>1. /\ optimistic.pc = "test"
          /\ optimistic'.old = optimistic.old
          /\ \/ optimistic'.pc = "choke"
             \/ optimistic'.pc = "assign" /\ Flag(optimistic.old)
      BY <1>1, <2>4 DEF TestOld, OptimisticThread, Flag
    <3> QED
      BY <1>1, <1>2, <3>1 DEF LeftInv, OldKnown, Threatens
  <2>5. CASE TellOld
    <3>1. /\ optimistic.pc = "tell_old" /\ optimistic'.pc = "assign"
          /\ optimistic'.old = optimistic.old /\ optimistic'.chosen = optimistic.chosen
      BY <1>1, <2>5 DEF TellOld, OptimisticThread
    <3> QED
      BY <1>1, <1>2, <3>1 DEF LeftInv, OldKnown, Threatens
  <2> QED
    BY <2>1, <2>2, <2>3, <2>4, <2>5
<1> QED
  BY <1>2, <1>3, NobodyNew

LEMMA ChokeOldLeaves ==
    ASSUME CInv, LeftInv, ChokeOld
    PROVE  LeftInv'
<1>1. /\ UNCHANGED <<unchoking, optimistic_id, preferred_ids>>
      /\ optimistic \in OptimisticThread /\ optimistic.old \in Peer
      /\ optimistic.pc = "choke"
  BY DEF CInv, TypeOK, ThreadsOK, ChokeOld
<1>2. optimistic'.pc = "tell_old" /\ optimistic'.old = optimistic.old
  BY <1>1 DEF ChokeOld, OptimisticThread
<1>3. \A q \in Peer : Flag(q)' <=> (q = optimistic.old \/ Flag(q))
  BY ChokeOldFlags
<1>4. \A q \in Peer : LeftOver(q)' => LeftOver(q)
  BY <1>1, <1>3 DEF LeftOver, Pending
<1>5. ~Threatens'
  BY <1>1, <1>2, <1>3 DEF Threatens
<1>6. OldKnown'
  BY <1>1, <1>2 DEF LeftInv, OldKnown
<1> QED
  BY <1>4, <1>5, <1>6, NobodyNew

\* The previous optimistic neighbour may be left over, alone.
LEMMA AssignOptimisticLeaves ==
    ASSUME CInv, LeftInv, AssignOptimistic
    PROVE  LeftInv'
<1>1. /\ UNCHANGED <<store, unchoking, preferred_ids>>
      /\ optimistic \in OptimisticThread /\ optimistic.pc = "assign"
      /\ optimistic_id' = optimistic.chosen /\ optimistic.old = optimistic_id
  BY DEF CInv, TypeOK, AssignOptimistic, LeftInv, OldKnown
<1>2. optimistic'.pc = "unchoke"
  BY <1>1 DEF AssignOptimistic, OptimisticThread
<1>3. \A q \in Peer : (Flag(q)' <=> Flag(q)) /\ (Pending(q)' <=> Pending(q))
  BY <1>1 DEF Flag, Pending
<1>4. \A q \in Peer : LeftOver(q)' => LeftOver(q) \/ (q = optimistic.old /\ Threatens)
  BY <1>1, <1>3 DEF LeftOver, Threatens
<1>5. ASSUME NEW q \in Peer, NEW r \in Peer, LeftOver(q)', LeftOver(r)' PROVE q = r
  BY <1>4, <1>5 DEF LeftInv
<1>6. OldKnown' /\ ~Threatens'
  BY <1>2 DEF OldKnown, Threatens
<1> QED
  BY <1>5, <1>6 DEF LeftInv

LEMMA UnchokeChosenLeaves ==
    ASSUME CInv, LeftInv, UnchokeChosen
    PROVE  LeftInv'
<1>1. /\ UNCHANGED <<unchoking, optimistic_id, preferred_ids>>
      /\ optimistic \in OptimisticThread /\ optimistic.chosen = optimistic_id
  BY DEF CInv, TypeOK, ThreadsOK, UnchokeChosen
<1>2. optimistic'.pc = "tell_chosen"
  BY <1>1 DEF UnchokeChosen, OptimisticThread
<1>3. \A q \in Peer : Flag(q)' <=> (q # optimistic.chosen /\ Flag(q))
  BY UnchokeChosenFlags
<1>4. \A q \in Peer : LeftOver(q)' => LeftOver(q)
  BY <1>1, <1>3 DEF LeftOver, Pending
<1>5. OldKnown' /\ ~Threatens'
  BY <1>2 DEF OldKnown, Threatens
<1> QED
  BY <1>4, <1>5, NobodyNew

LEMMA InterestLeaves ==
    ASSUME CInv, LeftInv, NEW r \in Peer, InterestArrives(r)
    PROVE  LeftInv'
<1>1. \A q \in Peer : Flag(q)' <=> Flag(q)
  BY SetPeerInterestedFlags DEF CInv, TypeOK, Connected, Flag, InterestArrives
<1>2. UNCHANGED <<preferred_ids, optimistic_id, unchoking, optimistic>>
  BY DEF InterestArrives
<1>3. \A q \in Peer : LeftOver(q)' => LeftOver(q)
  BY <1>1, <1>2 DEF LeftOver, Pending
<1> QED
  BY <1>1, <1>2, <1>3, UnchokingQuiet

LEMMA StutterLeaves ==
    ASSUME LeftInv, UNCHANGED vars
    PROVE  LeftInv'
  BY DEF vars, LeftInv, OldKnown, Threatens, LeftOver, Pending, Flag

LEMMA InitLeftInv == Init => LeftInv
<1> SUFFICES ASSUME Init PROVE LeftInv
  OBVIOUS
<1>1. \A q \in Peer : Flag(q)
  BY DEF Init, NewStore, NewNeighbor, Flag, is_am_choking, Knows
<1>2. optimistic.pc = "sleep"
  BY DEF Init, OptimisticSleeps
<1> QED
  BY <1>1, <1>2 DEF LeftInv, OldKnown, Threatens, LeftOver

LEMMA NextLeftInv == CInv /\ LeftInv /\ [Next]_vars => LeftInv'
<1> SUFFICES ASSUME CInv, LeftInv, [Next]_vars PROVE LeftInv'
  OBVIOUS
<1>1. CASE UNCHANGED vars
  BY <1>1, StutterLeaves
<1>2. CASE UnchokingTimer
  BY <1>2, TicksLeave, AssignPreferredLeaves, NextNeighborLeaves, TestFlagLeaves,
     SetFlagLeaves DEF UnchokingTimer
<1>3. CASE OptimisticTimer
  BY <1>3, ChoosingLeaves, ChokeOldLeaves, AssignOptimisticLeaves, UnchokeChosenLeaves
     DEF OptimisticTimer
<1>4. ASSUME NEW r \in Peer, InterestArrives(r) PROVE LeftInv'
  BY <1>4, InterestLeaves
<1> QED
  BY <1>1, <1>2, <1>3, <1>4 DEF Next

\* One slot at most is left over at any time, between the ticks and in them.
THEOREM LeftInvariance == Spec => []LeftInv
<1>1. Init => CInv /\ LeftInv
  BY InitCInv, InitLeftInv
<1>2. (CInv /\ LeftInv) /\ [Next]_vars => (CInv /\ LeftInv)'
  BY NextCInv, NextLeftInv
<1> QED
  BY <1>1, <1>2, PTL DEF Spec

\* However the two timers interleave, nobody else than the neighbours chosen
\* last has a slot, but one at most (peer_network.py:188-193, 214-226).
THEOREM OneSlotLeftOver == Spec => []OneLeftOver
<1>1. LeftInv => OneLeftOver
  <2> SUFFICES ASSUME LeftInv, AtRest
               PROVE  Cardinality(Unchoked \ (preferred_ids \cup {optimistic_id})) <= 1
    BY DEF OneLeftOver
  <2> DEFINE L == Unchoked \ (preferred_ids \cup {optimistic_id})
  <2>1. \A q \in L : q \in Peer /\ LeftOver(q)
    BY DEF AtRest, LeftOver, Pending, Unchoked, Flag
  <2>2. \A q, r \in L : q = r
    BY <2>1 DEF LeftInv
  <2> HIDE DEF L
  <2>3. CASE L = {}
    BY <2>3, FS_EmptySet DEF L
  <2>4. CASE L # {}
    <3>1. PICK q \in L : TRUE
      BY <2>4
    <3>2. L = {q}
      BY <2>2, <3>1
    <3>3. Cardinality(L) = 1
      BY <3>2, FS_Singleton
    <3> QED
      BY <3>3 DEF L
  <2> QED
    BY <2>3, <2>4
<1> QED
  BY <1>1, LeftInvariance, PTL

=============================================================================
