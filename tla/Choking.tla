------------------------------- MODULE Choking -------------------------------
(***************************************************************************)
(* The two timer threads of ONE peer (peer_network.py:121-235).  They      *)
(* share the flags am_choking, each behind PeerState.lock, the attributes  *)
(* _preferred_ids and _optimistic_id, behind none, and the connections,    *)
(* whose order is the order of sending: a test, a change of the flag and   *)
(* the message about it are three steps, and the other thread runs between *)
(* any two of them.  The receive threads change the interest of the        *)
(* neighbours at any time.  All neighbours stay connected.                 *)
(***************************************************************************)
EXTENDS PeerState

CONSTANT NumberOfPreferredNeighbors

ASSUME PreferredAssumption == NumberOfPreferredNeighbors \in Nat

VARIABLES
    store,          \* peer_state
    told,           \* told[q]: the last message to q on choking was CHOKE
    preferred_ids,
    optimistic_id,
    unchoking,      \* the thread of _unchoking_timer_loop
    optimistic,     \* the thread of _optimistic_timer_loop
    contended       \* history: neighbours both threads were busy with at once

vars == <<store, told, preferred_ids, optimistic_id, unchoking, optimistic,
          contended>>

\* selected and all_pids of _select_preferred_neighbors, the neighbour of the
\* loop, and whether it is to be choked.
UnchokingThread ==
    [ pc       : {"sleep", "assign", "loop", "test", "set", "send"},
      selected : SUBSET Peer,
      all_pids : SUBSET Peer,
      pid      : Peer \cup {None},
      choke    : BOOLEAN ]

\* exclude, chosen and old of _select_optimistic_neighbor.
OptimisticThread ==
    [ pc      : {"sleep", "choose", "compare", "test", "choke", "tell_old",
                 "assign", "unchoke", "tell_chosen"},
      exclude : SUBSET Peer,
      chosen  : Peer \cup {None},
      old     : Peer \cup {None} ]

UnchokingSleeps ==
    [pc |-> "sleep", selected |-> {}, all_pids |-> {}, pid |-> None, choke |-> FALSE]

OptimisticSleeps ==
    [pc |-> "sleep", exclude |-> {}, chosen |-> None, old |-> None]

TypeOK ==
    /\ IsStore(store)
    /\ told \in [Peer -> BOOLEAN]
    /\ preferred_ids \subseteq Peer
    /\ optimistic_id \in Peer \cup {None}
    /\ unchoking \in UnchokingThread
    /\ optimistic \in OptimisticThread
    /\ contended \subseteq Peer

Init ==
    /\ store = [NewStore(FALSE) EXCEPT !.neighbors = [q \in Peer |-> NewNeighbor]]
    /\ told = [q \in Peer |-> TRUE]
    /\ preferred_ids = {}
    /\ optimistic_id = None
    /\ unchoking = UnchokingSleeps
    /\ optimistic = OptimisticSleeps
    /\ contended = {}

-----------------------------------------------------------------------------
(* The unchoking timer: _select_preferred_neighbors. *)

SetChoking(q, is_choking) ==
    store' = IF is_choking THEN set_am_choking(store, {}, {q})
             ELSE set_am_choking(store, {q}, {})

\* k of the interested neighbours, whatever their download rates.
SelectPreferred ==
    LET interested == get_interested_neighbors(store)
        n == Cardinality(interested)
        k == IF n < NumberOfPreferredNeighbors THEN n
             ELSE NumberOfPreferredNeighbors
    IN
    /\ unchoking.pc = "sleep"
    /\ \E selected \in SUBSET interested :
          /\ Cardinality(selected) = k
          /\ unchoking' = [UnchokingSleeps EXCEPT !.pc = "assign", !.selected = selected]
    /\ UNCHANGED <<store, told, preferred_ids, optimistic_id, optimistic>>

\* Mistake: the optimistic neighbour, if any or not, is counted as preferred.
AssignPreferredWithOptimistic ==
    /\ unchoking.pc = "assign"
    /\ preferred_ids' = unchoking.selected \cup {optimistic_id}
    /\ unchoking' = [unchoking EXCEPT !.pc = "loop",
                                      !.all_pids = DOMAIN store.neighbors]
    /\ UNCHANGED <<store, told, optimistic_id, optimistic>>

AssignPreferred ==
    /\ unchoking.pc = "assign"
    /\ preferred_ids' = unchoking.selected
    /\ unchoking' = [unchoking EXCEPT !.pc = "loop",
                                      !.all_pids = DOMAIN store.neighbors]
    /\ UNCHANGED <<store, told, optimistic_id, optimistic>>

\* Mistake: the optimistic neighbour is choked like the others.
NextNeighborOptimisticToo ==
    /\ unchoking.pc = "loop"
    /\ \E q \in unchoking.all_pids :
          unchoking' = [unchoking EXCEPT
              !.all_pids = @ \ {q}, !.pid = q,
              !.choke = q \notin unchoking.selected,
              !.pc = "test"]
    /\ UNCHANGED <<store, told, preferred_ids, optimistic_id, optimistic>>

\* The next neighbour: to be unchoked if selected, otherwise to be choked
\* unless it is the optimistic one.
NextNeighbor ==
    /\ unchoking.pc = "loop"
    /\ \E q \in unchoking.all_pids :
          unchoking' = [unchoking EXCEPT
              !.all_pids = @ \ {q}, !.pid = q,
              !.choke = q \notin unchoking.selected,
              !.pc = IF q \notin unchoking.selected /\ q = optimistic_id
                     THEN "loop" ELSE "test"]
    /\ UNCHANGED <<store, told, preferred_ids, optimistic_id, optimistic>>

TickEnds ==
    /\ unchoking.pc = "loop" /\ unchoking.all_pids = {}
    /\ unchoking' = UnchokingSleeps
    /\ UNCHANGED <<store, told, preferred_ids, optimistic_id, optimistic>>

TestFlag ==
    /\ unchoking.pc = "test"
    /\ unchoking' = [unchoking EXCEPT !.pc =
          IF is_am_choking(store, unchoking.pid) = unchoking.choke
          THEN "loop" ELSE "set"]
    /\ UNCHANGED <<store, told, preferred_ids, optimistic_id, optimistic>>

SetFlag ==
    /\ unchoking.pc = "set"
    /\ SetChoking(unchoking.pid, unchoking.choke)
    /\ unchoking' = [unchoking EXCEPT !.pc = "send"]
    /\ UNCHANGED <<told, preferred_ids, optimistic_id, optimistic>>

\* Mistake: the neighbours that are choked are not told.
SendUnchokeOnly ==
    /\ unchoking.pc = "send"
    /\ told' = [told EXCEPT ![unchoking.pid] = @ /\ unchoking.choke]
    /\ unchoking' = [unchoking EXCEPT !.pc = "loop"]
    /\ UNCHANGED <<store, preferred_ids, optimistic_id, optimistic>>

SendFlag ==
    /\ unchoking.pc = "send"
    /\ told' = [told EXCEPT ![unchoking.pid] = unchoking.choke]
    /\ unchoking' = [unchoking EXCEPT !.pc = "loop"]
    /\ UNCHANGED <<store, preferred_ids, optimistic_id, optimistic>>

-----------------------------------------------------------------------------
(* The optimistic timer: _select_optimistic_neighbor. *)

ReadPreferred ==
    /\ optimistic.pc = "sleep"
    /\ optimistic' = [OptimisticSleeps EXCEPT !.pc = "choose", !.exclude = preferred_ids]
    /\ UNCHANGED <<store, told, preferred_ids, optimistic_id, unchoking>>

ChooseOptimistic ==
    LET candidates == get_choked_interested_neighbors(store, optimistic.exclude) IN
    /\ optimistic.pc = "choose"
    /\ IF candidates = {} THEN optimistic' = OptimisticSleeps
       ELSE \E q \in candidates :
              optimistic' = [optimistic EXCEPT !.pc = "compare", !.chosen = q]
    /\ UNCHANGED <<store, told, preferred_ids, optimistic_id, unchoking>>

\* Mistake: the previous optimistic neighbour is left alone.
CompareOldNever ==
    /\ optimistic.pc = "compare"
    /\ optimistic' = [optimistic EXCEPT !.old = optimistic_id, !.pc = "assign"]
    /\ UNCHANGED <<store, told, preferred_ids, optimistic_id, unchoking>>

\* The previous optimistic neighbour is choked again unless it is preferred.
CompareOld ==
    /\ optimistic.pc = "compare"
    /\ optimistic' = [optimistic EXCEPT
          !.old = optimistic_id,
          !.pc = IF optimistic_id \in {None, optimistic.chosen} \cup preferred_ids
                 THEN "assign" ELSE "test"]
    /\ UNCHANGED <<store, told, preferred_ids, optimistic_id, unchoking>>

TestOld ==
    /\ optimistic.pc = "test"
    /\ optimistic' = [optimistic EXCEPT !.pc =
          IF is_am_choking(store, optimistic.old) THEN "assign" ELSE "choke"]
    /\ UNCHANGED <<store, told, preferred_ids, optimistic_id, unchoking>>

ChokeOld ==
    /\ optimistic.pc = "choke"
    /\ SetChoking(optimistic.old, TRUE)
    /\ optimistic' = [optimistic EXCEPT !.pc = "tell_old"]
    /\ UNCHANGED <<told, preferred_ids, optimistic_id, unchoking>>

TellOld ==
    /\ optimistic.pc = "tell_old"
    /\ told' = [told EXCEPT ![optimistic.old] = TRUE]
    /\ optimistic' = [optimistic EXCEPT !.pc = "assign"]
    /\ UNCHANGED <<store, preferred_ids, optimistic_id, unchoking>>

AssignOptimistic ==
    /\ optimistic.pc = "assign"
    /\ optimistic_id' = optimistic.chosen
    /\ optimistic' = [optimistic EXCEPT !.pc = "unchoke"]
    /\ UNCHANGED <<store, told, preferred_ids, unchoking>>

UnchokeChosen ==
    /\ optimistic.pc = "unchoke"
    /\ SetChoking(optimistic.chosen, FALSE)
    /\ optimistic' = [optimistic EXCEPT !.pc = "tell_chosen"]
    /\ UNCHANGED <<told, preferred_ids, optimistic_id, unchoking>>

TellChosen ==
    /\ optimistic.pc = "tell_chosen"
    /\ told' = [told EXCEPT ![optimistic.chosen] = FALSE]
    /\ optimistic' = OptimisticSleeps
    /\ UNCHANGED <<store, preferred_ids, optimistic_id, unchoking>>

-----------------------------------------------------------------------------

\* INTERESTED or NOT_INTERESTED from q.
InterestArrives(q) ==
    /\ store' = set_peer_interested(store, q, ~store.neighbors[q].peer_interested)
    /\ UNCHANGED <<told, preferred_ids, optimistic_id, unchoking, optimistic>>

UnchokingTimer ==
    \/ SelectPreferred \/ AssignPreferred \/ NextNeighbor \/ TickEnds
    \/ TestFlag \/ SetFlag \/ SendFlag

OptimisticTimer ==
    \/ ReadPreferred \/ ChooseOptimistic \/ CompareOld \/ TestOld \/ ChokeOld
    \/ TellOld \/ AssignOptimistic \/ UnchokeChosen \/ TellChosen

\* The neighbour a thread tests, changes or tells.
UnchokingBusy ==
    { q \in Peer : unchoking.pc \in {"test", "set", "send"} /\ unchoking.pid = q }

OptimisticBusy ==
    { q \in Peer :
        \/ optimistic.pc \in {"test", "choke", "tell_old"} /\ optimistic.old = q
        \/ optimistic.pc \in {"unchoke", "tell_chosen"} /\ optimistic.chosen = q }

Contend == contended' = contended \cup (UnchokingBusy \cap OptimisticBusy)'

Next ==
    /\ UnchokingTimer \/ OptimisticTimer \/ \E q \in Peer : InterestArrives(q)
    /\ Contend

Spec == Init /\ [][Next]_vars

-----------------------------------------------------------------------------
(* What is left of the choking protocol between the ticks. *)

AtRest == unchoking.pc = "sleep" /\ optimistic.pc = "sleep"

Unchoked == { q \in Peer : ~is_am_choking(store, q) }

\* A neighbour was last told what its flag says (am_choking and peer_choking,
\* state.py:79-81), unless both threads once dealt with it at the same time:
\* then flag and message can part (191-193 against 226-230), and it takes the
\* next change of the flag to bring them together.
FlagsTold ==
    AtRest => \A q \in Peer \ contended : told[q] = is_am_choking(store, q)

\* The neighbours chosen last have their slots, whatever the other thread did
\* in between (179-189, 214-226), with the same exception.
ChosenServed ==
    AtRest => (preferred_ids \cup ({optimistic_id} \ {None})) \ contended
                 \subseteq Unchoked

\* Nobody else has a slot (README 6: "Choke all others"), except one: an
\* optimistic neighbour of before that each thread left to the other (188
\* against 214).
OneLeftOver ==
    AtRest => Cardinality(Unchoked \ (preferred_ids \cup {optimistic_id})) <= 1

=============================================================================
