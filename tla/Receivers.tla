------------------------------ MODULE Receivers ------------------------------
(***************************************************************************)
(* The receive threads of ONE peer, one per neighbour, with the locks they *)
(* really take: every call of PeerState is a step, every file operation is *)
(* a step, and between two steps the other threads run (peer_network.py    *)
(* 361-545, 626-741, 748-766, over state.py and file_manager.py).          *)
(*                                                                         *)
(* The neighbours are the environment: they announce pieces, choke and     *)
(* unchoke, answer requests and disconnect as Swarm lets them.  A message  *)
(* that arrives is one step with the first call its handler makes.         *)
(***************************************************************************)
EXTENDS PeerState, FileStore

CONSTANTS
    Me,         \* this peer
    MaxChokes,  \* bound: UNCHOKEs received
    MaxFaults   \* bound: closed connections, failed writes and assemblies

ASSUME ReceiversAssumption ==
    /\ Me \in Peer
    /\ Piece = Indices
    /\ MaxChokes \in Nat /\ MaxFaults \in Nat

Neighbor == Peer \ {Me}

VARIABLES
    store,              \* peer_state
    disk,               \* file_manager
    thread,             \* thread[r]: the receive thread of neighbour r
    connections,        \* keys of the connections dictionary
    wire,               \* wire[r]: REQUESTs sent to r and not answered
    told,               \* told[r]: r was last sent INTERESTED
    completion_logged,
    all_done,
    unchokes,           \* UNCHOKEs received so far
    faults,             \* faults so far
    mishaps,            \* history: how threads got in the way of an assembly
    contended           \* history: neighbours two threads synchronised at once

vars == <<store, disk, thread, connections, wire, told, completion_logged,
          all_done, unchokes, faults, mishaps, contended>>

\* A thread is at the step that does, or will do, what pc says.
Step == {"idle", "write", "mark", "sync", "compare", "set", "send", "reply",
         "complete", "assemble", "open", "append", "log", "terminate",
         "select", "reserve", "closing", "gone"}

Thread ==
    [ pc      : Step,
      piece   : Piece \cup {None},  \* piece_index; None for other messages
      rest    : SUBSET Neighbor,    \* neighbours still to be synchronised
      about   : Neighbor \cup {None},
      missing : BOOLEAN,            \* interested, of _sync_interest_for_peer
      next    : 0 .. NumPieces,     \* i of assemble_file
      slot    : 0 .. NumPieces ]    \* where assemble_file appends

Idle == [pc |-> "idle", piece |-> None, rest |-> {}, about |-> None,
         missing |-> FALSE, next |-> 0, slot |-> 0]

TypeOK ==
    /\ IsStore(store)
    /\ IsDisk(disk)
    /\ thread \in [Neighbor -> Thread]
    /\ connections \subseteq Neighbor
    /\ wire \in [Neighbor -> Seq(Piece)]
    /\ told \in [Neighbor -> BOOLEAN]
    /\ completion_logged \in BOOLEAN
    /\ all_done \in BOOLEAN
    /\ unchokes \in 0 .. MaxChokes
    /\ faults \in 0 .. MaxFaults
    /\ mishaps \subseteq {"early", "twice", "short"}
    /\ contended \subseteq Neighbor

\* The handshakes are over: every neighbour was added, nothing is known of it.
Init ==
    /\ store = [NewStore(FALSE) EXCEPT !.neighbors = [q \in Neighbor |-> NewNeighbor]]
    /\ disk = NewDisk
    /\ thread = [r \in Neighbor |-> Idle]
    /\ connections = Neighbor
    /\ wire = [r \in Neighbor |-> <<>>]
    /\ told = [r \in Neighbor |-> FALSE]
    /\ completion_logged = FALSE
    /\ all_done = FALSE
    /\ unchokes = 0
    /\ faults = 0
    /\ mishaps = {}
    /\ contended = {}

-----------------------------------------------------------------------------

At(r, pc) == thread[r].pc = pc

\* Thread r is waiting in recv.
Waiting(r) == At(r, "idle") /\ r \in connections

Goes(r, pc) == thread' = [thread EXCEPT ![r].pc = pc]

Finishes(r) == thread' = [thread EXCEPT ![r] = Idle]

Fault == faults < MaxFaults /\ faults' = faults + 1

View(r) == store.neighbors[r].bitfield

-----------------------------------------------------------------------------
(* Messages about the pieces and the interest. *)

\* BITFIELD, the first message of a neighbour that has anything.
BitfieldArrives(r) ==
    /\ Waiting(r) /\ View(r) = {}
    /\ \E b \in SUBSET Piece \ {{}} : store' = update_neighbor_bitfield(store, r, b)
    /\ Goes(r, "reply")
    /\ UNCHANGED <<disk, connections, wire, told, completion_logged, all_done,
                   unchokes, faults, mishaps>>

\* The answer to a BITFIELD is decided by the missing pieces alone.
DecideReply(r) ==
    /\ At(r, "reply")
    /\ thread' = [thread EXCEPT ![r].pc = "set", ![r].about = r,
                    ![r].missing = get_interesting_pieces(store, r) # {}]
    /\ UNCHANGED <<store, disk, connections, wire, told, completion_logged,
                   all_done, unchokes, faults, mishaps>>

HaveArrives(r) ==
    /\ Waiting(r)
    /\ \E i \in Piece \ View(r) : store' = neighbor_set_piece(store, r, i)
    /\ thread' = [thread EXCEPT ![r].pc = "sync", ![r].rest = {r}]
    /\ UNCHANGED <<disk, connections, wire, told, completion_logged, all_done,
                   unchokes, faults, mishaps>>

\* _sync_interest_for_peer of the next neighbour: what do we miss of it?
SyncNext(r) ==
    /\ At(r, "sync")
    /\ \E q \in thread[r].rest :
          thread' = [thread EXCEPT
            ![r].rest = @ \ {q},
            ![r].pc = IF q \in connections THEN "compare" ELSE "sync",
            ![r].about = q,
            ![r].missing = get_interesting_pieces(store, q) # {}]
    /\ UNCHANGED <<store, disk, connections, wire, told, completion_logged,
                   all_done, unchokes, faults, mishaps>>

\* Every neighbour is synchronised: to the completion of the file after a
\* PIECE, to the termination check after the other messages.
SyncDone(r) ==
    /\ At(r, "sync") /\ thread[r].rest = {}
    /\ Goes(r, IF thread[r].piece = None THEN "terminate" ELSE "complete")
    /\ UNCHANGED <<store, disk, connections, wire, told, completion_logged,
                   all_done, unchokes, faults, mishaps>>

\* Is it what the neighbour was told?
SyncCompare(r) ==
    /\ At(r, "compare")
    /\ Goes(r, IF is_am_interested_in_peer(store, thread[r].about)
                  = thread[r].missing THEN "sync" ELSE "set")
    /\ UNCHANGED <<store, disk, connections, wire, told, completion_logged,
                   all_done, unchokes, faults, mishaps>>

SyncSet(r) ==
    /\ At(r, "set")
    /\ store' = set_am_interested(store, thread[r].about, thread[r].missing)
    /\ Goes(r, "send")
    /\ UNCHANGED <<disk, connections, wire, told, completion_logged, all_done,
                   unchokes, faults, mishaps>>

SyncSend(r) ==
    /\ At(r, "send")
    /\ told' = [told EXCEPT ![thread[r].about] = thread[r].missing]
    /\ Goes(r, "sync")
    /\ UNCHANGED <<store, disk, connections, wire, completion_logged, all_done,
                   unchokes, faults, mishaps>>

-----------------------------------------------------------------------------
(* Requests: _maybe_request_piece and _request_next_piece. *)

\* Mistake: the request is not given up.
ChokeKeepsRequest(r) ==
    /\ Waiting(r) /\ ~is_peer_choking_us(store, r)
    /\ store' = set_peer_choking(store, r, TRUE)
    /\ UNCHANGED <<disk, thread, connections, wire, told, completion_logged,
                   all_done, unchokes, faults, mishaps>>

\* CHOKE: the outstanding request is given up.
ChokeArrives(r) ==
    /\ Waiting(r) /\ ~is_peer_choking_us(store, r)
    /\ store' = clear_outstanding_request(set_peer_choking(store, r, TRUE), r)
    /\ UNCHANGED <<disk, thread, connections, wire, told, completion_logged,
                   all_done, unchokes, faults, mishaps>>

\* UNCHOKE.  The neighbour dropped the REQUESTs that found it choking us.
UnchokeArrives(r) ==
    /\ unchokes < MaxChokes
    /\ Waiting(r) /\ is_peer_choking_us(store, r)
    /\ store' = set_peer_choking(store, r, FALSE)
    /\ \E n \in 0 .. Len(wire[r]) :
          wire' = [wire EXCEPT ![r] = SubSeq(@, n + 1, Len(@))]
    /\ Goes(r, "select")
    /\ unchokes' = unchokes + 1
    /\ UNCHANGED <<disk, connections, told, completion_logged, all_done, faults, mishaps>>

SelectPiece(r) ==
    LET candidates == IF is_peer_choking_us(store, r) THEN {}
                      ELSE Candidates(store, r)
    IN
    /\ At(r, "select")
    /\ IF candidates = {} THEN Finishes(r)
       ELSE \E i \in candidates :
              thread' = [thread EXCEPT ![r] = [Idle EXCEPT !.pc = "reserve", !.piece = i]]
    /\ UNCHANGED <<store, disk, connections, wire, told, completion_logged,
                   all_done, unchokes, faults, mishaps>>

\* Mistake: the piece is not compared with the reservations again.
ReserveUnchecked(r) ==
    LET i == thread[r].piece IN
    /\ At(r, "reserve")
    /\ store' = [store EXCEPT !.neighbors[r].outstanding_request = i,
                              !.requested_pieces = @ \cup {i}]
    /\ wire' = [wire EXCEPT ![r] = Append(@, i)]
    /\ Finishes(r)
    /\ UNCHANGED <<disk, connections, told, completion_logged, all_done,
                   unchokes, faults, mishaps>>

\* Two threads may have selected the same piece: the second gives up.
Reserve(r) ==
    LET i == thread[r].piece IN
    /\ At(r, "reserve")
    /\ store' = reserve_request(store, r, i)
    /\ wire' = IF CanReserve(store, r, i)
               THEN [wire EXCEPT ![r] = Append(@, i)] ELSE wire
    /\ Finishes(r)
    /\ UNCHANGED <<disk, connections, told, completion_logged, all_done,
                   unchokes, faults, mishaps>>

-----------------------------------------------------------------------------
(* PIECE: _handle_piece_received. *)

\* The answer to the oldest REQUEST, a CHOKE that overtook it included.
PieceArrives(r) ==
    /\ Waiting(r) /\ wire[r] # <<>>
    /\ wire' = [wire EXCEPT ![r] = Tail(@)]
    /\ disk' = WriteOpened(disk, Head(wire[r]))
    /\ thread' = [thread EXCEPT ![r].pc = "write", ![r].piece = Head(wire[r])]
    /\ UNCHANGED <<store, connections, told, completion_logged, all_done,
                   unchokes, faults, mishaps>>

WritePiece(r) ==
    /\ At(r, "write")
    /\ disk' = WriteDone(disk, thread[r].piece)
    /\ store' = clear_outstanding_request(store, r)
    /\ Goes(r, "mark")
    /\ UNCHANGED <<connections, wire, told, completion_logged, all_done,
                   unchokes, faults, mishaps>>

WriteFails(r) ==
    /\ Fault
    /\ At(r, "write")
    /\ store' = clear_outstanding_request(store, r)
    /\ Finishes(r)
    /\ UNCHANGED <<disk, connections, wire, told, completion_logged, all_done,
                   unchokes, mishaps>>

\* Mistake: only the interest in the sender is looked at again.
MarkSyncsSender(r) ==
    /\ At(r, "mark")
    /\ store' = mark_piece_downloaded(store, thread[r].piece)
    /\ thread' = [thread EXCEPT ![r].pc = "sync", ![r].rest = {r}]
    /\ UNCHANGED <<disk, connections, wire, told, completion_logged, all_done,
                   unchokes, faults, mishaps>>

\* The piece is ours, and HAVE goes to every connection.
MarkDownloaded(r) ==
    /\ At(r, "mark")
    /\ store' = mark_piece_downloaded(store, thread[r].piece)
    /\ thread' = [thread EXCEPT ![r].pc = "sync", ![r].rest = connections]
    /\ UNCHANGED <<disk, connections, wire, told, completion_logged, all_done,
                   unchokes, faults, mishaps>>

\* With the complete file on to the assembly, unless it was logged, otherwise
\* to the next request.
CheckComplete(r) ==
    /\ At(r, "complete")
    /\ Goes(r, IF ~has_complete_file(store) THEN "select"
               ELSE IF completion_logged THEN "terminate" ELSE "assemble")
    /\ UNCHANGED <<store, disk, connections, wire, told, completion_logged,
                   all_done, unchokes, faults, mishaps>>

-----------------------------------------------------------------------------
(* assemble_file and the end. *)

Assembling(r) == At(r, "append")

\* An existing file is taken to be the complete one.
CheckExists(r) ==
    /\ At(r, "assemble")
    /\ Goes(r, IF disk.exists THEN "log" ELSE "open")
    /\ mishaps' = mishaps \cup { m \in {"early"} : \E q \in Neighbor : Assembling(q) }
    /\ UNCHANGED <<store, disk, connections, wire, told, completion_logged,
                   all_done, unchokes, faults>>

OpenComplete(r) ==
    /\ At(r, "open")
    /\ disk' = Opened(disk)
    /\ Goes(r, "append")
    /\ mishaps' = mishaps \cup { m \in {"twice"} : disk.exists }
    /\ UNCHANGED <<store, connections, wire, told, completion_logged, all_done,
                   unchokes, faults>>

\* Mistake: the last piece is left out.
AppendAllButLast(r) ==
    LET i == thread[r].next IN
    /\ At(r, "append")
    /\ disk' = IF i + 1 = NumPieces THEN disk ELSE Appended(disk, thread[r].slot, i)
    /\ thread' = [thread EXCEPT
          ![r].next = @ + 1,
          ![r].slot = IF i \in disk.pieces THEN @ + 1 ELSE @,
          ![r].pc = IF i + 1 = NumPieces THEN "log" ELSE "append"]
    /\ UNCHANGED <<store, connections, wire, told, completion_logged, all_done,
                   unchokes, faults, mishaps>>

AppendPiece(r) ==
    LET i == thread[r].next IN
    /\ At(r, "append")
    /\ disk' = Appended(disk, thread[r].slot, i)
    /\ thread' = [thread EXCEPT
          ![r].next = @ + 1,
          ![r].slot = IF i \in disk.pieces THEN @ + 1 ELSE @,
          ![r].pc = IF i + 1 = NumPieces THEN "log" ELSE "append"]
    /\ mishaps' = mishaps \cup { m \in {"short"} : i \in disk.torn }
    /\ UNCHANGED <<store, connections, wire, told, completion_logged, all_done,
                   unchokes, faults>>

\* The exception of a failed assembly is printed, nothing else.
AssembleFails(r) ==
    /\ Fault
    /\ thread[r].pc \in {"open", "append"}
    /\ Goes(r, "log")
    /\ UNCHANGED <<store, disk, connections, wire, told, completion_logged,
                   all_done, unchokes, mishaps>>

LogCompletion(r) ==
    /\ At(r, "log")
    /\ completion_logged' = TRUE
    /\ Goes(r, "terminate")
    /\ UNCHANGED <<store, disk, connections, wire, told, all_done, unchokes,
                   faults, mishaps>>

\* Mistake: the assembly is not waited for.
TerminatesUnlogged ==
    /\ has_complete_file(store)
    /\ all_neighbors_complete(store, Cardinality(Neighbor))

\* _check_termination: all_done for this peer.
Terminates ==
    /\ completion_logged
    /\ has_complete_file(store)
    /\ all_neighbors_complete(store, Cardinality(Neighbor))

CheckTermination(r) ==
    /\ At(r, "terminate")
    /\ all_done' = (all_done \/ Terminates)
    /\ Finishes(r)
    /\ UNCHANGED <<store, disk, connections, wire, told, completion_logged,
                   unchokes, faults, mishaps>>

\* The end of the stream: on_conn_close_handler forgets the connection and the
\* neighbour under connections_lock,
CloseArrives(r) ==
    /\ Fault
    /\ Waiting(r)
    /\ connections' = connections \ {r}
    /\ store' = remove_neighbor(store, r)
    /\ wire' = [wire EXCEPT ![r] = <<>>]
    /\ Goes(r, "closing")
    /\ UNCHANGED <<disk, told, completion_logged, all_done, unchokes, mishaps>>

\* and then looks whether that was the end.
Close(r) ==
    /\ At(r, "closing")
    /\ all_done' = \/ all_done
                   \/ completion_logged /\ connections = {} /\ has_complete_file(store)
                   \/ Terminates
    /\ Goes(r, "gone")
    /\ UNCHANGED <<store, disk, connections, wire, told, completion_logged,
                   unchokes, faults, mishaps>>

-----------------------------------------------------------------------------

\* The next step of a message that is being handled.
Handle(r) ==
    \/ DecideReply(r)
    \/ SyncNext(r) \/ SyncDone(r) \/ SyncCompare(r) \/ SyncSet(r) \/ SyncSend(r)
    \/ SelectPiece(r) \/ Reserve(r)
    \/ WritePiece(r) \/ MarkDownloaded(r) \/ CheckComplete(r)
    \/ CheckExists(r) \/ OpenComplete(r) \/ AppendPiece(r) \/ LogCompletion(r)
    \/ CheckTermination(r) \/ Close(r)

Arrives(r) ==
    \/ BitfieldArrives(r) \/ HaveArrives(r)
    \/ ChokeArrives(r) \/ UnchokeArrives(r)
    \/ PieceArrives(r) \/ CloseArrives(r)

Fails(r) == WriteFails(r) \/ AssembleFails(r)

\* The neighbour whose interest thread r is about to change or to tell.
Syncing(r) ==
    IF thread[r].pc \in {"compare", "set", "send"} THEN {thread[r].about} ELSE {}

Contend(r) ==
    contended' = contended \cup
        (Syncing(r) \cap UNION { Syncing(q) : q \in Neighbor \ {r} })'

Next ==
    \E r \in Neighbor :
        /\ Arrives(r) \/ Handle(r) \/ Fails(r)
        /\ Contend(r)

Spec == Init /\ [][Next]_vars

-----------------------------------------------------------------------------
(* What the threads keep true, and what they do not. *)

AtRest == \A r \in Neighbor : thread[r].pc \in {"idle", "gone"}

\* The reservation table survives the threads (state.py:194-228): although two
\* of them choose a piece before either reserves it (415/428, 450/454), no
\* missing piece is outstanding twice and none stays reserved for nobody.
RequestsReserved == Reserved(store)

\* While a request is outstanding its REQUEST is still to be answered, or the
\* answer is being written: a choke, an unchoke and the pieces that cross them
\* never leave a thread waiting for nothing (474-487, 676-696).
RequestOwed ==
    \A r \in connections :
        LET i == Outstanding(store, r) IN
        i # None => \/ At(r, "write")
                    \/ \E n \in DOMAIN wire[r] : wire[r][n] = i

\* A piece is written before it is announced (479-500), and stays readable:
\* unless assemblies collide, a REQUEST for it is answered with its bytes,
\* whichever file they are in, except while the complete file is being filled
\* or the piece is being written a second time (file_manager.py:56-100).
ReadsBack ==
    mishaps = {} /\ faults = 0 =>
        \A i \in store.my_bitfield :
            \/ read_piece(disk, i) = i
            \/ /\ read_piece(disk, i) = Failure
               /\ \/ \E r \in Neighbor : Assembling(r)
                  \/ \E r \in Neighbor : At(r, "write") /\ thread[r].piece = i

\* Two threads in assemble_file do no harm in the end (513-519): unless one
\* read a piece file that was being written again, the file is whole when the
\* threads are at rest.
AssembledInTheEnd ==
    AtRest /\ has_complete_file(store) /\ "short" \notin mishaps /\ faults = 0
        => Whole(disk)

\* Comment at peer_network.py:539, "our own file must be assembled first": it
\* is, when one thread assembles it undisturbed.
DoneMeansAssembled ==
    all_done /\ mishaps = {} /\ faults = 0 => Whole(disk)

\* README 2: "Once all pieces are downloaded, it calls `assemble_file()` to
\* merge the binaries into a final file".
FileWhole == AtRest /\ has_complete_file(store) /\ faults = 0 => Whole(disk)

\* README 5: a peer "must identify the deficit and reply with `INTERESTED` or
\* `NOT_INTERESTED`".  At rest a neighbour was last told what is true, unless
\* two threads once decided on its interest at the same time, each on what it
\* had read before the other acted (364-366 against 369-386).
InterestSettles ==
    AtRest => \A r \in connections \ contended :
                told[r] = (get_interesting_pieces(store, r) # {})

=============================================================================
