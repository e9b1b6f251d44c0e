--------------------------- MODULE SwarmProperties ---------------------------
(***************************************************************************)
(* What is true of the swarm, and what its documents say of it.            *)
(***************************************************************************)
EXTENDS Swarm

\* The messages of a stream.
Elems(c) == { c[n] : n \in DOMAIN c }

Linked(p, q) == Up(p) /\ Up(q) /\ Knows(ps[p], q)

NoCrash == \A p \in Peer : status[p] # "crashed"

AllComplete == \A p \in Peer : has_complete_file(ps[p])

-----------------------------------------------------------------------------
(* Requests. *)

\* The reservation table agrees with the requests that wait for an answer
\* (Reserved, of PeerState): no piece stays reserved with nobody to deliver it,
\* and no missing piece is requested from two neighbours.  reserve_request,
\* clear_outstanding_request, mark_piece_downloaded and remove_neighbor
\* (state.py:194-228, 107-118) each maintain a part of it.
RequestsReserved == \A p \in Peer : Reserved(ps[p])

\* A peer never waits for an answer that cannot come: while a request to a
\* live neighbour is outstanding, the REQUEST, the PIECE, or the CHOKE that
\* gives it up is under way.  (REQUESTs of choked peers are dropped without
\* an answer, peer_network.py:721-730.)
RequestAnswered ==
    \A p, q \in Peer :
        Linked(p, q) /\ Outstanding(ps[p], q) # None =>
            LET i == Outstanding(ps[p], q) IN
            \/ Request(i) \in Elems(chan[p][q])
            \/ PieceMsg(i) \in Elems(chan[q][p])
            \/ Signal("CHOKE") \in Elems(chan[q][p])

-----------------------------------------------------------------------------
(* The two ends of a connection agree once the streams are read. *)

\* What q will hold of p's flag when it has read chan[p][q]: the last of the
\* two messages on and off under way, or what it holds now.
Settles(c, on, off, now) ==
    LET told == { n \in DOMAIN c : c[n].type \in {on, off} }
    IN  IF told = {} THEN now
        ELSE \E n \in told : (\A m \in told : m <= n) /\ c[n].type = on

\* A neighbour thinks we choke it exactly when we do (am_choking and
\* peer_choking of NeighborState, state.py:79-81), up to what is under way.
ChokeAgreement ==
    \A p, q \in Peer :
        Linked(p, q) =>
            Settles(chan[p][q], "CHOKE", "UNCHOKE", is_peer_choking_us(ps[q], p))
                = is_am_choking(ps[p], q)

\* A neighbour thinks we are interested exactly when, as far as we know, it
\* has a piece we lack, up to what is under way (_sync_interest_for_peer is
\* called after every change of either bitfield).
InterestAgreement ==
    \A p, q \in Peer :
        Linked(p, q) /\ Knows(ps[q], p) =>
            Settles(chan[p][q], "INTERESTED", "NOT_INTERESTED",
                    p \in get_interested_neighbors(ps[q]))
                = (get_interesting_pieces(ps[p], q) # {})

\* What q will believe p has when it has read chan[p][q].  A BITFIELD
\* replaces the view, a HAVE adds to it.
ViewAfter(c, now) ==
    LET replaced == { n \in DOMAIN c : c[n].type = "BITFIELD" }
        last == { n \in replaced : \A m \in replaced : m <= n }
        start == IF last = {} THEN now ELSE UNION { c[n].bitfield : n \in last }
    IN  start \cup { c[n].piece : n \in
            { m \in DOMAIN c : c[m].type = "HAVE" /\ \A l \in last : l < m } }

\* Nobody misses a piece: once p has met q, q's view of p ends up as p's own
\* bitfield, whatever HAVEs and BITFIELDs crossed the handshakes
\* (peer_network.py:391-403, 605-616, 701-705).
ViewsConverge ==
    \A p, q \in Peer :
        Linked(p, q) =>
            ViewAfter(chan[p][q],
                      IF Knows(ps[q], p) THEN ps[q].neighbors[p].bitfield ELSE {})
                = ps[p].my_bitfield

-----------------------------------------------------------------------------
(* The end. *)

Holdings == [p \in Peer |-> ps[p].my_bitfield]

\* Nobody credits a peer with a piece it has not got, connected or gone: the
\* bitfields of neighbours and the completions remembered after a close
\* (state.py:93-94, 107-118) are never ahead of the truth.
BeliefsTrue == \A p \in Peer : Sound(ps[p], p, Holdings)

\* The announcement of main.py:26, "All peers have the complete file.
\* Shutting down.", and README 9, "upon realizing that all peers in the
\* cluster contain the complete file".
AnnouncedIsTrue == (\E p \in Peer : all_done[p]) => AllComplete

\* As long as no process has crashed the announcement is true, failed writes,
\* late starts and early exits of other peers included.
NoFalseTermination == NoCrash => AnnouncedIsTrue

\* What a message tells, or the end of a stream, is true of its sender p, and
\* remains true until it arrives.
MessageTrue(p, m) ==
    /\ m.type \in {"HAVE", "PIECE"} => m.piece \in ps[p].my_bitfield
    /\ m.type = "BITFIELD" => m.bitfield \subseteq ps[p].my_bitfield
    /\ m.type = "EOF" => status[p] \in {"stopped", "crashed"}

MessagesTrue ==
    \A p, q \in Peer : \A m \in Elems(chan[p][q]) : MessageTrue(p, m)

StoppedIsDone == \A p \in Peer : status[p] = "stopped" => all_done[p]

\* The inductive invariant: a peer terminates by its beliefs, they come from
\* messages, and an EOF means a finished swarm when nobody crashes.
IInv ==
    /\ TypeOK
    /\ RequestsReserved
    /\ BeliefsTrue
    /\ MessagesTrue
    /\ StoppedIsDone
    /\ NoFalseTermination

\* Without faults every process ends by itself (README 9: "The peer process
\* must automatically and gracefully terminate").
EveryoneStops == <>(\A p \in Peer : status[p] = "stopped")

\* Comment at peer_network.py:482: a failed write "[s]till clear[s] the
\* outstanding request so we don't get stuck".  If no process crashes every
\* peer gets the file all the same.
NotStuckAfterFailedWrite == []NoCrash => <>AllComplete

Distribution == INSTANCE FileDistribution WITH
    pieces    <- Holdings,
    announced <- { p \in Peer : all_done[p] }

\* The swarm is a correct distribution of the file, its liveness included.
ImplementsDistribution == Distribution!DSpec

=============================================================================
