--------------------------- MODULE FileDistribution ---------------------------
(***************************************************************************)
(* What the swarm promises, without messages, choking or connections.      *)
(* Seeders start with the whole file, a peer only ever obtains a piece     *)
(* that some peer has, and a peer announces the end only when the whole    *)
(* file is everywhere (README 9, main.py: "All peers have the complete     *)
(* file").  Every peer does announce it.                                   *)
(***************************************************************************)
CONSTANTS Peer, Piece, Seeders

VARIABLES
    pieces,    \* the pieces each peer has
    announced  \* the peers that announced the end

dvars == <<pieces, announced>>

Everywhere(f) == \A p \in Peer : f[p] = Piece

DInit ==
    /\ pieces = [p \in Peer |-> IF p \in Seeders THEN Piece ELSE {}]
    /\ announced = {}

\* p gets a piece it lacks from q.  With the last piece of all p may see that
\* the work is done, and announce it at once.
Acquire(p) ==
    /\ \E q \in Peer : \E i \in pieces[q] \ pieces[p] :
         pieces' = [pieces EXCEPT ![p] = @ \cup {i}]
    /\ \/ UNCHANGED announced
       \/ Everywhere(pieces') /\ announced' = announced \cup {p}

Announce(p) ==
    /\ Everywhere(pieces)
    /\ announced' = announced \cup {p}
    /\ UNCHANGED pieces

DNext == \E p \in Peer : Acquire(p) \/ Announce(p)

DSafety == DInit /\ [][DNext]_dvars

DSpec == DSafety /\ \A p \in Peer : WF_dvars(Acquire(p)) /\ WF_dvars(Announce(p))

=============================================================================
