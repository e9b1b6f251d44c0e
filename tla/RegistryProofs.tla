---------------------------- MODULE RegistryProofs ----------------------------
(***************************************************************************)
(* Who is connected, for every number of peers, ports and connections: the *)
(* type invariant and all of the properties of Registry.                   *)
(***************************************************************************)
EXTENDS Registry, FiniteSetTheorems, TLAPS

\* Whose end a connection is: the process that runs has one, its last.
FarOK(c) ==
    /\ At(c, "unused") <=> far[c].peer = None
    /\ At(c, "unused") => far[c].handshake = "coming" /\ far[c].open
    /\ c \in Earlier => far[c].peer = c
    /\ c \in Incoming /\ ~At(c, "unused") => far[c].port \in Port
    /\ far[c].peer # None /\ far[c].open => line[far[c].peer] = c
    /\ \A p \in Peer : line[p] = c => far[c].peer = p /\ far[c].open

\* A key is the temporary one or the id of the other end, never both.
KeyOK(c) ==
    /\ \A k \in Key : connections[k] = c => ~At(c, "unused") /\ ~At(c, "closed")
    /\ \A p \in Peer : connections[p] = c =>
          far[c].peer = p /\ (c \in Earlier \/ far[c].handshake = "parsed")
    /\ \A x \in Port : connections[x] = c =>
          far[c].port = x /\ c \in Incoming /\ \A p \in Peer : connections[p] # c

\* What the handler relies on between its lookup and its next step.
HandlerOK(c) ==
    /\ At(c, "rekey") =>
          /\ c \in Incoming /\ far[c].handshake = "parsed"
          /\ thread[c].peer_id = far[c].port
          /\ \A p \in Peer : connections[p] # c
    /\ At(c, "add") =>
          far[c].handshake = "parsed" /\ connections[far[c].peer] = c
    /\ thread[c].pc \in {"closing", "closed"} => c \in refused \/ ~far[c].open

\* A connection that shared its temporary key with no other keeps its place.
PlaceOK(c) ==
    c \notin collided =>
        /\ At(c, "recv") /\ far[c].handshake = "coming" /\ c \in Incoming =>
              connections[far[c].port] = c
        /\ At(c, "rekey") => connections[far[c].port] = c
        /\ At(c, "recv") /\ far[c].handshake = "parsed" =>
              connections[far[c].peer] = c /\ far[c].peer \in neighbors
        /\ c \in Earlier /\ thread[c].pc \in {"recv", "add"} => connections[c] = c
        /\ At(c, "recv") /\ far[c].handshake = "lost" => ~far[c].open
        /\ \A d \in Conn \ {c} :
              At(d, "rekey") /\ thread[d].peer_id = far[c].port =>
                  connections[far[c].port] # c

\* A refused connection is not the only one of its peer.
RefusedOK(c) ==
    c \in refused =>
        /\ far[c].peer # None
        /\ \E d \in Conn \ {c} :
              far[d].peer = far[c].peer /\ ~(far[c].open /\ far[d].open)

NeighborsOK == \A p \in neighbors : connections[p] # None

\* The inductive invariant.
GInv ==
    /\ TypeOK
    /\ \A c \in Conn : FarOK(c) /\ KeyOK(c) /\ HandlerOK(c) /\ PlaceOK(c) /\ RefusedOK(c)
    /\ NeighborsOK

-----------------------------------------------------------------------------
(* The constants and the shape of a step. *)

LEMMA Constants ==
    /\ Peer \subseteq Key /\ Port \subseteq Key /\ Key = Peer \cup Port
    /\ Peer \cap Port = {} /\ Earlier \subseteq Peer /\ Later \subseteq Peer
    /\ Earlier \cap Later = {}
    /\ Conn = Incoming \cup Earlier /\ Earlier \cap Incoming = {}
    /\ None \notin Key /\ None \notin Conn /\ None \notin Peer /\ None \notin Port
  BY RegistryAssumption DEF Peer, Key, Conn

LEMMA GoesTo ==
    ASSUME TypeOK, NEW c \in Conn, NEW pc \in {"unused", "recv", "rekey", "add", "closing", "closed"},
           Goes(c, pc)
    PROVE  /\ thread' \in [Conn -> Thread]
           /\ \A d \in Conn : d # c => thread'[d] = thread[d]
           /\ thread'[c].pc = pc /\ thread'[c].peer_id = thread[c].peer_id
  BY DEF TypeOK, Thread, Goes

LEMMA InitGInv == Init => GInv
<1> SUFFICES ASSUME Init PROVE GInv
  OBVIOUS
<1>1. TypeOK
  BY Constants DEF Init, TypeOK, Thread, Far
<1>2. ASSUME NEW c \in Conn
      PROVE  FarOK(c) /\ KeyOK(c) /\ HandlerOK(c) /\ PlaceOK(c) /\ RefusedOK(c)
  <2>1. FarOK(c)
    BY Constants DEF Init, FarOK, At
  <2>2. KeyOK(c)
    BY Constants DEF Init, KeyOK, At
  <2>3. HandlerOK(c) /\ RefusedOK(c)
    BY Constants DEF Init, HandlerOK, RefusedOK, At
  <2>4. PlaceOK(c)
    BY Constants DEF Init, PlaceOK, At
  <2> QED
    BY <2>1, <2>2, <2>3, <2>4
<1>3. NeighborsOK
  BY DEF Init, NeighborsOK
<1> QED
  BY <1>1, <1>2, <1>3 DEF GInv

-----------------------------------------------------------------------------
(* The actions. *)

LEMMA AddNeighborStep ==
    ASSUME GInv, NEW c \in Conn, AddNeighbor(c)
    PROVE  GInv'
<1>1. /\ thread' \in [Conn -> Thread]
      /\ \A d \in Conn : d # c => thread'[d] = thread[d]
      /\ thread'[c].pc = "recv" /\ thread'[c].peer_id = thread[c].peer_id
  BY GoesTo DEF GInv, AddNeighbor
<1>2. /\ At(c, "add") /\ neighbors' = neighbors \cup {far[c].peer}
      /\ UNCHANGED <<connections, far, line, collided, refused>>
  BY DEF AddNeighbor
<1>3. TypeOK'
  BY <1>1, <1>2, Constants DEF GInv, TypeOK, Far, FarOK, HandlerOK, At
<1>4. ASSUME NEW d \in Conn
      PROVE  FarOK(d)' /\ KeyOK(d)' /\ HandlerOK(d)' /\ PlaceOK(d)' /\ RefusedOK(d)'
  <2>1. FarOK(d) /\ KeyOK(d) /\ HandlerOK(d) /\ PlaceOK(d) /\ RefusedOK(d)
    BY DEF GInv
  <2>2. far[d] \in Far /\ thread[d] \in Thread
    BY DEF GInv, TypeOK
  <2>3. FarOK(d)'
    BY <1>1, <1>2, <2>1, <2>2, Constants DEF Far, Thread, FarOK, KeyOK, HandlerOK, At
  <2>4. KeyOK(d)'
    BY <1>1, <1>2, <2>1, <2>2, Constants DEF Far, Thread, FarOK, KeyOK, HandlerOK, At
  <2>5. HandlerOK(d)'
    BY <1>1, <1>2, <2>1, <2>2, Constants DEF Far, Thread, FarOK, KeyOK, HandlerOK, At
  <2>6. PlaceOK(d)'
    BY <1>1, <1>2, <2>1, <2>2, Constants
       DEF Far, Thread, FarOK, KeyOK, HandlerOK, PlaceOK, At
  <2>7. RefusedOK(d)'
    BY <1>1, <1>2, <2>1, <2>2, Constants
       DEF Far, Thread, FarOK, KeyOK, HandlerOK, RefusedOK, At
  <2> QED
    BY <2>3, <2>4, <2>5, <2>6, <2>7
<1>5. NeighborsOK'
  BY <1>1, <1>2, Constants DEF GInv, TypeOK, FarOK, KeyOK, HandlerOK, NeighborsOK, At
<1> QED
  BY <1>3, <1>4, <1>5 DEF GInv

LEMMA RecvEofStep ==
    ASSUME GInv, NEW c \in Conn, RecvEof(c)
    PROVE  GInv'
<1>1. /\ thread' \in [Conn -> Thread]
      /\ \A d \in Conn : d # c => thread'[d] = thread[d]
      /\ thread'[c].pc = "closing" /\ thread'[c].peer_id = thread[c].peer_id
  BY GoesTo DEF GInv, RecvEof
<1>2. /\ At(c, "recv") /\ ~far[c].open /\ far[c].handshake # "coming"
      /\ UNCHANGED <<connections, neighbors, far, line, collided, refused>>
  BY DEF RecvEof
<1>3. TypeOK'
  BY <1>1, <1>2, Constants DEF GInv, TypeOK, Far, FarOK, HandlerOK, At
<1>4. ASSUME NEW d \in Conn
      PROVE  FarOK(d)' /\ KeyOK(d)' /\ HandlerOK(d)' /\ PlaceOK(d)' /\ RefusedOK(d)'
  <2>1. FarOK(d) /\ KeyOK(d) /\ HandlerOK(d) /\ PlaceOK(d) /\ RefusedOK(d)
    BY DEF GInv
  <2>2. far[d] \in Far /\ thread[d] \in Thread
    BY DEF GInv, TypeOK
  <2>3. FarOK(d)'
    BY <1>1, <1>2, <2>1, <2>2, Constants DEF Far, Thread, FarOK, KeyOK, HandlerOK, At
  <2>4. KeyOK(d)'
    BY <1>1, <1>2, <2>1, <2>2, Constants DEF Far, Thread, FarOK, KeyOK, HandlerOK, At
  <2>5. HandlerOK(d)'
    BY <1>1, <1>2, <2>1, <2>2, Constants DEF Far, Thread, FarOK, KeyOK, HandlerOK, At
  <2>6. PlaceOK(d)'
    BY <1>1, <1>2, <2>1, <2>2, Constants
       DEF Far, Thread, FarOK, KeyOK, HandlerOK, PlaceOK, At
  <2>7. RefusedOK(d)'
    BY <1>1, <1>2, <2>1, <2>2, Constants
       DEF Far, Thread, FarOK, KeyOK, HandlerOK, RefusedOK, At
  <2> QED
    BY <2>3, <2>4, <2>5, <2>6, <2>7
<1>5. NeighborsOK'
  BY <1>1, <1>2, Constants DEF GInv, TypeOK, FarOK, KeyOK, HandlerOK, NeighborsOK, At
<1> QED
  BY <1>3, <1>4, <1>5 DEF GInv

LEMMA RefuseStep ==
    ASSUME GInv, NEW c \in Conn, Refuse(c)
    PROVE  GInv'
<1>1. /\ thread' \in [Conn -> Thread]
      /\ \A d \in Conn : d # c => thread'[d] = thread[d]
      /\ thread'[c].pc = "closing" /\ thread'[c].peer_id = thread[c].peer_id
  BY GoesTo DEF GInv, Refuse
<1>2. /\ At(c, "rekey") /\ connections[far[c].peer] # None
      /\ refused' = refused \cup {c}
      /\ UNCHANGED <<connections, neighbors, far, line, collided>>
  BY DEF Refuse
<1>3. TypeOK'
  BY <1>1, <1>2, Constants DEF GInv, TypeOK, Far, FarOK, HandlerOK, At
<1>4. ASSUME NEW d \in Conn
      PROVE  FarOK(d)' /\ KeyOK(d)' /\ HandlerOK(d)' /\ PlaceOK(d)' /\ RefusedOK(d)'
  <2>1. FarOK(d) /\ KeyOK(d) /\ HandlerOK(d) /\ PlaceOK(d) /\ RefusedOK(d)
    BY DEF GInv
  <2>2. far[d] \in Far /\ thread[d] \in Thread
    BY DEF GInv, TypeOK
  <2>3. FarOK(d)'
    BY <1>1, <1>2, <2>1, <2>2, Constants DEF Far, Thread, FarOK, KeyOK, HandlerOK, At
  <2>4. KeyOK(d)'
    BY <1>1, <1>2, <2>1, <2>2, Constants DEF Far, Thread, FarOK, KeyOK, HandlerOK, At
  <2>5. HandlerOK(d)'
    BY <1>1, <1>2, <2>1, <2>2, Constants DEF Far, Thread, FarOK, KeyOK, HandlerOK, At
  <2>6. PlaceOK(d)'
    BY <1>1, <1>2, <2>1, <2>2, Constants
       DEF Far, Thread, FarOK, KeyOK, HandlerOK, PlaceOK, At
  <2>7. RefusedOK(d)'
    BY <1>1, <1>2, <2>1, <2>2, Constants
       DEF GInv, TypeOK, Far, Thread, FarOK, KeyOK, HandlerOK, RefusedOK, At
  <2> QED
    BY <2>3, <2>4, <2>5, <2>6, <2>7
<1>5. NeighborsOK'
  BY <1>1, <1>2, Constants DEF GInv, TypeOK, FarOK, KeyOK, HandlerOK, NeighborsOK, At
<1> QED
  BY <1>3, <1>4, <1>5 DEF GInv

LEMMA RekeyStep ==
    ASSUME GInv, NEW c \in Conn, Rekey(c)
    PROVE  GInv'
<1>1. /\ thread' \in [Conn -> Thread]
      /\ \A d \in Conn : d # c => thread'[d] = thread[d]
      /\ thread'[c].pc = "add" /\ thread'[c].peer_id = thread[c].peer_id
  BY GoesTo DEF GInv, Rekey
<1>2. /\ At(c, "rekey") /\ connections[far[c].peer] = None /\ far[c].peer \in Peer
      /\ thread[c].peer_id = far[c].port /\ far[c].port \in Port
      /\ UNCHANGED <<neighbors, far, line, collided, refused>>
  BY Constants DEF Rekey, GInv, TypeOK, Far, FarOK, HandlerOK, At
<1>3. \A k \in Key : connections'[k] = IF k = far[c].port THEN None
                                     ELSE IF k = far[c].peer THEN c
                                     ELSE connections[k]
  BY <1>2, Constants DEF Rekey, GInv, TypeOK
<1>4. connections' \in [Key -> Conn \cup {None}]
  BY <1>2, Constants DEF Rekey, GInv, TypeOK
<1>5. TypeOK'
  BY <1>1, <1>2, <1>3, <1>4, Constants DEF GInv, TypeOK, Far, FarOK, HandlerOK, At
<1>6. ASSUME NEW d \in Conn
      PROVE  FarOK(d)' /\ KeyOK(d)' /\ HandlerOK(d)' /\ PlaceOK(d)' /\ RefusedOK(d)'
  <2>1. FarOK(d) /\ KeyOK(d) /\ HandlerOK(d) /\ PlaceOK(d) /\ RefusedOK(d)
    BY DEF GInv
  <2>2. far[d] \in Far /\ thread[d] \in Thread
    BY DEF GInv, TypeOK
  <2>3. FarOK(d)'
    BY <1>1, <1>2, <1>3, <1>4, <2>1, <2>2, Constants
       DEF Far, Thread, FarOK, KeyOK, HandlerOK, At
  <2>4. KeyOK(d)'
    BY <1>1, <1>2, <1>3, <1>4, <2>1, <2>2, Constants
       DEF Far, Thread, FarOK, KeyOK, HandlerOK, At
  <2>5. HandlerOK(d)'
    BY <1>1, <1>2, <1>3, <1>4, <2>1, <2>2, Constants
       DEF Far, Thread, FarOK, KeyOK, HandlerOK, At
  <2>6. PlaceOK(d)'
    BY <1>1, <1>2, <1>3, <1>4, <2>1, <2>2, Constants, SMTT(30)
       DEF GInv, TypeOK, Far, Thread, FarOK, KeyOK, HandlerOK, PlaceOK, At
  <2>7. RefusedOK(d)'
    BY <1>1, <1>2, <1>3, <1>4, <2>1, <2>2, Constants
       DEF Far, Thread, FarOK, KeyOK, HandlerOK, RefusedOK, At
  <2> QED
    BY <2>3, <2>4, <2>5, <2>6, <2>7
<1>7. NeighborsOK'
  BY <1>1, <1>2, <1>3, <1>4, Constants
     DEF GInv, TypeOK, FarOK, KeyOK, HandlerOK, NeighborsOK, At
<1> QED
  BY <1>5, <1>6, <1>7 DEF GInv

LEMMA RekeyRaisesStep ==
    ASSUME GInv, NEW c \in Conn, RekeyRaises(c)
    PROVE  GInv'
<1>1. /\ thread' \in [Conn -> Thread]
      /\ \A d \in Conn : d # c => thread'[d] = thread[d]
      /\ thread'[c].pc = "recv" /\ thread'[c].peer_id = thread[c].peer_id
  BY GoesTo DEF GInv, RekeyRaises
<1>2. /\ At(c, "rekey") /\ connections[far[c].peer] = None /\ far[c].peer \in Peer
      /\ far[c].port \in Port /\ connections[far[c].port] = None
      /\ UNCHANGED <<neighbors, far, line, collided, refused>>
  BY Constants DEF RekeyRaises, GInv, TypeOK, Far, FarOK, HandlerOK, At
<1>3. /\ connections' \in [Key -> Conn \cup {None}]
      /\ \A k \in Key : connections'[k] = IF k = far[c].peer THEN c ELSE connections[k]
  BY <1>2, Constants DEF RekeyRaises, GInv, TypeOK
<1>4. TypeOK'
  BY <1>1, <1>2, <1>3, Constants DEF GInv, TypeOK, Far, FarOK, HandlerOK, At
<1>5. ASSUME NEW d \in Conn
      PROVE  FarOK(d)' /\ KeyOK(d)' /\ HandlerOK(d)' /\ PlaceOK(d)' /\ RefusedOK(d)'
  <2>1. FarOK(d) /\ KeyOK(d) /\ HandlerOK(d) /\ PlaceOK(d) /\ RefusedOK(d)
    BY DEF GInv
  <2>2. far[d] \in Far /\ thread[d] \in Thread
    BY DEF GInv, TypeOK
  <2>3. FarOK(d)'
    BY <1>1, <1>2, <1>3, <2>1, <2>2, Constants
       DEF Far, Thread, FarOK, KeyOK, HandlerOK, At
  <2>4. KeyOK(d)'
    BY <1>1, <1>2, <1>3, <2>1, <2>2, Constants
       DEF Far, Thread, FarOK, KeyOK, HandlerOK, At
  <2>5. HandlerOK(d)'
    BY <1>1, <1>2, <1>3, <2>1, <2>2, Constants
       DEF Far, Thread, FarOK, KeyOK, HandlerOK, At
  <2>6. PlaceOK(d)'
    <3>1. CASE d = c
      BY <1>1, <1>2, <1>3, <2>1, <2>2, <3>1, Constants
         DEF GInv, TypeOK, Far, Thread, FarOK, KeyOK, HandlerOK, PlaceOK, At
    <3>2. CASE d # c
      BY <1>1, <1>2, <1>3, <2>1, <2>2, <3>2, Constants, SMTT(30)
         DEF GInv, TypeOK, Far, Thread, FarOK, KeyOK, HandlerOK, PlaceOK, At
    <3> QED
      BY <3>1, <3>2
  <2>7. RefusedOK(d)'
    BY <1>1, <1>2, <1>3, <2>1, <2>2, Constants
       DEF Far, Thread, FarOK, KeyOK, HandlerOK, RefusedOK, At
  <2> QED
    BY <2>3, <2>4, <2>5, <2>6, <2>7
<1>6. NeighborsOK'
  BY <1>1, <1>2, <1>3, Constants
     DEF GInv, TypeOK, FarOK, KeyOK, HandlerOK, NeighborsOK, At
<1> QED
  BY <1>4, <1>5, <1>6 DEF GInv

LEMMA CloseStep ==
    ASSUME GInv, NEW c \in Conn, Close(c)
    PROVE  GInv'
<1>1. /\ thread' \in [Conn -> Thread]
      /\ \A d \in Conn : d # c => thread'[d] = thread[d]
      /\ thread'[c].pc = "closed" /\ thread'[c].peer_id = thread[c].peer_id
  BY GoesTo DEF GInv, Close
<1>2. /\ At(c, "closing") /\ neighbors' = { p \in neighbors : connections[p] # c }
      /\ UNCHANGED <<far, line, collided, refused>>
  BY Constants DEF Close, Keys, GInv, TypeOK
<1>3. /\ connections' \in [Key -> Conn \cup {None}]
      /\ \A k \in Key : connections'[k] = IF connections[k] = c THEN None ELSE connections[k]
  BY Constants DEF Close, Keys, GInv, TypeOK
<1>4. TypeOK'
  BY <1>1, <1>2, <1>3, Constants DEF GInv, TypeOK, Far, FarOK, HandlerOK, At
<1>5. ASSUME NEW d \in Conn
      PROVE  FarOK(d)' /\ KeyOK(d)' /\ HandlerOK(d)' /\ PlaceOK(d)' /\ RefusedOK(d)'
  <2>1. FarOK(d) /\ KeyOK(d) /\ HandlerOK(d) /\ PlaceOK(d) /\ RefusedOK(d)
    BY DEF GInv
  <2>2. far[d] \in Far /\ thread[d] \in Thread
    BY DEF GInv, TypeOK
  <2>3. FarOK(d)'
    BY <1>1, <1>2, <1>3, <2>1, <2>2, Constants
       DEF Far, Thread, FarOK, KeyOK, HandlerOK, At
  <2>4. KeyOK(d)'
    BY <1>1, <1>2, <1>3, <2>1, <2>2, Constants
       DEF Far, Thread, FarOK, KeyOK, HandlerOK, At
  <2>5. HandlerOK(d)'
    BY <1>1, <1>2, <1>3, <2>1, <2>2, Constants
       DEF Far, Thread, FarOK, KeyOK, HandlerOK, At
  <2>6. PlaceOK(d)'
    <3>1. CASE d = c
      BY <1>1, <1>2, <1>3, <2>1, <2>2, <3>1, Constants
         DEF GInv, TypeOK, Far, Thread, FarOK, KeyOK, HandlerOK, PlaceOK, At
    <3>2. CASE d # c
      BY <1>1, <1>2, <1>3, <2>1, <2>2, <3>2, Constants
         DEF GInv, TypeOK, Far, Thread, FarOK, KeyOK, HandlerOK, PlaceOK, At
    <3> QED
      BY <3>1, <3>2
  <2>7. RefusedOK(d)'
    BY <1>1, <1>2, <1>3, <2>1, <2>2, Constants
       DEF Far, Thread, FarOK, KeyOK, HandlerOK, RefusedOK, At
  <2> QED
    BY <2>3, <2>4, <2>5, <2>6, <2>7
<1>6. NeighborsOK'
  BY <1>1, <1>2, <1>3, Constants
     DEF GInv, TypeOK, FarOK, KeyOK, HandlerOK, NeighborsOK, At
<1> QED
  BY <1>4, <1>5, <1>6 DEF GInv

LEMMA DieStep ==
    ASSUME GInv, NEW p \in Peer, Die(p)
    PROVE  GInv'
<1>1. /\ line[p] \in Conn
      /\ UNCHANGED <<connections, neighbors, thread, collided, refused>>
  BY DEF Die, GInv, TypeOK
<1>2. PICK lost \in BOOLEAN :
        far' = [far EXCEPT ![line[p]].open = FALSE,
                           ![line[p]].handshake = IF lost /\ @ = "coming" THEN "lost" ELSE @]
  BY DEF Die
<1>3. /\ line' \in [Peer -> Conn \cup {None}]
      /\ \A q \in Peer : line'[q] = IF q = p THEN None ELSE line[q]
  BY DEF Die, GInv, TypeOK
<1>4. /\ far' \in [Conn -> Far]
      /\ \A d \in Conn : /\ d # line[p] => far'[d] = far[d]
                         /\ far'[d].peer = far[d].peer /\ far'[d].port = far[d].port
      /\ ~far'[line[p]].open
      /\ \/ far'[line[p]].handshake = far[line[p]].handshake
         \/ far[line[p]].handshake = "coming" /\ far'[line[p]].handshake = "lost"
  <2>1. far \in [Conn -> Far] /\ far[line[p]] \in Far
    BY <1>1 DEF GInv, TypeOK
  <2>2. /\ DOMAIN far' = Conn
        /\ \A d \in Conn : d # line[p] => far'[d] = far[d]
        /\ far'[line[p]] = [far[line[p]] EXCEPT
              !.open = FALSE,
              !.handshake = IF lost /\ @ = "coming" THEN "lost" ELSE @]
    BY <1>1, <1>2, <2>1
  <2>3. /\ far'[line[p]] \in Far /\ ~far'[line[p]].open
        /\ far'[line[p]].peer = far[line[p]].peer /\ far'[line[p]].port = far[line[p]].port
        /\ \/ far'[line[p]].handshake = far[line[p]].handshake
           \/ far[line[p]].handshake = "coming" /\ far'[line[p]].handshake = "lost"
    BY <2>1, <2>2 DEF Far
  <2> QED
    BY <1>1, <1>2, <2>1, <2>2, <2>3
<1>5. TypeOK'
  BY <1>1, <1>2, <1>3, <1>4, Constants DEF GInv, TypeOK, Far, FarOK, HandlerOK, At
<1>6. ASSUME NEW d \in Conn
      PROVE  FarOK(d)' /\ KeyOK(d)' /\ HandlerOK(d)' /\ PlaceOK(d)' /\ RefusedOK(d)'
  <2>1. FarOK(d) /\ KeyOK(d) /\ HandlerOK(d) /\ PlaceOK(d) /\ RefusedOK(d)
    BY DEF GInv
  <2>2. far[d] \in Far /\ thread[d] \in Thread
    BY DEF GInv, TypeOK
  <2>3. FarOK(d)'
    BY <1>1, <1>2, <1>3, <1>4, <2>1, <2>2, Constants, SMTT(30)
       DEF Far, Thread, FarOK, KeyOK, HandlerOK, At
  <2>4. KeyOK(d)'
    BY <1>1, <1>2, <1>3, <1>4, <2>1, <2>2, Constants, SMTT(30)
       DEF Far, Thread, FarOK, KeyOK, HandlerOK, At
  <2>5. HandlerOK(d)'
    BY <1>1, <1>2, <1>3, <1>4, <2>1, <2>2, Constants, SMTT(30)
       DEF Far, Thread, FarOK, KeyOK, HandlerOK, At
  <2>6. PlaceOK(d)'
    <3>1. SUFFICES ASSUME d \notin collided
          PROVE  PlaceOK(d)'
      BY <1>1 DEF PlaceOK
    <3>2. /\ far'[d].peer = far[d].peer /\ far'[d].port = far[d].port
          /\ far'[d].open => far[d].open
          /\ far'[d].handshake # far[d].handshake =>
                far'[d].handshake = "lost" /\ ~far'[d].open
      BY <1>1, <1>2, <1>3, <1>4
    <3>3. far'[d].handshake \in {"coming", "parsed"} => far'[d].handshake = far[d].handshake
      BY <3>2
    <3>4. (At(d, "recv") /\ far[d].handshake = "coming" /\ d \in Incoming
              => connections[far[d].port] = d)'
      BY <1>1, <2>1, <3>1, <3>2, <3>3 DEF PlaceOK, At
    <3>5. (At(d, "rekey") => connections[far[d].port] = d)'
      BY <1>1, <2>1, <3>1, <3>2 DEF PlaceOK, At
    <3>6. (At(d, "recv") /\ far[d].handshake = "parsed"
              => connections[far[d].peer] = d /\ far[d].peer \in neighbors)'
      BY <1>1, <2>1, <3>1, <3>2, <3>3 DEF PlaceOK, At
    <3>7. (d \in Earlier /\ thread[d].pc \in {"recv", "add"} => connections[d] = d)'
      BY <1>1, <2>1, <3>1 DEF PlaceOK
    <3>8. (At(d, "recv") /\ far[d].handshake = "lost" => ~far[d].open)'
      BY <1>1, <2>1, <3>1, <3>2 DEF PlaceOK, At
    <3>9. (\A e \in Conn \ {d} : At(e, "rekey") /\ thread[e].peer_id = far[d].port
              => connections[far[d].port] # d)'
      BY <1>1, <2>1, <3>1, <3>2 DEF PlaceOK, At
    <3> QED
      BY <3>4, <3>5, <3>6, <3>7, <3>8, <3>9 DEF PlaceOK
  <2>7. RefusedOK(d)'
    BY <1>1, <1>2, <1>3, <1>4, <2>1, <2>2, Constants, SMTT(30)
       DEF Far, Thread, FarOK, KeyOK, HandlerOK, RefusedOK, At
  <2> QED
    BY <2>3, <2>4, <2>5, <2>6, <2>7
<1>7. NeighborsOK'
  BY <1>1, <1>2, <1>3, <1>4, Constants
     DEF GInv, TypeOK, FarOK, KeyOK, HandlerOK, NeighborsOK, At
<1> QED
  BY <1>5, <1>6, <1>7 DEF GInv

LEMMA AcceptStep ==
    ASSUME GInv, NEW p \in Later, NEW c \in Conn, NEW port \in Port,
           Accept(p, c, port)
    PROVE  GInv'
<1>1. /\ thread' \in [Conn -> Thread]
      /\ \A d \in Conn : d # c => thread'[d] = thread[d]
      /\ thread'[c].pc = "recv" /\ thread'[c].peer_id = thread[c].peer_id
  BY GoesTo DEF GInv, Accept
<1>2. /\ line[p] = None /\ At(c, "unused") /\ p \in Peer /\ port \in Key
      /\ UNCHANGED <<neighbors, refused>>
  BY Constants DEF Accept
<1>3. /\ c \in Incoming /\ far[c].peer = None /\ far[c].handshake = "coming" /\ far[c].open
      /\ \A k \in Key : connections[k] # c
      /\ \A q \in Peer : line[q] # c
  BY <1>2, Constants DEF GInv, TypeOK, FarOK, KeyOK, At
<1>4. /\ far' \in [Conn -> Far]
      /\ \A d \in Conn : d # c => far'[d] = far[d]
      /\ far'[c].peer = p /\ far'[c].port = port
      /\ far'[c].handshake = far[c].handshake /\ far'[c].open = far[c].open
  BY <1>2 DEF Accept, GInv, TypeOK, Far
<1>5. /\ line' \in [Peer -> Conn \cup {None}]
      /\ \A q \in Peer : line'[q] = IF q = p THEN c ELSE line[q]
      /\ connections' \in [Key -> Conn \cup {None}]
      /\ \A k \in Key : connections'[k] = IF k = port THEN c ELSE connections[k]
  BY <1>2 DEF Accept, GInv, TypeOK
<1>6. /\ collided \subseteq collided' /\ collided' \subseteq Conn
      /\ \A d \in Conn :
            d = connections[port] \/ (At(d, "rekey") /\ thread[d].peer_id = port) =>
                d \in collided' /\ c \in collided'
  BY DEF Accept, Sharing, GInv, TypeOK
<1>7. TypeOK'
  BY <1>1, <1>2, <1>3, <1>4, <1>5, <1>6, Constants
     DEF GInv, TypeOK, Far, FarOK, HandlerOK, At
<1>8. ASSUME NEW d \in Conn
      PROVE  FarOK(d)' /\ KeyOK(d)' /\ HandlerOK(d)' /\ PlaceOK(d)' /\ RefusedOK(d)'
  <2>1. FarOK(d) /\ KeyOK(d) /\ HandlerOK(d) /\ PlaceOK(d) /\ RefusedOK(d)
    BY DEF GInv
  <2>2. far[d] \in Far /\ thread[d] \in Thread
    BY DEF GInv, TypeOK
  <2>3. FarOK(d)'
    <3>1. CASE d = c
      <4>1. far'[c].peer = p /\ far'[c].port \in Port /\ far'[c].open /\ thread'[c].pc = "recv"
        BY <1>1, <1>3, <1>4, <2>2, <3>1 DEF Far
      <4>2. line'[p] = c /\ \A q \in Peer : line'[q] = c => q = p
        BY <1>2, <1>3, <1>5
      <4>3. p # None /\ c \notin Earlier
        BY <1>2, <1>3, Constants
      <4> QED
        BY <3>1, <4>1, <4>2, <4>3 DEF FarOK, At
    <3>2. CASE d # c
      BY <1>1, <1>2, <1>3, <1>4, <1>5, <1>6, <2>1, <2>2, <3>2, Constants
         DEF Far, Thread, FarOK, KeyOK, HandlerOK, At
    <3> QED
      BY <3>1, <3>2
  <2>4. KeyOK(d)'
    <3>1. CASE d = c
      BY <1>1, <1>2, <1>3, <1>4, <1>5, <1>6, <2>1, <2>2, <3>1, Constants, SMTT(30)
         DEF Far, Thread, FarOK, KeyOK, HandlerOK, At
    <3>2. CASE d # c
      BY <1>1, <1>2, <1>3, <1>4, <1>5, <1>6, <2>1, <2>2, <3>2, Constants, SMTT(30)
         DEF Far, Thread, FarOK, KeyOK, HandlerOK, At
    <3> QED
      BY <3>1, <3>2
  <2>5. HandlerOK(d)'
    <3>1. CASE d = c
      BY <1>1, <1>2, <1>3, <1>4, <1>5, <1>6, <2>1, <2>2, <3>1, Constants
         DEF Far, Thread, FarOK, KeyOK, HandlerOK, At
    <3>2. CASE d # c
      BY <1>1, <1>2, <1>3, <1>4, <1>5, <1>6, <2>1, <2>2, <3>2, Constants
         DEF Far, Thread, FarOK, KeyOK, HandlerOK, At
    <3> QED
      BY <3>1, <3>2
  <2>6. PlaceOK(d)'
    <3>1. CASE d = c
      BY <1>1, <1>2, <1>3, <1>4, <1>5, <1>6, <2>1, <2>2, <3>1, Constants
         DEF GInv, TypeOK, Far, Thread, FarOK, KeyOK, HandlerOK, PlaceOK, At
    <3>2. CASE d # c
      <4>1. d \notin collided' => d \notin collided /\ connections[port] # d
        BY <1>6 DEF At
      <4>2. \A x \in Conn : At(x, "rekey")' /\ thread'[x].peer_id = far[d].port =>
                far[d].port \in Key /\ At(x, "rekey") /\ thread[x].peer_id = far[d].port
        BY <1>1, Constants DEF GInv, HandlerOK, FarOK, At
      <4>3. far'[d] = far[d] /\ thread'[d] = thread[d] /\ far[d].peer # port
        BY <1>1, <1>4, <2>2, <3>2, Constants DEF Far
      <4>4. \A k \in Key : k # port => connections'[k] = connections[k]
        BY <1>5
      <4>5. c # d /\ UNCHANGED neighbors /\ \A k \in Key : connections'[k] = d => connections[k] = d
        BY <1>2, <1>5, <3>2
      <4> QED
        <5> SUFFICES ASSUME d \notin collided' PROVE PlaceOK(d)'
          BY DEF PlaceOK
        <5>1. d \notin collided /\ connections[port] # d
          BY <4>1
        <5>2. At(d, "recv") /\ far[d].handshake = "coming" /\ d \in Incoming =>
                  connections'[far[d].port] = d
          BY <2>1, <4>4, <5>1, Constants DEF PlaceOK, FarOK, At
        <5>3. At(d, "rekey") => connections'[far[d].port] = d
          BY <2>1, <4>4, <5>1, Constants DEF PlaceOK, FarOK, HandlerOK, At
        <5>4. At(d, "recv") /\ far[d].handshake = "parsed" =>
                  connections'[far[d].peer] = d /\ far[d].peer \in neighbors
          BY <2>1, <2>2, <4>3, <4>4, <5>1, Constants DEF PlaceOK, FarOK, Far, At
        <5>5. d \in Earlier /\ thread[d].pc \in {"recv", "add"} => connections'[d] = d
          BY <2>1, <4>3, <4>4, <5>1, Constants DEF PlaceOK, FarOK, At
        <5>6. At(d, "recv") /\ far[d].handshake = "lost" => ~far[d].open
          BY <2>1, <5>1 DEF PlaceOK
        <5>7. \A x \in Conn \ {d} : At(x, "rekey")' /\ thread'[x].peer_id = far[d].port =>
                  connections'[far[d].port] # d
          BY <2>1, <4>2, <4>5, <5>1 DEF PlaceOK, At
        <5> QED
          BY <4>3, <4>5, <5>2, <5>3, <5>4, <5>5, <5>6, <5>7 DEF PlaceOK, At
    <3> QED
      BY <3>1, <3>2
  <2>7. RefusedOK(d)'
    BY <1>1, <1>2, <1>3, <1>4, <1>5, <1>6, <2>1, <2>2, Constants
       DEF Far, Thread, FarOK, KeyOK, HandlerOK, RefusedOK, At
  <2> QED
    BY <2>3, <2>4, <2>5, <2>6, <2>7
<1>9. NeighborsOK'
  BY <1>1, <1>2, <1>3, <1>4, <1>5, <1>6, Constants
     DEF GInv, TypeOK, FarOK, KeyOK, HandlerOK, NeighborsOK, At
<1> QED
  BY <1>7, <1>8, <1>9 DEF GInv

LEMMA LookupUnknownStep ==
    ASSUME GInv, NEW c \in Conn, Lookup(c), Keys(c) = {}
    PROVE  GInv'
<1>1. /\ At(c, "recv") /\ far[c].handshake = "coming"
      /\ \A k \in Key : connections[k] # c
      /\ UNCHANGED <<connections, neighbors, thread, line, collided, refused>>
  BY DEF Lookup, Keys
<1>2. /\ far' \in [Conn -> Far]
      /\ \A d \in Conn : /\ d # c => far'[d] = far[d]
                         /\ far'[d].peer = far[d].peer /\ far'[d].port = far[d].port
                         /\ far'[d].open = far[d].open
      /\ far'[c].handshake = "lost"
  BY DEF Lookup, GInv, TypeOK, Far
<1>3. TypeOK'
  BY <1>1, <1>2, Constants DEF GInv, TypeOK, Far, FarOK, HandlerOK, At
<1>4. ASSUME NEW d \in Conn
      PROVE  FarOK(d)' /\ KeyOK(d)' /\ HandlerOK(d)' /\ PlaceOK(d)' /\ RefusedOK(d)'
  <2>1. FarOK(d) /\ KeyOK(d) /\ HandlerOK(d) /\ PlaceOK(d) /\ RefusedOK(d)
    BY DEF GInv
  <2>2. far[d] \in Far /\ thread[d] \in Thread
    BY DEF GInv, TypeOK
  <2>3. FarOK(d)'
    BY <1>1, <1>2, <2>1, <2>2, Constants DEF Far, Thread, FarOK, KeyOK, HandlerOK, At
  <2>4. KeyOK(d)'
    BY <1>1, <1>2, <2>1, <2>2, Constants DEF Far, Thread, FarOK, KeyOK, HandlerOK, At
  <2>5. HandlerOK(d)'
    BY <1>1, <1>2, <2>1, <2>2, Constants DEF Far, Thread, FarOK, KeyOK, HandlerOK, At
  <2>6. PlaceOK(d)'
    BY <1>1, <1>2, <2>1, <2>2, Constants
       DEF Far, Thread, FarOK, KeyOK, HandlerOK, PlaceOK, At
  <2>7. RefusedOK(d)'
    BY <1>1, <1>2, <2>1, <2>2, Constants
       DEF Far, Thread, FarOK, KeyOK, HandlerOK, RefusedOK, At
  <2> QED
    BY <2>3, <2>4, <2>5, <2>6, <2>7
<1>5. NeighborsOK'
  BY <1>1, <1>2, Constants DEF GInv, TypeOK, FarOK, KeyOK, HandlerOK, NeighborsOK, At
<1> QED
  BY <1>3, <1>4, <1>5 DEF GInv

LEMMA LookupKnownStep ==
    ASSUME GInv, NEW c \in Conn, Lookup(c), Keys(c) # {}
    PROVE  GInv'
<1>1. PICK k \in Keys(c) :
        /\ far' = [far EXCEPT ![c].handshake = "parsed"]
        /\ thread' = [thread EXCEPT ![c].pc = IF k \in Port THEN "rekey" ELSE "add",
                                    ![c].peer_id = k]
  BY DEF Lookup
<1>2. /\ At(c, "recv") /\ far[c].handshake = "coming"
      /\ k \in Key /\ connections[k] = c
      /\ UNCHANGED <<connections, neighbors, line, collided, refused>>
  BY DEF Lookup, Keys
<1>3. /\ far' \in [Conn -> Far]
      /\ \A d \in Conn : /\ d # c => far'[d] = far[d]
                         /\ far'[d].peer = far[d].peer /\ far'[d].port = far[d].port
                         /\ far'[d].open = far[d].open
      /\ far'[c].handshake = "parsed"
  BY <1>1 DEF GInv, TypeOK, Far
<1>4. /\ thread' \in [Conn -> Thread]
      /\ \A d \in Conn : d # c => thread'[d] = thread[d]
      /\ thread'[c].pc = IF k \in Port THEN "rekey" ELSE "add"
      /\ thread'[c].peer_id = k
  BY <1>1, <1>2 DEF GInv, TypeOK, Thread
<1>5. TypeOK'
  BY <1>1, <1>2, <1>3, <1>4, Constants DEF GInv, TypeOK, Far, FarOK, HandlerOK, At
<1>6. ASSUME NEW d \in Conn
      PROVE  FarOK(d)' /\ KeyOK(d)' /\ HandlerOK(d)' /\ PlaceOK(d)' /\ RefusedOK(d)'
  <2>1. FarOK(d) /\ KeyOK(d) /\ HandlerOK(d) /\ PlaceOK(d) /\ RefusedOK(d)
    BY DEF GInv
  <2>2. far[d] \in Far /\ thread[d] \in Thread
    BY DEF GInv, TypeOK
  <2>3. FarOK(d)'
    BY <1>1, <1>2, <1>3, <1>4, <2>1, <2>2, Constants
       DEF Far, Thread, FarOK, KeyOK, HandlerOK, At
  <2>4. KeyOK(d)'
    BY <1>1, <1>2, <1>3, <1>4, <2>1, <2>2, Constants
       DEF Far, Thread, FarOK, KeyOK, HandlerOK, At
  <2>5. HandlerOK(d)'
    BY <1>1, <1>2, <1>3, <1>4, <2>1, <2>2, Constants
       DEF Far, Thread, FarOK, KeyOK, HandlerOK, At
  <2>6. PlaceOK(d)'
    BY <1>1, <1>2, <1>3, <1>4, <2>1, <2>2, Constants
       DEF Far, Thread, FarOK, KeyOK, HandlerOK, PlaceOK, At
  <2>7. RefusedOK(d)'
    BY <1>1, <1>2, <1>3, <1>4, <2>1, <2>2, Constants
       DEF Far, Thread, FarOK, KeyOK, HandlerOK, RefusedOK, At
  <2> QED
    BY <2>3, <2>4, <2>5, <2>6, <2>7
<1>7. NeighborsOK'
  BY <1>1, <1>2, <1>3, <1>4, Constants
     DEF GInv, TypeOK, FarOK, KeyOK, HandlerOK, NeighborsOK, At
<1> QED
  BY <1>5, <1>6, <1>7 DEF GInv

LEMMA StutterStep == GInv /\ UNCHANGED vars => GInv'
  BY DEF GInv, vars, TypeOK, FarOK, KeyOK, HandlerOK, PlaceOK, RefusedOK,
     NeighborsOK, At

LEMMA NextGInv == GInv /\ [Next]_vars => GInv'
<1> SUFFICES ASSUME GInv, [Next]_vars PROVE GInv'
  OBVIOUS
<1>1. CASE UNCHANGED vars
  BY <1>1, StutterStep
<1>2. ASSUME NEW p \in Later, NEW c \in Conn, NEW port \in Port, Accept(p, c, port)
      PROVE  GInv'
  BY <1>2, AcceptStep
<1>3. ASSUME NEW p \in Peer, Die(p)
      PROVE  GInv'
  BY <1>3, DieStep
<1>4. ASSUME NEW c \in Conn, Receiver(c)
      PROVE  GInv'
  <2>1. CASE Lookup(c)
    BY <2>1, LookupUnknownStep, LookupKnownStep
  <2>2. CASE Refuse(c)
    BY <2>2, RefuseStep
  <2>3. CASE Rekey(c)
    BY <2>3, RekeyStep
  <2>4. CASE RekeyRaises(c)
    BY <2>4, RekeyRaisesStep
  <2>5. CASE AddNeighbor(c)
    BY <2>5, AddNeighborStep
  <2>6. CASE RecvEof(c)
    BY <2>6, RecvEofStep
  <2>7. CASE Close(c)
    BY <2>7, CloseStep
  <2> QED
    BY <1>4, <2>1, <2>2, <2>3, <2>4, <2>5, <2>6, <2>7 DEF Receiver
<1> QED
  BY <1>1, <1>2, <1>3, <1>4 DEF Next

-----------------------------------------------------------------------------
(* The theorems. *)

\* In every reachable state every connection is where its handler left it.
THEOREM Invariance == Spec => []GInv
<1> QED
  BY InitGInv, NextGInv, PTL DEF Spec

\* The variables have their types.
THEOREM TypeCorrect == Spec => []TypeOK
<1>1. GInv => TypeOK
  BY DEF GInv
<1> QED
  BY <1>1, Invariance, PTL

\* An id is the key of a connection to its owner, and no connection has two
\* keys, whatever ports the hosts use (peer_network.py 586-596).
THEOREM KeysUnique == Spec => []OneKeyEach
<1>1. GInv => OneKeyEach
  <2> SUFFICES ASSUME GInv PROVE OneKeyEach
    OBVIOUS
  <2>1. \A p \in Peer : connections[p] # None => far[connections[p]].peer = p
    BY Constants DEF GInv, TypeOK, KeyOK
  <2>2. ASSUME NEW c \in Conn
        PROVE  Cardinality(Keys(c)) <= 1
    <3>1. \A j, k \in Keys(c) : j = k
      BY Constants DEF GInv, KeyOK, Keys
    <3>2. CASE Keys(c) = {}
      BY <3>2, FS_EmptySet
    <3>3. CASE Keys(c) # {}
      <4>1. PICK k : Keys(c) = {k}
        BY <3>1, <3>3
      <4>2. Cardinality({k}) = 1
        BY FS_Singleton
      <4> QED
        BY <4>1, <4>2
    <3> QED
      BY <3>2, <3>3
  <2> QED
    BY <2>1, <2>2 DEF OneKeyEach
<1> QED
  BY <1>1, Invariance, PTL

\* The store knows nobody without a connection, and between the messages
\* everybody who has one and did not share its temporary key (606, 748-756).
THEOREM NeighborsCorrect == Spec => []NeighborsConnected
<1>1. GInv => NeighborsConnected
  <2> SUFFICES ASSUME GInv PROVE NeighborsConnected
    OBVIOUS
  <2>1. ASSUME AtRest, NEW p \in Peer, connections[p] \notin {None} \cup collided
        PROVE  p \in neighbors
    <3> DEFINE c == connections[p]
    <3>1. c \in Conn /\ c \notin collided /\ far[c] \in Far
      BY <2>1, Constants DEF GInv, TypeOK
    <3>2. far[c].peer = p /\ ~At(c, "unused") /\ ~At(c, "closed")
      BY <3>1, Constants DEF GInv, KeyOK
    <3>3. At(c, "recv") /\ far[c].open /\ far[c].handshake # "coming"
      BY <2>1, <3>1, <3>2 DEF AtRest, At
    <3>4. far[c].handshake = "parsed"
      BY <3>1, <3>3 DEF GInv, PlaceOK, Far
    <3> QED
      BY <3>1, <3>2, <3>3, <3>4 DEF GInv, PlaceOK
  <2> QED
    BY <2>1 DEF NeighborsConnected, GInv, NeighborsOK
<1> QED
  BY <1>1, Invariance, PTL

\* A running peer that connected is connected between the messages, unless it
\* was refused or its temporary key was shared (248, 586-596).
THEOREM LiveStayConnected == Spec => []LiveConnected
<1>1. GInv => LiveConnected
  <2> SUFFICES ASSUME GInv, AtRest, NEW p \in Peer,
                      line[p] \notin {None} \cup collided \cup refused
               PROVE  connections[p] = line[p]
    BY DEF LiveConnected
  <2> DEFINE c == line[p]
  <2>1. c \in Conn /\ c \notin collided /\ c \notin refused /\ far[c] \in Far
    BY Constants DEF GInv, TypeOK
  <2>2. far[c].peer = p /\ far[c].open /\ ~At(c, "unused")
    BY <2>1, Constants DEF GInv, FarOK
  <2>3. At(c, "recv") /\ far[c].handshake # "coming"
    BY <2>1, <2>2 DEF AtRest, GInv, HandlerOK, At
  <2>4. far[c].handshake = "parsed"
    BY <2>1, <2>2, <2>3 DEF GInv, PlaceOK, Far
  <2> QED
    BY <2>1, <2>2, <2>3, <2>4 DEF GInv, PlaceOK
<1> QED
  BY <1>1, Invariance, PTL

\* Between the messages no connection of a process that ended is left (760).
THEOREM DeadGone == Spec => []DeadForgotten
<1>1. GInv => DeadForgotten
  BY Constants DEF GInv, TypeOK, KeyOK, DeadForgotten, AtRest, At
<1> QED
  BY <1>1, Invariance, PTL

\* A connection is refused only if its peer has another one, and one of the
\* two is the rest of a process that ended (588).
THEOREM RefusalsJustified == Spec => []OnlyRestartsRefused
<1>1. GInv => OnlyRestartsRefused
  BY DEF GInv, TypeOK, RefusedOK, OnlyRestartsRefused
<1> QED
  BY <1>1, Invariance, PTL

=============================================================================
