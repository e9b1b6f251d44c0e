# TLA+ specifications of the P2P file sharing program

The program distributes one file, cut into pieces, among the peers listed in
`cfg/PeerInfo.cfg`. Some peers start with the whole file; every process ends by
itself once it believes that everybody has it. This directory models that
program, checks the models with TLC and proves theorems about them with TLAPS.

## 1. Inventory

| Component | State | Operations | Interacts through |
|---|---|---|---|
| `state.py` `PeerState` | own bitfield, one `NeighborState` per connected peer, `requested_pieces`, completed ids (kept after a close) | one method each, under one lock | called by every thread of `PeerNetwork` |
| `state.py` `Bitfield` | bytes | set, test, codec, complete | `PeerState`, the BITFIELD message |
| `peer_network.py` handlers | `connections`, `framers`, `_completion_logged`, `all_done` | `on_bytes_handler`, `_handle_piece_received`, `_sync_interest_for_peer`, `_request_next_piece`, `on_conn_close_handler`, `_check_termination` | one receive thread per connection |
| `peer_network.py` timers | `_preferred_ids`, `_optimistic_id` | `_select_preferred_neighbors`, `_select_optimistic_neighbor` | two threads, `am_choking`, CHOKE/UNCHOKE |
| `peer_network.py` connecting | temporary keys, the loop over earlier peers | `_accept_loop`, `_connect_to_previous_peers` | two threads, `connections` |
| `connection.py` | a socket, a send lock | `send`, `_recv_loop`, `close` | TCP |
| `protocol.py` | the buffer of a framer | `feed`, `next_message` | one receive thread |
| `file_manager.py` | piece files, the assembled file | `read_piece`, `write_piece`, `assemble_file` | receive threads |
| `main.py` | - | start, wait for `all_done`, 15 s of grace, stop, exit | `all_done` |
| `config_loader.py`, `logger.py` | - | parsing, formatting | constants, log files |

What makes each component correct:

- store: reservations match outstanding requests; completed ids are true;
- handlers: the two ends of a connection agree on choking, interest and pieces
  once what is under way is read; no request waits for an answer that cannot
  come; every piece reaches everybody;
- timers: the flag and the last message on the wire agree; everybody interested
  is unchoked again and again;
- termination: announced only when true, and announced in every process;
- connecting: one connection per pair, the handshake first;
- framer and codec: what is received is what was sent, however it was cut;
- file store: a read returns a whole piece, the assembled file is complete.

Hard behaviours: five kinds of threads in each process around several small
locks, messages that cross, peers that start late and leave early, crashes,
writes that fail. `PROJECT.json` lists each hazard at its line, with the
properties that cover it or the reason why none does.

## 2. Modules

| Module | Models | Composes |
|---|---|---|
| `PeerState.tla` | the methods of `PeerState`, as operators on a record | - |
| `Swarm.tla` | all peers and their connections; a handler is one step | `PeerState` |
| `Receivers.tla` | the receive threads of one peer, lock by lock and file operation by file operation | `PeerState`, `FileStore` |
| `FileStore.tla` | the files of `FileManager`, as operators on a record | - |
| `Choking.tla` | the two timer threads of one peer, test by test and message by message | `PeerState` |
| `Connecting.tla` | the bytes and threads of one connection that comes to life | `Bitfield`, `Framer` |
| `Bitfield.tla`, `Framer.tla` | the codecs over bytes | - |
| `Registry.tla` | the dictionary of connections: temporary keys, duplicates, restarts | - |
| `Sending.tla` | receive threads that send into bounded buffers | `PeerState` |
| `FileDistribution.tla` | abstract: pieces spread, the end is announced when they are everywhere | implemented by `Swarm` |
| `MessageStream.tla` | abstract: messages arrive whole and in order | implemented by `Connecting` |
| `SwarmProperties.tla` | the properties and the invariant of `Swarm` | `Swarm`, `FileDistribution` |
| `MC*.tla` | instances for TLC | |
| `*Proofs.tla` | the proofs, see section 4 | |

`Swarm` answers what peers do to each other and takes each handler as one step.
The others open that step: each takes one set of threads or one medium, keeps
the rest as an environment that does what `Swarm` shows it can do, and asks what
survives.

### PeerState and Swarm

Every method of `PeerState` runs under `PeerState.lock`, so each is one operator,
with its Python name; a bitfield is the set of its indices. In `Swarm`,

| Action | Code |
|---|---|
| `Start`, `Stop`, `Crash` | `main.py`, the kill of a process |
| `Connect`, `GiveUp`, `Accept` | `_connect_to_previous_peers`, `_accept_loop` |
| `ReceiveHandshake` ... `ReceiveRequest` | the branches of `on_bytes_handler` |
| `ReceivePiece`, `ReceivePieceWriteFails` | `_handle_piece_received` |
| `ReceiveEof` | `on_conn_close_handler` |
| `SelectPreferredNeighbors`, `SelectOptimisticNeighbor` | the timer threads |

`ps[p]` is `peer_state` of peer `p`; `connections[p]` are the positive keys of
`connections` and `incoming[p]` the ones still under a temporary negative key;
`backlog[p]` is the listen queue of the kernel; `chan[p][q]` is the byte stream
from `p` to `q` in messages, ending with `EOF` when `p` is gone;
`completion_logged` and `all_done` are the attributes of the same names.

### Receivers and FileStore

One thread per neighbour, each with a program counter and the local variables of
the handler it is in. Every call of `PeerState`, every file operation and every
send is a step; what has no effect on another thread joins the step before it.
`wire[r]` are the REQUESTs that neighbour `r` has not answered, `told[r]` the
last message to it about our interest, `disk` the files. A file operation is not
atomic as a whole: `write_piece` empties the piece file and then fills it,
`assemble_file` empties the complete file and appends piece by piece.

### Choking

`unchoking` and `optimistic` are the two threads with their local variables,
`preferred_ids` and `optimistic_id` the attributes they share without a lock,
`told[q]` the last of CHOKE and UNCHOKE that `q` got. The receive threads appear
as `InterestArrives`.

### Connecting, Bitfield, Framer

`Connecting` has the threads that may send on a new connection: the one that
opened or accepted it (handshake), its receive thread (bitfield), and receive
threads of other connections (HAVE). They send in chunks under the send lock;
the remote peer receives in chunks, feeds its framer and decodes. `key` is where
the connection is in `connections`; `view` is the bitfield the remote peer has
of us. Bytes and numbers are shortened, see the bounds.

### Registry

`connections` maps temporary keys and ids to connections, each with a receive
thread; `far` is what is at the other end, `line[p]` the connection of the
process of `p` that runs now. `Rekey`, `RekeyRaises` and `Refuse` are the three
outcomes of the block at 587-596, `Close` is the locked part of
`on_conn_close_handler`.

### Sending

Two peers, a connection with buffers of `Capacity` units in each direction, and
for each peer a receive thread and a timer thread that share the send lock. The
handlers are those of `Swarm`, but what they send leaves unit by unit, and the
thread reads nothing until it has left.

Operators whose comment begins with "Mistake" are wrong versions of the operator
after them. No definition uses them; they show that the properties can fail.

### Abstractions

- Download rates only order the choice of preferred neighbours; `Swarm` and
  `Choking` allow any choice of that size.
- In `Swarm`, a send to a live process succeeds; a send to one that is gone may
  or may not raise. A piece that a peer owns can be read there; `Receivers` says
  when that is true (`ReadsBack`). A crashed process does not come back there;
  in `Registry` it does.
- `GiveUp` happens only on a process that is gone; the number of attempts is
  abstracted. Peers start in the order of `PeerInfo.cfg`, as README 3 and the
  scripts of `unit_tests` have it.
- The 15 seconds of grace in `main.py` are enough to deliver what was sent.
- There is at least one piece. `FileStore` counts contents in whole pieces of
  equal size; the complete file of `assemble_file` grows by whole pieces, as if
  each were written through Python's buffer at once.
- All neighbours of `Choking` stay connected; in `Connecting` the remote peer
  stays alive and only one direction is modelled.
- In `Sending` everything but a PIECE is too small to fill a buffer, though it
  too has to wait for a full one. `Capacity` stands for the send buffer of one
  side and the receive buffer of the other.

## 3. Runs

| Run | Instance | Checks | Shows |
|---|---|---|---|
| `SwarmExchange` | 3 peers, 1 seeder, 2 pieces, 1 hasty tick; 283 031 states | `RequestsReserved`, `RequestAnswered`, `ChokeAgreement`, `InterestAgreement`, `ViewsConverge` | the protocol between neighbours |
| `SwarmFaults` | 3 peers, 1 piece, 1 hasty tick, 1 fault; 208 337 states | `TypeOK`, `RequestsReserved`, `RequestAnswered`, `BeliefsTrue`, `NoFalseTermination` | what survives a crash or a failed write |
| `SwarmTermination` | 3 peers, 1 piece, 1 hasty tick, fairness; 48 278 states | `EveryoneStops`, `ImplementsDistribution` | every process ends, rightly |
| `Receivers` | 2 neighbours, 2 pieces, 2 UNCHOKEs, 1 fault; 1 761 458 states | `TypeOK`, `RequestsReserved`, `RequestOwed`, `ReadsBack`, `AssembledInTheEnd`, `DoneMeansAssembled`, `InterestSettles` | what survives the threads of one peer |
| `Choking` | 3 neighbours, 1 preferred; 2 676 188 states | `TypeOK`, `FlagsTold`, `ChosenServed`, `OneLeftOver` | what survives the two timers |
| `Connecting` | 4 pieces, 2 other threads, fairness; 87 616 states | `TypeOK`, `ViewConverges`, `ViewTrue`, `ClosedByEarlyHave`, `ImplementsStream` | the bytes implement messages, and the bitfield arrives |
| `Registry` | 1 earlier and 2 later peers, 2 ports, 3 accepted connections; 85 877 states | `TypeOK`, `OneKeyEach`, `NeighborsConnected`, `LiveConnected`, `DeadForgotten`, `OnlyRestartsRefused` | who is connected after restarts and collisions |
| `Sending` | 2 leechers, 3 pieces, buffers of one PIECE, fairness; 106 295 states | `TypeOK`, `FewUnderWay`, `RequestsSettle` | what full buffers hold up, and what they do not |
| `FalseTermination` | 3 peers, 1 fault | `AnnouncedIsTrue` | violated, finding 1 |
| `FailedWrite` | 2 peers, 2 pieces, 1 fault, fairness | `NotStuckAfterFailedWrite` | violated, finding 2 |
| `FileSpoiled` | as `Receivers`, no fault | `FileWhole` | violated, finding 3 |
| `SendersWait` | as `Sending`, half a PIECE of room, 1 UNCHOKE each | `NobodyWaitsInACircle` | violated, finding 4 |

### Bounds

- `NumPeers`, `Piece`, `Seeders`, `NumberOfPreferredNeighbors` are the
  configuration. Three peers is the smallest swarm in which a leecher is also a
  source, a peer is both accepted and connecting, a peer can join or leave
  between the other two, and with one preferred slot somebody is left choked.
  Two pieces are needed for a peer to own some but not all of the file.
- `MaxHasty` (`Swarm`) - timer ticks that change a peer while a message is under
  way on one of its connections. The intervals are seconds and messages take
  milliseconds, so these ticks are rare; ticks on quiet connections are not
  bounded. One is enough for a CHOKE to cross a REQUEST; in `Sending` a CHOKE and
  an UNCHOKE overtake one.
- `MaxFaults` (`Swarm`) - crashes and failed writes together; `MaxLost` -
  messages at the end of a stream that a crash can lose.
- `MaxChokes`, `MaxFaults` (`Receivers`) - UNCHOKEs received, and closed
  connections, failed writes and failed assemblies. Two UNCHOKEs are needed for
  two threads to want the same piece, or for one to be asked for it twice; two
  threads and two pieces for two assemblies, or an assembly and a second write.
- `Choking` has no bound on ticks. Three neighbours are a preferred one, an
  optimistic one and one that is neither.
- `ByteBits = 3`, `Width = 2`, `Base = 8`, `Padding = 2`, a header of two bytes
  (`Connecting`): the code has 8, 4, 256, 10 and 18. Four pieces fill one byte
  and one bit of the next, so there are spare bits and a bit of the second byte.
  `Downloads = {1, 3}` are a piece in each byte, downloaded by two threads that
  announce them in any order.
- `Incoming` (`Registry`) - accepted connections: two to collide or to be a
  duplicate of each other, the third for a peer that comes again meanwhile.
- `MaxChanges`, `Capacity`, `Size` (`Sending`) - three changes of a peer are an
  UNCHOKE, a CHOKE and an UNCHOKE, which is what overtakes a request, and both
  peers have them. `Capacity = Size` is one PIECE in each direction. The run
  reaches the circle of senders (in 26 steps), so `RequestsSettle` is checked
  with its exception happening. With half a PIECE of room (`SendersWait`) one
  UNCHOKE each is enough. The code bounds neither the ticks nor the size of a
  PIECE, so no choice of the constants excludes the circle for the program.

Pieces are symmetric in `SwarmExchange`, neighbours in `Receivers`, `FileSpoiled`
and `Choking`, names of peers, ports and connections in `Registry`; no run with a
liveness property uses symmetry. Deadlock is an error only in `Choking`, whose
threads never end; elsewhere the system ends when the processes have ended or
the bounded events are used up.

### What holds only with exceptions

Several properties name a history variable or an exception. Without it they are
false, and the exception is the race itself. They say what the race can spoil and
what it cannot; that it does not happen they do not say.

- `FlagsTold`, `ChosenServed` (`contended`): when both timer threads deal with
  one neighbour at the same time, flag and last message can differ afterwards,
  and a chosen neighbour can be left choked, until the next change.
- `OneLeftOver`: one neighbour more than the preferred and the optimistic one can
  stay unchoked, because each thread leaves it to the other.
- `InterestSettles` (`contended`): two threads that decide on the interest in one
  neighbour at the same time can leave it told the wrong thing.
- `ReadsBack`, `AssembledInTheEnd`, `DoneMeansAssembled` (`mishaps`, `faults`):
  two assemblies at once, or an assembly while a piece is written again.
- `ViewConverges` (`Overtaken`): a HAVE sent between the snapshot at 611 and its
  send at 613 is undone by the BITFIELD, and nothing announces the piece again.
- `ClosedByEarlyHave`: a HAVE can precede our handshake on a connection that we
  opened; the remote peer then closes it.
- `RequestsSettle` (`Circle`): the two receive threads of a connection can wait
  for each other for ever, and a request outstanding then is never answered
  (`SendersWait`; that it is for ever is the theorem `CirclesLast`).
- `FewUnderWay` (the UNCHOKEs so far): README 7 says that pipelining is disabled,
  one request at a time. A CHOKE and an UNCHOKE can overtake a request, which is
  given up and still answered, so two are under way on one connection. It does no
  harm to the reservations (`RequestsReserved`), as a late PIECE is accepted; what
  it costs is room in the buffers.
- `NeighborsConnected`, `LiveConnected` (`collided`, `refused`): two hosts with
  the same port lose a connection, or a neighbour through the KeyError at 595; a
  restarted peer is refused while its old connection is still registered, and
  nobody connects again. A restarted EARLIER peer is not in the models: nobody
  ever connects to it again.

### Findings

1. `on_conn_close_handler` (peer_network.py:762) takes "no connection left" for
   "everybody is done". When a neighbour crashes, a complete peer announces the
   end although others lack the file. While nobody crashes the announcement is
   true (`NoFalseTermination`, checked and proved).
2. After a failed write the request is given up but nobody asks again
   (peer_network.py:484): the neighbour has no reason to send another UNCHOKE.
3. A piece can arrive twice, because between peer_network.py:487 and 497 it is
   neither reserved nor owned. The second write empties its file for a moment,
   and `assemble_file` of another thread appends whatever is there: the complete
   file lacks a piece, and nothing looks at it again.
4. A receive thread sends its answers itself (connection.py:28, called from 43),
   and reads nothing while the buffers are full; README 3 says that it
   continuously pulls data. Two peers that send each other PIECEs at the same
   time wait for each other for ever, when the PIECEs are larger than the socket
   buffers or enough of them are under way.

### Fairness

`Swarm!FairSpec` assumes weak fairness of each thread: each receive thread (one
per ordered pair), the accept loop, the connecting thread, each timer, and the
main thread of each process, which all loop for ever in the code and are
scheduled by the operating system; TCP delivers between live processes. `Start`
is fair because an operator starts every peer. Crashes and failed writes are
never owed. Weak fairness is enough: a pending message, an unaccepted connection
or a set `all_done` stays until it is handled, and a timer is enabled in every
quiet state. The choice of the preferred neighbours is not fair: for a given
interest the same one may be selected for ever, and then only the optimistic
slot serves the others.

`Connecting` assumes that each thread runs, that the socket takes bytes and that
the remote receive loop runs; whether other threads download anything is open.
The send lock is held for one message at a time and messages are few, so weak
fairness suffices. `Sending` assumes that every receive thread reads when it has
nothing to send and sends when there is room; ticks are not owed.

## 4. Proofs

All theorems hold for every value of the constants that satisfies the named
assumptions: finitely many peers, a finite and non-empty set of pieces, `None` is
neither; in `Swarm` peers are numbered from 1, in `Receivers` pieces from 0;
`Sending` has two peers; for `Connecting` see below. Each theorem is an inductive invariant, or follows from
one; TLC checked every inductive invariant on an instance first.

| Module | Inductive invariant | Properties proved from it |
|---|---|---|
| `SwarmProofs` | `IInv` | `TypeOK`, `RequestsReserved`, `BeliefsTrue`, `NoFalseTermination`; the safety part of `FileDistribution` |
| `LinkProofs` | `LInv` | `RequestAnswered`, `ChokeAgreement`, `InterestAgreement`, `ViewsConverge` |
| `ReceiversProofs` | `RInv`, `FInv`, `InterestsOK` | all seven invariants of the run `Receivers` |
| `ChokingProofs` | `CInv`, `LeftInv` | all four invariants of the run `Choking` |
| `RegistryProofs` | `GInv` | all six invariants of the run `Registry` |
| `ConnectingProofs` | `Setup` | all four invariants of the run `Connecting`; the safety part of `MessageStream` |
| `SendingProofs` | `SInv` | `TypeOK`, `FewUnderWay`; what fills a buffer, and that circles last |
| `PeerStateProofs` | - | what each method keeps true of a store |

### Swarm

`SwarmProofs` proves `Spec => []IInv`. `NoFalseTermination` is not inductive: a
peer sets `all_done` by what its store says of the others (`BeliefsTrue`), the
store is filled from messages, so messages under way must be true of their
senders and stay true (`MessagesTrue`: pieces are never lost), and the close
handler concludes from an EOF, so an EOF must mean that a process ended, and,
when nobody crashed, that it had itself announced the end (`StoppedIsDone`).
`RequestsReserved` is about the stores alone, and every method keeps it.
`PeerStateProofs` shows that every method of the store keeps a store
well-formed, reserved and sound (`Good`). `SwarmProofs` reduces each action to
three facts: what it makes of the store of its peer (`Does`), that what it sends
is true (`SendsTrue`), and that what it announces is true (`AnnouncesTrue`);
`StepKeepsIInv` puts them together once, and each action has a lemma of its own.

`LinkProofs` is about the two ends of a connection. The four properties say that
a flag, a view or a request at one end fits the other end once the stream is
read; each is about the state of two processes and a stream, and every step of
either process could break it. `Settles` is what a stream leaves a flag at,
`ViewAfter` what it leaves a bitfield at, both by the last message that speaks
of it. Their lemmas say what a stream of two halves does, so that reading one
message and sending some are the same question; that a set of positions has a
last one comes from `WellFoundedInduction`. `LInv` is about every pair of running
processes and is stronger than the properties in three ways. It keeps the
properties for a pair that does not know each other yet: until a peer knows us,
our handshake is the first message for it (`Greeted`), because a BITFIELD or a
HAVE that came before it would be lost. It ties our interest to what the
neighbour will hear (`FlagsTold`). And `RequestTold` says that a request waits
only at a neighbour that does not choke us, that the REQUEST, the PIECE or a
CHOKE is under way, and that what is asked for is there: without the last part
an answer could fail to come. A step is an `Exchange`: the process that runs
reads some messages and sends some, with every other process a `Turn`, that is,
what it makes of what it reads (`Hears`), what it tells of its changes
(`Tells`), what it asks and answers (`Asks`). `LinkFrom` and `LinkTo` carry the
invariant over an exchange in both directions; each handler and timer then has a
lemma that its turns are right.

The last part of `SwarmProofs` shows that the swarm implements its abstract specification
as far as safety goes: `Spec /\ []NoCrash => Distribution!DSafety`. Every step
gives at most one peer at most one piece, which another peer has (`Spreads`), and
an announcement comes only when the file is everywhere, by
`NoFalseTermination`. With crashes announcements can be wrong (finding 1), but
pieces still only spread (`PiecesOnlySpread`).

### One peer

`ReceiversProofs` has three invariants. A thread acts on what an earlier step of
it read, so `RInv` says for each program counter which local variables are set
(`Fits`). `RequestOwed` needs two more facts: a thread that is about to clear a
request is the one that writes its answer, and a neighbour that chokes us has
nothing outstanding (`OwedOK`), because an UNCHOKE may come with any number of
dropped REQUESTs. The reservations are the lemmas of `PeerStateProofs` again:
they need no assumption on which thread calls which method when, which is why
selecting and reserving in separate steps does no harm.

`FInv` is about the files. A piece that is ours was written, and its file is
empty only while a thread writes it (`PiecesOK`); as long as no two assemblies
overlap and no piece is written again during one, every slot of the complete
file is right or a thread that assembles will fill it (`FileOK`), by one thread,
that has not passed the log of completion (`AloneOK`). The conditions are the
exceptions of the properties: what the proof needs of `mishaps` and `faults` is
what the race needs to happen. `InterestsOK` says for a neighbour that no two
threads dealt with at once that its interest is right, or that one thread has
still to look, or has looked and will act on what it saw.

`ChokingProofs` has two. For a neighbour the threads never dealt with at once,
`CInv` says in every state which thread, if any, still owes it a message
(`ToldOK`), and that it is unchoked or on its way to be, if it is preferred
(`PreferredOK`) or optimistic (`OptimisticOK`), whatever step the other thread is
at. `BusyNoted` ties the exception to the history variable. `LeftInv` counts the
slots: a neighbour is left over only by one assignment of the optimistic timer
(`Threatens`), and that one finds nobody left over before, because the loop of
the other timer chokes whoever was.

`RegistryProofs`: which keys a connection may be under is a matter of where its
handler is and of what its other end did, so `GInv` has one part for the far end
(`FarOK`), one for the keys (`KeyOK`), one for what a handler relies on between
two steps (`HandlerOK`), one for connections that shared no temporary key
(`PlaceOK`), and `RefusedOK`: a connection that was refused has a rival, and one
of the two belongs to a process that ended.

### Two peers with bounded buffers

`SendingProofs`: an UNCHOKE, the REQUEST it allows and the PIECE that answers it
are one token that passes through the two streams and the two threads, and no
step makes a second one of it (`Counted`); CHOKEs and UNCHOKEs alternate
(`InTurn`), and only the timer sends them (`Divided`). With the parts of a PIECE
always ahead of its last unit (`Whole`), the buffer of a peer is full only after
as many UNCHOKEs as it holds PIECEs: `FullBuffersTakeUnchokes`. That says what a
circle of senders takes, not that there is none: there is (finding 4).
`CirclesLast` proves that it is for ever. In a circle no thread can read or send,
so the only step left is a tick, which changes neither the buffers nor what is
outstanding. What `RequestsSettle` excepts is thus a deadlock of two receive
threads, while the timers go on.

### The bytes of a connection

`ConnectingProofs` proves `Spec => []Setup` over bytes, for any numbers of
pieces, threads, bits and bytes. Its properties are about what the remote peer
makes of a stream of bytes that several threads write, so it climbs from the
numbers to the messages.

- *Numbers and bits.* `Place`, `Unpack`, `Bit` and `Filled` are recursive
  functions. That a function exists which satisfies its own definition needs an
  induction, and the library's theorem for it takes an operator that the provers
  cannot instantiate; `NatClosed` (a set of naturals closed under successors is
  all of them) and `StepsExist` (a function given step by step exists) are
  therefore proved here from the well-foundedness of `<`, for sets instead of
  predicates. With them `UnpackPack`: a number that fits survives `Pack` and
  `Unpack`; `SetPiece` and `FromBytes`: marking a piece changes no other, and
  clearing the spare bits changes no piece.
- *Messages.* `HandshakeBytes` and `MessageBytes` say which byte is where;
  `ParsingHandshake` and `ParsingMessages` that the framer makes of a buffer that
  begins with an encoding exactly that message, and of a shorter one nothing;
  `ParsingEarlyHave` that a framer that waits for a handshake takes a HAVE for an
  error.
- *The stream.* `Framed(bytes, from, msgs)`: the bytes are the encodings of the
  messages after the first `from`, one after the other. The heart of `Setup` is
  `Reading`: what the framer holds, what is in transit and what the owner of the
  lock has still to send are `Framed`, with the messages that were sent and the
  one being sent (`Due`). Without the part of the owner it would not be
  inductive, because the framer may hold half of a message; without the lock
  there would be several such parts. `FramedAppend` and `FramedFirst` are sending
  and reading.
- *What the messages say.* What was sent was true and stays true (`Kinds`), each
  message is sent once (`Once`, `Single`), a handshake comes before the bitfield
  and, unless we opened the connection, before any HAVE (`First`); a piece we
  have was announced or a thread is on its way to do it (`Announces`), and the
  view is what the messages that were read make of it, a later BITFIELD undoing
  an earlier HAVE (`Follows`). `ViewTrue` follows from `Follows` and `Kinds`;
  `ViewConverges` from `Follows`, `Announces` and that nothing is left to read.

The constants are assumed to be what the code has: bytes have as many values as
their bits give, every number that is packed fits (`struct.pack` raises
otherwise), a HAVE is no longer than a handshake, and the header does not begin
like the length of a HAVE ("P2PF" is not 0, 0, 0, 5). They hold for 8 bits, base
256, 4 bytes and 18 + 10 bytes of handshake. `ConnectionIsAStream` reads the
refinement off `Reading`, step by step.

### Only model-checked

- Liveness (`EveryoneStops`, `RequestsSettle`), and the liveness parts of
  `ImplementsDistribution` and `ImplementsStream`: fairness and ENABLED are
  beyond the prover. The safety parts of both are proved.

## 5. Plan

All parts that the inventory names are modelled as far as section 2 says, and
every invariant of a passing run is proved. What is left:

1. The other direction of `Connecting` with it, as `Swarm` has it, over bytes.

### Not modelled

- `config_loader.py` reads two files once; its results are the constants. A
  `FileSize` of 0, for which a leecher never ends, is excluded by assumption.
- `logger.py` formats lines and keeps no state that another part reads.
- The tests and scripts, which were read as statements of intent.
- Time: back-off, timer intervals, the grace period of `main.py`.
- The byte counters behind the download rates in `PeerState`.
- What a killed process leaves on its disk: a partial complete file would be
  taken for the whole one after a restart (file_manager.py:92).
- That a reservation freed by a closed connection is requested again: the code
  asks only at an UNCHOKE or a PIECE, so it may take until the next of them.
