----------------------------- MODULE PeerManager -----------------------------
(***************************************************************************)
(* Two nodes that keep one lightning connection between them: the          *)
(* PeerManager of each (lightning/src/ln/peer_handler.rs), the socket      *)
(* tasks of lightning-net-tokio, the reconnect tasks that node A's         *)
(* `connectpeer` command spawns (src/src/cli.rs), and the part of the      *)
(* channel manager that hears of connections and queues a                  *)
(* channel_reestablish for each.                                           *)
(*                                                                         *)
(* Threads: every socket has a read task; process_events, the timer and    *)
(* the reconnect tasks run beside them.  The map `peers` sits behind a     *)
(* read/write lock and every peer behind a mutex of its own, so the steps  *)
(* below are the stretches of code between two points at which another     *)
(* thread can get in: process_events takes the handler's events before it  *)
(* takes the lock, the timer decides under the read lock and removes under *)
(* the write lock, a failed read lets go of the read lock before it takes  *)
(* the write lock.                                                         *)
(*                                                                         *)
(* What `pending_outbound_buffer` and the sockets hold is one queue per    *)
(* direction; closing a socket loses any suffix of it.  Message contents   *)
(* are left out, as are gossip, the read pauses and invalid messages.      *)
(***************************************************************************)
EXTENDS Integers, Sequences, FiniteSets, Functions

CONSTANTS A, B,       \* the two nodes; only A dials
          Conns,      \* identities of TCP connections, reused once free
          Tasks,      \* the reconnect tasks A may come to run
          Budgets     \* what may go wrong: one record is chosen at the start

ASSUME NodesDiffer == A # B

VARIABLES peers,      \* PeerManager::peers of each node, by connection
          ids,        \* node_id_to_descriptor: the connection, or None
          locked,     \* the peer whose mutex a handler of Init holds, or None
          sock,       \* the socket task of each connection at each node
          wire,       \* what is on its way to a node on each connection
          handler,    \* the channel manager's view of the other node
          taken,      \* messages process_events has taken and not yet queued
          doomed,     \* descriptors_needing_disconnect of a running tick
          task,       \* the reconnect tasks
          left        \* the rest of the fault budget

vars == <<peers, ids, locked, sock, wire, handler, taken, doomed, task, left>>

Nodes == {A, B}
Other(n) == IF n = A THEN B ELSE A

\* No connection.
None == "none"

ASSUME ConnsAssumption == None \notin Conns

-----------------------------------------------------------------------------
(* The state of one peer, one handler and one socket.                      *)

NoiseSteps == {"ActOne", "ActTwo", "ActThree", "NoiseComplete"}

\* A fresh Peer: `node` is their_node_id being known and in the map of ids,
\* `features` is their_features being known, `awaiting` counts
\* awaiting_pong_timer_tick_intervals, `heard` is
\* received_message_since_timer_tick.
NewPeer(step) ==
  [noise |-> step, node |-> FALSE, features |-> FALSE, awaiting |-> 0,
   heard |-> FALSE]

\* The peers P and a new one at connection c.
WithPeer(P, c, p) == [d \in DOMAIN P \cup {c} |-> IF d = c THEN p ELSE P[d]]

new_outbound_connection == NewPeer("ActTwo")
new_inbound_connection == NewPeer("ActOne")

\* The handler of a node whose peer is away: `queue` counts the
\* channel_reestablish messages in pending_msg_events, `got` those that
\* arrived since the peer connected.
Away == [up |-> FALSE, queue |-> 0, got |-> 0]

\* ChannelManager::peer_connected queues a channel_reestablish; it is called
\* on a handler that believes its peer is away.
peer_connected(h) == [h EXCEPT !.up = TRUE, !.queue = @ + 1]

\* ChannelManager::peer_disconnected drops every queued message for the peer.
peer_disconnected(h) == Away

\* The peers get_peer_node_ids reports: handshake and Init both done.
Connected(n) ==
  \E c \in DOMAIN peers[n] :
     /\ peers[n][c].noise = "NoiseComplete"
     /\ peers[n][c].features
     /\ peers[n][c].node

-----------------------------------------------------------------------------
(* The wires.                                                              *)

\* What a reader of queue q still gets once the other end is closed: any
\* prefix, then the end of the stream.
Cut(q) == {Append(SubSeq(q, 1, k), "eof") : k \in 0 .. Len(q)}

\* The queues after node n sent the messages ms on connection c.  Nothing
\* reaches a socket that is closed already.
Sent(n, c, ms) ==
  IF sock[Other(n)][c] = "none" \/ "eof" \in Range(wire[Other(n)][c])
  THEN wire
  ELSE [wire EXCEPT ![Other(n)][c] = @ \o ms]

\* Node n closes its end of connection c: what it had not read is gone, the
\* other end finds the end of the stream.
Close(n, c) ==
  LET m == Other(n)
  IN  /\ sock' = [sock EXCEPT ![n][c] = "none"]
      /\ IF sock[m][c] = "none" \/ "eof" \in Range(wire[m][c])
         THEN wire' = [wire EXCEPT ![n][c] = <<>>]
         ELSE \E q \in Cut(wire[m][c]) :
                 wire' = [wire EXCEPT ![n][c] = <<>>, ![m][c] = q]

-----------------------------------------------------------------------------
Init ==
  /\ peers = [n \in Nodes |-> <<>>]
  /\ ids = [n \in Nodes |-> None]
  /\ locked = [n \in Nodes |-> None]
  /\ sock = [n \in Nodes |-> [c \in Conns |-> "none"]]
  /\ wire = [n \in Nodes |-> [c \in Conns |-> <<>>]]
  /\ handler = [n \in Nodes |-> Away]
  /\ taken = [n \in Nodes |-> 0]
  /\ doomed = [n \in Nodes |-> {}]
  /\ task = [t \in Tasks |-> "unborn"]
  /\ left \in Budgets

-----------------------------------------------------------------------------
(* Dialling.                                                               *)

\* A connection both of whose ends are closed and that nothing refers to, so
\* that its identity can stand for a new one (the code's ids are never reused).
Free(c) ==
  /\ \A n \in Nodes : /\ sock[n][c] = "none"
                       /\ c \notin DOMAIN peers[n] \cup doomed[n]
  /\ \A t \in Tasks : task[t] # c

\* Task t is the first call of connect_peer_if_necessary or a round of the
\* loop it spawns: unless the peer is among get_peer_node_ids it connects and
\* hands the stream to new_outbound_connection, which sends act one.
do_connect_peer(t) ==
  /\ task[t] = "waiting" \/ (task[t] = "unborn" /\ t \in left.tasks)
  /\ ~Connected(A)
  /\ \E c \in {d \in Conns : Free(d)} :
        /\ task' = [task EXCEPT ![t] = c]
        /\ sock' = [sock EXCEPT ![A][c] = "open", ![B][c] = "backlog"]
        /\ peers' = [peers EXCEPT ![A] = WithPeer(@, c, new_outbound_connection)]
        /\ wire' = [wire EXCEPT ![A][c] = <<>>, ![B][c] = <<"act1">>]
  /\ UNCHANGED <<ids, locked, handler, taken, doomed, left>>

\* The task of setup_outbound cannot write act one.  If it writes a part of it, it
\* ends like a failed read; if it waits 100 ms for room (or the write fails, which
\* send_data reports as nothing written), it ends with no read task, and tells
\* nobody: the peer stays in the map.
FirstWriteFails(c) ==
  /\ left.stalls > 0
  /\ sock[A][c] = "open"
  /\ wire[B][c] \in {<<"act1">>, <<"act1", "eof">>}
  /\ \E s \in {"failing", "unread"} : sock' = [sock EXCEPT ![A][c] = s]
  /\ wire' = [wire EXCEPT ![B][c] = Tail(@)]
  /\ left' = [left EXCEPT !.stalls = @ - 1]
  /\ UNCHANGED <<peers, ids, locked, handler, taken, doomed, task>>

\* The task polls: the connection's future is done, or the peer is among
\* get_peer_node_ids; either way it goes back to waiting for its interval.
ConnectReturns(t) ==
  /\ task[t] \in Conns
  /\ sock[A][task[t]] \in {"none", "unread"} \/ Connected(A)
  /\ task' = [task EXCEPT ![t] = "waiting"]
  /\ UNCHANGED <<peers, ids, locked, sock, wire, handler, taken, doomed, left>>

\* The listener accepts the stream: setup_inbound calls new_inbound_connection.
setup_inbound(c) ==
  /\ sock[B][c] = "backlog"
  /\ sock' = [sock EXCEPT ![B][c] = "open"]
  /\ peers' = [peers EXCEPT ![B] = WithPeer(@, c, new_inbound_connection)]
  /\ UNCHANGED <<ids, locked, wire, handler, taken, doomed, task, left>>

-----------------------------------------------------------------------------
(* Reading.                                                                *)

\* The read fails with p as what is left of the peer: the task goes on to
\* disconnect_event_internal.
Fails(n, c, p, ms) ==
  /\ sock' = [sock EXCEPT ![n][c] = "failing"]
  /\ peers' = [peers EXCEPT ![n][c] = p]
  /\ wire' = [Sent(n, c, ms) EXCEPT ![n][c] = Tail(@)]
  /\ UNCHANGED <<ids, locked, handler>>

\* The read succeeds, leaves p as the peer and queues ms.
Reads(n, c, p, ms) ==
  /\ peers' = [peers EXCEPT ![n][c] = p]
  /\ wire' = [Sent(n, c, ms) EXCEPT ![n][c] = Tail(@)]
  /\ UNCHANGED sock

\* A bug: the refused connection keeps their_node_id.
HandshakeKeepsId(n, c, first) ==
  LET p == [peers[n][c] EXCEPT !.noise = "NoiseComplete"]
  IN  IF ids[n] # None
      THEN Fails(n, c, [p EXCEPT !.node = TRUE], first)
      ELSE /\ Reads(n, c, [p EXCEPT !.node = TRUE, !.awaiting = 0],
                    Append(first, "init"))
           /\ ids' = [ids EXCEPT ![n] = c]
           /\ UNCHANGED <<locked, handler>>

\* The end of the handshake, with insert_node_id: a second connection with
\* the same node is refused, and forgets whose it was.  `first` is what the
\* handshake itself sends.
HandshakeDone(n, c, first) ==
  LET p == [peers[n][c] EXCEPT !.noise = "NoiseComplete"]
  IN  IF ids[n] # None
      THEN Fails(n, c, [p EXCEPT !.node = FALSE], first)
      ELSE /\ Reads(n, c, [p EXCEPT !.node = TRUE, !.awaiting = 0],
                    Append(first, "init"))
           /\ ids' = [ids EXCEPT ![n] = c]
           /\ UNCHANGED <<locked, handler>>

\* handle_message.  Init calls the handler and, still under the peer's lock,
\* sets their_features (InitHandled below).  Another first message, or a second
\* Init, is an error; neither arises between these nodes (MessagesInOrder).
handle_message(n, c, m) ==
  LET p == [peers[n][c] EXCEPT !.heard = TRUE]
  IN  CASE m = "init" /\ ~p.features ->
             /\ Reads(n, c, p, <<>>)
             /\ handler' = [handler EXCEPT ![n] = peer_connected(@)]
             /\ locked' = [locked EXCEPT ![n] = c]
             /\ UNCHANGED ids
        [] m = "ping" /\ p.features ->
             Reads(n, c, p, <<"pong">>) /\ UNCHANGED <<ids, locked, handler>>
        [] m = "pong" /\ p.features ->
             /\ Reads(n, c, [p EXCEPT !.awaiting = 0], <<>>)
             /\ UNCHANGED <<ids, locked, handler>>
        [] m = "reestablish" /\ p.features ->
             /\ Reads(n, c, p, <<>>)
             /\ handler' = [handler EXCEPT ![n].got = @ + 1]
             /\ UNCHANGED <<ids, locked>>
        [] OTHER -> Fails(n, c, p, <<>>)

\* One message arrives: do_read_event.  The bytes may have been read before
\* the socket was told to disconnect, and then find no peer.
do_read_event(n, c) ==
  /\ sock[n][c] \in {"open", "asked"}
  /\ wire[n][c] # <<>> /\ Head(wire[n][c]) # "eof"
  /\ locked[n] = None
  /\ IF c \notin DOMAIN peers[n]
     THEN /\ sock' = [sock EXCEPT ![n][c] = "failing"]
          /\ UNCHANGED <<peers, ids, locked, wire, handler>>
     ELSE LET m == Head(wire[n][c])
          IN  CASE peers[n][c].noise = "ActOne" ->
                     /\ Reads(n, c, [peers[n][c] EXCEPT !.noise = "ActThree"],
                              <<"act2">>)
                     /\ UNCHANGED <<ids, locked, handler>>
                [] peers[n][c].noise = "ActTwo" ->
                     HandshakeDone(n, c, <<"act3">>)
                [] peers[n][c].noise = "ActThree" ->
                     HandshakeDone(n, c, <<>>)
                [] peers[n][c].noise = "NoiseComplete" ->
                     handle_message(n, c, m)
  /\ UNCHANGED <<taken, doomed, task, left>>

\* The rest of Init's handling: their_features is set, the lock released.
InitHandled(n) ==
  /\ locked[n] # None
  /\ peers' = [peers EXCEPT ![n][locked[n]].features = TRUE]
  /\ locked' = [locked EXCEPT ![n] = None]
  /\ UNCHANGED <<ids, sock, wire, handler, taken, doomed, task, left>>

\* The read task finds the end of the stream: Disconnect::PeerDisconnected.
ReadsEnd(n, c) ==
  /\ sock[n][c] = "open"
  /\ locked[n] # c
  /\ wire[n][c] # <<>> /\ Head(wire[n][c]) = "eof"
  /\ sock' = [sock EXCEPT ![n][c] = "failing"]
  /\ UNCHANGED <<peers, ids, locked, wire, handler, taken, doomed, task, left>>

-----------------------------------------------------------------------------
(* Removing peers.                                                         *)

\* The peers cs leave node n, under the write lock: the one whose node is
\* known leaves the map of ids too and its handler is told.
Removed(n, cs) ==
  LET known == \E c \in cs \cap DOMAIN peers[n] : peers[n][c].node
  IN  /\ peers' = [peers EXCEPT ![n] = Restrict(@, DOMAIN @ \ cs)]
      /\ ids' = [ids EXCEPT ![n] = IF known THEN None ELSE @]
      /\ handler' = [handler EXCEPT ![n] =
                       IF known THEN peer_disconnected(@) ELSE @]

\* SocketDescriptor::disconnect_socket for the sockets cs of node n.  One that has no
\* read task is closed when the PeerManager lets go of its descriptor.
Asked(n, cs) ==
  sock' = [sock EXCEPT ![n] =
             [c \in Conns |-> IF c \in cs /\ @[c] \in {"open", "unread"} THEN "asked"
                              ELSE @[c]]]

\* disconnect_event_internal, after a failed read or the end of the stream,
\* and the end of the read task, which shuts its half of the socket down.
disconnect_event_internal(n, c) ==
  /\ sock[n][c] = "failing"
  /\ locked[n] = None
  /\ Removed(n, {c})
  /\ Close(n, c)
  /\ UNCHANGED <<locked, taken, doomed, task, left>>

\* The read task finds rl_requested_disconnect set: Disconnect::CloseConnection.
schedule_read_ends(n, c) ==
  /\ sock[n][c] = "asked"
  /\ Close(n, c)
  /\ UNCHANGED <<peers, ids, locked, handler, taken, doomed, task, left>>

\* disconnect_all_peers, which the background processor calls after a sleep
\* that took too long.
disconnect_all_peers(n) ==
  /\ left.drops > 0
  /\ locked[n] = None
  /\ peers[n] # <<>>
  /\ ids' = [ids EXCEPT ![n] = None]
  /\ handler' = [handler EXCEPT ![n] =
                   IF \E c \in DOMAIN peers[n] : peers[n][c].node
                   THEN peer_disconnected(@) ELSE @]
  /\ peers' = [peers EXCEPT ![n] = <<>>]
  /\ Asked(n, DOMAIN peers[n])
  /\ left' = [left EXCEPT !.drops = @ - 1]
  /\ UNCHANGED <<locked, wire, taken, doomed, task>>

\* The connection breaks: each end reads some of what was sent, then the end.
Break(c) ==
  /\ left.breaks > 0
  /\ \A n \in Nodes : sock[n][c] # "none"
  /\ \A n \in Nodes : "eof" \notin Range(wire[n][c])
  /\ \E qa \in Cut(wire[A][c]), qb \in Cut(wire[B][c]) :
        wire' = [wire EXCEPT ![A][c] = qa, ![B][c] = qb]
  /\ left' = [left EXCEPT !.breaks = @ - 1]
  /\ UNCHANGED <<peers, ids, locked, sock, handler, taken, doomed, task>>

-----------------------------------------------------------------------------
(* process_events and the timer.                                           *)

\* process_events begins: get_and_clear_pending_msg_events, before the lock
\* on the peers is taken.  event_processing_lock keeps a second call out.
process_events(n) ==
  /\ taken[n] = 0
  /\ handler[n].queue > 0
  /\ taken' = [taken EXCEPT ![n] = handler[n].queue]
  /\ handler' = [handler EXCEPT ![n].queue = 0]
  /\ UNCHANGED <<peers, ids, locked, sock, wire, doomed, task, left>>

\* A bug: the peer's features are read without its lock.
EventsQueuedUnlocked(n) ==
  LET c == ids[n]
  IN  /\ taken[n] > 0
      /\ wire' = IF c # None /\ c \in DOMAIN peers[n] /\ peers[n][c].features
                 THEN Sent(n, c, [i \in 1 .. taken[n] |-> "reestablish"])
                 ELSE wire
      /\ taken' = [taken EXCEPT ![n] = 0]
      /\ UNCHANGED <<peers, ids, locked, sock, handler, doomed, task, left>>

\* It goes on under the read lock: every message goes to the peer its node id
\* now stands for, and is dropped when there is none or when that peer has
\* not finished its handshake.
EventsQueued(n) ==
  LET c == ids[n]
  IN  /\ taken[n] > 0
      /\ locked[n] = None
      /\ wire' = IF c # None /\ c \in DOMAIN peers[n] /\ peers[n][c].features
                 THEN Sent(n, c, [i \in 1 .. taken[n] |-> "reestablish"])
                 ELSE wire
      /\ taken' = [taken EXCEPT ![n] = 0]
      /\ UNCHANGED <<peers, ids, locked, sock, handler, doomed, task, left>>

\* How many ticks a peer that keeps sending may leave a ping unanswered.
MAX_BUFFER_DRAIN_TICK_INTERVALS_PER_PEER == 4

\* The verdict of a tick on peer p of n: is it to be disconnected?
TimedOut(n, p) ==
  IF p.noise # "NoiseComplete" \/ ~p.node
  THEN p.awaiting # 0
  ELSE \/ p.awaiting > 0 /\ ~p.heard
       \/ p.awaiting > MAX_BUFFER_DRAIN_TICK_INTERVALS_PER_PEER
                         * Cardinality(DOMAIN peers[n])

\* A peer a tick keeps.
Ticked(p) ==
  IF p.noise # "NoiseComplete" \/ ~p.node
  THEN [p EXCEPT !.awaiting = 1]
  ELSE [p EXCEPT !.heard = FALSE, !.awaiting = @ + 1]

\* Does the tick send p a ping?
Pinged(p) == p.noise = "NoiseComplete" /\ p.node /\ p.awaiting = 0

\* timer_tick_occurred, under the read lock.  A peer that is to go is left as
\* it is.
timer_tick_occurred(n) ==
  LET out == {c \in DOMAIN peers[n] : TimedOut(n, peers[n][c])}
      stay == DOMAIN peers[n] \ out
  IN  /\ left.ticks > 0
      /\ doomed[n] = {}
      /\ locked[n] = None
      /\ peers[n] # <<>>
      /\ peers' = [peers EXCEPT ![n] =
                     [c \in DOMAIN @ |-> IF c \in out THEN @[c]
                                         ELSE Ticked(@[c])]]
      /\ wire' = [wire EXCEPT ![Other(n)] =
                    [c \in Conns |->
                       IF c \in stay /\ Pinged(peers[n][c])
                       THEN Sent(n, c, <<"ping">>)[Other(n)][c]
                       ELSE @[c]]]
      /\ doomed' = [doomed EXCEPT ![n] = out]
      /\ left' = [left EXCEPT !.ticks = @ - 1]
      /\ UNCHANGED <<ids, locked, sock, handler, taken, task>>

\* A bug: the sockets are closed and the peers kept.
DoomedKept(n) ==
  /\ doomed[n] # {}
  /\ locked[n] = None
  /\ Asked(n, doomed[n])
  /\ doomed' = [doomed EXCEPT ![n] = {}]
  /\ UNCHANGED <<peers, ids, handler, locked, wire, taken, task, left>>

\* The tick goes on under the write lock, with the descriptors it noted.
DoomedRemoved(n) ==
  /\ doomed[n] # {}
  /\ locked[n] = None
  /\ Removed(n, doomed[n])
  /\ Asked(n, doomed[n])
  /\ doomed' = [doomed EXCEPT ![n] = {}]
  /\ UNCHANGED <<locked, wire, taken, task, left>>

-----------------------------------------------------------------------------
\* The steps of the tasks that the runtime keeps running.
Runs(n, c) ==
  \/ do_read_event(n, c)
  \/ ReadsEnd(n, c)
  \/ disconnect_event_internal(n, c)
  \/ schedule_read_ends(n, c)

Next ==
  \/ \E t \in Tasks : do_connect_peer(t) \/ ConnectReturns(t)
  \/ \E c \in Conns : setup_inbound(c) \/ FirstWriteFails(c) \/ Break(c)
  \/ \E n \in Nodes, c \in Conns : Runs(n, c)
  \/ \E n \in Nodes :
        \/ InitHandled(n)
        \/ process_events(n)
        \/ EventsQueued(n)
        \/ timer_tick_occurred(n)
        \/ DoomedRemoved(n)
        \/ disconnect_all_peers(n)

\* tokio polls every task that can go on, and threads that wait for a lock
\* get it (FairRwLock).  A reconnect task that waits is a timer: it comes
\* round again.  Commands, ticks and faults owe nothing.
Fairness ==
  /\ \A t \in Tasks : /\ WF_vars(task[t] = "waiting" /\ do_connect_peer(t))
                      /\ WF_vars(ConnectReturns(t))
  /\ \A c \in Conns : WF_vars(setup_inbound(c))
  /\ \A n \in Nodes, c \in Conns : WF_vars(Runs(n, c))
  /\ \A n \in Nodes : /\ WF_vars(InitHandled(n))
                      /\ WF_vars(process_events(n))
                      /\ WF_vars(EventsQueued(n))
                      /\ WF_vars(DoomedRemoved(n))

Spec == Init /\ [][Next]_vars /\ Fairness

-----------------------------------------------------------------------------
Messages == {"act1", "act2", "act3", "init", "ping", "pong", "reestablish",
             "eof"}

Peer == [noise : NoiseSteps, node : BOOLEAN, features : BOOLEAN,
         awaiting : Nat, heard : BOOLEAN]

\* Every message finds the peer at the step that expects it: no act comes at
\* another's turn, Init comes first and once, and nothing overtakes it although
\* the timer and process_events write beside the reading task.  do_read_event
\* and handle_message end the connection otherwise.
MessagesInOrder ==
  \A n \in Nodes : \A c \in DOMAIN peers[n] :
     LET m == Head(wire[n][c])
         p == peers[n][c]
     IN  wire[n][c] # <<>> /\ m # "eof" /\ locked[n] # c =>
           CASE p.noise = "ActOne" -> m = "act1"
             [] p.noise = "ActTwo" -> m = "act2"
             [] p.noise = "ActThree" -> m = "act3"
             [] p.noise = "NoiseComplete" /\ ~p.node -> TRUE
             [] p.noise = "NoiseComplete" /\ p.node ->
                  IF p.features THEN m \in {"ping", "pong", "reestablish"}
                  ELSE m = "init"

\* The types of the state, with what the messages on a wire may be: an end of
\* stream comes last, and the others come in their order.  A connection's peer
\* exists only while its socket task does.
TypeOK ==
  /\ MessagesInOrder
  /\ \A n \in Nodes :
       /\ DOMAIN peers[n] \subseteq {c \in Conns : sock[n][c] \in {"open", "failing", "unread"}}
       /\ Range(peers[n]) \subseteq Peer
       /\ ids[n] \in Conns \cup {None}
       /\ locked[n] \in DOMAIN peers[n] \cup {None}
       /\ \A c \in Conns :
             /\ sock[n][c] \in {"none", "backlog", "open", "asked", "failing", "unread"}
             /\ \A i \in 1 .. Len(wire[n][c]) :
                   /\ wire[n][c][i] \in Messages
                   /\ wire[n][c][i] = "eof" => i = Len(wire[n][c])
       /\ handler[n] \in [up : BOOLEAN, queue : Nat, got : Nat]
       /\ taken[n] \in Nat
       /\ doomed[n] \subseteq Conns
       /\ \A t \in Tasks : task[t] \in Conns \cup {"unborn", "waiting"}

\* At most one peer of a node carries the other node's id, and it is the one
\* node_id_to_descriptor leads to: insert_node_id, the timer's two phases,
\* failed reads and disconnect_all_peers never leave the two maps apart,
\* whatever second connections come and go in between.
IdsLeadToPeers ==
  \A n \in Nodes, c \in Conns :
     ids[n] = c <=> c \in DOMAIN peers[n] /\ peers[n][c].node

\* The channel handler believes its peer connected exactly while that one
\* peer has finished its Init (or is about to, under its lock):
\* peer_connected and peer_disconnected come in pairs, and a refused second
\* connection disconnects nobody.
HandlerAgrees ==
  \A n \in Nodes :
     handler[n].up <=> /\ ids[n] # None
                       /\ peers[n][ids[n]].features \/ locked[n] = ids[n]

\* The peers, the ids and the handler of each node agree.
PeersAgree == IdsLeadToPeers /\ HandlerAgrees

\* With one reconnect task, the nodes end up on one connection: both handlers
\* know of it, each has had the other's channel_reestablish on it, and every
\* other socket is closed, but for one that no task reads and no tick has met yet
\* (ticks owe nothing here).  No order of failed reads, refused second
\* connections, timeouts and breaks leaves them apart for good, or connected
\* with a channel_reestablish lost between Init and the peer's features.
Settles ==
  <>[]( Cardinality({t \in Tasks : task[t] # "unborn"}) = 1 =>
          \E c \in Conns :
             /\ \A n \in Nodes : /\ ids[n] = c
                                 /\ handler[n].up
                                 /\ handler[n].got > 0
             /\ \A d \in Conns \ {c}, n \in Nodes : sock[n][d] = "none" \/ sock[A][d] = "unread" )
=============================================================================
