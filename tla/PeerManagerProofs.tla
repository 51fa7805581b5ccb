-------------------------- MODULE PeerManagerProofs --------------------------
(***************************************************************************)
(* Proofs that the peers, the node ids and the channel handler of each     *)
(* node agree (PeersAgree), and that the bytes of a connection come in the *)
(* order in which the other end wrote them, so that a handshake act or a   *)
(* message is only read where it is expected (TypeOK), for any number of   *)
(* connections and reconnect tasks and any budget of faults.               *)
(***************************************************************************)
EXTENDS PeerManager, TLAPS

SockState == {"none", "backlog", "open", "asked", "failing", "unread"}
Handler == [up : BOOLEAN, queue : Nat, got : Nat]

\* The variables are functions on the nodes; what is on the wires plays no part.
Shape ==
  /\ DOMAIN peers = Nodes /\ DOMAIN ids = Nodes /\ DOMAIN locked = Nodes
  /\ DOMAIN sock = Nodes /\ DOMAIN handler = Nodes

\* The types of one node's state.
Types(n) ==
  /\ DOMAIN peers[n] \subseteq Conns
  /\ \A c \in DOMAIN peers[n] : peers[n][c] \in Peer
  /\ ids[n] \in Conns \cup {None}
  /\ locked[n] \in DOMAIN peers[n] \cup {None}
  /\ sock[n] \in [Conns -> SockState]
  /\ handler[n] \in Handler

\* A peer exists only while its socket does, and one that was refused as a
\* second connection is never read from again.  The handshake, the node id and
\* Init come in this order.
Peers(n) ==
  /\ \A c \in DOMAIN peers[n] :
       /\ sock[n][c] \in {"open", "failing", "unread"}
       /\ peers[n][c].noise = "NoiseComplete" /\ ~peers[n][c].node => sock[n][c] = "failing"
       /\ peers[n][c].node => peers[n][c].noise = "NoiseComplete"
       /\ peers[n][c].features => peers[n][c].node
  /\ locked[n] # None => peers[n][locked[n]].node

\* IdsLeadToPeers and HandlerAgrees, at one node.
Agree(n) ==
  /\ \A c \in Conns : ids[n] = c <=> c \in DOMAIN peers[n] /\ peers[n][c].node
  /\ handler[n].up <=> /\ ids[n] # None
                       /\ peers[n][ids[n]].features \/ locked[n] = ids[n]

Good(n) == Types(n) /\ Peers(n) /\ Agree(n)

IInv == Shape /\ \A n \in Nodes : Good(n)

-----------------------------------------------------------------------------
LEMMA PeersInit == Init => IInv
  BY ConnsAssumption DEF Init, IInv, Shape, Good, Types, Peers, Agree, Away, SockState, Handler

\* A step that changes nothing of a node leaves it good.
LEMMA Untouched ==
    ASSUME NEW n \in Nodes, Good(n), peers'[n] = peers[n], ids'[n] = ids[n],
           locked'[n] = locked[n], sock'[n] = sock[n], handler'[n] = handler[n]
    PROVE  Good(n)'
  BY DEF Good, Types, Peers, Agree

\* q is p but for what the invariant does not look at.
Same(q, p) ==
  /\ q \in Peer /\ (q.noise = "NoiseComplete" <=> p.noise = "NoiseComplete")
  /\ (q.node <=> p.node) /\ (q.features <=> p.features)

LEMMA SameHeard ==
    ASSUME NEW p \in Peer, NEW k \in Nat, NEW b \in BOOLEAN
    PROVE  Same([p EXCEPT !.heard = b, !.awaiting = k], p)
  BY Zenon DEF Same, Peer

\* A tick of the timer changes only counters.
LEMMA SameTicked == ASSUME NEW p \in Peer PROVE Same(Ticked(p), p)
  <1>1. p.awaiting + 1 \in Nat
    BY DEF Peer
  <1>2. Same([p EXCEPT !.awaiting = 1], p)
    BY Zenon DEF Same, Peer
  <1>3. Same([p EXCEPT !.heard = FALSE, !.awaiting = p.awaiting + 1], p)
    BY <1>1, SameHeard, Zenon
  <1> QED
    BY <1>2, <1>3, Zenon DEF Ticked

\* What the other updates of a peer do to it.
LEMMA PeerUpdates ==
    ASSUME NEW p \in Peer
    PROVE  /\ LET q == [p EXCEPT !.features = TRUE]
              IN  q \in Peer /\ q.noise = p.noise /\ (q.node <=> p.node) /\ q.features
           /\ p.noise = "ActOne" => Same([p EXCEPT !.noise = "ActThree"], p)
           /\ Same([p EXCEPT !.heard = TRUE], p)
           /\ Same([[p EXCEPT !.heard = TRUE] EXCEPT !.awaiting = 0], p)
           /\ LET q == [[p EXCEPT !.noise = "NoiseComplete"] EXCEPT !.node = FALSE]
              IN  q \in Peer /\ q.noise = "NoiseComplete" /\ ~q.node /\ (q.features <=> p.features)
           /\ LET q == [[p EXCEPT !.noise = "NoiseComplete"] EXCEPT !.node = TRUE, !.awaiting = 0]
              IN  q \in Peer /\ q.noise = "NoiseComplete" /\ q.node /\ (q.features <=> p.features)
  BY Zenon DEF Peer, NoiseSteps, Same

LEMMA HandlerUp ==
    ASSUME NEW h \in Handler PROVE peer_connected(h) \in Handler /\ peer_connected(h).up
  <1>1. ASSUME NEW k \in Nat
        PROVE  LET g == [h EXCEPT !.up = TRUE, !.queue = k] IN g \in Handler /\ g.up
    BY Zenon DEF Handler
  <1>2. h.queue + 1 \in Nat
    BY DEF Handler
  <1> QED
    BY <1>1, <1>2, Zenon DEF peer_connected

\* What an update of one peer leaves alone.
LEMMA OnePeer ==
    ASSUME Shape, NEW n \in Nodes, NEW c \in DOMAIN peers[n], NEW q,
           peers' = [peers EXCEPT ![n][c] = q]
    PROVE  /\ DOMAIN peers'[n] = DOMAIN peers[n] /\ peers'[n][c] = q
           /\ \A d \in DOMAIN peers[n] \ {c} : peers'[n][d] = peers[n][d]
  BY Zenon DEF Shape

\* A message that leaves a peer where it was, or ends its connection, leaves the
\* node good.
LEMMA SamePeer ==
    ASSUME Shape, NEW n \in Nodes, Good(n), NEW c \in DOMAIN peers[n], NEW q,
           Same(q, peers[n][c]), peers' = [peers EXCEPT ![n][c] = q],
           sock' \in {sock, [sock EXCEPT ![n][c] = "failing"]},
           UNCHANGED <<ids, locked>>, handler'[n] \in Handler, handler'[n].up <=> handler[n].up
    PROVE  Good(n)'
  <1>1. sock'[n] \in [Conns -> SockState]
    BY Zenon DEF Shape, Good, Types, SockState
  <1>2. \A d \in DOMAIN peers[n] : sock'[n][d] = sock[n][d] \/ sock'[n][d] = "failing"
    BY Zenon DEF Shape, Good, Types, SockState
  <1>3. \A d \in DOMAIN peers[n] : Same(peers'[n][d], peers[n][d])
    BY OnePeer DEF Same, Good, Types
  <1> QED
    BY <1>1, <1>2, <1>3, OnePeer DEF Good, Types, Peers, Agree, Same

LEMMA PeersStep == IInv /\ [Next]_vars => IInv'
  <1> SUFFICES ASSUME IInv, [Next]_vars PROVE IInv'
    BY Zenon
  <1> USE ConnsAssumption, NodesDiffer
  <1>1. ASSUME NEW t \in Tasks, do_connect_peer(t) PROVE IInv'
    <2>1. PICK c \in Conns :
            /\ Free(c)
            /\ sock' = [sock EXCEPT ![A][c] = "open", ![B][c] = "backlog"]
            /\ peers' = [peers EXCEPT ![A] = WithPeer(@, c, new_outbound_connection)]
            /\ UNCHANGED <<ids, locked, handler>>
      BY <1>1, Zenon DEF do_connect_peer
    <2>2. A \in Nodes /\ B \in Nodes /\ Nodes = {A, B}
      BY Zenon DEF Nodes
    <2>3. Shape'
      BY <2>1, <2>2, Zenon DEF IInv, Shape
    <2>4. Good(B)'
      BY <2>1, <2>2 DEF IInv, Shape, Good, Types, Peers, Agree, Free, SockState
    <2>5. /\ c \notin DOMAIN peers[A] /\ DOMAIN peers'[A] = DOMAIN peers[A] \cup {c}
          /\ \A d \in DOMAIN peers[A] : peers'[A][d] = peers[A][d]
          /\ peers'[A][c] = new_outbound_connection
      BY <2>1, <2>2, Zenon DEF Free, IInv, Shape, WithPeer
    <2>6. /\ new_outbound_connection \in Peer
          /\ new_outbound_connection.noise = "ActTwo"
          /\ ~new_outbound_connection.node /\ ~new_outbound_connection.features
      BY Zenon DEF NewPeer, new_outbound_connection, Peer, NoiseSteps
    <2>7. Good(A)'
      BY <2>1, <2>2, <2>5, <2>6 DEF IInv, Shape, Good, Types, Peers, Agree, SockState
    <2> QED
      BY <2>2, <2>3, <2>4, <2>7, Zenon DEF IInv
  <1>2. ASSUME NEW t \in Tasks, ConnectReturns(t) PROVE IInv'
    BY <1>2, Zenon DEF ConnectReturns, IInv, Shape, Good, Types, Peers, Agree
  <1>3. ASSUME NEW c \in Conns, setup_inbound(c) PROVE IInv'
    <2>1. B \in Nodes /\ Nodes = {A, B}
      BY Zenon DEF Nodes
    <2>2. Shape'
      BY <1>3, <2>1, Zenon DEF setup_inbound, IInv, Shape
    <2>3. Good(A)'
      BY <1>3, <2>1, Untouched, Zenon DEF setup_inbound, IInv, Shape
    <2>4. /\ c \notin DOMAIN peers[B] /\ DOMAIN peers'[B] = DOMAIN peers[B] \cup {c}
          /\ \A d \in DOMAIN peers[B] : peers'[B][d] = peers[B][d]
          /\ peers'[B][c] = new_inbound_connection
      BY <1>3, <2>1 DEF setup_inbound, IInv, Shape, Good, Peers, WithPeer
    <2>5. /\ new_inbound_connection \in Peer
          /\ new_inbound_connection.noise = "ActOne"
          /\ ~new_inbound_connection.node /\ ~new_inbound_connection.features
      BY Zenon DEF NewPeer, new_inbound_connection, Peer, NoiseSteps
    <2>6. Good(B)'
      BY <1>3, <2>1, <2>4, <2>5 DEF setup_inbound, IInv, Shape, Good, Types, Peers, Agree, SockState
    <2> QED
      BY <2>1, <2>2, <2>3, <2>6, Zenon DEF IInv
  <1>4. ASSUME NEW c \in Conns, Break(c) PROVE IInv'
    BY <1>4 DEF Break, IInv, Shape, Good, Types, Peers, Agree
  <1>5. ASSUME NEW n \in Nodes, NEW c \in Conns, ReadsEnd(n, c) PROVE IInv'
    BY <1>5 DEF ReadsEnd, IInv, Shape, Good, Types, Peers, Agree, SockState
  <1>6. ASSUME NEW n \in Nodes, NEW c \in Conns, schedule_read_ends(n, c) PROVE IInv'
    BY <1>6 DEF schedule_read_ends, Close, IInv, Shape, Good, Types, Peers, Agree, SockState
  <1>7. ASSUME NEW n \in Nodes, InitHandled(n) PROVE IInv'
    <2>1. Shape' /\ \A m \in Nodes \ {n} : Good(m)'
      BY <1>7, Untouched, Zenon DEF InitHandled, IInv, Shape
    <2>2. /\ locked[n] \in DOMAIN peers[n] /\ DOMAIN peers'[n] = DOMAIN peers[n]
          /\ \A c \in DOMAIN peers[n] : c # locked[n] => peers'[n][c] = peers[n][c]
          /\ peers'[n][locked[n]] = [peers[n][locked[n]] EXCEPT !.features = TRUE]
      BY <1>7, Zenon DEF InitHandled, IInv, Shape, Good, Types
    <2>3. peers[n][locked[n]] \in Peer
      BY <2>2, Zenon DEF IInv, Good, Types
    <2>4. LET p == peers[n][locked[n]]
              q == [p EXCEPT !.features = TRUE]
          IN  q \in Peer /\ q.noise = p.noise /\ (q.node <=> p.node) /\ q.features
      BY <2>3, PeerUpdates, Zenon
    <2>5. Good(n)'
      BY <1>7, <2>2, <2>4 DEF InitHandled, IInv, Shape, Good, Types, Peers, Agree
    <2> QED
      BY <2>1, <2>5, Zenon DEF IInv
  <1>8. ASSUME NEW n \in Nodes, process_events(n) PROVE IInv'
    <2>1. Shape' /\ \A m \in Nodes \ {n} : Good(m)'
      BY <1>8, Untouched, Zenon DEF process_events, IInv, Shape
    <2>2. Good(n)'
      BY <1>8 DEF process_events, IInv, Shape, Good, Types, Peers, Agree, Handler
    <2> QED
      BY <2>1, <2>2, Zenon DEF IInv
  <1>9. ASSUME NEW n \in Nodes, EventsQueued(n) PROVE IInv'
    BY <1>9 DEF EventsQueued, IInv, Shape, Good, Types, Peers, Agree
  <1>10. ASSUME NEW n \in Nodes, timer_tick_occurred(n) PROVE IInv'
    <2>1. Shape' /\ \A m \in Nodes \ {n} : Good(m)'
      BY <1>10, Untouched, Zenon DEF timer_tick_occurred, IInv, Shape
    <2>2. /\ DOMAIN peers'[n] = DOMAIN peers[n]
          /\ \A c \in DOMAIN peers[n] : peers'[n][c] \in {peers[n][c], Ticked(peers[n][c])}
      BY <1>10, Zenon DEF timer_tick_occurred, IInv, Shape
    <2>3. \A c \in DOMAIN peers[n] : Same(peers'[n][c], peers[n][c])
      BY <2>2, SameTicked DEF IInv, Good, Types, Same
    <2>4. Good(n)'
      BY <1>10, <2>2, <2>3 DEF timer_tick_occurred, IInv, Shape, Good, Types, Peers, Agree, Same
    <2> QED
      BY <2>1, <2>4, Zenon DEF IInv
  <1>11. ASSUME NEW n \in Nodes, DoomedRemoved(n) PROVE IInv'
    <2>1. Shape' /\ \A m \in Nodes \ {n} : Good(m)'
      BY <1>11, Untouched, Zenon DEF DoomedRemoved, Removed, Asked, IInv, Shape
    <2>2. Good(n)'
      BY <1>11 DEF DoomedRemoved, Removed, Asked, Restrict, IInv, Shape, Good, Types, Peers, Agree,
         SockState, Handler, Away, peer_disconnected
    <2> QED
      BY <2>1, <2>2, Zenon DEF IInv
  <1>12. ASSUME NEW n \in Nodes, disconnect_all_peers(n) PROVE IInv'
    <2>1. Shape' /\ \A m \in Nodes \ {n} : Good(m)'
      BY <1>12, Untouched, Zenon DEF disconnect_all_peers, Asked, IInv, Shape
    <2>2. Good(n)'
      BY <1>12 DEF disconnect_all_peers, Asked, IInv, Shape, Good, Types, Peers, Agree,
         SockState, Handler, Away, peer_disconnected
    <2> QED
      BY <2>1, <2>2, Zenon DEF IInv
  <1>13. ASSUME NEW n \in Nodes, NEW c \in Conns, disconnect_event_internal(n, c) PROVE IInv'
    <2>1. Shape' /\ \A m \in Nodes \ {n} : Good(m)'
      BY <1>13, Untouched, Zenon DEF disconnect_event_internal, Removed, Close, IInv, Shape
    <2>2. Good(n)'
      BY <1>13 DEF disconnect_event_internal, Removed, Close, Restrict, IInv, Shape, Good, Types,
         Peers, Agree, SockState, Handler, Away, peer_disconnected
    <2> QED
      BY <2>1, <2>2, Zenon DEF IInv
  <1>14. ASSUME NEW n \in Nodes, NEW c \in Conns, do_read_event(n, c) PROVE IInv'
    <2> DEFINE p == peers[n][c]
    <2>1. CASE c \notin DOMAIN peers[n]
      BY <1>14, <2>1 DEF do_read_event, IInv, Shape, Good, Types, Peers, Agree, SockState
    <2>2. CASE c \in DOMAIN peers[n]
      <3>1. /\ p \in Peer /\ sock[n][c] = "open" /\ locked[n] = None
            /\ p.noise = "NoiseComplete" => p.node
            /\ p.noise # "NoiseComplete" => ~p.node /\ ~p.features
        BY <1>14, <2>2, Zenon DEF do_read_event, IInv, Good, Types, Peers
      <3>2. CASE p.noise = "ActOne"
        <4>1. /\ Reads(n, c, [p EXCEPT !.noise = "ActThree"], <<"act2">>)
              /\ UNCHANGED <<ids, locked, handler>>
          BY <1>14, <2>2, <3>2, Zenon DEF do_read_event
        <4>2. Shape' /\ \A m \in Nodes \ {n} : Good(m)'
          BY <4>1, Untouched, Zenon DEF Reads, IInv, Shape
        <4>3. Good(n)'
          BY <2>2, <3>1, <3>2, <4>1, PeerUpdates, SamePeer, ZenonT(40) DEF Reads, IInv, Good, Types
        <4> QED
          BY <4>2, <4>3, Zenon DEF IInv
      <3>3. CASE p.noise \in {"ActTwo", "ActThree"}
        <4>1. PICK first : HandshakeDone(n, c, first)
          BY <1>14, <2>2, <3>3, Zenon DEF do_read_event
        <4>2. Shape' /\ \A m \in Nodes \ {n} : Good(m)'
          BY <4>1, Untouched, Zenon DEF HandshakeDone, Fails, Reads, IInv, Shape
        <4>3. CASE ids[n] # None
          <5> DEFINE q == [[p EXCEPT !.noise = "NoiseComplete"] EXCEPT !.node = FALSE]
          <5>1. /\ peers' = [peers EXCEPT ![n][c] = q]
                /\ sock' = [sock EXCEPT ![n][c] = "failing"]
                /\ UNCHANGED <<ids, locked, handler>>
            BY <4>1, <4>3, Zenon DEF HandshakeDone, Fails
          <5>2. q \in Peer /\ q.noise = "NoiseComplete" /\ ~q.node /\ ~q.features
            BY <3>1, <3>3, PeerUpdates, Zenon
          <5>3. Good(n)'
            BY <2>2, <3>1, <3>3, <5>1, <5>2, OnePeer
               DEF IInv, Shape, Good, Types, Peers, Agree, SockState
          <5> QED
            BY <4>2, <5>3, Zenon DEF IInv
        <4>4. CASE ids[n] = None
          <5> DEFINE q == [[p EXCEPT !.noise = "NoiseComplete"] EXCEPT !.node = TRUE, !.awaiting = 0]
          <5>1. /\ peers' = [peers EXCEPT ![n][c] = q]
                /\ ids' = [ids EXCEPT ![n] = c]
                /\ UNCHANGED <<sock, locked, handler>>
            BY <4>1, <4>4, Zenon DEF HandshakeDone, Reads
          <5>2. q \in Peer /\ q.noise = "NoiseComplete" /\ q.node /\ ~q.features
            BY <3>1, <3>3, PeerUpdates, Zenon
          <5>3. Good(n)'
            BY <2>2, <3>1, <3>3, <4>4, <5>1, <5>2, OnePeer
               DEF IInv, Shape, Good, Types, Peers, Agree
          <5> QED
            BY <4>2, <5>3, Zenon DEF IInv
        <4> QED
          BY <4>3, <4>4, Zenon
      <3>4. CASE p.noise = "NoiseComplete"
        <4>1. handle_message(n, c, Head(wire[n][c]))
          BY <1>14, <2>2, <3>4, Zenon DEF do_read_event
        <4>2. Shape' /\ \A m \in Nodes \ {n} : Good(m)'
          BY <4>1, Untouched, Zenon DEF handle_message, Fails, Reads, IInv, Shape
        <4> DEFINE h == [p EXCEPT !.heard = TRUE]
                   m == Head(wire[n][c])
        <4>3. Same(h, p) /\ Same([h EXCEPT !.awaiting = 0], p)
          BY <3>1, PeerUpdates, Zenon
        <4>4. CASE m = "init" /\ ~h.features
          <5>1. /\ peers' = [peers EXCEPT ![n][c] = h]
                /\ handler' = [handler EXCEPT ![n] = peer_connected(@)]
                /\ locked' = [locked EXCEPT ![n] = c]
                /\ UNCHANGED <<ids, sock>>
            BY <4>1, <4>4, Zenon DEF handle_message, Reads
          <5>2. handler'[n] \in Handler /\ handler'[n].up
            BY <5>1, HandlerUp, Zenon DEF IInv, Shape, Good, Types
          <5>3. Good(n)'
            BY <2>2, <3>1, <3>4, <4>3, <5>1, <5>2, OnePeer
               DEF IInv, Shape, Good, Types, Peers, Agree, Same
          <5> QED
            BY <4>2, <5>3, Zenon DEF IInv
        <4>5. CASE ~(m = "init" /\ ~h.features)
          <5>1. /\ \E q \in {h, [h EXCEPT !.awaiting = 0]} : peers' = [peers EXCEPT ![n][c] = q]
                /\ sock' \in {sock, [sock EXCEPT ![n][c] = "failing"]}
                /\ UNCHANGED <<ids, locked>>
                /\ handler' \in {handler, [handler EXCEPT ![n].got = @ + 1]}
            BY <4>1, <4>5, Zenon DEF handle_message, Reads, Fails
          <5>2. handler'[n] \in Handler /\ (handler'[n].up <=> handler[n].up)
            BY <5>1 DEF IInv, Shape, Good, Types, Handler
          <5>3. Good(n)'
            BY <2>2, <4>3, <5>1, <5>2, SamePeer, Zenon DEF IInv
          <5> QED
            BY <4>2, <5>3, Zenon DEF IInv
        <4> QED
          BY <4>4, <4>5, Zenon
      <3> QED
        BY <3>1, <3>2, <3>3, <3>4, Zenon DEF Peer, NoiseSteps
    <2> QED
      BY <2>1, <2>2, Zenon
  <1>15. ASSUME NEW c \in Conns, FirstWriteFails(c) PROVE IInv'
    <2>1. A \in Nodes /\ B \in Nodes /\ Nodes = {A, B}
      BY Zenon DEF Nodes
    <2>2. Shape' /\ Good(B)'
      BY <1>15, <2>1, Untouched, Zenon DEF FirstWriteFails, IInv, Shape
    <2>3. Good(A)'
      BY <1>15, <2>1 DEF FirstWriteFails, IInv, Shape, Good, Types, Peers, Agree, SockState
    <2> QED
      BY <2>1, <2>2, <2>3, Zenon DEF IInv
  <1>16. CASE UNCHANGED vars
    BY <1>16, Zenon DEF vars, IInv, Shape, Good, Types, Peers, Agree
  <1> QED
    BY <1>1, <1>2, <1>3, <1>4, <1>5, <1>6, <1>7, <1>8, <1>9, <1>10, <1>11, <1>12, <1>13, <1>14, <1>15, <1>16, Zenon
       DEF Next, Runs

\* Whatever connections are made, refused, broken, timed out or dropped, the map of
\* peers, node_id_to_descriptor and the channel handler's view of the other node
\* agree at each node after every step.
THEOREM PeersAlwaysAgree == Spec => []PeersAgree
  <1>1. IInv => PeersAgree
    BY Zenon DEF IInv, Good, Agree, PeersAgree, IdsLeadToPeers, HandlerAgrees
  <1> QED
    BY PeersInit, PeersStep, <1>1, PTL DEF Spec

-----------------------------------------------------------------------------
(* The order of the messages.  Every message a node is ever sent on one     *)
(* connection has a place: first the acts and Init of the other end, then   *)
(* pings, pongs and channel_reestablish.  A node's peer says how many of    *)
(* them it has read (Got) and, of those before the last group, how many it  *)
(* has sent (Put); what is on the wire lies between the two.  Where a read   *)
(* task is gone, or a second connection was refused, nothing is known.      *)

Data == {"ping", "pong", "reestablish"}

\* How many messages come before those of Data on the way to node n.
Last(n) == IF n = A THEN 2 ELSE 3

\* What the k-th message to node n may be.
Expected(n, k) ==
  IF k > Last(n) THEN Data
  ELSE IF k = Last(n) THEN {"init"}
  ELSE IF n = A THEN {"act2"}
  ELSE IF k = 1 THEN {"act1"} ELSE {"act3"}

\* An end of stream comes last.
Wire(w) ==
  /\ w \in Seq(Messages)
  /\ \A i \in 1 .. Len(w) : w[i] = "eof" => i = Len(w)

NoEof(w) == \A i \in 1 .. Len(w) : w[i] # "eof"

\* The messages w come to node n after the first g.
Fits(n, w, g) == \A i \in 1 .. Len(w) : w[i] = "eof" \/ w[i] \in Expected(n, g + i)

\* They reach up to the s-th, and past it only when that is the last that counts.
Reach(n, w, g, s) ==
  IF s < Last(n) THEN g + Len(w) = s ELSE g + Len(w) >= Last(n)

Backlog(n, c) == n = B /\ sock[n][c] = "backlog"

\* The end of connection c at node n may still read and write.
Live(n, c) ==
  \/ Backlog(n, c)
  \/ c \in DOMAIN peers[n] /\ (peers[n][c].noise = "NoiseComplete" => peers[n][c].node)

Got(n, c) ==
  IF Backlog(n, c) \/ peers[n][c].noise \in {"ActOne", "ActTwo"} THEN 0
  ELSE IF peers[n][c].noise = "ActThree" THEN 1
  ELSE IF peers[n][c].features \/ locked[n] = c THEN Last(n) ELSE Last(n) - 1

Put(n, c) ==
  IF Backlog(n, c) \/ peers[n][c].noise = "ActOne" THEN 0
  ELSE IF peers[n][c].noise \in {"ActTwo", "ActThree"} THEN 1
  ELSE Last(Other(n))

\* A dialled, and may not have written act one.
Mute(n, c) ==
  n = A /\ c \in DOMAIN peers[n] /\ peers[n][c].noise = "ActTwo" /\ sock[n][c] # "open"

\* The wire to node n on connection c, as the two ends say.
Line(n, c) ==
  /\ Wire(wire[n][c])
  /\ Live(n, c) =>
       /\ Fits(n, wire[n][c], Got(n, c))
       /\ Live(Other(n), c) /\ ~Mute(Other(n), c) /\ NoEof(wire[n][c]) =>
            Reach(n, wire[n][c], Got(n, c), Put(Other(n), c))

Lines == \A n \in Nodes, c \in Conns : Line(n, c)

\* A dials and B listens.
Roles ==
  /\ \A c \in DOMAIN peers[A] : peers[A][c].noise \in {"ActTwo", "NoiseComplete"}
  /\ \A c \in DOMAIN peers[B] : peers[B][c].noise \in {"ActOne", "ActThree", "NoiseComplete"}
  /\ \A c \in Conns : sock[A][c] # "backlog"

\* The rest of the state.
Others ==
  /\ DOMAIN wire = Nodes /\ \A n \in Nodes : DOMAIN wire[n] = Conns
  /\ taken \in [Nodes -> Nat]
  /\ doomed \in [Nodes -> SUBSET Conns]
  /\ task \in [Tasks -> Conns \cup {"unborn", "waiting"}]

-----------------------------------------------------------------------------
(* Wires.                                                                   *)

LEMMA NodeFacts ==
  /\ A \in Nodes /\ B \in Nodes /\ Other(A) = B /\ Other(B) = A
  /\ \A n \in Nodes : /\ Other(n) \in Nodes /\ Other(n) # n /\ Other(Other(n)) = n
                      /\ Nodes = {n, Other(n)} /\ Last(n) \in {2, 3}
  BY NodesDiffer DEF Nodes, Other, Last

\* A message has been read.
LEMMA ReadFits ==
    ASSUME NEW n \in Nodes, NEW w, Wire(w), w # <<>>, NEW g \in Nat, NEW s \in Nat
    PROVE  /\ Wire(Tail(w))
           /\ Head(w) # "eof" /\ NoEof(Tail(w)) => NoEof(w)
           /\ Fits(n, w, g) => Fits(n, Tail(w), g + 1)
           /\ Fits(n, w, g) /\ g >= Last(n) => Fits(n, Tail(w), g)
           /\ Reach(n, w, g, s) => Reach(n, Tail(w), g + 1, s)
           /\ Reach(n, w, g, s) /\ g >= Last(n) => Reach(n, Tail(w), g, s)
  <1>1. /\ Len(w) \in Nat \ {0} /\ Len(Tail(w)) = Len(w) - 1 /\ Tail(w) \in Seq(Messages)
        /\ \A i \in 1 .. Len(Tail(w)) : Tail(w)[i] = w[i + 1]
        /\ Head(w) = w[1] /\ w \in Seq(Messages)
    BY DEF Wire
  <1>2. Last(n) \in {2, 3}
    BY NodeFacts, Zenon
  <1>3. Wire(Tail(w))
    <2> SUFFICES ASSUME NEW i \in 1 .. Len(Tail(w)), Tail(w)[i] = "eof" PROVE i = Len(Tail(w))
      BY <1>1, Zenon DEF Wire
    <2>1. i + 1 \in 1 .. Len(w) /\ w[i + 1] = "eof"
      BY <1>1
    <2>2. i + 1 = Len(w)
      BY <2>1, Zenon DEF Wire
    <2>3. i \in Int
      OBVIOUS
    <2>4. i = Len(w) - 1
      BY <2>2, <2>3
    <2> QED
      BY <1>1, <2>4, Zenon
  <1>4. Head(w) # "eof" /\ NoEof(Tail(w)) => NoEof(w)
    <2> SUFFICES ASSUME Head(w) # "eof", NoEof(Tail(w)), NEW i \in 1 .. Len(w) PROVE w[i] # "eof"
      BY Zenon DEF NoEof
    <2>1. i = 1 \/ i - 1 \in 1 .. Len(Tail(w))
      BY <1>1
    <2>2. i - 1 + 1 = i
      OBVIOUS
    <2> QED
      BY <1>1, <2>1, <2>2, Zenon DEF NoEof
  <1>5. ASSUME Fits(n, w, g) PROVE Fits(n, Tail(w), g + 1)
    <2> SUFFICES ASSUME NEW i \in 1 .. Len(Tail(w))
                 PROVE  Tail(w)[i] = "eof" \/ Tail(w)[i] \in Expected(n, g + 1 + i)
      BY Zenon DEF Fits
    <2>1. i + 1 \in 1 .. Len(w) /\ g + (i + 1) = g + 1 + i
      BY <1>1
    <2> QED
      BY <1>1, <1>5, <2>1, Zenon DEF Fits
  <1>6. ASSUME Fits(n, w, g), g >= Last(n) PROVE Fits(n, Tail(w), g)
    <2> SUFFICES ASSUME NEW i \in 1 .. Len(Tail(w))
                 PROVE  Tail(w)[i] = "eof" \/ Tail(w)[i] \in Expected(n, g + i)
      BY Zenon DEF Fits
    <2>1. i + 1 \in 1 .. Len(w) /\ g + (i + 1) > Last(n) /\ g + i > Last(n)
      BY <1>1, <1>2, <1>6
    <2> QED
      BY <1>1, <1>6, <2>1, Zenon DEF Fits, Expected
  <1>7. Reach(n, w, g, s) => Reach(n, Tail(w), g + 1, s)
    BY <1>1, <1>2 DEF Reach
  <1>8. Reach(n, w, g, s) /\ g >= Last(n) => Reach(n, Tail(w), g, s)
    BY <1>1, <1>2 DEF Reach
  <1> QED
    BY <1>3, <1>4, <1>5, <1>6, <1>7, <1>8, Zenon

\* Messages have been queued behind w.
LEMMA SentFits ==
    ASSUME NEW n \in Nodes, NEW w, Wire(w), NoEof(w), NEW g \in Nat, NEW s \in Nat,
           NEW ms \in Seq(Messages), NoEof(ms)
    PROVE  /\ Wire(w \o ms)
           /\ Fits(n, w, g) /\ Reach(n, w, g, s) /\ s < Last(n)
                /\ (\A i \in 1 .. Len(ms) : ms[i] \in Expected(n, s + i)) =>
                Fits(n, w \o ms, g) /\ Reach(n, w \o ms, g, s + Len(ms))
           /\ Fits(n, w, g) /\ Reach(n, w, g, s) /\ s >= Last(n)
                /\ (\A i \in 1 .. Len(ms) : ms[i] \in Data) =>
                Fits(n, w \o ms, g) /\ Reach(n, w \o ms, g, s)
  <1>1. /\ w \in Seq(Messages) /\ Len(w) \in Nat /\ Len(ms) \in Nat
        /\ w \o ms \in Seq(Messages) /\ Len(w \o ms) = Len(w) + Len(ms)
        /\ \A i \in 1 .. Len(w \o ms) :
             (w \o ms)[i] = IF i <= Len(w) THEN w[i] ELSE ms[i - Len(w)]
    BY DEF Wire
  <1>2. Last(n) \in {2, 3}
    BY NodeFacts, Zenon
  <1> DEFINE v == w \o ms
  <1> HIDE DEF v
  <1>3. \A i \in 1 .. Len(v) : \/ i \in 1 .. Len(w) /\ v[i] = w[i]
                               \/ i - Len(w) \in 1 .. Len(ms) /\ v[i] = ms[i - Len(w)]
    BY <1>1 DEF v
  <1>4. Wire(v)
    BY <1>1, <1>3, Zenon DEF Wire, NoEof, v
  <1>5. ASSUME Fits(n, w, g), Reach(n, w, g, s), s < Last(n),
               \A i \in 1 .. Len(ms) : ms[i] \in Expected(n, s + i)
        PROVE  Fits(n, v, g) /\ Reach(n, v, g, s + Len(ms))
    <2>1. g + Len(w) = s
      BY <1>5, Zenon DEF Reach
    <2>2. Reach(n, v, g, s + Len(ms))
      BY <1>1, <1>2, <2>1 DEF Reach, v
    <2>3. ASSUME NEW i \in 1 .. Len(v) PROVE v[i] = "eof" \/ v[i] \in Expected(n, g + i)
      <3>1. CASE i \in 1 .. Len(w) /\ v[i] = w[i]
        BY <1>5, <3>1, Zenon DEF Fits
      <3>2. CASE i - Len(w) \in 1 .. Len(ms) /\ v[i] = ms[i - Len(w)]
        <4>1. s + (i - Len(w)) = g + i
          BY <1>1, <2>1 DEF v
        <4> QED
          BY <1>5, <3>2, <4>1, Zenon
      <3> QED
        BY <1>3, <3>1, <3>2, Zenon
    <2> QED
      BY <2>2, <2>3, Zenon DEF Fits
  <1>6. ASSUME Fits(n, w, g), Reach(n, w, g, s), s >= Last(n),
               \A i \in 1 .. Len(ms) : ms[i] \in Data
        PROVE  Fits(n, v, g) /\ Reach(n, v, g, s)
    <2>1. g + Len(w) >= Last(n)
      BY <1>2, <1>6, Zenon DEF Reach
    <2>2. Reach(n, v, g, s)
      BY <1>1, <1>2, <1>6, <2>1 DEF Reach, v
    <2>3. ASSUME NEW i \in 1 .. Len(v) PROVE v[i] = "eof" \/ v[i] \in Expected(n, g + i)
      <3>1. CASE i \in 1 .. Len(w) /\ v[i] = w[i]
        BY <1>6, <3>1, Zenon DEF Fits
      <3>2. CASE i - Len(w) \in 1 .. Len(ms) /\ v[i] = ms[i - Len(w)]
        <4>1. g + i > Last(n)
          BY <1>1, <1>2, <2>1, <3>2
        <4> QED
          BY <1>6, <3>2, <4>1, Zenon DEF Expected
      <3> QED
        BY <1>3, <3>1, <3>2, Zenon
    <2> QED
      BY <2>2, <2>3, Zenon DEF Fits
  <1> QED
    BY <1>4, <1>5, <1>6, Zenon DEF v

\* The other end is closed: some of w is lost.
LEMMA CutFits ==
    ASSUME NEW n \in Nodes, NEW w, Wire(w), NoEof(w), NEW g \in Nat, NEW q \in Cut(w)
    PROVE  Wire(q) /\ ~NoEof(q) /\ (Fits(n, w, g) => Fits(n, q, g))
  <1>1. PICK k \in 0 .. Len(w) : q = Append(SubSeq(w, 1, k), "eof")
    BY Zenon DEF Cut
  <1>2. w \in Seq(Messages) /\ Len(w) \in Nat /\ k \in Nat /\ k <= Len(w) /\ "eof" \in Messages
    BY DEF Wire, Messages
  <1>3. /\ SubSeq(w, 1, k) \in Seq(Messages) /\ Len(SubSeq(w, 1, k)) = k
        /\ \A i \in 1 .. k : SubSeq(w, 1, k)[i] = w[i]
    BY <1>2
  <1>4. /\ q \in Seq(Messages) /\ Len(q) = k + 1 /\ q[k + 1] = "eof"
        /\ \A i \in 1 .. k : q[i] = w[i]
    BY <1>1, <1>2, <1>3
  <1>5. \A i \in 1 .. Len(q) : i = k + 1 \/ i \in 1 .. k
    BY <1>2, <1>4
  <1>6. \A i \in 1 .. k : i \in 1 .. Len(w)
    BY <1>2
  <1>7. Wire(q)
    BY <1>4, <1>5, <1>6, Zenon DEF Wire, NoEof
  <1>8. k + 1 \in 1 .. Len(q)
    BY <1>2, <1>4
  <1> QED
    BY <1>4, <1>5, <1>6, <1>7, <1>8, Zenon DEF Fits, NoEof

-----------------------------------------------------------------------------
(* What a step does to the lines.                                           *)

\* The end of connection c at node n has read and sent as much as before, or is gone.
Stays(n, c) ==
  Live(n, c)' => /\ Live(n, c) /\ Got(n, c)' = Got(n, c) /\ Put(n, c)' = Put(n, c)
                 /\ Mute(n, c) => Mute(n, c)'

\* Only the end at node n of connection c may have gone on.
StaysBut(n, c) == \A k \in Nodes, d \in Conns : k # n \/ d # c => Stays(k, d)

LEMMA Counts == ASSUME NEW n \in Nodes, NEW c PROVE Got(n, c) \in Nat /\ Put(n, c) \in Nat
  <1>1. Last(n) \in {2, 3} /\ Last(Other(n)) \in {2, 3}
    BY NodeFacts, Zenon
  <1>2. Last(n) \in Nat /\ Last(n) - 1 \in Nat /\ Last(Other(n)) \in Nat /\ 0 \in Nat /\ 1 \in Nat
    BY <1>1
  <1> QED
    BY <1>2, Zenon DEF Got, Put

LEMMA LineKept ==
    ASSUME NEW n \in Nodes, NEW c \in Conns, Line(n, c), Stays(n, c), Stays(Other(n), c),
           wire'[n][c] = wire[n][c]
    PROVE  Line(n, c)'
  BY Zenon DEF Line, Stays

LEMMA LineCut ==
    ASSUME NEW n \in Nodes, NEW c \in Conns, Line(n, c), Stays(n, c), NoEof(wire[n][c]),
           wire'[n][c] \in Cut(wire[n][c])
    PROVE  Line(n, c)'
  <1>1. Wire(wire[n][c]) /\ Got(n, c) \in Nat
    BY Counts, Zenon DEF Line
  <1>2. /\ Wire(wire'[n][c]) /\ ~NoEof(wire'[n][c])
        /\ Fits(n, wire[n][c], Got(n, c)) => Fits(n, wire'[n][c], Got(n, c))
    BY <1>1, CutFits, Zenon
  <1> QED
    BY <1>2, Zenon DEF Line, Stays

\* What is on the wire after messages were sent, or not because it is closed.
Queued(n, c, w, ms) ==
  \/ NoEof(wire[n][c]) /\ w = wire[n][c] \o ms
  \/ w = wire[n][c] /\ (~NoEof(wire[n][c]) \/ ~Live(n, c))

\* The end of the other node may have sent ms.
Sends(n, c, ms) ==
  LET m == Other(n)
  IN  /\ Live(n, c) /\ ~Mute(n, c)
      /\ \/ /\ Put(n, c) < Last(m) /\ \A i \in 1 .. Len(ms) : ms[i] \in Expected(m, Put(n, c) + i)
            /\ Live(n, c)' => Put(n, c)' = Put(n, c) + Len(ms)
         \/ /\ Put(n, c) >= Last(m) /\ \A i \in 1 .. Len(ms) : ms[i] \in Data
            /\ Live(n, c)' => Put(n, c)' = Put(n, c)

LEMMA LineSent ==
    ASSUME NEW n \in Nodes, NEW c \in Conns, Line(n, c), Stays(n, c),
           NEW ms \in Seq(Messages), NoEof(ms), Sends(Other(n), c, ms),
           Queued(n, c, wire'[n][c], ms)
    PROVE  Line(n, c)'
  <1> DEFINE m == Other(n)
             w == wire[n][c]
             g == Got(n, c)
             s == Put(m, c)
  <1>1. Wire(w) /\ g \in Nat /\ s \in Nat /\ Other(m) = n /\ m \in Nodes
    BY Counts, NodeFacts, Zenon DEF Line
  <1>2. CASE NoEof(w) /\ wire'[n][c] = w \o ms
    <2>1. /\ Wire(w \o ms)
          /\ Fits(n, w, g) /\ Reach(n, w, g, s) /\ s < Last(n)
                /\ (\A i \in 1 .. Len(ms) : ms[i] \in Expected(n, s + i)) =>
                Fits(n, w \o ms, g) /\ Reach(n, w \o ms, g, s + Len(ms))
          /\ Fits(n, w, g) /\ Reach(n, w, g, s) /\ s >= Last(n)
                /\ (\A i \in 1 .. Len(ms) : ms[i] \in Data) =>
                Fits(n, w \o ms, g) /\ Reach(n, w \o ms, g, s)
      BY <1>1, <1>2, SentFits, Zenon
    <2>2. ASSUME Live(n, c)' PROVE Fits(n, w, g) /\ Reach(n, w, g, s) /\ Got(n, c)' = g
      BY <1>2, <2>2, Zenon DEF Line, Stays, Sends
    <2> QED
      BY <1>1, <1>2, <2>1, <2>2, Zenon DEF Line, Sends
  <1>3. CASE wire'[n][c] = w /\ (~NoEof(w) \/ ~Live(n, c))
    BY <1>3, Zenon DEF Line, Stays
  <1> QED
    BY <1>2, <1>3, Zenon DEF Queued

\* A message was read at node n.
Gets(n, c) ==
  /\ Live(n, c) /\ wire[n][c] # <<>> /\ Head(wire[n][c]) # "eof"
  /\ Live(n, c)' => \/ Got(n, c)' = Got(n, c) + 1
                    \/ Got(n, c)' = Got(n, c) /\ Got(n, c) >= Last(n)

LEMMA LineRead ==
    ASSUME NEW n \in Nodes, NEW c \in Conns, Line(n, c), Stays(Other(n), c), Gets(n, c),
           wire'[n][c] = Tail(wire[n][c])
    PROVE  Line(n, c)'
  <1> DEFINE w == wire[n][c]
             g == Got(n, c)
             s == Put(Other(n), c)
  <1>1. Wire(w) /\ g \in Nat /\ s \in Nat /\ w # <<>>
    BY Counts, NodeFacts, Zenon DEF Line, Gets
  <1>2. /\ Wire(Tail(w))
        /\ Head(w) # "eof" /\ NoEof(Tail(w)) => NoEof(w)
        /\ Fits(n, w, g) => Fits(n, Tail(w), g + 1)
        /\ Fits(n, w, g) /\ g >= Last(n) => Fits(n, Tail(w), g)
        /\ Reach(n, w, g, s) => Reach(n, Tail(w), g + 1, s)
        /\ Reach(n, w, g, s) /\ g >= Last(n) => Reach(n, Tail(w), g, s)
    BY <1>1, ReadFits, Zenon
  <1> QED
    BY <1>2, Zenon DEF Line, Stays, Gets

\* Range and NoEof agree.
LEMMA EofInRange == ASSUME NEW w, Wire(w) PROVE "eof" \in Range(w) <=> ~NoEof(w)
  <1>1. DOMAIN w = 1 .. Len(w)
    BY DEF Wire
  <1> QED
    BY <1>1, Zenon DEF Range, NoEof

\* The end of a closed socket is not live.
LEMMA NoneNotLive ==
    ASSUME IInv, NEW n \in Nodes, NEW c \in Conns, sock[n][c] \in {"none", "asked"}
    PROVE  ~Live(n, c)
  BY Zenon DEF IInv, Good, Peers, Live, Backlog

\* What a call of Sent changes.
QueuedOnly(W, m, c, ms) ==
  /\ Queued(m, c, W[m][c], ms)
  /\ DOMAIN W = Nodes /\ \A k \in Nodes : DOMAIN W[k] = Conns
  /\ \A k \in Nodes, d \in Conns : k # m \/ d # c => W[k][d] = wire[k][d]

LEMMA SentWire ==
    ASSUME IInv, Lines, Others, NEW n \in Nodes, NEW c \in Conns, NEW ms
    PROVE  QueuedOnly(Sent(n, c, ms), Other(n), c, ms)
  <1> DEFINE m == Other(n)
  <1>1. m \in Nodes /\ Wire(wire[m][c])
    BY NodeFacts, Zenon DEF Lines, Line
  <1>2. CASE sock[m][c] = "none" \/ "eof" \in Range(wire[m][c])
    <2>1. Sent(n, c, ms) = wire
      BY <1>2, Zenon DEF Sent
    <2>2. ~NoEof(wire[m][c]) \/ ~Live(m, c)
      BY <1>1, <1>2, EofInRange, NoneNotLive, Zenon
    <2> QED
      BY <2>1, <2>2, Zenon DEF QueuedOnly, Queued, Others
  <1>3. CASE ~(sock[m][c] = "none" \/ "eof" \in Range(wire[m][c]))
    <2>1. Sent(n, c, ms) = [wire EXCEPT ![m][c] = @ \o ms]
      BY <1>3, Zenon DEF Sent
    <2>2. NoEof(wire[m][c])
      BY <1>1, <1>3, EofInRange, Zenon
    <2> QED
      BY <1>1, <2>1, <2>2 DEF QueuedOnly, Queued, Others
  <1> QED
    BY <1>2, <1>3, Zenon

\* A read, whatever it sends.
LEMMA LinesRead ==
    ASSUME IInv, Lines, Others, NEW n \in Nodes, NEW c \in Conns,
           NEW ms \in Seq(Messages), NoEof(ms), Gets(n, c), Sends(n, c, ms),
           StaysBut(n, c), wire' = [Sent(n, c, ms) EXCEPT ![n][c] = Tail(@)]
    PROVE  Lines' /\ DOMAIN wire' = Nodes /\ \A k \in Nodes : DOMAIN wire'[k] = Conns
  <1> DEFINE m == Other(n)
             W == Sent(n, c, ms)
  <1>1. m \in Nodes /\ m # n /\ Other(m) = n /\ Nodes = {n, m}
    BY NodeFacts, Zenon
  <1>0. QueuedOnly(W, m, c, ms)
    BY SentWire, Zenon
  <1>2. /\ Queued(m, c, W[m][c], ms)
        /\ DOMAIN W = Nodes /\ \A k \in Nodes : DOMAIN W[k] = Conns
        /\ \A k \in Nodes, d \in Conns : k # m \/ d # c => W[k][d] = wire[k][d]
    BY <1>0, Zenon DEF QueuedOnly
  <1>3. wire' = [W EXCEPT ![n][c] = Tail(W[n][c])]
    BY Zenon
  <1> HIDE DEF W, m
  <1>4. /\ wire'[n][c] = Tail(wire[n][c]) /\ wire'[m][c] = W[m][c]
        /\ \A k \in Nodes, d \in Conns : d # c => wire'[k][d] = wire[k][d]
        /\ DOMAIN wire' = Nodes /\ \A k \in Nodes : DOMAIN wire'[k] = Conns
    <2>1. /\ wire'[n] = [W[n] EXCEPT ![c] = Tail(W[n][c])] /\ wire'[m] = W[m] /\ DOMAIN wire' = Nodes
      BY <1>1, <1>2, <1>3, Zenon
    <2>2. W[n][c] = wire[n][c]
      BY <1>1, <1>2, Zenon
    <2>3. /\ wire'[n][c] = Tail(wire[n][c]) /\ DOMAIN wire'[n] = Conns
          /\ \A d \in Conns : d # c => wire'[n][d] = W[n][d]
      BY <1>2, <2>1, <2>2, Zenon
    <2>4. \A d \in Conns : d # c => W[n][d] = wire[n][d] /\ W[m][d] = wire[m][d]
      BY <1>1, <1>2, Zenon
    <2>5. DOMAIN wire'[m] = Conns
      BY <1>1, <1>2, <2>1, Zenon
    <2>6. ASSUME NEW k \in Nodes
          PROVE  DOMAIN wire'[k] = Conns /\ \A d \in Conns : d # c => wire'[k][d] = wire[k][d]
      <3>1. k = n \/ k = m
        BY <1>1, Zenon
      <3>2. \A d \in Conns : d # c => wire'[n][d] = wire[n][d]
        BY <2>3, <2>4, Zenon
      <3>3. \A d \in Conns : d # c => wire'[m][d] = wire[m][d]
        BY <2>1, <2>4, Zenon
      <3> QED
        BY <2>3, <2>5, <3>1, <3>2, <3>3, Zenon
    <2> QED
      BY <2>1, <2>3, <2>6, Zenon
  <1>5. Line(n, c)'
    BY <1>1, <1>4, LineRead, Zenon DEF Lines, m, StaysBut
  <1>6. Line(m, c)'
    BY <1>1, <1>2, <1>4, LineSent, Zenon DEF Lines, StaysBut
  <1>7. ASSUME NEW k \in Nodes, NEW d \in Conns, d # c PROVE Line(k, d)'
    <2>1. Other(k) \in Nodes
      BY NodeFacts, Zenon
    <2>2. Stays(k, d) /\ Stays(Other(k), d)
      BY <1>7, <2>1, Zenon DEF StaysBut
    <2>3. Line(k, d) /\ wire'[k][d] = wire[k][d]
      BY <1>4, <1>7, Zenon DEF Lines
    <2> QED
      BY <2>2, <2>3, LineKept, Zenon
  <1>8. ASSUME NEW k \in Nodes, NEW d \in Conns PROVE Line(k, d)'
    BY <1>1, <1>5, <1>6, <1>7, Zenon
  <1> QED
    BY <1>4, <1>8, Zenon DEF Lines

\* A socket is closed at node n.
LEMMA LinesClose ==
    ASSUME IInv, Lines, Others, NEW n \in Nodes, NEW c \in Conns, Close(n, c), ~Live(n, c)',
           \A k \in Nodes, d \in Conns : Stays(k, d)
    PROVE  Lines' /\ DOMAIN wire' = Nodes /\ \A k \in Nodes : DOMAIN wire'[k] = Conns
  <1> DEFINE m == Other(n)
  <1>1. m \in Nodes /\ m # n /\ Other(m) = n /\ Nodes = {n, m} /\ Wire(wire[m][c])
    BY NodeFacts, Zenon DEF Lines, Line
  <1> HIDE DEF m
  <1>2. /\ wire'[n][c] = <<>>
        /\ \/ wire'[m][c] = wire[m][c] 
           \/ NoEof(wire[m][c]) /\ wire'[m][c] \in Cut(wire[m][c])
        /\ \A k \in Nodes, d \in Conns : d # c => wire'[k][d] = wire[k][d]
        /\ DOMAIN wire' = Nodes /\ \A k \in Nodes : DOMAIN wire'[k] = Conns
    <2>1. CASE sock[m][c] = "none" \/ "eof" \in Range(wire[m][c])
      <3>1. wire' = [wire EXCEPT ![n][c] = <<>>]
        BY <2>1, Zenon DEF Close, m
      <3> QED
        BY <1>1, <3>1, Zenon DEF Others
    <2>2. CASE ~(sock[m][c] = "none" \/ "eof" \in Range(wire[m][c]))
      <3>1. PICK q \in Cut(wire[m][c]) : wire' = [wire EXCEPT ![n][c] = <<>>, ![m][c] = q]
        BY <2>2, Zenon DEF Close, m
      <3>2. NoEof(wire[m][c])
        BY <1>1, <2>2, EofInRange, Zenon
      <3> QED
        BY <1>1, <3>1, <3>2, Zenon DEF Others
    <2> QED
      BY <2>1, <2>2, Zenon
  <1>3. Line(n, c)'
    <2>1. Wire(<<>>)
      BY DEF Wire
    <2> QED
      BY <1>2, <2>1, Zenon DEF Line
  <1>4. Line(m, c)'
    BY <1>1, <1>2, LineKept, LineCut, Zenon DEF Lines
  <1>5. ASSUME NEW k \in Nodes, NEW d \in Conns, d # c PROVE Line(k, d)'
    <2>1. Other(k) \in Nodes
      BY NodeFacts, Zenon
    <2> QED
      BY <1>2, <1>5, <2>1, LineKept, Zenon DEF Lines
  <1>6. ASSUME NEW k \in Nodes, NEW d \in Conns PROVE Line(k, d)'
    BY <1>1, <1>3, <1>4, <1>5, Zenon
  <1> QED
    BY <1>2, <1>6, Zenon DEF Lines

-----------------------------------------------------------------------------
(* The order of messages is kept.                                           *)

WInv == Roles /\ Lines /\ Others

AllStay == \A k \in Nodes, d \in Conns : Stays(k, d)

LEMMA LinesKept == ASSUME Lines, AllStay, wire' = wire PROVE Lines'
  <1> SUFFICES ASSUME NEW n \in Nodes, NEW c \in Conns PROVE Line(n, c)'
    BY Zenon DEF Lines
  <1>1. Other(n) \in Nodes
    BY NodeFacts, Zenon
  <1> QED
    BY <1>1, LineKept, Zenon DEF Lines, AllStay

\* An end whose peer is gone, or as far as it was.
LEMMA StaysIf ==
    ASSUME NEW n \in Nodes, NEW c \in Conns, Backlog(n, c)' <=> Backlog(n, c),
           sock'[n][c] = "open" => sock[n][c] = "open", locked'[n] = c <=> locked[n] = c,
           c \in DOMAIN peers'[n] =>
             /\ c \in DOMAIN peers[n] /\ peers'[n][c].noise = peers[n][c].noise
             /\ (peers'[n][c].node <=> peers[n][c].node)
             /\ (peers'[n][c].features <=> peers[n][c].features)
    PROVE  Stays(n, c)
  <1> SUFFICES ASSUME Live(n, c)'
               PROVE  /\ Live(n, c) /\ Got(n, c)' = Got(n, c) /\ Put(n, c)' = Put(n, c)
                      /\ Mute(n, c) => Mute(n, c)'
    BY Zenon DEF Stays
  <1>1. CASE Backlog(n, c)
    BY <1>1, NodesDiffer, Zenon DEF Live, Got, Put, Mute, Backlog
  <1>2. CASE ~Backlog(n, c)
    BY <1>2, Zenon DEF Live, Got, Put, Mute
  <1> QED
    BY <1>1, <1>2, Zenon

\* A node the step does not touch.
LEMMA StaysUntouched ==
    ASSUME NEW n \in Nodes, NEW c \in Conns, peers'[n] = peers[n], locked'[n] = locked[n],
           sock'[n] = sock[n]
    PROVE  Stays(n, c)
  BY StaysIf, Zenon DEF Backlog

LEMMA WiresInit == Init => WInv
  <1> SUFFICES ASSUME Init PROVE WInv
    BY Zenon
  <1>1. /\ \A n \in Nodes : DOMAIN peers[n] = {} /\ \A c \in Conns : sock[n][c] = "none" /\ wire[n][c] = <<>>
        /\ DOMAIN wire = Nodes /\ \A n \in Nodes : DOMAIN wire[n] = Conns
        /\ taken \in [Nodes -> Nat] /\ doomed \in [Nodes -> SUBSET Conns]
        /\ task \in [Tasks -> Conns \cup {"unborn", "waiting"}]
    BY DEF Init
  <1>2. Roles
    BY <1>1, NodeFacts, Zenon DEF Roles
  <1>3. ASSUME NEW n \in Nodes, NEW c \in Conns PROVE Line(n, c)
    <2>1. ~Live(n, c)
      BY <1>1, Zenon DEF Live, Backlog
    <2>2. Wire(<<>>)
      BY DEF Wire
    <2> QED
      BY <1>1, <2>1, <2>2, Zenon DEF Line
  <1> QED
    BY <1>1, <1>2, <1>3, Zenon DEF WInv, Lines, Others

\* A dials: the new connection carries act one.
LEMMA DialStep ==
    ASSUME IInv, WInv, NEW t \in Tasks, do_connect_peer(t) PROVE WInv'
  <1>1. PICK c \in Conns :
          /\ Free(c)
          /\ task' = [task EXCEPT ![t] = c]
          /\ sock' = [sock EXCEPT ![A][c] = "open", ![B][c] = "backlog"]
          /\ peers' = [peers EXCEPT ![A] = WithPeer(@, c, new_outbound_connection)]
          /\ wire' = [wire EXCEPT ![A][c] = <<>>, ![B][c] = <<"act1">>]
          /\ UNCHANGED <<locked, taken, doomed>>
    BY Zenon DEF do_connect_peer
  <1>2. A \in Nodes /\ B \in Nodes /\ Nodes = {A, B} /\ A # B /\ Other(A) = B /\ Other(B) = A
    BY NodeFacts, NodesDiffer, Zenon DEF Nodes
  <1>3. /\ peers'[B] = peers[B] /\ c \notin DOMAIN peers[A] /\ c \notin DOMAIN peers[B]
        /\ DOMAIN peers'[A] = DOMAIN peers[A] \cup {c}
        /\ \A d \in DOMAIN peers[A] : peers'[A][d] = peers[A][d]
        /\ peers'[A][c] = new_outbound_connection
    BY <1>1, <1>2, Zenon DEF Free, IInv, Shape, WithPeer
  <1>4. new_outbound_connection.noise = "ActTwo"
    BY Zenon DEF NewPeer, new_outbound_connection
  <1>5. /\ sock'[A][c] = "open" /\ sock'[B][c] = "backlog" /\ DOMAIN sock'[A] = Conns
        /\ \A k \in Nodes, d \in Conns : d # c => sock'[k][d] = sock[k][d]
    BY <1>1, <1>2, Zenon DEF IInv, Shape, Good, Types
  <1>6. /\ wire'[A][c] = <<>> /\ wire'[B][c] = <<"act1">>
        /\ \A k \in Nodes, d \in Conns : d # c => wire'[k][d] = wire[k][d]
        /\ DOMAIN wire' = Nodes /\ \A k \in Nodes : DOMAIN wire'[k] = Conns
    BY <1>1, <1>2, Zenon DEF WInv, Others
  <1>7. Others'
    BY <1>1, <1>6, Zenon DEF WInv, Others
  <1>8. Roles'
    BY <1>2, <1>3, <1>4, <1>5, ZenonT(40) DEF WInv, Roles
  <1>9. ASSUME NEW k \in Nodes, NEW d \in Conns, d # c PROVE Stays(k, d)
    <2>1. Backlog(k, d)' <=> Backlog(k, d)
      BY <1>5, <1>9, Zenon DEF Backlog
    <2>2. d \in DOMAIN peers'[k] => d \in DOMAIN peers[k] /\ peers'[k][d] = peers[k][d]
      BY <1>2, <1>3, <1>9
    <2> QED
      BY <1>1, <1>5, <1>9, <2>1, <2>2, StaysIf, Zenon
  <1>10. ASSUME NEW k \in Nodes, NEW d \in Conns, d # c PROVE Line(k, d)'
    <2>1. Stays(k, d) /\ Stays(Other(k), d)
      BY <1>9, <1>10, NodeFacts, Zenon
    <2> QED
      BY <1>6, <1>10, <2>1, LineKept, Zenon DEF WInv, Lines
  <1>11. Live(A, c)' /\ Got(A, c)' = 0 /\ Put(A, c)' = 1
    BY <1>2, <1>3, <1>4, Zenon DEF Live, Backlog, Got, Put
  <1>12. Live(B, c)' /\ Got(B, c)' = 0 /\ Put(B, c)' = 0
    BY <1>5, Zenon DEF Live, Backlog, Got, Put
  <1>13. Line(A, c)'
    <2>1. Wire(<<>>) /\ Fits(A, <<>>, 0) /\ Reach(A, <<>>, 0, 0)
      BY DEF Wire, Fits, Reach, Last
    <2> QED
      BY <1>2, <1>6, <1>11, <1>12, <2>1, Zenon DEF Line
  <1>14. Line(B, c)'
    <2>1. Wire(<<"act1">>) /\ Fits(B, <<"act1">>, 0) /\ Reach(B, <<"act1">>, 0, 1)
      BY <1>2 DEF Wire, Fits, Reach, Last, Expected, Messages
    <2> QED
      BY <1>2, <1>6, <1>11, <1>12, <2>1, Zenon DEF Line
  <1>15. ASSUME NEW k \in Nodes, NEW d \in Conns PROVE Line(k, d)'
    BY <1>2, <1>10, <1>13, <1>14, Zenon
  <1> QED
    BY <1>7, <1>8, <1>15, Zenon DEF WInv, Lines

\* The connection is accepted, or breaks.
LEMMA AcceptStep ==
    ASSUME IInv, WInv, NEW c \in Conns, setup_inbound(c) PROVE WInv'
  <1>1. A \in Nodes /\ B \in Nodes /\ Nodes = {A, B} /\ A # B
    BY NodeFacts, NodesDiffer, Zenon DEF Nodes
  <1>2. /\ sock[B][c] = "backlog" /\ sock' = [sock EXCEPT ![B][c] = "open"]
        /\ peers' = [peers EXCEPT ![B] = WithPeer(@, c, new_inbound_connection)]
        /\ UNCHANGED <<locked, wire, taken, doomed, task>>
    BY Zenon DEF setup_inbound
  <1>3. /\ peers'[A] = peers[A] /\ DOMAIN peers'[B] = DOMAIN peers[B] \cup {c}
        /\ \A d \in DOMAIN peers[B] : d # c => peers'[B][d] = peers[B][d]
        /\ peers'[B][c] = new_inbound_connection
    BY <1>1, <1>2, Zenon DEF IInv, Shape, WithPeer
  <1>4. new_inbound_connection.noise = "ActOne"
    BY Zenon DEF NewPeer, new_inbound_connection
  <1>5. /\ sock'[A] = sock[A] /\ sock'[B][c] = "open"
        /\ \A d \in Conns : d # c => sock'[B][d] = sock[B][d]
    BY <1>1, <1>2, Zenon DEF IInv, Shape, Good, Types
  <1>6. Others'
    BY <1>2, Zenon DEF WInv, Others
  <1>7. Roles'
    BY <1>1, <1>3, <1>4, <1>5, Zenon DEF WInv, Roles
  <1>8. ASSUME NEW k \in Nodes, NEW d \in Conns PROVE Stays(k, d)
    <2>1. CASE k = A
      BY <1>1, <1>2, <1>3, <1>5, <2>1, StaysUntouched, Zenon
    <2>2. CASE k = B /\ d # c
      <3>1. Backlog(k, d)' <=> Backlog(k, d)
        BY <1>5, <2>2, Zenon DEF Backlog
      <3>2. d \in DOMAIN peers'[k] => d \in DOMAIN peers[k] /\ peers'[k][d] = peers[k][d]
        BY <1>3, <2>2, Zenon
      <3> QED
        BY <1>2, <1>5, <2>2, <3>1, <3>2, StaysIf, Zenon
    <2>3. CASE k = B /\ d = c
      BY <1>1, <1>2, <1>3, <1>4, <2>3, Zenon DEF Stays, Live, Got, Put, Backlog, Mute
    <2> QED
      BY <1>1, <2>1, <2>2, <2>3, Zenon
  <1> QED
    BY <1>2, <1>6, <1>7, <1>8, LinesKept, Zenon DEF WInv, AllStay

LEMMA BreakStep == ASSUME IInv, WInv, NEW c \in Conns, Break(c) PROVE WInv'
  <1>1. PICK qa \in Cut(wire[A][c]), qb \in Cut(wire[B][c]) :
          wire' = [wire EXCEPT ![A][c] = qa, ![B][c] = qb]
    BY Zenon DEF Break
  <1>2. A \in Nodes /\ B \in Nodes /\ Nodes = {A, B} /\ A # B
    BY NodeFacts, NodesDiffer, Zenon DEF Nodes
  <1>3. /\ UNCHANGED <<peers, locked, sock, taken, doomed, task>>
        /\ "eof" \notin Range(wire[A][c]) /\ "eof" \notin Range(wire[B][c])
    BY <1>2, Zenon DEF Break
  <1>4. /\ wire'[A][c] \in Cut(wire[A][c]) /\ wire'[B][c] \in Cut(wire[B][c])
        /\ \A k \in Nodes, d \in Conns : d # c => wire'[k][d] = wire[k][d]
        /\ DOMAIN wire' = Nodes /\ \A k \in Nodes : DOMAIN wire'[k] = Conns
    BY <1>1, <1>2, Zenon DEF WInv, Others
  <1>5. Others' /\ Roles'
    BY <1>3, <1>4, Zenon DEF WInv, Others, Roles
  <1>6. ASSUME NEW k \in Nodes, NEW d \in Conns PROVE Stays(k, d)
    BY <1>3, StaysUntouched, Zenon
  <1>7. NoEof(wire[A][c]) /\ NoEof(wire[B][c])
    BY <1>2, <1>3, EofInRange, Zenon DEF WInv, Lines, Line
  <1>8. Line(A, c)' /\ Line(B, c)'
    BY <1>2, <1>4, <1>6, <1>7, LineCut, Zenon DEF WInv, Lines
  <1>9. ASSUME NEW k \in Nodes, NEW d \in Conns, d # c PROVE Line(k, d)'
    <2>1. Stays(k, d) /\ Stays(Other(k), d)
      BY <1>6, NodeFacts, Zenon
    <2> QED
      BY <1>4, <1>9, <2>1, LineKept, Zenon DEF WInv, Lines
  <1>10. ASSUME NEW k \in Nodes, NEW d \in Conns PROVE Line(k, d)'
    BY <1>2, <1>8, <1>9, Zenon
  <1> QED
    BY <1>5, <1>10, Zenon DEF WInv, Lines

\* A cannot write act one: nothing of it is on the wire, and it writes nothing more.
LEMMA FirstWriteStep == ASSUME IInv, WInv, NEW c \in Conns, FirstWriteFails(c) PROVE WInv'
  <1>1. A \in Nodes /\ B \in Nodes /\ Nodes = {A, B} /\ A # B /\ Other(A) = B /\ Other(B) = A
    BY NodeFacts, NodesDiffer, Zenon DEF Nodes
  <1>2. /\ UNCHANGED <<peers, locked, taken, doomed, task>>
        /\ wire[B][c] \in {<<"act1">>, <<"act1", "eof">>}
        /\ wire' = [wire EXCEPT ![B][c] = Tail(wire[B][c])]
    BY Zenon DEF FirstWriteFails
  <1>3. PICK s \in {"failing", "unread"} : sock' = [sock EXCEPT ![A][c] = s]
    BY Zenon DEF FirstWriteFails
  <1>4. /\ sock'[A][c] = s /\ sock'[B] = sock[B] /\ sock[A][c] = "open"
        /\ \A d \in Conns : d # c => sock'[A][d] = sock[A][d]
    BY <1>1, <1>3, Zenon DEF FirstWriteFails, IInv, Shape, Good, Types
  <1>5. /\ wire'[B][c] = Tail(wire[B][c])
        /\ \A k \in Nodes, d \in Conns : k # B \/ d # c => wire'[k][d] = wire[k][d]
        /\ DOMAIN wire' = Nodes /\ \A k \in Nodes : DOMAIN wire'[k] = Conns
    BY <1>1, <1>2, Zenon DEF WInv, Others
  <1>6. ASSUME NEW k \in Nodes, NEW d \in Conns
        PROVE  /\ sock'[k][d] = "backlog" <=> sock[k][d] = "backlog"
               /\ sock'[k][d] = "open" => sock[k][d] = "open"
    <2>1. CASE k = A /\ d = c
      BY <1>4, <2>1, Zenon
    <2>2. CASE k = A /\ d # c
      BY <1>4, <2>2, Zenon
    <2>3. CASE k = B
      BY <1>4, <2>3, Zenon
    <2> QED
      BY <1>1, <2>1, <2>2, <2>3, Zenon
  <1>7. Others' /\ Roles'
    <2>1. Others'
      BY <1>2, <1>5, Zenon DEF WInv, Others
    <2>2. \A d \in Conns : sock[A][d] # "backlog"
      BY Zenon DEF WInv, Roles
    <2>3. \A d \in Conns : sock'[A][d] # "backlog"
      BY <1>1, <1>6, <2>2, Zenon
    <2>4. Roles'
      BY <1>2, <2>3, Zenon DEF WInv, Roles
    <2> QED
      BY <2>1, <2>4, Zenon
  <1>8. ASSUME NEW k \in Nodes, NEW d \in Conns PROVE Stays(k, d)
    <2>1. Backlog(k, d)' <=> Backlog(k, d)
      BY <1>6, Zenon DEF Backlog
    <2> QED
      BY <1>2, <1>6, <2>1, StaysIf, Zenon
  <1>9. Line(B, c)'
    <2>1. /\ Wire(wire'[B][c]) /\ Fits(B, wire'[B][c], Got(B, c)) /\ 1 \in 1 .. Len(wire[B][c])
          /\ wire[B][c][1] = "act1"
      <3>1. wire'[B][c] \in {<<>>, <<"eof">>}
        <4>1. Tail(<<"act1">>) = <<>> /\ Tail(<<"act1", "eof">>) = <<"eof">>
          OBVIOUS
        <4> QED
          BY <1>2, <1>5, <4>1, Zenon
      <3>2. Wire(<<>>) /\ Wire(<<"eof">>)
        BY DEF Wire, Messages
      <3>3. Fits(B, <<>>, Got(B, c)) /\ Fits(B, <<"eof">>, Got(B, c))
        BY DEF Fits
      <3>4. 1 \in 1 .. Len(wire[B][c]) /\ wire[B][c][1] = "act1"
        <4> DEFINE w == wire[B][c]
        <4>1. w = <<"act1">> \/ w = <<"act1", "eof">>
          BY <1>2, Zenon
        <4> HIDE DEF w
        <4>2. 1 \in 1 .. Len(w) /\ w[1] = "act1"
          BY <4>1
        <4> QED
          BY <4>2, Zenon DEF w
      <3> QED
        BY <3>1, <3>2, <3>3, <3>4, Zenon
    <2>2. CASE wire[B][c] = <<"act1", "eof">>
      <3>1. ~NoEof(wire'[B][c])
        BY <1>5, <2>2 DEF NoEof
      <3> QED
        BY <1>1, <1>8, <2>1, <3>1, Zenon DEF Line, Stays
    <2>3. CASE wire[B][c] = <<"act1">>
      <3>1. ASSUME Live(B, c)', Live(A, c)' PROVE Mute(A, c)'
        <4>1. Live(B, c) /\ Live(A, c) /\ c \in DOMAIN peers[A] /\ ~Mute(A, c)
          BY <1>1, <1>4, <1>8, <3>1, Zenon DEF Stays, Live, Backlog, Mute
        <4>2. NoEof(wire[B][c]) /\ Len(wire[B][c]) = 1
          BY <2>3 DEF NoEof
        <4>3. Fits(B, wire[B][c], Got(B, c)) /\ Reach(B, wire[B][c], Got(B, c), Put(A, c))
          BY <1>1, <4>1, <4>2, Zenon DEF WInv, Lines, Line
        <4>4. "act1" \in Expected(B, Got(B, c) + 1)
          BY <2>1, <4>3, Zenon DEF Fits
        <4>5. Got(B, c) \in Nat /\ Last(B) = 3
          BY <1>1, Counts DEF Last
        <4>6. Got(B, c) = 0
          BY <1>1, <4>4, <4>5 DEF Expected, Data
        <4>7. Put(A, c) # 3
          BY <4>2, <4>3, <4>5, <4>6 DEF Reach
        <4>8. peers[A][c].noise = "ActTwo"
          <5>1. ~Backlog(A, c)
            BY <1>1, Zenon DEF Backlog
          <5>2. peers[A][c].noise \in {"ActTwo", "NoiseComplete"}
            BY <4>1, Zenon DEF WInv, Roles
          <5>3. peers[A][c].noise = "NoiseComplete" => Put(A, c) = Last(B)
            BY <1>1, <5>1, Zenon DEF Put
          <5> QED
            BY <4>5, <4>7, <5>2, <5>3, Zenon
        <4>9. s # "open"
          BY Zenon
        <4> QED
          BY <1>2, <1>4, <4>1, <4>8, <4>9, Zenon DEF Mute
      <3> QED
        BY <1>1, <1>8, <2>1, <3>1, Zenon DEF Line, Stays
    <2> QED
      BY <1>2, <2>2, <2>3, Zenon
  <1>10. ASSUME NEW k \in Nodes, NEW d \in Conns, k # B \/ d # c PROVE Line(k, d)'
    <2>1. Stays(k, d) /\ Stays(Other(k), d)
      BY <1>8, NodeFacts, Zenon
    <2> QED
      BY <1>5, <1>10, <2>1, LineKept, Zenon DEF WInv, Lines
  <1>11. ASSUME NEW k \in Nodes, NEW d \in Conns PROVE Line(k, d)'
    BY <1>9, <1>10, Zenon
  <1> QED
    BY <1>7, <1>11, Zenon DEF WInv, Lines

\* A step that only takes peers away from node n, or leaves them as far as they were,
\* and does not touch the wires.
LEMMA QuietStep ==
    ASSUME WInv, Others', wire' = wire,
           \A n \in Nodes : /\ DOMAIN peers'[n] \subseteq DOMAIN peers[n]
                            /\ \A c \in DOMAIN peers'[n] :
                                 peers'[n][c].noise = peers[n][c].noise
                            /\ \A c \in Conns : Backlog(n, c)' <=> Backlog(n, c),
           \A c \in Conns : sock'[A][c] # "backlog", AllStay
    PROVE  WInv'
  <1>1. Roles'
    BY NodeFacts, Zenon DEF WInv, Roles
  <1> QED
    BY <1>1, LinesKept, Zenon DEF WInv

\* The read task finds the end of the stream.
LEMMA EndStep ==
    ASSUME IInv, WInv, NEW n \in Nodes, NEW c \in Conns, ReadsEnd(n, c) PROVE WInv'
  <1>1. /\ sock[n][c] = "open" /\ sock' = [sock EXCEPT ![n][c] = "failing"]
        /\ UNCHANGED <<peers, locked, wire, taken, doomed, task>>
    BY Zenon DEF ReadsEnd
  <1>2. ASSUME NEW k \in Nodes, NEW d \in Conns
        PROVE  /\ sock'[k][d] = "backlog" <=> sock[k][d] = "backlog"
               /\ sock'[k][d] = "open" => sock[k][d] = "open"
    BY <1>1, Zenon DEF IInv, Shape, Good, Types
  <1>3. \A k \in Nodes, d \in Conns : Backlog(k, d)' <=> Backlog(k, d)
    BY <1>2, Zenon DEF Backlog
  <1>4. \A k \in Nodes, d \in Conns : Stays(k, d)
    BY <1>1, <1>2, <1>3, StaysIf, Zenon
  <1>5. \A d \in Conns : sock'[A][d] # "backlog"
    <2> SUFFICES ASSUME NEW d \in Conns PROVE sock'[A][d] # "backlog"
      BY Zenon
    <2>1. A \in Nodes /\ sock[A][d] # "backlog"
      BY NodeFacts, Zenon DEF WInv, Roles
    <2> QED
      BY <1>2, <2>1, Zenon
  <1>6. Others'
    BY <1>1, Zenon DEF WInv, Others
  <1> QED
    BY <1>1, <1>3, <1>4, <1>5, <1>6, QuietStep, Zenon DEF AllStay

\* The rest of Init's handling: the peer had read the message already.
LEMMA InitHandledStep ==
    ASSUME IInv, WInv, NEW n \in Nodes, InitHandled(n) PROVE WInv'
  <1>0. PICK l \in Conns : l = locked[n] /\ l \in DOMAIN peers[n]
    BY Zenon DEF InitHandled, IInv, Good, Types
  <1>1. /\ peers' = [peers EXCEPT ![n][l].features = TRUE]
        /\ locked' = [locked EXCEPT ![n] = None]
        /\ UNCHANGED <<sock, wire, taken, doomed, task>>
    BY <1>0, Zenon DEF InitHandled
  <1>2. l \in DOMAIN peers[n] /\ peers[n][l] \in Peer /\ peers[n][l].node
    BY <1>0, ConnsAssumption, Zenon DEF IInv, Good, Types, Peers
  <1>3. peers[n][l].noise = "NoiseComplete"
    BY <1>2, Zenon DEF IInv, Good, Peers
  <1>4. /\ DOMAIN peers'[n] = DOMAIN peers[n] /\ locked'[n] = None
        /\ \A d \in DOMAIN peers[n] : d # l => peers'[n][d] = peers[n][d]
        /\ peers'[n][l] = [peers[n][l] EXCEPT !.features = TRUE]
        /\ \A k \in Nodes : k # n => peers'[k] = peers[k] /\ locked'[k] = locked[k]
    BY <1>1, <1>2, Zenon DEF IInv, Shape
  <1>5. /\ peers'[n][l].noise = "NoiseComplete" /\ peers'[n][l].node /\ peers'[n][l].features
    <2>1. LET q == [peers[n][l] EXCEPT !.features = TRUE]
          IN  q.noise = peers[n][l].noise /\ (q.node <=> peers[n][l].node) /\ q.features
      BY <1>2, PeerUpdates, Zenon
    <2> QED
      BY <1>2, <1>3, <1>4, <2>1, Zenon
  <1>6. \A k \in Nodes, d \in Conns : Backlog(k, d)' <=> Backlog(k, d)
    BY <1>1, Zenon DEF Backlog
  <1>7. ~Backlog(n, l)
    BY <1>2, Zenon DEF IInv, Good, Peers, Backlog
  <1>8. Stays(n, l)
    <2>1. Live(n, l) /\ Got(n, l) = Last(n) /\ Put(n, l) = Last(Other(n))
      BY <1>0, <1>2, <1>3, <1>7, Zenon DEF Live, Got, Put
    <2>2. Got(n, l)' = Last(n) /\ Put(n, l)' = Last(Other(n))
      BY <1>2, <1>5, <1>6, <1>7, Zenon DEF Got, Put
    <2> QED
      BY <1>3, <2>1, <2>2, Zenon DEF Stays, Mute
  <1>9. ASSUME NEW d \in Conns, d # l PROVE Stays(n, d)
    <2>1. locked'[n] = d <=> locked[n] = d
      BY <1>0, <1>4, <1>9, ConnsAssumption, Zenon
    <2> QED
      BY <1>1, <1>4, <1>6, <1>9, <2>1, StaysIf, Zenon
  <1>10. ASSUME NEW k \in Nodes, k # n, NEW d \in Conns PROVE Stays(k, d)
    BY <1>1, <1>4, <1>10, StaysUntouched, Zenon
  <1>11. AllStay
    BY <1>8, <1>9, <1>10, Zenon DEF AllStay
  <1>12. Others' /\ \A d \in Conns : sock'[A][d] # "backlog"
    BY <1>1, Zenon DEF WInv, Others, Roles
  <1>13. ASSUME NEW k \in Nodes
         PROVE  /\ DOMAIN peers'[k] \subseteq DOMAIN peers[k]
                /\ \A d \in DOMAIN peers'[k] : peers'[k][d].noise = peers[k][d].noise
    <2>1. CASE k = n
      BY <1>3, <1>4, <1>5, <2>1, Zenon
    <2>2. CASE k # n
      BY <1>4, <2>2, Zenon
    <2> QED
      BY <2>1, <2>2, Zenon
  <1> QED
    BY <1>1, <1>6, <1>11, <1>12, <1>13, QuietStep, Zenon

\* Steps that leave the peers and the wires alone.
LEMMA IdleStep ==
    ASSUME WInv, UNCHANGED <<peers, locked, sock, wire>>, Others' PROVE WInv'
  <1>1. AllStay
    BY StaysUntouched, Zenon DEF AllStay
  <1>2. Roles'
    BY Zenon DEF WInv, Roles
  <1> QED
    BY <1>1, <1>2, LinesKept, Zenon DEF WInv

\* Peers of node n are taken away; their sockets are told to close.
LEMMA TakenAway ==
    ASSUME IInv, WInv, Others', wire' = wire, NEW n \in Nodes, NEW cs, UNCHANGED locked,
           DOMAIN peers'[n] \subseteq DOMAIN peers[n],
           \A c \in DOMAIN peers'[n] : peers'[n][c] = peers[n][c],
           \A k \in Nodes \ {n} : peers'[k] = peers[k], Asked(n, cs)
    PROVE  WInv'
  <1>1. ASSUME NEW k \in Nodes, NEW d \in Conns
        PROVE  /\ sock'[k][d] = "backlog" <=> sock[k][d] = "backlog"
               /\ sock'[k][d] = "open" => sock[k][d] = "open"
    BY Zenon DEF Asked, IInv, Shape, Good, Types
  <1>2. \A k \in Nodes, d \in Conns : Backlog(k, d)' <=> Backlog(k, d)
    BY <1>1, Zenon DEF Backlog
  <1>3. \A d \in Conns : sock'[A][d] # "backlog"
    <2> SUFFICES ASSUME NEW d \in Conns PROVE sock'[A][d] # "backlog"
      BY Zenon
    <2>1. A \in Nodes /\ sock[A][d] # "backlog"
      BY NodeFacts, Zenon DEF WInv, Roles
    <2> QED
      BY <1>1, <2>1, Zenon
  <1>4. ASSUME NEW k \in Nodes
        PROVE  /\ DOMAIN peers'[k] \subseteq DOMAIN peers[k]
               /\ \A d \in DOMAIN peers'[k] : peers'[k][d] = peers[k][d]
    <2>1. CASE k = n
      BY <2>1, Zenon
    <2>2. CASE k # n
      <3>1. k \in Nodes \ {n}
        BY <2>2, Zenon
      <3>2. peers'[k] = peers[k]
        BY <3>1, Zenon
      <3> QED
        BY <3>2, Zenon
    <2> QED
      BY <2>1, <2>2, Zenon
  <1>5. ASSUME NEW k \in Nodes, NEW d \in Conns PROVE Stays(k, d)
    <2>1. /\ Backlog(k, d)' <=> Backlog(k, d)
          /\ locked'[k] = d <=> locked[k] = d
      BY <1>2, Zenon
    <2>2. d \in DOMAIN peers'[k] => d \in DOMAIN peers[k] /\ peers'[k][d] = peers[k][d]
      BY <1>4, Zenon
    <2> QED
      BY <1>1, <2>1, <2>2, StaysIf, Zenon
  <1>6. \A k \in Nodes : /\ DOMAIN peers'[k] \subseteq DOMAIN peers[k]
                         /\ \A d \in DOMAIN peers'[k] : peers'[k][d].noise = peers[k][d].noise
    BY <1>4, Zenon
  <1> QED
    BY <1>2, <1>3, <1>5, <1>6, QuietStep, Zenon DEF AllStay

LEMMA DoomedStep == ASSUME IInv, WInv, NEW n \in Nodes, DoomedRemoved(n) PROVE WInv'
  <1>1. /\ peers' = [peers EXCEPT ![n] = Restrict(@, DOMAIN @ \ doomed[n])]
        /\ Asked(n, doomed[n]) /\ doomed' = [doomed EXCEPT ![n] = {}]
        /\ UNCHANGED <<locked, wire, taken, task>>
    BY Zenon DEF DoomedRemoved, Removed
  <1>2. /\ DOMAIN peers'[n] \subseteq DOMAIN peers[n]
        /\ \A c \in DOMAIN peers'[n] : peers'[n][c] = peers[n][c]
        /\ \A k \in Nodes \ {n} : peers'[k] = peers[k]
    BY <1>1, Zenon DEF IInv, Shape, Restrict
  <1>3. Others'
    BY <1>1, Zenon DEF WInv, Others
  <1> QED
    BY <1>1, <1>2, <1>3, TakenAway, Zenon

LEMMA AllGoneStep == ASSUME IInv, WInv, NEW n \in Nodes, disconnect_all_peers(n) PROVE WInv'
  <1>1. /\ peers' = [peers EXCEPT ![n] = <<>>] /\ Asked(n, DOMAIN peers[n])
        /\ UNCHANGED <<locked, wire, taken, doomed, task>>
    BY Zenon DEF disconnect_all_peers
  <1>2. /\ DOMAIN peers'[n] \subseteq DOMAIN peers[n]
        /\ \A c \in DOMAIN peers'[n] : peers'[n][c] = peers[n][c]
        /\ \A k \in Nodes \ {n} : peers'[k] = peers[k]
    BY <1>1 DEF IInv, Shape
  <1>3. Others'
    BY <1>1, Zenon DEF WInv, Others
  <1> QED
    BY <1>1, <1>2, <1>3, TakenAway, Zenon

\* A socket is closed, with or without its peer.
LEMMA CloseStep ==
    ASSUME IInv, WInv, NEW n \in Nodes, NEW c \in Conns, Close(n, c),
           sock[n][c] \in {"failing", "asked"}, UNCHANGED <<locked, taken, doomed, task>>,
           DOMAIN peers'[n] = DOMAIN peers[n] \ {c},
           \A d \in DOMAIN peers'[n] : peers'[n][d] = peers[n][d],
           \A k \in Nodes \ {n} : peers'[k] = peers[k]
    PROVE  WInv'
  <1>1. sock' = [sock EXCEPT ![n][c] = "none"]
    BY Zenon DEF Close
  <1>2. ASSUME NEW k \in Nodes, NEW d \in Conns
        PROVE  /\ sock'[k][d] = "backlog" <=> sock[k][d] = "backlog"
               /\ sock'[k][d] = "open" => sock[k][d] = "open"
    BY <1>1, Zenon DEF IInv, Shape, Good, Types
  <1>3. \A k \in Nodes, d \in Conns : Backlog(k, d)' <=> Backlog(k, d)
    BY <1>2, Zenon DEF Backlog
  <1>4. ASSUME NEW k \in Nodes, NEW d \in DOMAIN peers'[k]
        PROVE  d \in DOMAIN peers[k] /\ peers'[k][d] = peers[k][d]
    <2>1. CASE k = n
      BY <1>4, <2>1, Zenon
    <2>2. CASE k # n
      <3>1. peers'[k] = peers[k]
        BY <2>2, Zenon
      <3> QED
        BY <1>4, <3>1, Zenon
    <2> QED
      BY <2>1, <2>2, Zenon
  <1>5. \A k \in Nodes, d \in Conns : Stays(k, d)
    <2> SUFFICES ASSUME NEW k \in Nodes, NEW d \in Conns PROVE Stays(k, d)
      BY Zenon
    <2>1. Backlog(k, d)' <=> Backlog(k, d)
      BY <1>3, Zenon
    <2>2. sock'[k][d] = "open" => sock[k][d] = "open"
      BY <1>2, Zenon
    <2>3. locked'[k] = d <=> locked[k] = d
      BY Zenon
    <2>4. d \in DOMAIN peers'[k] => d \in DOMAIN peers[k] /\ peers'[k][d] = peers[k][d]
      BY <1>4, Zenon
    <2> QED
      BY <2>1, <2>2, <2>3, <2>4, StaysIf, Zenon
  <1>6. ~Live(n, c)'
    <2>1. ~Backlog(n, c)'
      BY <1>3, Zenon DEF Backlog
    <2>2. c \notin DOMAIN peers'[n]
      BY Zenon
    <2> QED
      BY <2>1, <2>2, Zenon DEF Live
  <1>7. Roles'
    <2>1. \A d \in Conns : sock[A][d] # "backlog"
      BY Zenon DEF WInv, Roles
    <2>2. A \in Nodes /\ B \in Nodes
      BY Zenon DEF Nodes
    <2>3. \A d \in Conns : sock'[A][d] # "backlog"
      BY <1>2, <2>1, <2>2, Zenon
    <2>4. \A d \in DOMAIN peers'[A] : peers'[A][d].noise \in {"ActTwo", "NoiseComplete"}
      BY <1>4, <2>2, Zenon DEF WInv, Roles
    <2>5. \A d \in DOMAIN peers'[B] : peers'[B][d].noise \in {"ActOne", "ActThree", "NoiseComplete"}
      BY <1>4, <2>2, Zenon DEF WInv, Roles
    <2> QED
      BY <2>3, <2>4, <2>5, Zenon DEF Roles
  <1>8. Lines' /\ DOMAIN wire' = Nodes /\ \A k \in Nodes : DOMAIN wire'[k] = Conns
    BY <1>5, <1>6, LinesClose, Zenon DEF WInv
  <1> QED
    BY <1>7, <1>8, Zenon DEF WInv, Others

LEMMA DisconnectStep ==
    ASSUME IInv, WInv, NEW n \in Nodes, NEW c \in Conns, disconnect_event_internal(n, c)
    PROVE  WInv'
  <1>1. /\ sock[n][c] = "failing" /\ peers' = [peers EXCEPT ![n] = Restrict(@, DOMAIN @ \ {c})]
        /\ Close(n, c) /\ UNCHANGED <<locked, taken, doomed, task>>
    BY Zenon DEF disconnect_event_internal, Removed
  <1>2. /\ DOMAIN peers'[n] = DOMAIN peers[n] \ {c}
        /\ \A d \in DOMAIN peers'[n] : peers'[n][d] = peers[n][d]
        /\ \A k \in Nodes \ {n} : peers'[k] = peers[k]
    BY <1>1, Zenon DEF IInv, Shape, Restrict
  <1>3. sock[n][c] \in {"failing", "asked"}
    BY <1>1, Zenon
  <1> QED
    BY <1>1, <1>2, <1>3, CloseStep, Zenon

LEMMA CloseAskedStep ==
    ASSUME IInv, WInv, NEW n \in Nodes, NEW c \in Conns, schedule_read_ends(n, c)
    PROVE  WInv'
  <1>1. sock[n][c] = "asked" /\ Close(n, c) /\ UNCHANGED <<peers, locked, taken, doomed, task>>
    BY Zenon DEF schedule_read_ends
  <1>2. DOMAIN peers'[n] = DOMAIN peers[n] \ {c}
    BY <1>1 DEF IInv, Good, Peers
  <1>3. sock[n][c] \in {"failing", "asked"}
    BY <1>1, Zenon
  <1> QED
    BY <1>1, <1>2, <1>3, CloseStep, Zenon

\* An end whose node is known may send pings, pongs and channel_reestablish.
LEMMA DataSends ==
    ASSUME IInv, NEW n \in Nodes, NEW c \in DOMAIN peers[n], peers[n][c].node, Stays(n, c),
           NEW ms, \A i \in 1 .. Len(ms) : ms[i] \in Data
    PROVE  Sends(n, c, ms)
  <1>1. Live(n, c)
    BY Zenon DEF Live
  <1>2. peers[n][c].noise = "NoiseComplete" /\ ~Backlog(n, c)
    BY Zenon DEF IInv, Good, Peers, Backlog
  <1>3. Put(n, c) = Last(Other(n))
    BY <1>2, Zenon DEF Put
  <1>4. Last(Other(n)) >= Last(Other(n))
    <2>1. Last(Other(n)) \in {2, 3}
      BY NodeFacts, Zenon
    <2> QED
      BY <2>1
  <1>5. Put(n, c) >= Last(Other(n))
    BY <1>3, <1>4, Zenon
  <1> QED
    BY <1>1, <1>2, <1>5, Zenon DEF Sends, Stays, Mute

\* Node n has sent such messages on some of its connections.
LEMMA LinesData ==
    ASSUME IInv, Lines, AllStay, NEW n \in Nodes,
           \A d \in Conns : wire'[n][d] = wire[n][d],
           \A d \in Conns :
             \/ wire'[Other(n)][d] = wire[Other(n)][d]
             \/ \E ms \in Seq(Messages) :
                  NoEof(ms) /\ Sends(n, d, ms) /\ Queued(Other(n), d, wire'[Other(n)][d], ms)
    PROVE  Lines'
  <1>1. Other(n) \in Nodes /\ Other(Other(n)) = n /\ Nodes = {n, Other(n)}
    BY NodeFacts, Zenon
  <1>2. ASSUME NEW d \in Conns PROVE Line(n, d)'
    BY <1>1, LineKept, Zenon DEF Lines, AllStay
  <1>3. ASSUME NEW d \in Conns PROVE Line(Other(n), d)'
    <2>1. Line(Other(n), d) /\ Stays(Other(n), d) /\ Stays(n, d)
      BY <1>1, Zenon DEF Lines, AllStay
    <2>2. CASE wire'[Other(n)][d] = wire[Other(n)][d]
      BY <1>1, <2>1, <2>2, LineKept, Zenon
    <2>3. CASE \E ms \in Seq(Messages) :
                 NoEof(ms) /\ Sends(n, d, ms) /\ Queued(Other(n), d, wire'[Other(n)][d], ms)
      <3>1. PICK ms \in Seq(Messages) :
              NoEof(ms) /\ Sends(n, d, ms) /\ Queued(Other(n), d, wire'[Other(n)][d], ms)
        BY <2>3, Zenon
      <3>2. Sends(Other(Other(n)), d, ms)
        BY <1>1, <3>1, Zenon
      <3> QED
        BY <1>1, <2>1, <3>1, <3>2, LineSent, Zenon
    <2> QED
      BY <2>2, <2>3, Zenon
  <1>4. ASSUME NEW k \in Nodes, NEW d \in Conns PROVE Line(k, d)'
    BY <1>1, <1>2, <1>3, Zenon
  <1> QED
    BY <1>4, Zenon DEF Lines

\* process_events goes on: the messages come after the Init that was sent before them.
LEMMA EventsStep == ASSUME IInv, WInv, NEW n \in Nodes, EventsQueued(n) PROVE WInv'
  <1>1. /\ taken[n] > 0 /\ taken' = [taken EXCEPT ![n] = 0]
        /\ UNCHANGED <<peers, locked, sock, doomed, task>>
    BY Zenon DEF EventsQueued
  <1>2. taken[n] \in Nat /\ taken' \in [Nodes -> Nat]
    BY <1>1, Zenon DEF WInv, Others
  <1>3. CASE wire' = wire
    <2>1. Others'
      BY <1>1, <1>2, <1>3, Zenon DEF WInv, Others
    <2> QED
      BY <1>1, <1>3, <2>1, IdleStep, Zenon
  <1>4. CASE wire' # wire
    <2>1. PICK c \in Conns : /\ c \in DOMAIN peers[n] /\ peers[n][c].features
                             /\ wire' = Sent(n, c, [i \in 1 .. taken[n] |-> "reestablish"])
      <3>1. /\ ids[n] \in DOMAIN peers[n] /\ peers[n][ids[n]].features
            /\ wire' = Sent(n, ids[n], [i \in 1 .. taken[n] |-> "reestablish"])
        BY <1>4, Zenon DEF EventsQueued
      <3>2. ids[n] \in Conns
        BY <3>1, Zenon DEF IInv, Good, Types
      <3> QED
        BY <3>1, <3>2, Zenon
    <2> DEFINE ms == [i \in 1 .. taken[n] |-> "reestablish"]
    <2>2. /\ ms \in Seq(Messages) /\ NoEof(ms) /\ \A i \in 1 .. Len(ms) : ms[i] \in Data
      BY <1>2 DEF Messages, NoEof, Data
    <2>3. wire' = Sent(n, c, ms)
      BY <2>1, Zenon
    <2> HIDE DEF ms
    <2>4. peers[n][c].node
      BY <2>1, Zenon DEF IInv, Good, Peers
    <2>5. AllStay
      BY <1>1, StaysUntouched, Zenon DEF AllStay
    <2>6. Sends(n, c, ms)
      BY <2>1, <2>2, <2>4, <2>5, DataSends, Zenon DEF AllStay
    <2>7. QueuedOnly(wire', Other(n), c, ms)
      BY <2>3, SentWire, Zenon DEF WInv
    <2>8. /\ Queued(Other(n), c, wire'[Other(n)][c], ms)
          /\ DOMAIN wire' = Nodes /\ \A k \in Nodes : DOMAIN wire'[k] = Conns
          /\ \A k \in Nodes, d \in Conns : k # Other(n) \/ d # c => wire'[k][d] = wire[k][d]
      BY <2>7, Zenon DEF QueuedOnly
    <2>9. Other(n) \in Nodes /\ Other(n) # n
      BY NodeFacts, Zenon
    <2>10. Lines'
      <3>1. \A d \in Conns : wire'[n][d] = wire[n][d]
        BY <2>8, <2>9, Zenon
      <3>2. \A d \in Conns : d # c => wire'[Other(n)][d] = wire[Other(n)][d]
        BY <2>8, <2>9, Zenon
      <3> QED
        BY <2>2, <2>5, <2>6, <2>8, <3>1, <3>2, LinesData, Zenon DEF WInv
    <2>11. Others'
      BY <1>1, <1>2, <2>8, Zenon DEF WInv, Others
    <2>12. Roles'
      BY <1>1, Zenon DEF WInv, Roles
    <2> QED
      BY <2>10, <2>11, <2>12, Zenon DEF WInv
  <1> QED
    BY <1>3, <1>4, Zenon

LEMMA TickedKeeps ==
    ASSUME NEW p \in Peer
    PROVE  LET q == Ticked(p)
           IN  q.noise = p.noise /\ (q.node <=> p.node) /\ (q.features <=> p.features)
  <1>1. ASSUME NEW k PROVE LET q == [p EXCEPT !.awaiting = k]
                           IN  q.noise = p.noise /\ (q.node <=> p.node) /\ (q.features <=> p.features)
    BY Zenon DEF Peer
  <1>2. ASSUME NEW k PROVE LET q == [p EXCEPT !.heard = FALSE, !.awaiting = k]
                           IN  q.noise = p.noise /\ (q.node <=> p.node) /\ (q.features <=> p.features)
    BY Zenon DEF Peer
  <1> QED
    BY <1>1, <1>2, Zenon DEF Ticked

\* The timer pings only peers whose node is known, so after the Init it sent them.
LEMMA TickStep == ASSUME IInv, WInv, NEW n \in Nodes, timer_tick_occurred(n) PROVE WInv'
  <1> DEFINE out == {c \in DOMAIN peers[n] : TimedOut(n, peers[n][c])}
             stay == DOMAIN peers[n] \ out
             m == Other(n)
  <1>1. /\ peers' = [peers EXCEPT ![n] =
                       [c \in DOMAIN @ |-> IF c \in out THEN @[c] ELSE Ticked(@[c])]]
        /\ wire' = [wire EXCEPT ![m] =
                      [c \in Conns |-> IF c \in stay /\ Pinged(peers[n][c])
                                       THEN Sent(n, c, <<"ping">>)[m][c] ELSE @[c]]]
        /\ doomed' = [doomed EXCEPT ![n] = out]
        /\ UNCHANGED <<locked, sock, taken, task>>
    BY Zenon DEF timer_tick_occurred
  <1>2. out \subseteq DOMAIN peers[n] /\ stay \subseteq DOMAIN peers[n] /\ DOMAIN peers[n] \subseteq Conns
    BY Zenon DEF IInv, Good, Types
  <1> HIDE DEF out, stay
  <1>3. m \in Nodes /\ m # n
    BY NodeFacts, Zenon
  <1>4. /\ DOMAIN peers'[n] = DOMAIN peers[n]
        /\ \A c \in DOMAIN peers[n] : peers'[n][c] \in {peers[n][c], Ticked(peers[n][c])}
        /\ \A k \in Nodes \ {n} : peers'[k] = peers[k]
    BY <1>1, Zenon DEF IInv, Shape
  <1>5. ASSUME NEW k \in Nodes
        PROVE  /\ DOMAIN peers'[k] = DOMAIN peers[k]
               /\ \A c \in DOMAIN peers[k] : /\ peers'[k][c].noise = peers[k][c].noise
                                             /\ (peers'[k][c].node <=> peers[k][c].node)
                                             /\ (peers'[k][c].features <=> peers[k][c].features)
    <2>1. CASE k = n
      <3> SUFFICES ASSUME NEW c \in DOMAIN peers[n]
                   PROVE  /\ peers'[n][c].noise = peers[n][c].noise
                          /\ (peers'[n][c].node <=> peers[n][c].node)
                          /\ (peers'[n][c].features <=> peers[n][c].features)
        BY <1>4, <2>1, Zenon
      <3>1. peers[n][c] \in Peer
        BY Zenon DEF IInv, Good, Types
      <3>2. peers'[n][c] = peers[n][c] \/ peers'[n][c] = Ticked(peers[n][c])
        BY <1>4, Zenon
      <3>3. LET q == Ticked(peers[n][c])
            IN  /\ q.noise = peers[n][c].noise /\ (q.node <=> peers[n][c].node)
                /\ (q.features <=> peers[n][c].features)
        BY <3>1, TickedKeeps, Zenon
      <3> QED
        BY <3>2, <3>3, Zenon
    <2>2. CASE k # n
      <3>1. peers'[k] = peers[k]
        BY <1>4, <2>2, Zenon
      <3> QED
        BY <3>1, Zenon
    <2> QED
      BY <2>1, <2>2, Zenon
  <1>6. \A k \in Nodes, c \in Conns : Backlog(k, c)' <=> Backlog(k, c)
    BY <1>1, Zenon DEF Backlog
  <1>7. AllStay
    <2> SUFFICES ASSUME NEW k \in Nodes, NEW c \in Conns PROVE Stays(k, c)
      BY Zenon DEF AllStay
    <2>1. c \in DOMAIN peers'[k] =>
             /\ c \in DOMAIN peers[k] /\ peers'[k][c].noise = peers[k][c].noise
             /\ (peers'[k][c].node <=> peers[k][c].node)
             /\ (peers'[k][c].features <=> peers[k][c].features)
      BY <1>5, Zenon
    <2>2. locked'[k] = c <=> locked[k] = c
      BY <1>1, Zenon
    <2> QED
      BY <1>1, <1>6, <2>1, <2>2, StaysIf, Zenon
  <1>8. /\ DOMAIN wire' = Nodes /\ wire'[n] = wire[n]
        /\ wire'[m] = [c \in Conns |-> IF c \in stay /\ Pinged(peers[n][c])
                                       THEN Sent(n, c, <<"ping">>)[m][c] ELSE wire[m][c]]
    BY <1>1, <1>3, Zenon DEF WInv, Others
  <1>9. ASSUME NEW d \in Conns
        PROVE  \/ wire'[m][d] = wire[m][d]
               \/ \E ms \in Seq(Messages) : NoEof(ms) /\ Sends(n, d, ms) /\ Queued(m, d, wire'[m][d], ms)
    <2>1. CASE d \in stay /\ Pinged(peers[n][d])
      <3>1. d \in DOMAIN peers[n] /\ peers[n][d].node
        BY <1>2, <2>1, Zenon DEF Pinged
      <3>2. /\ <<"ping">> \in Seq(Messages) /\ NoEof(<<"ping">>)
            /\ \A i \in 1 .. Len(<<"ping">>) : <<"ping">>[i] \in Data
        BY DEF Messages, NoEof, Data
      <3>3. Sends(n, d, <<"ping">>)
        BY <1>7, <3>1, <3>2, DataSends, Zenon DEF AllStay
      <3>4. wire'[m][d] = Sent(n, d, <<"ping">>)[m][d]
        BY <1>8, <2>1, Zenon
      <3>5. QueuedOnly(Sent(n, d, <<"ping">>), m, d, <<"ping">>)
        BY SentWire, Zenon DEF WInv
      <3>6. Queued(m, d, wire'[m][d], <<"ping">>)
        BY <3>4, <3>5, Zenon DEF QueuedOnly
      <3> QED
        BY <3>2, <3>3, <3>6, Zenon
    <2>2. CASE ~(d \in stay /\ Pinged(peers[n][d]))
      BY <1>8, <2>2, Zenon
    <2> QED
      BY <2>1, <2>2, Zenon
  <1>10. Lines'
    <2>1. \A d \in Conns : wire'[n][d] = wire[n][d]
      BY <1>8, Zenon
    <2> QED
      BY <1>7, <1>9, <2>1, LinesData, Zenon DEF WInv
  <1>11. Others'
    <2>1. DOMAIN wire'[n] = Conns /\ DOMAIN wire'[m] = Conns
      BY <1>8, Zenon DEF WInv, Others
    <2>2. \A k \in Nodes : k = n \/ k = m
      BY NodeFacts, Zenon
    <2>3. \A k \in Nodes : DOMAIN wire'[k] = Conns
      BY <2>1, <2>2, Zenon
    <2>4. doomed' \in [Nodes -> SUBSET Conns]
      BY <1>1, <1>2, Zenon DEF WInv, Others
    <2> QED
      BY <1>1, <1>8, <2>3, <2>4, Zenon DEF WInv, Others
  <1>12. Roles'
    <2>1. \A c \in DOMAIN peers'[A] : c \in DOMAIN peers[A] /\ peers'[A][c].noise = peers[A][c].noise
      BY <1>5, NodeFacts, Zenon
    <2>2. \A c \in DOMAIN peers'[B] : c \in DOMAIN peers[B] /\ peers'[B][c].noise = peers[B][c].noise
      BY <1>5, NodeFacts, Zenon
    <2> QED
      BY <1>1, <2>1, <2>2, Zenon DEF WInv, Roles
  <1> QED
    BY <1>10, <1>11, <1>12, Zenon DEF WInv

\* A read of a message that finds a peer.
LEMMA ReadStep ==
    ASSUME IInv, WInv, NEW n \in Nodes, NEW c \in DOMAIN peers[n], NEW q,
           peers' = [peers EXCEPT ![n][c] = q],
           q.noise \in (IF n = A THEN {"ActTwo", "NoiseComplete"} ELSE {"ActThree", "NoiseComplete"}),
           sock[n][c] = "open", sock' \in {sock, [sock EXCEPT ![n][c] = "failing"]},
           locked[n] = None, locked' \in {locked, [locked EXCEPT ![n] = c]},
           UNCHANGED <<taken, doomed, task>>,
           NEW ms \in Seq(Messages), NoEof(ms), Gets(n, c), Sends(n, c, ms),
           wire' = [Sent(n, c, ms) EXCEPT ![n][c] = Tail(@)]
    PROVE  WInv'
  <1>1. c \in Conns
    BY Zenon DEF IInv, Good, Types
  <1>2. /\ DOMAIN peers'[n] = DOMAIN peers[n] /\ peers'[n][c] = q
        /\ \A d \in DOMAIN peers[n] \ {c} : peers'[n][d] = peers[n][d]
        /\ \A k \in Nodes \ {n} : peers'[k] = peers[k]
    BY OnePeer, Zenon DEF IInv, Shape
  <1>3. ASSUME NEW k \in Nodes, NEW d \in Conns
        PROVE  /\ sock'[k][d] = "backlog" <=> sock[k][d] = "backlog"
               /\ sock'[k][d] = "open" => sock[k][d] = "open"
    BY <1>1 DEF IInv, Shape, Good, Types
  <1>4. \A k \in Nodes, d \in Conns : Backlog(k, d)' <=> Backlog(k, d)
    BY <1>3, Zenon DEF Backlog
  <1>5. ASSUME NEW k \in Nodes, NEW d \in Conns, k # n \/ d # c
        PROVE  Stays(k, d)
    <2>1. locked'[k] = d <=> locked[k] = d
      BY <1>5, ConnsAssumption, Zenon DEF IInv, Shape
    <2>2. d \in DOMAIN peers'[k] => d \in DOMAIN peers[k] /\ peers'[k][d] = peers[k][d]
      <3>1. CASE k = n
        BY <1>2, <1>5, <3>1, Zenon
      <3>2. CASE k # n
        BY <1>2, <3>2, Zenon
      <3> QED
        BY <3>1, <3>2, Zenon
    <2> QED
      BY <1>3, <1>4, <2>1, <2>2, StaysIf, Zenon
  <1>6. StaysBut(n, c)
    BY <1>5, Zenon DEF StaysBut
  <1>7. Lines' /\ DOMAIN wire' = Nodes /\ \A k \in Nodes : DOMAIN wire'[k] = Conns
    BY <1>1, <1>6, LinesRead, Zenon DEF WInv
  <1>8. Others'
    BY <1>7, Zenon DEF WInv, Others
  <1>9. \A d \in Conns : sock'[A][d] # "backlog"
    <2>1. A \in Nodes
      BY Zenon DEF Nodes
    <2>2. \A d \in Conns : sock[A][d] # "backlog"
      BY Zenon DEF WInv, Roles
    <2> QED
      BY <1>3, <2>1, <2>2, Zenon
  <1>10. Roles'
    <2>1. A \in Nodes /\ B \in Nodes /\ Nodes = {A, B} /\ A # B
      BY NodeFacts, NodesDiffer, Zenon DEF Nodes
    <2>2. CASE n = A
      <3>1. peers'[B] = peers[B] /\ q.noise \in {"ActTwo", "NoiseComplete"}
        BY <1>2, <2>1, <2>2, Zenon
      <3> QED
        BY <1>2, <1>9, <2>2, <3>1 DEF WInv, Roles
    <2>3. CASE n = B
      <3>1. peers'[A] = peers[A] /\ q.noise \in {"ActThree", "NoiseComplete"}
        BY <1>2, <2>1, <2>3, Zenon
      <3> QED
        BY <1>2, <1>9, <2>3, <3>1 DEF WInv, Roles
    <2> QED
      BY <2>1, <2>2, <2>3, Zenon
  <1> QED
    BY <1>7, <1>8, <1>10, Zenon DEF WInv

\* The messages of the handshake and of its end.
LEMMA Scripts ==
  /\ Last(A) = 2 /\ Last(B) = 3 /\ Other(A) = B /\ Other(B) = A
  /\ Expected(A, 1) = {"act2"} /\ Expected(A, 2) = {"init"}
  /\ Expected(B, 1) = {"act1"} /\ Expected(B, 2) = {"act3"} /\ Expected(B, 3) = {"init"}
  BY NodesDiffer DEF Last, Other, Expected

LEMMA ActThreeInit ==
  LET ms == Append(<<"act3">>, "init")
  IN  ms \in Seq(Messages) /\ Len(ms) = 2 /\ ms[1] = "act3" /\ ms[2] = "init"
  <1>1. ASSUME NEW a \in Seq(Messages), NEW x \in Messages
        PROVE  /\ Append(a, x) \in Seq(Messages) /\ Len(Append(a, x)) = Len(a) + 1
               /\ \A i \in 1 .. Len(a) : Append(a, x)[i] = a[i]
               /\ Append(a, x)[Len(a) + 1] = x
    OBVIOUS
  <1> DEFINE a == <<"act3">>
             ms == Append(a, "init")
  <1>2. a \in Seq(Messages) /\ "init" \in Messages /\ Len(a) = 1 /\ a[1] = "act3"
    BY DEF Messages
  <1> HIDE DEF a
  <1>3. /\ ms \in Seq(Messages) /\ Len(ms) = Len(a) + 1 /\ ms[Len(a) + 1] = "init"
        /\ \A i \in 1 .. Len(a) : ms[i] = a[i]
    BY <1>1, <1>2, Zenon
  <1> HIDE DEF ms
  <1>4. 1 \in 1 .. Len(a) /\ Len(a) + 1 = 2
    BY <1>2
  <1>5. ms \in Seq(Messages) /\ Len(ms) = 2 /\ ms[1] = "act3" /\ ms[2] = "init"
    BY <1>2, <1>3, <1>4, Zenon
  <1> QED
    BY <1>5, Zenon DEF ms, a

\* do_read_event, of a peer in the middle of its handshake.
LEMMA HandshakeStep ==
    ASSUME IInv, WInv, NEW n \in Nodes, NEW c \in Conns, do_read_event(n, c),
           c \in DOMAIN peers[n], peers[n][c].noise # "NoiseComplete"
    PROVE  WInv'
  <1> DEFINE p == peers[n][c]
  <1>1. /\ p \in Peer /\ sock[n][c] = "open" /\ locked[n] = None
        /\ ~p.node /\ ~p.features
    BY Zenon DEF do_read_event, IInv, Good, Types, Peers
  <1>2. /\ wire[n][c] # <<>> /\ Head(wire[n][c]) # "eof" /\ UNCHANGED <<taken, doomed, task>>
    BY Zenon DEF do_read_event
  <1>3. ~Backlog(n, c) /\ Live(n, c) /\ ~Mute(n, c)
    BY <1>1, Zenon DEF Backlog, Live, Mute
  <1>4. ASSUME sock' \in {sock, [sock EXCEPT ![n][c] = "failing"]} PROVE ~Backlog(n, c)'
    BY <1>1, <1>4, Zenon DEF Backlog, IInv, Shape, Good, Types
  <1>5. ASSUME NEW q, peers' = [peers EXCEPT ![n][c] = q] PROVE peers'[n][c] = q
    BY <1>5, Zenon DEF IInv, Shape
  <1>6. CASE p.noise = "ActOne"
    <2> DEFINE q == [p EXCEPT !.noise = "ActThree"]
    <2>1. n = B
      BY <1>6, Zenon DEF WInv, Roles, Nodes
    <2>2. /\ peers' = [peers EXCEPT ![n][c] = q] /\ UNCHANGED <<sock, locked>>
          /\ wire' = [Sent(n, c, <<"act2">>) EXCEPT ![n][c] = Tail(@)]
      BY <1>6, Zenon DEF do_read_event, Reads
    <2>3. q.noise = "ActThree"
      BY <1>1, Zenon DEF Peer
    <2> HIDE DEF q
    <2>4. Got(n, c) = 0 /\ Put(n, c) = 0
      BY <1>3, <1>6, Zenon DEF Got, Put
    <2>5. Got(n, c)' = 1 /\ Put(n, c)' = 1
      BY <1>4, <1>5, <2>2, <2>3, Zenon DEF Got, Put
    <2>6. Gets(n, c)
      BY <1>2, <1>3, <2>4, <2>5 DEF Gets
    <2>7. /\ <<"act2">> \in Seq(Messages) /\ NoEof(<<"act2">>) /\ Len(<<"act2">>) = 1
          /\ \A i \in 1 .. 1 : i = 1 /\ <<"act2">>[i] = "act2"
      BY DEF Messages, NoEof
    <2>8. Sends(n, c, <<"act2">>)
      <3>1. Put(n, c) < Last(Other(n)) /\ Put(n, c)' = Put(n, c) + 1
        BY <2>1, <2>4, <2>5, Scripts
      <3>2. \A i \in 1 .. 1 : <<"act2">>[i] \in Expected(Other(n), Put(n, c) + i)
        BY <2>1, <2>4, <2>7, Scripts
      <3> QED
        BY <1>3, <2>7, <3>1, <3>2, Zenon DEF Sends
    <2>9. q.noise \in (IF n = A THEN {"ActTwo", "NoiseComplete"} ELSE {"ActThree", "NoiseComplete"})
      BY <2>1, <2>3, NodesDiffer, Zenon
    <2> QED
      BY <1>1, <1>2, <2>2, <2>6, <2>7, <2>8, <2>9, ReadStep, Zenon
  <1>7. CASE p.noise \in {"ActTwo", "ActThree"}
    <2> DEFINE first == IF p.noise = "ActTwo" THEN <<"act3">> ELSE <<>>
    <2>1. HandshakeDone(n, c, first)
      BY <1>7, Zenon DEF do_read_event
    <2>2. /\ p.noise = "ActTwo" => n = A /\ Got(n, c) = 0 /\ Put(n, c) = 1
          /\ p.noise = "ActThree" => n = B /\ Got(n, c) = 1 /\ Put(n, c) = 1
      BY <1>3, <1>7, Zenon DEF WInv, Roles, Nodes, Got, Put
    <2>3. CASE ids[n] # None
      <3> DEFINE q == [[p EXCEPT !.noise = "NoiseComplete"] EXCEPT !.node = FALSE]
      <3>1. /\ peers' = [peers EXCEPT ![n][c] = q] /\ UNCHANGED locked
            /\ sock' = [sock EXCEPT ![n][c] = "failing"]
            /\ wire' = [Sent(n, c, first) EXCEPT ![n][c] = Tail(@)]
        BY <2>1, <2>3, Zenon DEF HandshakeDone, Fails
      <3>2. q.noise = "NoiseComplete" /\ ~q.node
        BY <1>1, PeerUpdates, Zenon
      <3> HIDE DEF q
      <3>3. ~Live(n, c)'
        BY <1>4, <1>5, <3>1, <3>2, Zenon DEF Live
      <3>4. Gets(n, c)
        BY <1>2, <1>3, <3>3, Zenon DEF Gets
      <3>5. /\ first \in Seq(Messages) /\ NoEof(first)
            /\ \A i \in 1 .. Len(first) : i = 1 /\ first[i] = "act3" /\ p.noise = "ActTwo"
        <4>1. CASE p.noise = "ActTwo"
          <5>1. first = <<"act3">>
            BY <4>1, Zenon
          <5> HIDE DEF first
          <5>2. first \in Seq(Messages) /\ Len(first) = 1 /\ first[1] = "act3"
            BY <5>1 DEF Messages
          <5>3. \A i \in 1 .. Len(first) : i = 1
            BY <5>2
          <5> QED
            BY <4>1, <5>2, <5>3, Zenon DEF NoEof
        <4>2. CASE p.noise # "ActTwo"
          <5>1. first = <<>>
            BY <4>2, Zenon
          <5> HIDE DEF first
          <5> QED
            BY <5>1 DEF NoEof
        <4> QED
          BY <4>1, <4>2, Zenon
      <3> HIDE DEF first
      <3>6. Sends(n, c, first)
        <4>1. Put(n, c) < Last(Other(n))
          BY <1>7, <2>2, Scripts
        <4>2. \A i \in 1 .. Len(first) : first[i] \in Expected(Other(n), Put(n, c) + i)
          BY <2>2, <3>5, Scripts
        <4> QED
          BY <1>3, <3>3, <4>1, <4>2, Zenon DEF Sends
      <3>7. q.noise \in (IF n = A THEN {"ActTwo", "NoiseComplete"} ELSE {"ActThree", "NoiseComplete"})
        BY <3>2, Zenon
      <3>8. sock' \in {sock, [sock EXCEPT ![n][c] = "failing"]}
        BY <3>1, Zenon
      <3> QED
        BY <1>1, <1>2, <3>1, <3>4, <3>5, <3>6, <3>7, <3>8, ReadStep, Zenon
    <2>4. CASE ids[n] = None
      <3> DEFINE q == [[p EXCEPT !.noise = "NoiseComplete"] EXCEPT !.node = TRUE, !.awaiting = 0]
                 ms == Append(first, "init")
      <3>1. /\ peers' = [peers EXCEPT ![n][c] = q] /\ UNCHANGED <<sock, locked>>
            /\ wire' = [Sent(n, c, ms) EXCEPT ![n][c] = Tail(@)]
        BY <2>1, <2>4, Zenon DEF HandshakeDone, Reads
      <3>2. q.noise = "NoiseComplete" /\ ~q.features
        BY <1>1, PeerUpdates, Zenon
      <3> HIDE DEF q
      <3>3. /\ ms \in Seq(Messages) /\ NoEof(ms)
            /\ p.noise = "ActTwo" => /\ Len(ms) = 2
                                     /\ \A i \in 1 .. 2 : \/ i = 1 /\ ms[i] = "act3"
                                                          \/ i = 2 /\ ms[i] = "init"
            /\ p.noise = "ActThree" => Len(ms) = 1 /\ \A i \in 1 .. 1 : i = 1 /\ ms[i] = "init"
        <4>1. CASE p.noise = "ActTwo"
          <5>1. first = <<"act3">>
            BY <4>1, Zenon
          <5> HIDE DEF first
          <5>2. ms \in Seq(Messages) /\ Len(ms) = 2 /\ ms[1] = "act3" /\ ms[2] = "init"
            BY <5>1, ActThreeInit, Zenon
          <5> HIDE DEF ms
          <5>3. \A i \in 1 .. 2 : i = 1 \/ i = 2
            OBVIOUS
          <5>4. "act3" # "eof" /\ "init" # "eof" /\ "ActTwo" # "ActThree"
            BY Zenon
          <5> QED
            BY <4>1, <5>2, <5>3, <5>4, Zenon DEF NoEof
        <4>2. CASE p.noise # "ActTwo"
          <5>1. ms = <<"init">>
            BY <4>2
          <5> HIDE DEF ms
          <5> QED
            BY <4>2, <5>1 DEF Messages, NoEof
        <4> QED
          BY <4>1, <4>2, Zenon
      <3> HIDE DEF ms
      <3>4. Got(n, c)' = Last(n) - 1 /\ Put(n, c)' = Last(Other(n))
        <4>1. ~Backlog(n, c)' /\ peers'[n][c] = q /\ locked'[n] # c
          BY <1>1, <1>4, <1>5, <3>1, ConnsAssumption, Zenon
        <4> QED
          BY <3>2, <4>1, Zenon DEF Got, Put
      <3>5. Gets(n, c)
        <4>1. Got(n, c)' = Got(n, c) + 1
          BY <1>7, <2>2, <3>4, Scripts
        <4> QED
          BY <1>2, <1>3, <4>1, Zenon DEF Gets
      <3>6. Sends(n, c, ms)
        <4>1. Put(n, c) < Last(Other(n)) /\ Put(n, c)' = Put(n, c) + Len(ms)
          <5>1. CASE p.noise = "ActTwo"
            <6>1. Put(n, c) = 1 /\ Last(Other(n)) = 3 /\ Len(ms) = 2 /\ Put(n, c)' = 3
              BY <2>2, <3>3, <3>4, <5>1, Scripts, Zenon
            <6> QED
              BY <6>1
          <5>2. CASE p.noise = "ActThree"
            <6>1. Put(n, c) = 1 /\ Last(Other(n)) = 2 /\ Len(ms) = 1 /\ Put(n, c)' = 2
              BY <2>2, <3>3, <3>4, <5>2, Scripts, Zenon
            <6> QED
              BY <6>1
          <5> QED
            BY <1>7, <5>1, <5>2, Zenon
        <4>2. ASSUME NEW i \in 1 .. Len(ms) PROVE ms[i] \in Expected(Other(n), Put(n, c) + i)
          <5>1. CASE p.noise = "ActTwo"
            <6>1. Other(n) = B /\ Put(n, c) = 1 /\ i \in 1 .. 2
              BY <2>2, <3>3, <5>1, Scripts, Zenon
            <6>2. CASE i = 1 /\ ms[i] = "act3"
              <7>1. Put(n, c) + i = 2
                BY <6>1, <6>2
              <7> QED
                BY <6>1, <6>2, <7>1, Scripts, Zenon
            <6>3. CASE i = 2 /\ ms[i] = "init"
              <7>1. Put(n, c) + i = 3
                BY <6>1, <6>3
              <7> QED
                BY <6>1, <6>3, <7>1, Scripts, Zenon
            <6> QED
              BY <3>3, <5>1, <6>1, <6>2, <6>3, Zenon
          <5>2. CASE p.noise = "ActThree"
            <6>1. Other(n) = A /\ Put(n, c) = 1 /\ i = 1 /\ ms[i] = "init"
              BY <2>2, <3>3, <5>2, Scripts, Zenon
            <6>2. Put(n, c) + i = 2
              BY <6>1
            <6> QED
              BY <6>1, <6>2, Scripts, Zenon
          <5> QED
            BY <1>7, <5>1, <5>2, Zenon
        <4> QED
          BY <1>3, <4>1, <4>2, Zenon DEF Sends
      <3>7. q.noise \in (IF n = A THEN {"ActTwo", "NoiseComplete"} ELSE {"ActThree", "NoiseComplete"})
        BY <3>2, Zenon
      <3> QED
        BY <1>1, <1>2, <3>1, <3>3, <3>5, <3>6, <3>7, ReadStep, Zenon
    <2> QED
      BY <2>3, <2>4, Zenon
  <1> QED
    BY <1>1, <1>6, <1>7, Zenon DEF Peer, NoiseSteps

\* What else an update of a peer leaves as it was.
LEMMA HeardKeeps ==
    ASSUME NEW p \in Peer, NEW q, q = [p EXCEPT !.heard = TRUE] \/ q = [[p EXCEPT !.heard = TRUE] EXCEPT !.awaiting = 0]
    PROVE  q.noise = p.noise /\ (q.node <=> p.node) /\ (q.features <=> p.features)
  <1>1. LET r == [p EXCEPT !.heard = TRUE]
        IN  r.noise = p.noise /\ (r.node <=> p.node) /\ (r.features <=> p.features)
    BY Zenon DEF Peer
  <1>2. LET r == [[p EXCEPT !.heard = TRUE] EXCEPT !.awaiting = 0]
        IN  r.noise = p.noise /\ (r.node <=> p.node) /\ (r.features <=> p.features)
    BY Zenon DEF Peer
  <1> QED
    BY <1>1, <1>2, Zenon

\* do_read_event, of a peer that has finished its handshake: handle_message.
LEMMA MessageStep ==
    ASSUME IInv, WInv, NEW n \in Nodes, NEW c \in Conns, do_read_event(n, c),
           c \in DOMAIN peers[n], peers[n][c].noise = "NoiseComplete"
    PROVE  WInv'
  <1> DEFINE p == peers[n][c]
             h == [p EXCEPT !.heard = TRUE]
             m == Head(wire[n][c])
  <1>1. /\ p \in Peer /\ sock[n][c] = "open" /\ locked[n] = None /\ p.node
    BY Zenon DEF do_read_event, IInv, Good, Types, Peers
  <1>2. /\ wire[n][c] # <<>> /\ m # "eof" /\ UNCHANGED <<taken, doomed, task>>
        /\ handle_message(n, c, m)
    BY Zenon DEF do_read_event
  <1>3. ~Backlog(n, c) /\ Live(n, c) /\ ~Mute(n, c)
    BY <1>1, Zenon DEF Backlog, Live, Mute
  <1>4. ASSUME sock' \in {sock, [sock EXCEPT ![n][c] = "failing"]} PROVE ~Backlog(n, c)'
    BY <1>1, <1>4, Zenon DEF Backlog, IInv, Shape, Good, Types
  <1>5. ASSUME NEW q, peers' = [peers EXCEPT ![n][c] = q] PROVE peers'[n][c] = q
    BY <1>5, Zenon DEF IInv, Shape
  <1>6. h.features <=> p.features
    BY <1>1, HeardKeeps, Zenon
  <1>7. Put(n, c) = Last(Other(n)) /\ Last(n) \in {2, 3} /\ Last(Other(n)) \in {2, 3}
    BY <1>3, NodeFacts, Zenon DEF Put
  <1>8. /\ p.features => Got(n, c) = Last(n)
        /\ ~p.features => Got(n, c) = Last(n) - 1
    BY <1>1, <1>3, ConnsAssumption, Zenon DEF Got
  <1>9. CASE m = "init" /\ ~h.features
    <2>1. /\ peers' = [peers EXCEPT ![n][c] = h] /\ UNCHANGED sock
          /\ locked' = [locked EXCEPT ![n] = c]
          /\ wire' = [Sent(n, c, <<>>) EXCEPT ![n][c] = Tail(@)]
      BY <1>2, <1>9, Zenon DEF handle_message, Reads
    <2>2. h.noise = "NoiseComplete"
      BY <1>1, HeardKeeps, Zenon
    <2>3. ~p.features
      BY <1>6, <1>9, Zenon
    <2> HIDE DEF h
    <2>4. ~Backlog(n, c)' /\ peers'[n][c] = h /\ locked'[n] = c
      BY <1>4, <1>5, <2>1, Zenon DEF IInv, Shape
    <2>5. Got(n, c)' = Last(n) /\ Put(n, c)' = Last(Other(n))
      BY <2>2, <2>4, Zenon DEF Got, Put
    <2>6. Got(n, c)' = Got(n, c) + 1
      BY <1>7, <1>8, <2>3, <2>5
    <2>7. Gets(n, c)
      BY <1>2, <1>3, <2>6, Zenon DEF Gets
    <2>8. <<>> \in Seq(Messages) /\ NoEof(<<>>) /\ \A i \in 1 .. Len(<<>>) : <<>>[i] \in Data
      BY DEF NoEof
    <2>9. Sends(n, c, <<>>)
      <3>1. Put(n, c) >= Last(Other(n)) /\ Put(n, c)' = Put(n, c)
        BY <1>7, <2>5
      <3> QED
        BY <1>3, <2>8, <3>1, Zenon DEF Sends
    <2>10. h.noise \in (IF n = A THEN {"ActTwo", "NoiseComplete"} ELSE {"ActThree", "NoiseComplete"})
      BY <2>2, Zenon
    <2>11. sock' \in {sock, [sock EXCEPT ![n][c] = "failing"]} /\ locked' \in {locked, [locked EXCEPT ![n] = c]}
      BY <2>1, Zenon
    <2> QED
      BY <1>1, <1>2, <2>1, <2>7, <2>8, <2>9, <2>10, <2>11, ReadStep, Zenon
  <1>10. CASE ~(m = "init" /\ ~h.features)
    <2>1. PICK q \in {h, [h EXCEPT !.awaiting = 0]}, ms \in {<<>>, <<"pong">>} :
            /\ peers' = [peers EXCEPT ![n][c] = q] /\ UNCHANGED locked
            /\ sock' \in {sock, [sock EXCEPT ![n][c] = "failing"]}
            /\ wire' = [Sent(n, c, ms) EXCEPT ![n][c] = Tail(@)]
      BY <1>2, <1>10, Zenon DEF handle_message, Reads, Fails
    <2>2. q.noise = "NoiseComplete" /\ (q.features <=> p.features)
      BY <1>1, <2>1, HeardKeeps, Zenon
    <2>3. p.features
      <3>1. Fits(n, wire[n][c], Got(n, c)) /\ Wire(wire[n][c])
        BY <1>3, Zenon DEF WInv, Lines, Line
      <3>2. 1 \in 1 .. Len(wire[n][c]) /\ m = wire[n][c][1]
        BY <1>2, <3>1 DEF Wire
      <3>3. m \in Expected(n, Got(n, c) + 1)
        BY <1>2, <3>1, <3>2, Zenon DEF Fits
      <3>4. ASSUME ~p.features PROVE FALSE
        <4>1. Got(n, c) + 1 = Last(n)
          BY <1>7, <1>8, <3>4
        <4>2. ~(Last(n) > Last(n))
          BY <1>7
        <4>3. m = "init"
          BY <3>3, <4>1, <4>2, Zenon DEF Expected
        <4> QED
          BY <1>6, <1>10, <3>4, <4>3, Zenon
      <3> QED
        BY <3>4, Zenon
    <2>4. ~Backlog(n, c)' /\ peers'[n][c] = q
      BY <1>4, <1>5, <2>1, Zenon
    <2>5. Got(n, c)' = Last(n) /\ Put(n, c)' = Last(Other(n))
      BY <2>2, <2>3, <2>4, Zenon DEF Got, Put
    <2>6. Got(n, c)' = Got(n, c) /\ Got(n, c) >= Last(n)
      BY <1>7, <1>8, <2>3, <2>5
    <2>7. Gets(n, c)
      BY <1>2, <1>3, <2>6, Zenon DEF Gets
    <2>8. ms \in Seq(Messages) /\ NoEof(ms) /\ \A i \in 1 .. Len(ms) : ms[i] \in Data
      <3>1. CASE ms = <<>>
        BY <3>1 DEF NoEof
      <3>2. CASE ms = <<"pong">>
        BY <3>2 DEF NoEof, Messages, Data
      <3> QED
        BY <2>1, <3>1, <3>2, Zenon
    <2>9. Sends(n, c, ms)
      <3>1. Put(n, c) >= Last(Other(n)) /\ Put(n, c)' = Put(n, c)
        BY <1>7, <2>5
      <3> QED
        BY <1>3, <2>8, <3>1, Zenon DEF Sends
    <2>10. q.noise \in (IF n = A THEN {"ActTwo", "NoiseComplete"} ELSE {"ActThree", "NoiseComplete"})
      BY <2>2, Zenon
    <2>11. locked' \in {locked, [locked EXCEPT ![n] = c]}
      BY <2>1, Zenon
    <2> QED
      BY <1>1, <1>2, <2>1, <2>7, <2>8, <2>9, <2>10, <2>11, ReadStep, Zenon
  <1> QED
    BY <1>9, <1>10, Zenon

\* do_read_event, with or without a peer.
LEMMA ReadEventStep ==
    ASSUME IInv, WInv, NEW n \in Nodes, NEW c \in Conns, do_read_event(n, c) PROVE WInv'
  <1>1. CASE c \notin DOMAIN peers[n]
    <2>1. /\ sock[n][c] \in {"open", "asked"} /\ sock' = [sock EXCEPT ![n][c] = "failing"]
          /\ UNCHANGED <<peers, locked, wire, taken, doomed, task>>
      BY <1>1, Zenon DEF do_read_event
    <2>2. ASSUME NEW k \in Nodes, NEW d \in Conns
          PROVE  /\ sock'[k][d] = "backlog" <=> sock[k][d] = "backlog"
                 /\ sock'[k][d] = "open" => sock[k][d] = "open"
      BY <2>1, Zenon DEF IInv, Shape, Good, Types
    <2>3. \A k \in Nodes, d \in Conns : Backlog(k, d)' <=> Backlog(k, d)
      BY <2>2, Zenon DEF Backlog
    <2>4. \A k \in Nodes, d \in Conns : Stays(k, d)
      BY <2>1, <2>2, <2>3, StaysIf, Zenon
    <2>5. \A d \in Conns : sock'[A][d] # "backlog"
      <3> SUFFICES ASSUME NEW d \in Conns PROVE sock'[A][d] # "backlog"
        BY Zenon
      <3>1. A \in Nodes /\ sock[A][d] # "backlog"
        BY NodeFacts, Zenon DEF WInv, Roles
      <3> QED
        BY <2>2, <3>1, Zenon
    <2>6. Others'
      BY <2>1, Zenon DEF WInv, Others
    <2> QED
      BY <2>1, <2>3, <2>4, <2>5, <2>6, QuietStep, Zenon DEF AllStay
  <1> QED
    BY <1>1, HandshakeStep, MessageStep, Zenon

LEMMA WiresStep == ASSUME IInv, WInv, [Next]_vars PROVE WInv'
  <1>1. ASSUME NEW t \in Tasks, ConnectReturns(t) PROVE WInv'
    <2>1. /\ UNCHANGED <<peers, locked, sock, wire, taken, doomed>>
          /\ task' = [task EXCEPT ![t] = "waiting"]
      BY <1>1, Zenon DEF ConnectReturns
    <2>2. Others'
      BY <2>1, Zenon DEF WInv, Others
    <2> QED
      BY <2>1, <2>2, IdleStep, Zenon
  <1>2. ASSUME NEW n \in Nodes, process_events(n) PROVE WInv'
    <2>1. /\ UNCHANGED <<peers, locked, sock, wire, doomed, task>>
          /\ taken' = [taken EXCEPT ![n] = handler[n].queue]
      BY <1>2, Zenon DEF process_events
    <2>2. handler[n].queue \in Nat
      BY Zenon DEF IInv, Good, Types, Handler
    <2>3. Others'
      BY <2>1, <2>2, Zenon DEF WInv, Others
    <2> QED
      BY <2>1, <2>3, IdleStep, Zenon
  <1>3. CASE UNCHANGED vars
    <2>1. UNCHANGED <<peers, locked, sock, wire, taken, doomed, task>>
      BY <1>3, Zenon DEF vars
    <2>2. Others'
      BY <2>1, Zenon DEF WInv, Others
    <2> QED
      BY <2>1, <2>2, IdleStep, Zenon
  <1> QED
    BY <1>1, <1>2, <1>3, DialStep, AcceptStep, FirstWriteStep, BreakStep, ReadEventStep, EndStep, DisconnectStep,
       CloseAskedStep, InitHandledStep, EventsStep, TickStep, DoomedStep, AllGoneStep, Zenon
       DEF Next, Runs

\* Whatever connections are made, refused, broken, timed out or dropped, every message
\* finds its peer at the step that expects it: the ones that do_read_event and
\* handle_message answer by ending the connection never come between these nodes.
THEOREM PeersTyped == Spec => []TypeOK
  <1>1. ASSUME IInv, WInv PROVE MessagesInOrder
    <2> SUFFICES ASSUME NEW n \in Nodes, NEW c \in DOMAIN peers[n],
                        wire[n][c] # <<>>, Head(wire[n][c]) # "eof", locked[n] # c
                 PROVE  LET m == Head(wire[n][c])
                            p == peers[n][c]
                        IN  CASE p.noise = "ActOne" -> m = "act1"
                              [] p.noise = "ActTwo" -> m = "act2"
                              [] p.noise = "ActThree" -> m = "act3"
                              [] p.noise = "NoiseComplete" /\ ~p.node -> TRUE
                              [] p.noise = "NoiseComplete" /\ p.node ->
                                   IF p.features THEN m \in {"ping", "pong", "reestablish"}
                                   ELSE m = "init"
      BY Zenon DEF MessagesInOrder
    <2> DEFINE m == Head(wire[n][c])
               p == peers[n][c]
    <2>1. c \in Conns /\ p \in Peer /\ (p.features => p.node) /\ ~Backlog(n, c)
      BY <1>1, Zenon DEF IInv, Good, Types, Peers, Backlog
    <2>2. CASE p.noise = "NoiseComplete" /\ ~p.node
      BY <2>2, Zenon
    <2>3. CASE ~(p.noise = "NoiseComplete" /\ ~p.node)
      <3>1. Live(n, c)
        BY <2>3, Zenon DEF Live
      <3>2. Fits(n, wire[n][c], Got(n, c)) /\ Wire(wire[n][c])
        BY <1>1, <2>1, <3>1, Zenon DEF WInv, Lines, Line
      <3>3. 1 \in 1 .. Len(wire[n][c]) /\ m = wire[n][c][1]
        BY <3>2 DEF Wire
      <3>4. m \in Expected(n, Got(n, c) + 1)
        BY <3>2, <3>3, Zenon DEF Fits
      <3> HIDE DEF m
      <3>5. CASE p.noise = "ActOne"
        <4>1. n = B /\ Got(n, c) + 1 = 1
          BY <1>1, <3>5 DEF WInv, Roles, Nodes, Got
        <4>2. m = "act1"
          BY <3>4, <4>1, Scripts, Zenon
        <4> QED
          BY <3>5, <4>2, Zenon DEF m
      <3>6. CASE p.noise = "ActTwo"
        <4>1. n = A /\ Got(n, c) + 1 = 1
          BY <1>1, <2>1, <3>6 DEF WInv, Roles, Nodes, Got
        <4>2. m = "act2"
          BY <3>4, <4>1, Scripts, Zenon
        <4> QED
          BY <3>6, <4>2, Zenon DEF m
      <3>7. CASE p.noise = "ActThree"
        <4>1. n = B /\ Got(n, c) + 1 = 2
          BY <1>1, <2>1, <3>7 DEF WInv, Roles, Nodes, Got
        <4>2. m = "act3"
          BY <3>4, <4>1, Scripts, Zenon
        <4> QED
          BY <3>7, <4>2, Zenon DEF m
      <3>8. CASE p.noise = "NoiseComplete"
        <4>1. Last(n) \in {2, 3}
          BY NodeFacts, Zenon
        <4>2. CASE p.features
          <5>1. Got(n, c) + 1 > Last(n)
            BY <2>1, <3>8, <4>1, <4>2 DEF Got
          <5>2. m \in {"ping", "pong", "reestablish"}
            BY <3>4, <5>1, Zenon DEF Expected, Data
          <5> QED
            BY <2>1, <3>8, <4>2, <5>2, Zenon DEF m
        <4>3. CASE ~p.features
          <5>1. Got(n, c) + 1 = Last(n) /\ ~(Got(n, c) + 1 > Last(n))
            BY <2>1, <3>8, <4>1, <4>3 DEF Got
          <5>2. m = "init"
            BY <3>4, <5>1, Zenon DEF Expected
          <5> QED
            BY <2>3, <3>8, <4>3, <5>2, Zenon DEF m
        <4> QED
          BY <4>2, <4>3, Zenon
      <3> QED
        BY <2>1, <3>5, <3>6, <3>7, <3>8, Zenon DEF Peer, NoiseSteps
    <2> QED
      BY <2>2, <2>3, Zenon
  <1>2. ASSUME IInv, WInv, NEW n \in Nodes
        PROVE  /\ DOMAIN peers[n] \subseteq {c \in Conns : sock[n][c] \in {"open", "failing", "unread"}}
               /\ Range(peers[n]) \subseteq Peer
               /\ ids[n] \in Conns \cup {None}
               /\ locked[n] \in DOMAIN peers[n] \cup {None}
               /\ handler[n] \in [up : BOOLEAN, queue : Nat, got : Nat]
               /\ taken[n] \in Nat
               /\ doomed[n] \subseteq Conns
               /\ \A t \in Tasks : task[t] \in Conns \cup {"unborn", "waiting"}
    BY <1>2 DEF IInv, Good, Types, Peers, Handler, WInv, Others, Range
  <1>3. ASSUME IInv, WInv, NEW n \in Nodes, NEW c \in Conns
        PROVE  /\ sock[n][c] \in {"none", "backlog", "open", "asked", "failing", "unread"}
               /\ \A i \in 1 .. Len(wire[n][c]) :
                     /\ wire[n][c][i] \in Messages
                     /\ wire[n][c][i] = "eof" => i = Len(wire[n][c])
    <2>1. sock[n][c] \in SockState /\ Wire(wire[n][c])
      BY <1>3, Zenon DEF IInv, Good, Types, WInv, Lines, Line
    <2> QED
      BY <2>1 DEF SockState, Wire
  <1>4. IInv /\ WInv => TypeOK
    BY <1>1, <1>2, <1>3, Zenon DEF TypeOK
  <1> QED
    BY PeersInit, PeersStep, WiresInit, WiresStep, <1>4, PTL DEF Spec
=============================================================================
