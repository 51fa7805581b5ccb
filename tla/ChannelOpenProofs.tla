-------------------------- MODULE ChannelOpenProofs --------------------------
(***************************************************************************)
(* Proofs about the opening of channels, for any number of them, any       *)
(* budget of reorganisations, lost connections and restarts, and any       *)
(* minimum_depth: the funding transaction is watched by both nodes before  *)
(* it is on its way, a restart finds a monitor for every channel, and a    *)
(* channel that counts as ready has its funding in the chain.              *)
(***************************************************************************)
EXTENDS ChannelOpenLemmas

-----------------------------------------------------------------------------
(* The inductive invariant.                                                *)

Budget == [depths : SUBSET Nat, announce : Nat, height : Nat, reorgs : Nat, breaks : Nat, restarts : Nat]

Typed ==
  /\ left \in Budget /\ opened \subseteq Opens
  /\ DOMAIN node = Peers /\ DOMAIN file = Peers /\ DOMAIN net = Peers

NodesOk ==
  \A p \in Peers : /\ NodeOk(node[p], opened, left.height)
                   /\ FileOk(file[p], DOMAIN node[p].mons, opened, left.height)

\* B opens no channels.
Quiet ==
  /\ node[B].events = <<>> /\ file[B].events = <<>> /\ node[B].hand.pc \in {"idle", "starting"}

Held(n) == DOMAIN n.chans \cup DOMAIN n.mons

Mails ==
  /\ Mail(net[A], {}, DOMAIN node[B].mons)
  /\ Mail(net[B], opened \ Held(node[B]), DOMAIN node[B].mons)

\* A funding transaction that is anywhere on its way is watched by both.
Watched ==
  \A k : \A p \in Peers :
    Fund(k) \in mempool \cup InChain(chain) \cup node[p].tasks =>
      \A q \in Peers : k \in DOMAIN node[q].mons

ChainOk == IsSeq(chain) /\ Len(chain) <= left.height /\ mempool \cap InChain(chain) = {}

IInv == Typed /\ NodesOk /\ Quiet /\ Mails /\ Watched /\ ChainOk

LEMMA Heights == ASSUME Typed PROVE left.height \in Nat /\ left.depths \subseteq Nat /\ Finite(opened)
  <1>1. Finite(opened)
    BY Fewer, FiniteIs, OpenAssumption, Zenon DEF Typed
  <1> QED
    BY <1>1, Zenon DEF Typed, Budget

LEMMA InChainNone == InChain(<<>>) = {}
  BY DEF InChain

LEMMA IInvInit == ASSUME Init PROVE IInv
  <1>1. left \in Budget
    BY OpenAssumption, Zenon DEF Init, Budget
  <1>2. left.height \in Nat
    BY <1>1, Zenon DEF Budget
  <1>3. Typed
    BY <1>1, Zenon DEF Typed, Init
  <1>4. \A p \in Peers : /\ DOMAIN node[p] = NodeFields /\ node[p].chans = <<>> /\ node[p].ids = {}
                         /\ node[p].mons = <<>> /\ node[p].view = <<>> /\ node[p].events = <<>>
                         /\ node[p].hand = Idle /\ node[p].tasks = {} /\ node[p].dead = "no"
    BY Zenon DEF Init, NodeFields
  <1>5. \A p \in Peers : /\ file[p].chans = <<>> /\ file[p].view = <<>> /\ file[p].events = <<>>
    BY Zenon DEF Init
  <1>6. A \in Peers /\ B \in Peers
    BY Zenon DEF Peers
  <1>7. IsSeq(<<>>) /\ Range(<<>>) = {} /\ Len(<<>>) = 0 /\ DOMAIN <<>> = {} /\ Distinct(<<>>)
    BY NoneOf DEF Distinct
  <1>8. Idle.pc = "idle"
    BY Zenon DEF Idle
  <1>9. NodesOk
    <2> SUFFICES ASSUME NEW p \in Peers
                 PROVE  /\ NodeOk(node[p], opened, left.height)
                        /\ FileOk(file[p], DOMAIN node[p].mons, opened, left.height)
      BY Zenon DEF NodesOk
    <2>1. Pending(node[p], opened)
      BY <1>4, <1>7, <1>8, Zenon DEF Pending
    <2>2. NodeOk(node[p], opened, left.height)
      <3>1. /\ DOMAIN node[p].chans = {} /\ DOMAIN node[p].mons = {} /\ IsSeq(node[p].view)
            /\ Len(node[p].view) <= left.height
        BY <1>2, <1>4, <1>7
      <3> QED
        BY <1>4, <2>1, <3>1, Zenon DEF NodeOk, NodeIn
    <2>3. FileOk(file[p], DOMAIN node[p].mons, opened, left.height)
      BY <1>2, <1>5, <1>7 DEF FileOk
    <2> QED
      BY <2>2, <2>3, Zenon
  <1>10. Quiet
    BY <1>4, <1>5, <1>6, <1>8, Zenon DEF Quiet
  <1>11. Mails
    <2>1. net[A] = <<>> /\ net[B] = <<>>
      BY <1>6, Zenon DEF Init
    <2> QED
      BY <2>1, MailNone, Zenon DEF Mails
  <1>12. Watched
    BY <1>4, InChainNone, Zenon DEF Watched, Init
  <1>13. ChainOk
    BY <1>2, <1>7 DEF ChainOk, Init
  <1> QED
    BY <1>3, <1>9, <1>10, <1>11, <1>12, <1>13, Zenon DEF IInv

\* A step of the nodes that leaves the files and the chain alone.
LEMMA NodesStep ==
    ASSUME IInv, Typed', left'.height = left.height, opened \subseteq opened',
           file' = file, chain' = chain, mempool' = mempool,
           \A p \in Peers : /\ NodeOk(node'[p], opened', left.height)
                            /\ DOMAIN node[p].mons \subseteq DOMAIN node'[p].mons
                            /\ \A k : Fund(k) \in node'[p].tasks =>
                                 Fund(k) \in node[p].tasks \/ \A q \in Peers : k \in DOMAIN node'[q].mons,
           node'[B].events = <<>>, node'[B].hand.pc \in {"idle", "starting"},
           Mails'
    PROVE  IInv'
  <1>1. NodesOk'
    <2>1. \A p \in Peers : FileOk(file[p], DOMAIN node'[p].mons, opened', left.height)
      <3> SUFFICES ASSUME NEW p \in Peers PROVE FileOk(file[p], DOMAIN node'[p].mons, opened', left.height)
        BY Zenon
      <3>1. FileOk(file[p], DOMAIN node[p].mons, opened, left.height)
        BY Zenon DEF IInv, NodesOk
      <3>2. DOMAIN node[p].mons \subseteq DOMAIN node'[p].mons
        BY Zenon
      <3> QED
        BY <3>1, <3>2, FileLater, Zenon
    <2> QED
      BY <2>1, Zenon DEF NodesOk
  <1>2. Quiet'
    BY Zenon DEF Quiet, IInv
  <1>3. Watched'
    BY Zenon DEF Watched, IInv
  <1>4. ChainOk'
    BY Zenon DEF ChainOk, IInv
  <1> QED
    BY <1>1, <1>2, <1>3, <1>4, Zenon DEF IInv

\* A step of one node that tells the other only plain things.
LEMMA TameStep ==
    ASSUME IInv, NEW p \in Peers, NEW m, node' = [node EXCEPT ![p] = m],
           NodeOk(m, opened, left.height), Tame(node[p], m),
           p = B => m.events = <<>> /\ m.hand.pc \in {"idle", "starting"},
           DOMAIN net' = Peers, Mail(net'[A], {}, DOMAIN node[B].mons),
           Mail(net'[B], opened \ Held(node[B]), DOMAIN node[B].mons),
           file' = file, chain' = chain, mempool' = mempool, opened' = opened,
           left' \in Budget, left'.height = left.height
    PROVE  IInv'
  <1>1. DOMAIN node' = Peers /\ node'[p] = m /\ \A q \in Peers : q # p => node'[q] = node[q]
    BY Zenon DEF IInv, Typed
  <1>2. \A q \in Peers : NodeOk(node[q], opened, left.height) /\ Tame(node[q], node[q])
    BY TameSame, Zenon DEF IInv, NodesOk
  <1>3. \A q \in Peers : NodeOk(node'[q], opened, left.height) /\ Tame(node[q], node'[q])
    <2> SUFFICES ASSUME NEW q \in Peers PROVE NodeOk(node'[q], opened, left.height) /\ Tame(node[q], node'[q])
      BY Zenon
    <2>1. CASE q = p
      BY <1>1, <2>1, Zenon
    <2>2. CASE q # p
      BY <1>1, <1>2, <2>2, Zenon
    <2> QED
      BY <2>1, <2>2, Zenon
  <1>4. B \in Peers
    BY Zenon DEF Peers
  <1>5. node'[B].events = <<>> /\ node'[B].hand.pc \in {"idle", "starting"}
    <2>1. CASE p = B
      BY <1>1, <2>1, Zenon
    <2>2. CASE p # B
      <3>1. node'[B] = node[B]
        BY <1>1, <1>4, <2>2, Zenon
      <3> QED
        BY <3>1, Zenon DEF IInv, Quiet
    <2> QED
      BY <2>1, <2>2, Zenon
  <1>6. Typed'
    BY <1>1, Zenon DEF IInv, Typed
  <1>7. Tame(node[B], node'[B])
    BY <1>3, <1>4, Zenon
  <1>8. Mails'
    <2>1. DOMAIN node[B].mons \subseteq DOMAIN node'[B].mons
          /\ opened \ Held(node[B]) \subseteq opened \ Held(node'[B])
      BY <1>7, Zenon DEF Tame, Held
    <2>2. Mail(net'[A], {}, DOMAIN node'[B].mons)
      BY <2>1, MailLater
    <2>3. Mail(net'[B], opened \ Held(node'[B]), DOMAIN node'[B].mons)
      BY <2>1, MailLater, Zenon
    <2> QED
      BY <2>2, <2>3, Zenon DEF Mails
  <1>9. \A q \in Peers : /\ DOMAIN node[q].mons \subseteq DOMAIN node'[q].mons
                         /\ \A k : Fund(k) \in node'[q].tasks => Fund(k) \in node[q].tasks
    BY <1>3, Zenon DEF Tame
  <1> QED
    BY <1>3, <1>5, <1>6, <1>8, <1>9, NodesStep, Zenon

\* What the messages that are on their way have in common, before a step.
LEMMA MailsNow ==
    ASSUME IInv
    PROVE  /\ DOMAIN net = Peers /\ left \in Budget /\ Mail(net[A], {}, DOMAIN node[B].mons)
           /\ Mail(net[B], opened \ Held(node[B]), DOMAIN node[B].mons)
           /\ left.height \in Nat /\ Finite(opened) /\ left.depths \subseteq Nat
           /\ \A p \in Peers : NodeOk(node[p], opened, left.height)
           /\ node[B].events = <<>> /\ node[B].hand.pc \in {"idle", "starting"}
  <1>1. left.height \in Nat /\ Finite(opened) /\ left.depths \subseteq Nat
    BY Heights, Zenon DEF IInv
  <1> QED
    BY <1>1, Zenon DEF IInv, Typed, Mails, NodesOk, Quiet

\* A handler of a message.
LEMMA ReceiveStep ==
    ASSUME IInv, NEW p \in Peers, net[p] # <<>>, NEW r, Good(node[p], r, opened, left.height),
           node' = [node EXCEPT ![p] = r.n], net' = Reply(r.msgs, node', p),
           UNCHANGED <<file, chain, mempool, coin, opened, left>>
    PROVE  IInv'
  <1> DEFINE M == DOMAIN node[B].mons
             S == opened \ Held(node[B])
  <1>1. DOMAIN net = Peers /\ Mail(net[A], {}, M) /\ Mail(net[B], S, M)
        /\ node[B].events = <<>> /\ node[B].hand.pc \in {"idle", "starting"} /\ left \in Budget
    BY MailsNow, Zenon
  <1>2. Sendable(r.msgs, M)
    BY SimpleSent, Zenon DEF Good
  <1> HIDE DEF M, S
  <1>3. DOMAIN net' = Peers /\ Mail(net'[A], {}, M) /\ Mail(net'[B], S, M)
    BY <1>1, <1>2, ReplyMail, Zenon
  <1>4. /\ NodeOk(r.n, opened, left.height) /\ Tame(node[p], r.n)
        /\ r.n.events = node[p].events /\ r.n.hand = node[p].hand
    BY Zenon DEF Good
  <1>5. p = B => r.n.events = <<>> /\ r.n.hand.pc \in {"idle", "starting"}
    BY <1>1, <1>4, Zenon
  <1> QED
    BY <1>1, <1>3, <1>4, <1>5, TameStep, Zenon DEF M, S

\* A step of its own, after which something may be sent.
LEMMA SyncStep ==
    ASSUME IInv, NEW p \in Peers, NEW r, Good(node[p], r, opened, left.height), Sync(p, r)
    PROVE  IInv'
  <1> DEFINE M == DOMAIN node[B].mons
             S == opened \ Held(node[B])
  <1>1. DOMAIN net = Peers /\ Mail(net[A], {}, M) /\ Mail(net[B], S, M)
        /\ node[B].events = <<>> /\ node[B].hand.pc \in {"idle", "starting"} /\ left \in Budget
    BY MailsNow, Zenon
  <1>2. Sendable(r.msgs, M)
    BY SimpleSent, Zenon DEF Good
  <1>3. /\ node' = [node EXCEPT ![p] = r.n]
        /\ net' = [net EXCEPT ![Other(p)] = IF node[A].up /\ node[B].up THEN @ \o r.msgs ELSE @]
        /\ UNCHANGED <<file, chain, mempool, coin, opened, left>>
    BY Zenon DEF Sync
  <1> DEFINE o == Other(p)
             q == r.msgs
  <1>4. o \in Peers
    BY Peer, Zenon
  <1>5. net' = Sent(o, q)
    BY <1>3, Zenon DEF Sent
  <1> HIDE DEF M, S, o, q
  <1>6. DOMAIN net' = Peers /\ Mail(net'[A], {}, M) /\ Mail(net'[B], S, M)
    BY <1>1, <1>2, <1>4, <1>5, SentMail, Zenon DEF q
  <1>7. /\ NodeOk(r.n, opened, left.height) /\ Tame(node[p], r.n)
        /\ r.n.events = node[p].events /\ r.n.hand = node[p].hand
    BY Zenon DEF Good
  <1>8. p = B => r.n.events = <<>> /\ r.n.hand.pc \in {"idle", "starting"}
    BY <1>1, <1>7, Zenon
  <1> QED
    BY <1>1, <1>3, <1>6, <1>7, <1>8, TameStep, Zenon DEF M, S

-----------------------------------------------------------------------------
(* The steps.                                                              *)

LEMMA ReadyStep == ASSUME IInv, NEW p \in Peers, internal_channel_ready(p) PROVE IInv'
  <1> DEFINE m == Head(net[p])
             n == node[p]
             r == ReadyResult(n, m.k, n.chans[m.k])
  <1>1. /\ net[p] # <<>> /\ m.k \in DOMAIN n.chans
        /\ node' = [node EXCEPT ![p] = r.n] /\ net' = Reply(r.msgs, node', p)
        /\ UNCHANGED <<file, chain, mempool, coin, opened, left>>
    BY Zenon DEF internal_channel_ready, Receive, Knows, ReadyResult
  <1>2. NodeOk(n, opened, left.height)
    BY MailsNow, Zenon
  <1> HIDE DEF m
  <1>3. Good(n, r, opened, left.height)
    BY <1>1, <1>2, ReadyGood, Zenon
  <1> HIDE DEF r
  <1> QED
    BY <1>1, <1>3, ReceiveStep, Zenon

LEMMA SigsStep == ASSUME IInv, NEW p \in Peers, internal_announcement_signatures(p) PROVE IInv'
  <1> DEFINE m == Head(net[p])
             n == node[p]
             r == SigsResult(n, m.k, n.chans[m.k], m.scid)
  <1>1. /\ net[p] # <<>> /\ m.k \in DOMAIN n.chans
        /\ node' = [node EXCEPT ![p] = r.n] /\ net' = Reply(r.msgs, node', p)
        /\ UNCHANGED <<file, chain, mempool, coin, opened, left>>
    BY Zenon DEF internal_announcement_signatures, Receive, Knows, SigsResult
  <1>2. NodeOk(n, opened, left.height)
    BY MailsNow, Zenon
  <1> HIDE DEF m
  <1>3. Good(n, r, opened, left.height)
    BY <1>1, <1>2, SigsGood, Zenon
  <1> HIDE DEF r
  <1> QED
    BY <1>1, <1>3, ReceiveStep, Zenon

LEMMA ReestablishStep == ASSUME IInv, NEW p \in Peers, internal_channel_reestablish(p) PROVE IInv'
  <1> DEFINE m == Head(net[p])
             n == node[p]
             r == ReestablishResult(n, m.k, n.chans[m.k])
  <1>1. /\ net[p] # <<>> /\ m.k \in DOMAIN n.chans
        /\ node' = [node EXCEPT ![p] = r.n] /\ net' = Reply(r.msgs, node', p)
        /\ UNCHANGED <<file, chain, mempool, coin, opened, left>>
    BY Zenon DEF internal_channel_reestablish, Receive, Knows, ReestablishResult
  <1>2. NodeOk(n, opened, left.height) /\ left.height \in Nat
    BY MailsNow, Zenon
  <1> HIDE DEF m
  <1>3. Good(n, r, opened, left.height)
    BY <1>1, <1>2, ReestablishGood, Zenon
  <1> HIDE DEF r
  <1> QED
    BY <1>1, <1>3, ReceiveStep, Zenon

LEMMA ErrorStep == ASSUME IInv, NEW p \in Peers, handle_error(p) PROVE IInv'
  <1> DEFINE m == Head(net[p])
             n == node[p]
             r == Result(Shutdown(n, {m.k}, TRUE), <<>>)
  <1>1. /\ net[p] # <<>> /\ m.k \in DOMAIN n.chans
        /\ node' = [node EXCEPT ![p] = r.n] /\ net' = Reply(r.msgs, node', p)
        /\ UNCHANGED <<file, chain, mempool, coin, opened, left>>
    BY Zenon DEF handle_error, Receive, Knows
  <1>2. NodeOk(n, opened, left.height)
    BY MailsNow, Zenon
  <1> HIDE DEF m
  <1>3. Good(n, r, opened, left.height)
    BY <1>1, <1>2, ShutdownGood, SimpleNone, Zenon
  <1> HIDE DEF r
  <1> QED
    BY <1>1, <1>3, ReceiveStep, Zenon

\* A message about a channel the node does not have.
LEMMA UnknownStep == ASSUME IInv, NEW p \in Peers, UnknownChannel(p) PROVE IInv'
  <1> DEFINE M == DOMAIN node[B].mons
             S == opened \ Held(node[B])
             m == Head(net[p])
             q == If(m.type # "error", Error(m.k, IdIn(m)))
  <1>1. /\ net[p] # <<>> /\ net' = Reply(q, node, p)
        /\ UNCHANGED <<node, file, chain, mempool, coin, opened, left>>
    BY Zenon DEF UnknownChannel
  <1>2. DOMAIN net = Peers /\ Mail(net[A], {}, M) /\ Mail(net[B], S, M)
    BY MailsNow, Zenon
  <1>3. Sendable(q, M)
    <2>1. Simple(q)
      BY SimpleIf, PlainMsgs, Zenon
    <2> QED
      BY <2>1, SimpleSent, Zenon
  <1> HIDE DEF M, S, q
  <1>4. DOMAIN net' = Peers /\ Mail(net'[A], {}, M) /\ Mail(net'[B], S, M)
    BY <1>1, <1>2, <1>3, ReplyMail, Zenon
  <1>5. Mails' /\ Typed'
    BY <1>1, <1>4, Zenon DEF Mails, Typed, IInv, M, S
  <1>6. NodesOk' /\ Quiet' /\ Watched' /\ ChainOk'
    BY <1>1, Zenon DEF IInv, NodesOk, Quiet, Watched, ChainOk
  <1> QED
    BY <1>5, <1>6, Zenon DEF IInv

\* A opens a channel.
LEMMA CreateStep == ASSUME IInv, NEW k \in Opens, create_channel(k) PROVE IInv'
  <1> DEFINE n == node[A]
             c == new_outbound
             m == Put(n, k, c)
             P == opened \cup {k}
             h == left.height
             M == DOMAIN node[B].mons
             S == opened \ Held(node[B])
             T == P \ Held(node[B])
  <1>1. /\ k \notin opened /\ opened' = P /\ node' = [node EXCEPT ![A] = m]
        /\ net' = [net EXCEPT ![B] = IF node[A].up /\ node[B].up
                                     THEN Append(@, Msg("open_channel", k)) ELSE @]
        /\ UNCHANGED <<file, chain, mempool, coin, left>>
    BY Zenon DEF create_channel
  <1>2. /\ DOMAIN net = Peers /\ Mail(net[A], {}, M) /\ Mail(net[B], S, M) /\ h \in Nat
        /\ \A p \in Peers : NodeOk(node[p], opened, h)
        /\ node[B].events = <<>> /\ node[B].hand.pc \in {"idle", "starting"}
    BY MailsNow, Zenon
  <1>3. A \in Peers /\ B \in Peers /\ A # B
    BY Peer, Zenon DEF Peers
  <1>4. \A p \in Peers : NodeOk(node[p], P, h) /\ k \notin Held(node[p])
    <2>1. \A p \in Peers : k \notin Held(node[p])
      BY <1>1, <1>2, Zenon DEF NodeOk, NodeIn, Held
    <2>2. opened \subseteq P
      BY Zenon
    <2> HIDE DEF P
    <2> QED
      BY <1>2, <2>1, <2>2, MoreOpened, Zenon
  <1>5. ChanOk(c, k, n.view, h) /\ ~is_funding_initiated(c)
    BY <1>2, NewKeeps, Zenon DEF new_outbound
  <1>6. NodeOk(m, P, h) /\ m.mons = n.mons /\ m.tasks = n.tasks
    <2>1. NodeOk(n, opened, h) /\ NodeOk(n, P, h) /\ DOMAIN n = NodeFields
      BY <1>2, <1>3, <1>4, Zenon DEF NodeOk, NodeIn
    <2>2. k \notin DOMAIN n.chans /\ k \notin DOMAIN n.mons
      BY <1>3, <1>4, Zenon DEF Held
    <2>3. k \notin Range(n.events) /\ (n.hand.pc \in {"signed", "taken"} => n.hand.k # k)
      BY <1>1, <2>1, Zenon DEF NodeOk, NodeIn, Pending
    <2>4. k \in P
      BY Zenon
    <2> HIDE DEF n, c, P, h
    <2>5. DOMAIN m = NodeFields /\ DOMAIN m.chans = DOMAIN n.chans \cup {k} /\ m.chans[k] = c
      BY <2>1, PutIs
    <2>6. \A j \in DOMAIN n.chans \ {k} : m.chans[j] = n.chans[j]
      BY <2>1, PutIs
    <2>7. /\ m.ids = n.ids /\ m.mons = n.mons /\ m.view = n.view
          /\ m.events = n.events /\ m.hand = n.hand /\ m.tasks = n.tasks /\ m.dead = n.dead
      BY <2>1, PutIs
    <2> HIDE DEF m
    <2>8. m.hand = n.hand /\ (m.hand.pc \in {"signed", "taken"} => m.hand.k # k)
      BY <2>3, <2>7, Zenon
    <2>9. NodeOk(m, P, h)
      BY <1>5, <2>1, <2>2, <2>3, <2>4, <2>5, <2>6, <2>7, <2>8, PutNew, Zenon
    <2> QED
      BY <2>7, <2>9, Zenon
  <1>7. DOMAIN node' = Peers /\ node'[A] = m /\ node'[B] = node[B]
    BY <1>1, <1>3, Zenon DEF IInv, Typed
  <1>8. DOMAIN net' = Peers /\ net'[A] = net[A] /\ Mail(net'[B], T, M)
    <2>1. DOMAIN net' = Peers /\ net'[A] = net[A]
          /\ (net'[B] = net[B] \/ net'[B] = Append(net[B], Msg("open_channel", k)))
      BY <1>1, <1>2, <1>3, Zenon
    <2>2. k \notin S /\ T = S \cup {k}
      BY <1>1, <1>3, <1>4, Zenon
    <2> HIDE DEF S, T
    <2>3. Mail(Append(net[B], Msg("open_channel", k)), T, M)
      BY <1>2, <2>2, MailOpen, Zenon
    <2>4. Mail(net[B], T, M)
      BY <1>2, <2>2, MailLater, Zenon
    <2> QED
      BY <2>1, <2>3, <2>4, Zenon
  <1> HIDE DEF m
  <1>9. Mails'
    BY <1>1, <1>2, <1>7, <1>8, Zenon DEF Mails
  <1>10. Typed'
    BY <1>1, <1>7, <1>8, Zenon DEF IInv, Typed
  <1>11. \A p \in Peers : /\ NodeOk(node'[p], opened', h) /\ node'[p].mons = node[p].mons
                          /\ node'[p].tasks = node[p].tasks
    BY <1>1, <1>3, <1>4, <1>6, <1>7, Peer, Zenon
  <1>12. node'[B].events = <<>> /\ node'[B].hand.pc \in {"idle", "starting"} /\ opened \subseteq opened'
    BY <1>1, <1>2, <1>7, Zenon
  <1>13. \A p \in Peers : /\ NodeOk(node'[p], opened', left.height)
                          /\ DOMAIN node[p].mons \subseteq DOMAIN node'[p].mons
                          /\ \A j : Fund(j) \in node'[p].tasks =>
                               Fund(j) \in node[p].tasks \/ \A q \in Peers : j \in DOMAIN node'[q].mons
    BY <1>11, Zenon
  <1> QED
    BY <1>1, <1>9, <1>10, <1>12, <1>13, NodesStep, Zenon

\* B answers.
LEMMA OpenStep == ASSUME IInv, NEW k \in Opens, internal_open_channel(k) PROVE IInv'
  <1> DEFINE n == node[B]
             h == left.height
             M == DOMAIN n.mons
             S == opened \ Held(n)
  <1>1. /\ net[B] # <<>> /\ Head(net[B]) = Msg("open_channel", k)
        /\ UNCHANGED <<file, chain, mempool, coin, opened, left>>
    BY Zenon DEF internal_open_channel
  <1>2. /\ DOMAIN net = Peers /\ Mail(net[A], {}, M) /\ Mail(net[B], S, M) /\ h \in Nat
        /\ \A p \in Peers : NodeOk(node[p], opened, h)
        /\ n.events = <<>> /\ n.hand.pc \in {"idle", "starting"} /\ left.depths \subseteq Nat
    BY MailsNow, Zenon
  <1>3. A \in Peers /\ B \in Peers /\ A # B
    BY Peer, Zenon DEF Peers
  <1>4. Head(net[B]).type = "open_channel" /\ Head(net[B]).k = k
    BY <1>1 DEF Msg
  <1>5. k \in S /\ Mail(Tail(net[B]), S \ {k}, M) /\ Mail(Tail(net[B]), S, M)
    BY <1>1, <1>2, <1>4, MailTail, Zenon
  <1>6. CASE \E depth \in left.depths :
               /\ node' = [node EXCEPT ![B] = Put(@, k, new_from_req(depth, Len(node[B].view)))]
               /\ net' = Reply(<<[type |-> "accept_channel", k |-> k, depth |-> depth]>>, node, B)
    <2>1. PICK depth \in left.depths :
               /\ node' = [node EXCEPT ![B] = Put(@, k, new_from_req(depth, Len(node[B].view)))]
               /\ net' = Reply(<<[type |-> "accept_channel", k |-> k, depth |-> depth]>>, node, B)
      BY <1>6, Zenon
    <2> DEFINE c == new_from_req(depth, Len(n.view))
               m == Put(n, k, c)
               a == [type |-> "accept_channel", k |-> k, depth |-> depth]
    <2>2. node' = [node EXCEPT ![B] = m] /\ net' = Reply(<<a>>, node, B)
      BY <2>1, Zenon
    <2>3. Sendable(<<a>>, M)
      <3>1. a.type = "accept_channel" /\ a.depth \in Nat
        BY <1>2, Zenon
      <3> HIDE DEF a
      <3> QED
        BY <3>1, OneOf DEF Sendable, Tells
    <2>4. DOMAIN net' = Peers /\ net'[B] = Tail(net[B]) /\ (net'[A] = net[A] \/ net'[A] = net[A] \o <<a>>)
      BY <1>2, <1>3, <2>2, Peer, Zenon DEF Reply
    <2> HIDE DEF a
    <2>5. Mail(net'[A], {}, M)
      <3>1. Mail(net[A] \o <<a>>, {}, M)
        BY <1>2, <2>3, MailJoin, Zenon
      <3> QED
        BY <1>2, <2>4, <3>1, Zenon
    <2>6. ChanOk(c, k, n.view, h) /\ ~is_funding_initiated(c)
      <3>1. depth \in Nat
        BY <1>2, Zenon
      <3> QED
        BY <1>2, <3>1, NewKeeps, Zenon DEF new_from_req
    <2>7. NodeOk(n, opened, h) /\ DOMAIN n = NodeFields
      BY <1>2, <1>3, Zenon DEF NodeOk, NodeIn
    <2>8. k \in opened /\ k \notin DOMAIN n.chans /\ k \notin DOMAIN n.mons
      BY <1>5, Zenon DEF Held
    <2>9. k \notin Range(n.events) /\ ~(n.hand.pc \in {"signed", "taken"})
      BY <1>2, NoneOf, Zenon
    <2> HIDE DEF n, c, h, M, S
    <2>10. DOMAIN m = NodeFields /\ DOMAIN m.chans = DOMAIN n.chans \cup {k} /\ m.chans[k] = c
      BY <2>7, PutIs
    <2>11. \A j \in DOMAIN n.chans \ {k} : m.chans[j] = n.chans[j]
      BY <2>7, PutIs
    <2>12. /\ m.ids = n.ids /\ m.mons = n.mons /\ m.view = n.view
           /\ m.events = n.events /\ m.hand = n.hand /\ m.tasks = n.tasks /\ m.dead = n.dead
      BY <2>7, PutIs
    <2> HIDE DEF m
    <2>13. m.hand = n.hand /\ (m.hand.pc \in {"signed", "taken"} => m.hand.k # k)
      BY <2>9, <2>12, Zenon
    <2>14. NodeOk(m, opened, h)
      BY <2>6, <2>7, <2>8, <2>9, <2>10, <2>11, <2>12, <2>13, PutNew, Zenon
    <2>15. DOMAIN node' = Peers /\ node'[B] = m /\ node'[A] = node[A]
      BY <1>3, <2>2, Zenon DEF IInv, Typed
    <2>16. Typed'
      BY <1>1, <2>4, <2>15, Zenon DEF IInv, Typed
    <2>17. Mails'
      <3>1. Held(m) = Held(n) \cup {k}
        BY <2>10, <2>12, Zenon DEF Held
      <3>2. opened \ Held(m) = S \ {k}
        BY <3>1, Zenon DEF S
      <3>3. Mail(net'[B], opened \ Held(m), M)
        BY <1>5, <2>4, <3>2, Zenon
      <3>4. DOMAIN m.mons = M
        BY <2>12, Zenon DEF M
      <3> QED
        BY <1>1, <2>5, <2>15, <3>3, <3>4, Zenon DEF Mails
    <2>18. \A p \in Peers : /\ NodeOk(node'[p], opened', left.height)
                            /\ DOMAIN node[p].mons \subseteq DOMAIN node'[p].mons
                            /\ \A j : Fund(j) \in node'[p].tasks =>
                                 Fund(j) \in node[p].tasks \/ \A q \in Peers : j \in DOMAIN node'[q].mons
      <3>1. NodeOk(node[A], opened, h)
        BY <1>2, <1>3, Zenon
      <3>2. \A p \in Peers : /\ NodeOk(node'[p], opened, h) /\ node'[p].mons = node[p].mons
                             /\ node'[p].tasks = node[p].tasks
        BY <2>12, <2>14, <2>15, <3>1, Peer, Zenon DEF n
      <3> QED
        BY <1>1, <3>2, Zenon DEF h
    <2>19. node'[B].events = <<>> /\ node'[B].hand.pc \in {"idle", "starting"}
      BY <1>2, <2>12, <2>15, Zenon
    <2> QED
      BY <1>1, <2>16, <2>17, <2>18, <2>19, NodesStep, Zenon
  <1>7. CASE net' = Reply(<<Error(k, "temporary")>>, node, B) /\ UNCHANGED node
    <2>1. Sendable(<<Error(k, "temporary")>>, M)
      BY SimpleOne, PlainMsgs, SimpleSent, Zenon
    <2> DEFINE q == <<Error(k, "temporary")>>
    <2> HIDE DEF q, M, S
    <2>2. DOMAIN net' = Peers /\ Mail(net'[A], {}, M) /\ Mail(net'[B], S, M)
      BY <1>1, <1>2, <1>3, <1>7, <2>1, ReplyMail, Zenon DEF q
    <2>3. Mails' /\ Typed'
      BY <1>1, <1>7, <2>2, Zenon DEF Mails, Typed, IInv, M, S
    <2>4. NodesOk' /\ Quiet' /\ Watched' /\ ChainOk'
      BY <1>1, <1>7, Zenon DEF IInv, NodesOk, Quiet, Watched, ChainOk
    <2> QED
      BY <2>3, <2>4, Zenon DEF IInv
  <1> QED
    BY <1>6, <1>7, Zenon DEF internal_open_channel

\* A takes the answer.
LEMMA AcceptStep == ASSUME IInv, internal_accept_channel PROVE IInv'
  <1> DEFINE m == Head(net[A])
             n == node[A]
             c == n.chans[m.k]
             h == left.height
             M == DOMAIN node[B].mons
             S == opened \ Held(node[B])
             x == [Put(n, m.k, accept_channel(c, m.depth)) EXCEPT !.events = Append(@, m.k)]
  <1>1. PICK refuse \in {FALSE, MayRefuse} :
          Receive(A, "accept_channel", LAMBDA i, d :
            IF d.st # "OurInitSent" \/ refuse THEN Close(node[A], i.k)
            ELSE Result([Put(node[A], i.k, accept_channel(d, i.depth))
                           EXCEPT !.events = Append(@, i.k)], <<>>))
    BY Zenon DEF internal_accept_channel
  <1> DEFINE r == IF c.st # "OurInitSent" \/ refuse THEN Close(n, m.k) ELSE Result(x, <<>>)
  <1>2. /\ net[A] # <<>> /\ m.k \in DOMAIN n.chans /\ m.type = "accept_channel"
        /\ node' = [node EXCEPT ![A] = r.n] /\ net' = Reply(r.msgs, node', A)
        /\ UNCHANGED <<file, chain, mempool, coin, opened, left>>
    BY <1>1, Zenon DEF Receive, Knows
  <1>3. /\ DOMAIN net = Peers /\ Mail(net[A], {}, M) /\ Mail(net[B], S, M) /\ h \in Nat
        /\ \A p \in Peers : NodeOk(node[p], opened, h) /\ left \in Budget
    BY MailsNow, Zenon
  <1>4. A \in Peers /\ B \in Peers /\ A # B
    BY Peer, Zenon DEF Peers
  <1>5. NodeOk(n, opened, h) /\ m.depth \in Nat
    <2>1. Tells(m, M)
      BY <1>2, <1>3, MailTail, Zenon
    <2> QED
      BY <1>2, <1>3, <1>4, <2>1, Zenon DEF Tells
  <1> HIDE DEF m
  <1>6. CASE c.st # "OurInitSent" \/ refuse
    <2>1. r = Close(n, m.k)
      BY <1>6, Zenon
    <2> HIDE DEF r
    <2>2. Good(n, r, opened, h)
      BY <1>2, <1>5, <2>1, CloseGood, Zenon
    <2> QED
      BY <1>2, <1>4, <2>2, ReceiveStep, Zenon
  <1>7. CASE ~(c.st # "OurInitSent" \/ refuse)
    <2>1. r = Result(x, <<>>)
      BY <1>7, Zenon
    <2>2. NodeOk(x, opened, h) /\ Tame(n, x)
      <3> DEFINE k == m.k
                 depth == m.depth
      <3>1. k \in DOMAIN n.chans /\ n.chans[k].st = "OurInitSent" /\ depth \in Nat
        BY <1>2, <1>5, <1>7, Zenon
      <3>2. x = [Put(n, k, accept_channel(n.chans[k], depth)) EXCEPT !.events = Append(@, k)]
        BY Zenon
      <3> HIDE DEF k, depth, x, n, h
      <3> QED
        BY <1>5, <3>1, <3>2, AcceptKeeps, Zenon
    <2> HIDE DEF x, r
    <2>3. r.n = x /\ r.msgs = <<>>
      BY <2>1, ResultIs, Zenon
    <2>4. Sendable(r.msgs, M)
      BY <2>3, SimpleNone, SimpleSent, Zenon
    <2> HIDE DEF M, S
    <2>5. DOMAIN net' = Peers /\ Mail(net'[A], {}, M) /\ Mail(net'[B], S, M)
      BY <1>2, <1>3, <1>4, <2>4, ReplyMail, Zenon
    <2> QED
      BY <1>2, <1>3, <1>4, <2>2, <2>3, <2>5, TameStep, Zenon DEF M, S
  <1> QED
    BY <1>6, <1>7, Zenon

\* B has a funding transaction to watch, and says so.
LEMMA FundingCreatedStep == ASSUME IInv, internal_funding_created PROVE IInv'
  <1> DEFINE i == Head(net[B])
             k == i.k
             n == node[B]
             c == n.chans[k]
             h == left.height
             M == DOMAIN n.mons
             S == opened \ Held(n)
             a == Msg("funding_signed", k)
             x == StartFunded(n, k, c, <<a>>)
             r == IF c.st # "InitBoth" THEN Close(n, k) ELSE x
  <1>1. /\ net[B] # <<>> /\ k \in DOMAIN n.chans
        /\ node' = [node EXCEPT ![B] = r.n] /\ net' = Reply(r.msgs, node', B)
        /\ UNCHANGED <<file, chain, mempool, coin, opened, left>>
    BY Zenon DEF internal_funding_created, Receive, Knows
  <1>2. /\ DOMAIN net = Peers /\ Mail(net[A], {}, M) /\ Mail(net[B], S, M) /\ h \in Nat
        /\ \A p \in Peers : NodeOk(node[p], opened, h)
        /\ n.events = <<>> /\ n.hand.pc \in {"idle", "starting"}
    BY MailsNow, Zenon
  <1>3. A \in Peers /\ B \in Peers /\ A # B
    BY Peer, Zenon DEF Peers
  <1>4. NodeOk(n, opened, h)
    BY <1>2, <1>3, Zenon
  <1> HIDE DEF i
  <1>5. CASE c.st # "InitBoth"
    <2>1. r = Close(n, k)
      BY <1>5, Zenon
    <2> HIDE DEF r, k
    <2>2. Good(n, r, opened, h)
      BY <1>1, <1>4, <2>1, CloseGood, Zenon
    <2> QED
      BY <1>1, <1>3, <2>2, ReceiveStep, Zenon
  <1>6. CASE c.st = "InitBoth"
    <2>1. r = x
      BY <1>6, Zenon
    <2>2. a.type = "funding_signed" /\ a.k = k
      BY Zenon DEF Msg
    <2>3. IsSeq(<<a>>) /\ Range(<<a>>) = {a}
      BY OneOf, Zenon
    <2>4. ~is_funding_initiated(c) /\ n.hand.pc \notin {"signed", "taken"}
      BY <1>2, <1>6, Zenon DEF is_funding_initiated
    <2> DEFINE q == <<a>>
    <2> HIDE DEF a, r, k, n, h
    <2>5. /\ NodeOk(x.n, opened, h) /\ DOMAIN x.n.mons = DOMAIN n.mons \cup {k}
          /\ DOMAIN x.n.chans = DOMAIN n.chans
          /\ x.n.events = n.events /\ x.n.hand = n.hand /\ x.n.tasks = n.tasks
          /\ x.msgs = q \/ x.msgs = q \o <<Msg("channel_ready", k)>>
      <3> HIDE DEF q
      <3>1. IsSeq(q) /\ k \in DOMAIN n.chans /\ c = n.chans[k] /\ x = StartFunded(n, k, c, q)
        BY <1>1, <2>3, Zenon DEF q
      <3> HIDE DEF c, x
      <3> QED
        BY <1>2, <1>4, <2>4, <3>1, StartKeeps
    <2> DEFINE N == DOMAIN x.n.mons
    <2>6. M \subseteq N /\ k \in N
      BY <2>5, Zenon DEF n
    <2>7. Sendable(x.msgs, N)
      <3>1. Sendable(q, N)
        BY <2>2, <2>3, <2>6, Zenon DEF Sendable, Tells
      <3>2. Sendable(<<Msg("channel_ready", k)>>, N)
        BY SimpleOne, PlainMsgs, SimpleSent, Zenon
      <3>3. Sendable(q \o <<Msg("channel_ready", k)>>, N)
        <4> DEFINE b == <<Msg("channel_ready", k)>>
        <4> HIDE DEF b, q, N
        <4>1. IsSeq(q) /\ IsSeq(b)
          BY <3>1, <3>2, Zenon DEF Sendable, b
        <4>2. IsSeq(q \o b) /\ Range(q \o b) \subseteq Range(q) \cup Range(b)
          BY <4>1, Joined, Zenon
        <4>3. Sendable(q \o b, N)
          BY <3>1, <3>2, <4>2, Zenon DEF Sendable, b
        <4> QED
          BY <4>3, Zenon DEF b
      <3> QED
        BY <2>5, <3>1, <3>3, Zenon
    <2>8. opened \ Held(x.n) = S
      <3>1. Held(x.n) = Held(n)
        BY <1>1, <2>5, Zenon DEF Held
      <3> QED
        BY <3>1, Zenon DEF n
    <2>9. Mail(net[A], {}, N) /\ Mail(net[B], S, N)
      <3> HIDE DEF M, N, S
      <3> QED
        BY <1>2, <2>6, MailLater
    <2> HIDE DEF x, S, N
    <2>10. DOMAIN net' = Peers /\ Mail(net'[A], {}, N) /\ Mail(net'[B], S, N)
      BY <1>1, <1>2, <1>3, <2>1, <2>7, <2>9, ReplyMail, ZenonT(40)
    <2>11. DOMAIN node' = Peers /\ node'[B] = x.n /\ node'[A] = node[A]
      BY <1>1, <1>3, <2>1, Zenon DEF IInv, Typed
    <2>12. Mails'
      BY <1>1, <2>8, <2>10, <2>11, Zenon DEF Mails, N
    <2>13. Typed'
      BY <1>1, <2>10, <2>11, Zenon DEF IInv, Typed
    <2>14. \A p \in Peers : /\ NodeOk(node'[p], opened', left.height)
                            /\ DOMAIN node[p].mons \subseteq DOMAIN node'[p].mons
                            /\ \A j : Fund(j) \in node'[p].tasks =>
                                 Fund(j) \in node[p].tasks \/ \A o \in Peers : j \in DOMAIN node'[o].mons
      <3>1. NodeOk(node[A], opened, h)
        BY <1>2, <1>3, Zenon
      <3>2. \A p \in Peers : /\ NodeOk(node'[p], opened, h)
                             /\ DOMAIN node[p].mons \subseteq DOMAIN node'[p].mons
                             /\ node'[p].tasks = node[p].tasks
        BY <2>5, <2>11, <3>1, Peer, Zenon DEF n
      <3> QED
        BY <1>1, <3>2, Zenon DEF h
    <2>15. node'[B].events = <<>> /\ node'[B].hand.pc \in {"idle", "starting"}
      BY <1>2, <2>5, <2>11, Zenon
    <2> QED
      BY <1>1, <2>12, <2>13, <2>14, <2>15, NodesStep, Zenon
  <1> QED
    BY <1>5, <1>6, Zenon

\* A learns of it, and only now sends the funding transaction.
LEMMA FundingSignedStep == ASSUME IInv, internal_funding_signed PROVE IInv'
  <1> DEFINE i == Head(net[A])
             k == i.k
             n == node[A]
             c == n.chans[k]
             h == left.height
             M == DOMAIN node[B].mons
             S == opened \ Held(node[B])
             T == n.tasks \cup {Fund(k)}
             t == [n EXCEPT !.tasks = T]
             x == StartFunded(t, k, c, <<>>)
             r == IF c.st # "FundingCreated" THEN Close(n, k) ELSE x
  <1>1. /\ net[A] # <<>> /\ k \in DOMAIN n.chans /\ i.type = "funding_signed"
        /\ node' = [node EXCEPT ![A] = r.n] /\ net' = Reply(r.msgs, node', A)
        /\ UNCHANGED <<file, chain, mempool, coin, opened, left>>
    BY Zenon DEF internal_funding_signed, Receive, Knows
  <1>2. /\ DOMAIN net = Peers /\ Mail(net[A], {}, M) /\ Mail(net[B], S, M) /\ h \in Nat
        /\ \A p \in Peers : NodeOk(node[p], opened, h)
        /\ node[B].events = <<>> /\ node[B].hand.pc \in {"idle", "starting"}
    BY MailsNow, Zenon
  <1>3. A \in Peers /\ B \in Peers /\ A # B
    BY Peer, Zenon DEF Peers
  <1>4. NodeOk(n, opened, h) /\ k \in M
    <2>1. Tells(i, M)
      BY <1>1, <1>2, MailTail, Zenon
    <2> QED
      BY <1>1, <1>2, <1>3, <2>1, Zenon DEF Tells
  <1> HIDE DEF i
  <1>5. CASE c.st # "FundingCreated"
    <2>1. r = Close(n, k)
      BY <1>5, Zenon
    <2> HIDE DEF r, k
    <2>2. Good(n, r, opened, h)
      BY <1>1, <1>4, <2>1, CloseGood, Zenon
    <2> QED
      BY <1>1, <1>3, <2>2, ReceiveStep, Zenon
  <1>6. CASE c.st = "FundingCreated"
    <2>1. r = x
      BY <1>6, Zenon
    <2>2. ~is_funding_initiated(c) /\ c.st # "InitBoth"
      BY <1>6, Zenon DEF is_funding_initiated
    <2>3. \A j : Fund(j) \in T => Fund(j) \in n.tasks \/ j = k
      BY Zenon DEF Fund
    <2>4. DOMAIN n = NodeFields /\ n.ids \subseteq opened \X (1 .. h) /\ n.dead # "channel without monitor"
      BY <1>4, Zenon DEF NodeOk, NodeIn
    <2> HIDE DEF r, k, n, T
    <2>5. /\ DOMAIN t = NodeFields /\ t.chans = n.chans /\ t.ids = n.ids /\ t.mons = n.mons /\ t.view = n.view
          /\ t.events = n.events /\ t.hand = n.hand /\ t.tasks = T /\ t.dead = n.dead
      BY <2>4, Zenon DEF NodeFields
    <2> HIDE DEF t, h
    <2>6. NodeOk(t, opened, h)
      BY <1>4, <2>4, <2>5, RestOk, Zenon
    <2>7. /\ NodeOk(x.n, opened, h) /\ DOMAIN x.n.mons = DOMAIN n.mons \cup {k} /\ x.n.tasks = T
          /\ x.msgs = <<>> \/ x.msgs = <<>> \o <<Msg("channel_ready", k)>>
      <3> DEFINE q == <<>>
      <3>1. IsSeq(q)
        BY NoneOf, Zenon
      <3>2. k \in DOMAIN t.chans /\ c = t.chans[k]
        BY <1>1, <2>5, Zenon
      <3> HIDE DEF q, c
      <3>3. /\ NodeOk(StartFunded(t, k, c, q).n, opened, h)
            /\ DOMAIN StartFunded(t, k, c, q).n.mons = DOMAIN t.mons \cup {k}
            /\ StartFunded(t, k, c, q).n.tasks = t.tasks
            /\ \/ StartFunded(t, k, c, q).msgs = q
               \/ StartFunded(t, k, c, q).msgs = q \o <<Msg("channel_ready", k)>>
        BY <2>2, <2>6, <3>1, <3>2, StartKeeps
      <3> QED
        BY <2>5, <3>3, Zenon DEF q
    <2>8. Sendable(x.msgs, M)
      <3>1. Simple(<<>>) /\ Simple(<<Msg("channel_ready", k)>>)
        BY SimpleNone, SimpleOne, PlainMsgs, Zenon
      <3>2. Simple(<<>> \o <<Msg("channel_ready", k)>>)
        BY <3>1, SimpleJoin, Zenon
      <3>3. Simple(x.msgs)
        BY <2>7, <3>1, <3>2, Zenon
      <3> QED
        BY <3>3, SimpleSent, Zenon
    <2> HIDE DEF x, M, S
    <2>9. DOMAIN net' = Peers /\ Mail(net'[A], {}, M) /\ Mail(net'[B], S, M)
      BY <1>1, <1>2, <1>3, <2>1, <2>8, ReplyMail, Zenon
    <2>10. DOMAIN node' = Peers /\ node'[A] = x.n /\ node'[B] = node[B]
      BY <1>1, <1>3, <2>1, Zenon DEF IInv, Typed
    <2>11. Mails'
      BY <1>1, <2>9, <2>10, Zenon DEF Mails, M, S
    <2>12. Typed'
      BY <1>1, <2>9, <2>10, Zenon DEF IInv, Typed
    <2>13. \A o \in Peers : k \in DOMAIN node'[o].mons
      BY <1>4, <2>7, <2>10, Peer, Zenon DEF M
    <2>14. \A p \in Peers : /\ NodeOk(node'[p], opened', left.height)
                            /\ DOMAIN node[p].mons \subseteq DOMAIN node'[p].mons
                            /\ \A j : Fund(j) \in node'[p].tasks =>
                                 Fund(j) \in node[p].tasks \/ \A o \in Peers : j \in DOMAIN node'[o].mons
      <3> SUFFICES ASSUME NEW p \in Peers
                   PROVE  /\ NodeOk(node'[p], opened', left.height)
                          /\ DOMAIN node[p].mons \subseteq DOMAIN node'[p].mons
                          /\ \A j : Fund(j) \in node'[p].tasks =>
                               Fund(j) \in node[p].tasks \/ \A o \in Peers : j \in DOMAIN node'[o].mons
        BY Zenon
      <3>1. CASE p = A
        <4>1. NodeOk(node'[A], opened', left.height) /\ DOMAIN n.mons \subseteq DOMAIN node'[A].mons
              /\ node'[A].tasks = T
          BY <1>1, <2>7, <2>10, Zenon DEF h
        <4> QED
          BY <2>3, <2>13, <3>1, <4>1, Zenon DEF n
      <3>2. CASE p = B
        <4>1. NodeOk(node'[B], opened', left.height) /\ node'[B] = node[B]
          BY <1>1, <1>2, <1>3, <2>10, Zenon DEF h
        <4> QED
          BY <3>2, <4>1, Zenon
      <3> QED
        BY <3>1, <3>2, Peer, Zenon
    <2>15. node'[B].events = <<>> /\ node'[B].hand.pc \in {"idle", "starting"}
      BY <1>2, <2>10, Zenon
    <2> QED
      BY <1>1, <2>11, <2>12, <2>14, <2>15, NodesStep, Zenon
  <1> QED
    BY <1>5, <1>6, Zenon

\* A step of node A alone.
LEMMA StepOfA ==
    ASSUME IInv, NEW m, NodeOk(m, opened, left.height), Tame(node[A], m), node' = [node EXCEPT ![A] = m],
           UNCHANGED <<file, net, chain, mempool, opened, left>>
    PROVE  IInv'
  <1>1. /\ DOMAIN net = Peers /\ left \in Budget /\ Mail(net[A], {}, DOMAIN node[B].mons)
        /\ Mail(net[B], opened \ Held(node[B]), DOMAIN node[B].mons)
    BY MailsNow, Zenon
  <1>2. A \in Peers /\ A # B
    BY Peer, Zenon DEF Peers
  <1> QED
    BY <1>1, <1>2, TameStep, Zenon

\* FundingGenerationReady, and the two halves of funding_transaction_generated.
LEMMA FundStep == ASSUME IInv, FundTransaction PROVE IInv'
  <1> DEFINE n == node[A]
             M(pc) == [[n EXCEPT !.events = Tail(@)] EXCEPT !.hand = Handler(pc, Head(n.events))]
  <1>1. /\ n.events # <<>> /\ UNCHANGED <<file, net, chain, mempool, opened, left>>
        /\ \E pc \in {"signed", "ended"} : node' = [node EXCEPT ![A] = M(pc)]
    BY Zenon DEF FundTransaction
  <1>2. PICK pc \in {"signed", "ended"} : node' = [node EXCEPT ![A] = M(pc)]
    BY <1>1, Zenon
  <1> DEFINE m == M(pc)
  <1>3. NodeOk(n, opened, left.height)
    BY MailsNow, Zenon DEF Peers
  <1>4. NodeOk(m, opened, left.height) /\ Tame(n, m)
    BY <1>1, <1>3, FundKeeps, Zenon
  <1>5. node' = [node EXCEPT ![A] = m]
    BY <1>2, Zenon
  <1> HIDE DEF m
  <1> QED
    BY <1>1, <1>4, <1>5, StepOfA, Zenon

LEMMA TakeStep == ASSUME IInv, TakeChannel PROVE IInv'
  <1> DEFINE n == node[A]
             k == n.hand.k
             i == [n EXCEPT !.hand = Idle]
             t == [n EXCEPT !.chans = Drop(@, {k}),
                            !.hand = [pc |-> "taken", k |-> k,
                                      chan |-> [n.chans[k] EXCEPT !.st = "FundingCreated"]]]
  <1>1. /\ n.hand.pc = "signed" /\ UNCHANGED <<file, net, chain, mempool, opened, left>>
        /\ node' = [node EXCEPT ![A] = IF k \notin DOMAIN n.chans THEN i ELSE t]
    BY Zenon DEF TakeChannel
  <1>2. NodeOk(n, opened, left.height)
    BY MailsNow, Zenon DEF Peers
  <1>3. CASE k \notin DOMAIN n.chans
    <2>1. node' = [node EXCEPT ![A] = i]
      BY <1>1, <1>3, Zenon
    <2>2. NodeOk(i, opened, left.height) /\ Tame(n, i)
      BY <1>2, HandIdle
    <2> HIDE DEF i
    <2> QED
      BY <1>1, <2>1, <2>2, StepOfA, Zenon
  <1>4. CASE k \in DOMAIN n.chans
    <2>1. node' = [node EXCEPT ![A] = t]
      BY <1>1, <1>4, Zenon
    <2>2. NodeOk(t, opened, left.height) /\ Tame(n, t)
      BY <1>1, <1>2, <1>4, TakeKeeps, ZenonT(40)
    <2> HIDE DEF t
    <2> QED
      BY <1>1, <2>1, <2>2, StepOfA, Zenon
  <1> QED
    BY <1>3, <1>4, Zenon

LEMMA InsertStep == ASSUME IInv, InsertChannel PROVE IInv'
  <1> DEFINE n == node[A]
             k == n.hand.k
             c == n.hand.chan
             h == left.height
             p == Put(n, k, c)
             m == [p EXCEPT !.hand = Idle]
             M == DOMAIN node[B].mons
             S == opened \ Held(node[B])
             a == Msg("funding_created", k)
  <1>1. /\ n.hand.pc = "taken" /\ node' = [node EXCEPT ![A] = m]
        /\ net' = [net EXCEPT ![B] = IF node[A].up /\ node[B].up THEN Append(@, a) ELSE @]
        /\ UNCHANGED <<file, chain, mempool, coin, opened, left>>
    BY Zenon DEF InsertChannel
  <1>2. /\ DOMAIN net = Peers /\ Mail(net[A], {}, M) /\ Mail(net[B], S, M) /\ h \in Nat
        /\ \A o \in Peers : NodeOk(node[o], opened, h)
        /\ node[B].events = <<>> /\ node[B].hand.pc \in {"idle", "starting"}
    BY MailsNow, Zenon
  <1>3. A \in Peers /\ B \in Peers /\ A # B
    BY Peer, Zenon DEF Peers
  <1>4. NodeOk(n, opened, h) /\ DOMAIN n = NodeFields /\ Pending(n, opened)
    BY <1>2, <1>3, Zenon DEF NodeOk, NodeIn
  <1>5. /\ k \in opened /\ k \notin Range(n.events) /\ k \notin DOMAIN n.chans /\ k \notin DOMAIN n.mons
        /\ Sane(c) /\ c.st = "FundingCreated"
    BY <1>1, <1>4, Zenon DEF Pending
  <1>6. ChanOk(c, k, n.view, h) /\ ~is_funding_initiated(c)
    <2>1. ~is_funding_initiated(c) /\ c.ready = {} /\ c.conf = 0 /\ c.scid = 0 /\ ~is_our_channel_ready(c)
      BY <1>5, Zenon DEF Sane, is_funding_initiated, is_our_channel_ready
    <2> QED
      BY <1>2, <1>5, <2>1 DEF ChanOk, Anchored, ReadyOk
  <1>7. DOMAIN net' = Peers /\ net'[A] = net[A] /\ (net'[B] = net[B] \/ net'[B] = Append(net[B], a))
    BY <1>1, <1>2, <1>3, Zenon
  <1>8. Mail(net'[B], S, M)
    <2>1. IsSeq(net[B]) /\ Sendable(<<a>>, M)
      BY <1>2, SimpleOne, PlainMsgs, SimpleSent, Zenon DEF Mail
    <2>2. Append(net[B], a) = net[B] \o <<a>>
      <3> HIDE DEF a
      <3> QED
        BY <2>1 DEF IsSeq
    <2> DEFINE q == <<a>>
    <2> HIDE DEF S, M, q
    <2>3. Mail(net[B] \o q, S, M)
      BY <1>2, <2>1, MailJoin, Zenon DEF q
    <2> QED
      BY <1>2, <1>7, <2>2, <2>3, Zenon DEF q
  <1> HIDE DEF n, k, c, h
  <1>9. DOMAIN p = NodeFields /\ DOMAIN p.chans = DOMAIN n.chans \cup {k} /\ p.chans[k] = c
    BY <1>4, PutIs
  <1>10. \A j \in DOMAIN n.chans \ {k} : p.chans[j] = n.chans[j]
    BY <1>4, PutIs
  <1>11. /\ p.ids = n.ids /\ p.mons = n.mons /\ p.view = n.view
         /\ p.events = n.events /\ p.tasks = n.tasks /\ p.dead = n.dead
    BY <1>4, PutIs
  <1> HIDE DEF p
  <1>12. /\ DOMAIN m = NodeFields /\ m.chans = p.chans /\ m.ids = n.ids /\ m.mons = n.mons /\ m.view = n.view
         /\ m.events = n.events /\ m.hand = Idle /\ m.tasks = n.tasks /\ m.dead = n.dead
    BY <1>9, <1>11, Zenon DEF NodeFields
  <1> HIDE DEF m
  <1>13. NodeOk(m, opened, h)
    <2>1. DOMAIN m.chans = DOMAIN n.chans \cup {k} /\ m.chans[k] = c
          /\ \A j \in DOMAIN n.chans \ {k} : m.chans[j] = n.chans[j]
      BY <1>9, <1>10, <1>12, Zenon
    <2> QED
      BY <1>4, <1>5, <1>6, <1>12, <2>1, PutNew, Zenon
  <1>14. DOMAIN node' = Peers /\ node'[A] = m /\ node'[B] = node[B]
    BY <1>1, <1>3, Zenon DEF IInv, Typed
  <1>15. Mails' /\ Typed'
    BY <1>1, <1>2, <1>7, <1>8, <1>14, Zenon DEF Mails, IInv, Typed
  <1>16. \A o \in Peers : /\ NodeOk(node'[o], opened', left.height)
                          /\ DOMAIN node[o].mons \subseteq DOMAIN node'[o].mons
                          /\ \A j : Fund(j) \in node'[o].tasks =>
                               Fund(j) \in node[o].tasks \/ \A q \in Peers : j \in DOMAIN node'[q].mons
    <2>1. NodeOk(node[B], opened, h)
      BY <1>2, <1>3, Zenon
    <2>2. \A o \in Peers : /\ NodeOk(node'[o], opened, h) /\ node'[o].mons = node[o].mons
                           /\ node'[o].tasks = node[o].tasks
      BY <1>12, <1>13, <1>14, <2>1, Peer, Zenon DEF n
    <2> QED
      BY <1>1, <2>2, Zenon DEF h
  <1>17. node'[B].events = <<>> /\ node'[B].hand.pc \in {"idle", "starting"}
    BY <1>2, <1>14, Zenon
  <1> QED
    BY <1>1, <1>15, <1>16, <1>17, NodesStep, Zenon

\* A step of the chain.
LEMMA ChainStep ==
    ASSUME IInv, left' \in Budget, left'.height = left.height, UNCHANGED <<node, file, net, opened>>, ChainOk',
           mempool' \cup InChain(chain') \subseteq mempool \cup InChain(chain)
    PROVE  IInv'
  <1>1. Typed' /\ NodesOk' /\ Quiet' /\ Mails'
    BY Zenon DEF IInv, Typed, NodesOk, Quiet, Mails
  <1>2. Watched'
    BY Zenon DEF IInv, Watched
  <1> QED
    BY <1>1, <1>2, Zenon DEF IInv

LEMMA InChainIs == ASSUME NEW q, NEW tx PROVE tx \in InChain(q) <=> \E i \in DOMAIN q : tx \in q[i].txs
  BY Zenon DEF InChain

LEMMA BlockIs == ASSUME NEW txs, NEW branch PROVE Block(txs, branch).txs = txs
  BY Zenon DEF Block

LEMMA MineStep == ASSUME IInv, Mine PROVE IInv'
  <1>1. PICK txs \in SUBSET mempool :
          /\ chain' = Append(chain, Block(txs, left.reorgs)) /\ mempool' = mempool \ txs
    BY Zenon DEF Mine
  <1> DEFINE b == Block(txs, left.reorgs)
             q == Append(chain, b)
  <1>2. Len(chain) < left.height /\ UNCHANGED <<node, file, net, coin, opened, left>>
    BY Zenon DEF Mine
  <1>3. IsSeq(chain) /\ Len(chain) \in Nat /\ DOMAIN chain = 1 .. Len(chain)
    BY SeqIs, Zenon DEF IInv, ChainOk
  <1>4. b.txs = txs
    BY BlockIs, Zenon
  <1> HIDE DEF b
  <1>5. IsSeq(q) /\ Len(q) = Len(chain) + 1 /\ q[Len(chain) + 1] = b /\ \A i \in 1 .. Len(chain) : q[i] = chain[i]
    BY <1>3, AppendOf
  <1> HIDE DEF q
  <1>6. DOMAIN q = 1 .. Len(chain) + 1
    BY <1>5, SeqIs, Zenon
  <1>7. InChain(q) = InChain(chain) \cup txs
    <2>1. \A tx \in InChain(q) : tx \in InChain(chain) \cup txs
      <3> SUFFICES ASSUME NEW tx \in InChain(q) PROVE tx \in InChain(chain) \cup txs
        BY Zenon
      <3>1. PICK i \in DOMAIN q : tx \in q[i].txs
        BY InChainIs, Zenon
      <3>2. CASE i \in 1 .. Len(chain)
        BY <1>3, <1>5, <3>1, <3>2, InChainIs, Zenon
      <3>3. CASE i = Len(chain) + 1
        BY <1>4, <1>5, <3>1, <3>3, Zenon
      <3> QED
        BY <1>3, <1>6, <3>2, <3>3
    <2>2. txs \subseteq InChain(q)
      <3>1. Len(chain) + 1 \in DOMAIN q
        BY <1>3, <1>6
      <3> QED
        BY <1>4, <1>5, <3>1, InChainIs, Zenon
    <2>3. InChain(chain) \subseteq InChain(q)
      <3> SUFFICES ASSUME NEW tx \in InChain(chain) PROVE tx \in InChain(q)
        BY Zenon
      <3>1. PICK i \in DOMAIN chain : tx \in chain[i].txs
        BY InChainIs, Zenon
      <3>2. i \in DOMAIN q /\ q[i] = chain[i]
        BY <1>3, <1>5, <1>6
      <3> QED
        BY <3>1, <3>2, InChainIs, Zenon
    <2> QED
      BY <2>1, <2>2, <2>3, Zenon
  <1>8. chain' = q /\ mempool' = mempool \ txs
    BY <1>1, Zenon DEF q, b
  <1>9. ChainOk'
    <2>1. Len(chain) <= left.height /\ mempool \cap InChain(chain) = {} /\ left.height \in Nat
      BY Heights, Zenon DEF IInv, ChainOk
    <2>2. IsSeq(chain') /\ Len(chain') <= left.height /\ mempool' \cap InChain(chain') = {}
      BY <1>2, <1>3, <1>5, <1>7, <1>8, <2>1
    <2> QED
      BY <1>2, <2>2, Zenon DEF ChainOk
  <1>10. mempool' \cup InChain(chain') \subseteq mempool \cup InChain(chain)
    BY <1>7, <1>8, Zenon
  <1>11. left' \in Budget
    BY <1>2, Zenon DEF IInv, Typed
  <1> QED
    BY <1>2, <1>9, <1>10, <1>11, ChainStep, Zenon

LEMMA NoneOnChain == ASSUME NEW q, IsSeq(q), IsSeq(chain), ~OnChain(q) PROVE Len(q) # 0
  <1> SUFFICES ASSUME Len(q) = 0 PROVE FALSE
    BY Zenon
  <1>1. Len(chain) \in Nat /\ q = <<>>
    BY SeqIs DEF IsSeq
  <1>2. SubSeq(chain, 1, 0) = <<>>
    BY DEF IsSeq
  <1> QED
    BY <1>1, <1>2 DEF OnChain

LEMMA UseIs ==
    ASSUME NEW e \in {"reorgs", "breaks", "restarts"}, Use(e), left \in Budget
    PROVE  left' \in Budget /\ left'.height = left.height
  <1>1. /\ left \in [depths : SUBSET Nat, announce : Nat, height : Nat, reorgs : Nat, breaks : Nat, restarts : Nat]
        /\ left[e] > 0 /\ left' = [left EXCEPT ![e] = @ - 1]
    BY Zenon DEF Use, Budget
  <1>2. CASE e = "reorgs"
    BY <1>1, <1>2 DEF Budget
  <1>3. CASE e = "breaks"
    BY <1>1, <1>3 DEF Budget
  <1>4. CASE e = "restarts"
    BY <1>1, <1>4 DEF Budget
  <1> QED
    BY <1>2, <1>3, <1>4, Zenon

\* The branch that takes over has txs in one of its blocks.
Branch(n, at, txs, v) == [i \in 1 .. n |-> Block(IF i = at THEN txs ELSE {}, v)]

LEMMA BranchIs ==
    ASSUME NEW n \in Nat, NEW at \in 1 .. n, NEW txs, NEW v,
           NEW new, new = Branch(n, at, txs, v)
    PROVE  IsSeq(new) /\ Len(new) = n /\ InChain(new) = txs
  <1>1. DOMAIN new = 1 .. n /\ \A i \in 1 .. n : new[i].txs = IF i = at THEN txs ELSE {}
    BY Zenon DEF Block, Branch
  <1>2. new \in [1 .. n -> Range(new)]
    <2>1. \A i \in 1 .. n : new[i] \in Range(new)
      BY <1>1, Zenon DEF Range
    <2>2. new = [i \in 1 .. n |-> new[i]]
      BY <1>1, Zenon DEF Branch
    <2> QED
      BY <2>1, <2>2, Zenon
  <1>3. IsSeq(new) /\ Len(new) = n
    BY <1>2 DEF IsSeq
  <1>4. \A tx : tx \in InChain(new) <=> tx \in txs
    BY <1>1, InChainIs, Zenon
  <1> QED
    BY <1>3, <1>4, Zenon

LEMMA InChainJoin ==
    ASSUME NEW q, IsSeq(q), NEW r, IsSeq(r) PROVE InChain(q \o r) = InChain(q) \cup InChain(r)
  <1> DEFINE s == q \o r
  <1>1. /\ IsSeq(s) /\ Len(s) = Len(q) + Len(r) /\ \A i \in 1 .. Len(q) : s[i] = q[i]
        /\ \A i \in Len(q) + 1 .. Len(q) + Len(r) : s[i] = r[i - Len(q)]
    BY Joined, Zenon
  <1> HIDE DEF s
  <1>2. /\ Len(q) \in Nat /\ Len(r) \in Nat /\ DOMAIN s = 1 .. Len(q) + Len(r)
        /\ DOMAIN q = 1 .. Len(q) /\ DOMAIN r = 1 .. Len(r)
    BY <1>1, SeqIs, Zenon
  <1>3. \A tx \in InChain(s) : tx \in InChain(q) \cup InChain(r)
    <2> SUFFICES ASSUME NEW tx \in InChain(s) PROVE tx \in InChain(q) \cup InChain(r)
      BY Zenon
    <2>1. PICK i \in DOMAIN s : tx \in s[i].txs
      BY InChainIs, Zenon
    <2>2. CASE i <= Len(q)
      <3>1. i \in DOMAIN q /\ s[i] = q[i]
        BY <1>1, <1>2, <2>2
      <3> QED
        BY <2>1, <3>1, InChainIs, Zenon
    <2>3. CASE ~(i <= Len(q))
      <3>1. i - Len(q) \in DOMAIN r /\ s[i] = r[i - Len(q)]
        BY <1>1, <1>2, <2>3
      <3> QED
        BY <2>1, <3>1, InChainIs, Zenon
    <2> QED
      BY <2>2, <2>3, Zenon
  <1>4. \A tx \in InChain(q) : tx \in InChain(s)
    <2> SUFFICES ASSUME NEW tx \in InChain(q) PROVE tx \in InChain(s)
      BY Zenon
    <2>1. PICK i \in DOMAIN q : tx \in q[i].txs
      BY InChainIs, Zenon
    <2>2. i \in DOMAIN s /\ s[i] = q[i]
      BY <1>1, <1>2
    <2> QED
      BY <2>1, <2>2, InChainIs, Zenon
  <1>5. \A tx \in InChain(r) : tx \in InChain(s)
    <2> SUFFICES ASSUME NEW tx \in InChain(r) PROVE tx \in InChain(s)
      BY Zenon
    <2>1. PICK i \in DOMAIN r : tx \in r[i].txs
      BY InChainIs, Zenon
    <2> DEFINE j == i + Len(q)
    <2>2. j \in DOMAIN s /\ j \in Len(q) + 1 .. Len(q) + Len(r) /\ j - Len(q) = i
      BY <1>2
    <2> HIDE DEF j
    <2>3. s[j] = r[i]
      BY <1>1, <2>2, Zenon
    <2> QED
      BY <2>1, <2>2, <2>3, InChainIs, Zenon
  <1> QED
    BY <1>3, <1>4, <1>5, Zenon DEF s

LEMMA ReorgStep == ASSUME IInv, Reorg PROVE IInv'
  <1> DEFINE K(d) == SubSeq(chain, 1, Len(chain) - d)
             P(d) == mempool \cup (InChain(chain) \ InChain(K(d)))
             N(d, txs, at) == Branch(d + 1, at, txs, left'.reorgs)
  <1>1. /\ Use("reorgs") /\ Len(chain) < left.height /\ UNCHANGED <<node, file, net, coin, opened>>
        /\ \E d \in 1 .. Len(chain) : \E txs \in SUBSET P(d), at \in 1 .. d + 1 :
             chain' = K(d) \o N(d, txs, at) /\ mempool' = P(d) \ txs
    BY Zenon DEF Reorg, Branch
  <1>2. PICK d \in 1 .. Len(chain) : \E txs \in SUBSET P(d), at \in 1 .. d + 1 :
             chain' = K(d) \o N(d, txs, at) /\ mempool' = P(d) \ txs
    BY <1>1, Zenon
  <1>3. PICK txs \in SUBSET P(d), at \in 1 .. d + 1 : chain' = K(d) \o N(d, txs, at) /\ mempool' = P(d) \ txs
    BY <1>2, Zenon
  <1>4. IsSeq(chain) /\ Len(chain) \in Nat /\ DOMAIN chain = 1 .. Len(chain) /\ left \in Budget
        /\ left.height \in Nat /\ mempool \cap InChain(chain) = {}
    BY SeqIs, Heights, Zenon DEF IInv, ChainOk, Typed
  <1> DEFINE kept == K(d)
             new == N(d, txs, at)
             pool == P(d)
             e == Len(chain) - d
  <1>5. e \in 0 .. Len(chain) /\ d + 1 \in Nat /\ d \in Nat
    BY <1>4
  <1>6. IsSeq(kept) /\ Len(kept) = e /\ \A i \in 1 .. e : kept[i] = chain[i]
    BY <1>4, <1>5, FirstOf, Zenon
  <1>7. IsSeq(new) /\ Len(new) = d + 1 /\ InChain(new) = txs
    <2> DEFINE n == d + 1
               v == left'.reorgs
    <2>1. n \in Nat /\ at \in 1 .. n /\ new = Branch(n, at, txs, v)
      BY <1>5, Zenon
    <2> HIDE DEF n, v, new
    <2>2. IsSeq(new) /\ Len(new) = n /\ InChain(new) = txs
      BY <2>1, BranchIs
    <2> QED
      BY <2>2, Zenon DEF n
  <1>8. chain' = kept \o new /\ mempool' = pool \ txs /\ txs \subseteq pool
    BY <1>3, Zenon
  <1>9. pool = mempool \cup (InChain(chain) \ InChain(kept))
    BY Zenon
  <1> HIDE DEF kept, new, pool
  <1>10. InChain(kept) \subseteq InChain(chain)
    <2> SUFFICES ASSUME NEW tx \in InChain(kept) PROVE tx \in InChain(chain)
      BY Zenon
    <2>1. PICK i \in DOMAIN kept : tx \in kept[i].txs
      BY InChainIs, Zenon
    <2>2. i \in DOMAIN chain /\ kept[i] = chain[i]
      BY <1>4, <1>5, <1>6, SeqIs
    <2> QED
      BY <2>1, <2>2, InChainIs, Zenon
  <1>11. InChain(chain') = InChain(kept) \cup txs
    BY <1>6, <1>7, <1>8, InChainJoin, Zenon
  <1>12. IsSeq(chain') /\ Len(chain') = Len(chain) + 1
    <2>1. IsSeq(chain') /\ Len(chain') = Len(kept) + Len(new)
      BY <1>6, <1>7, <1>8, Joined, Zenon
    <2> QED
      BY <1>4, <1>5, <1>6, <1>7, <2>1
  <1>13. left' \in Budget /\ left'.height = left.height
    BY <1>1, <1>4, UseIs, Zenon
  <1>14. mempool' \cap InChain(chain') = {} /\ mempool' \cup InChain(chain') \subseteq mempool \cup InChain(chain)
    BY <1>4, <1>8, <1>9, <1>10, <1>11, Zenon
  <1>15. ChainOk'
    <2>1. Len(chain) + 1 <= left.height
      BY <1>1, <1>4
    <2>2. Len(chain') <= left'.height
      BY <1>12, <1>13, <2>1, Zenon
    <2> QED
      BY <1>12, <1>14, <2>2, Zenon DEF ChainOk
  <1> QED
    BY <1>1, <1>13, <1>14, <1>15, ChainStep, Zenon

LEMMA PublishStep == ASSUME IInv, NEW p \in Peers, NEW tx, Publish(p, tx) PROVE IInv'
  <1> DEFINE n == node[p]
             m == [n EXCEPT !.tasks = @ \ {tx}]
  <1>1. /\ tx \in n.tasks /\ node' = [node EXCEPT ![p] = m] /\ (mempool' = mempool \/ mempool' = mempool \cup {tx})
        /\ UNCHANGED <<file, net, chain, opened, left>>
    BY Zenon DEF Publish
  <1>2. mempool' # mempool => tx \notin InChain(chain)
    BY Zenon DEF Publish
  <1>3. NodeOk(n, opened, left.height)
    BY MailsNow, Zenon
  <1>4. DOMAIN n = NodeFields /\ n.ids \subseteq opened \X (1 .. left.height) /\ n.dead # "channel without monitor"
    BY <1>3, Zenon DEF NodeOk, NodeIn
  <1> HIDE DEF n
  <1>5. /\ DOMAIN m = NodeFields /\ m.chans = n.chans /\ m.mons = n.mons /\ m.view = n.view /\ m.events = n.events
        /\ m.hand = n.hand /\ m.ids = n.ids /\ m.dead = n.dead /\ m.tasks = n.tasks \ {tx}
    BY <1>4, Zenon DEF NodeFields
  <1> HIDE DEF m
  <1>6. NodeOk(m, opened, left.height)
    BY <1>3, <1>4, <1>5, RestOk, Zenon
  <1>7. DOMAIN node' = Peers /\ node'[p] = m /\ \A q \in Peers : q # p => node'[q] = node[q]
    BY <1>1, Zenon DEF IInv, Typed
  <1>8. Typed'
    BY <1>1, <1>7, Zenon DEF IInv, Typed
  <1>9. \A q \in Peers : /\ node'[q].mons = node[q].mons /\ node'[q].chans = node[q].chans
                         /\ node'[q].events = node[q].events /\ node'[q].hand = node[q].hand
                         /\ node'[q].tasks \subseteq node[q].tasks
    BY <1>5, <1>7, Zenon DEF n
  <1>10. NodesOk'
    <2>1. \A q \in Peers : NodeOk(node'[q], opened, left.height)
      <3> SUFFICES ASSUME NEW q \in Peers PROVE NodeOk(node'[q], opened, left.height)
        BY Zenon
      <3>1. CASE q = p
        BY <1>6, <1>7, <3>1, Zenon
      <3>2. CASE q # p
        <4>1. node'[q] = node[q]
          BY <1>7, <3>2, Zenon
        <4> QED
          BY <4>1, MailsNow, Zenon
      <3> QED
        BY <3>1, <3>2, Zenon
    <2> QED
      BY <1>1, <1>9, <2>1, Zenon DEF IInv, NodesOk
  <1>11. A \in Peers /\ B \in Peers
    BY Zenon DEF Peers
  <1>12. Quiet'
    BY <1>1, <1>9, <1>11, Zenon DEF IInv, Quiet
  <1>13. Mails'
    BY <1>1, <1>9, <1>11, Zenon DEF IInv, Mails, Held
  <1>14. Watched'
    BY <1>1, <1>9 DEF IInv, Watched, n
  <1>15. ChainOk'
    BY <1>1, <1>2, Zenon DEF IInv, ChainOk
  <1> QED
    BY <1>8, <1>10, <1>12, <1>13, <1>14, <1>15, Zenon DEF IInv

LEMMA ConnectStep == ASSUME IInv, NEW p \in Peers, block_connected(p) PROVE IInv'
  <1> DEFINE n == node[p]
             height == Len(n.view) + 1
             block == chain[height]
             h == left.height
             r == AfterBlock(n, block, p, height)
  <1>1. Len(n.view) < Len(chain) /\ Sync(p, r)
    BY Zenon DEF block_connected, AfterBlock
  <1>2. NodeOk(n, opened, h) /\ Finite(opened) /\ h \in Nat
    BY MailsNow, Zenon
  <1>3. IsSeq(n.view) /\ DOMAIN n.chans \subseteq opened
    BY <1>2, Zenon DEF NodeOk, NodeIn
  <1>4. IsSeq(chain) /\ Len(chain) <= h
    BY Zenon DEF IInv, ChainOk
  <1> HIDE DEF n, h
  <1>5. Len(n.view) < Len(chain)
    BY <1>1, Zenon
  <1>6. Len(n.view) \in Nat /\ Len(chain) \in Nat /\ DOMAIN chain = 1 .. Len(chain)
    BY <1>3, <1>4, SeqIs, Zenon
  <1>7. height \in DOMAIN chain /\ height <= h
    BY <1>2, <1>4, <1>5, <1>6
  <1>8. \A k \in DOMAIN n.chans : Fund(k) \in block.txs => k \in DOMAIN n.mons
    <2> SUFFICES ASSUME NEW k \in DOMAIN n.chans, Fund(k) \in block.txs PROVE k \in DOMAIN n.mons
      BY Zenon
    <2> HIDE DEF height
    <2>1. Fund(k) \in InChain(chain)
      BY <1>7, InChainIs, Zenon
    <2> QED
      BY <2>1, Zenon DEF IInv, Watched, n
  <1>9. height = Len(n.view) + 1 /\ r = AfterBlock(n, block, p, height)
    BY Zenon
  <1> HIDE DEF height, block, r
  <1>10. Good(n, r, opened, h)
    BY <1>2, <1>7, <1>8, <1>9, ConnectKeeps, Zenon
  <1> QED
    BY <1>1, <1>10, SyncStep, Zenon DEF n, h

LEMMA DisconnectStep == ASSUME IInv, NEW p \in Peers, block_disconnected(p) PROVE IInv'
  <1> DEFINE n == node[p]
             height == Len(n.view) - 1
             h == left.height
             r == BeforeBlock(n, p, height)
  <1>1. ~OnChain(n.view) /\ Sync(p, r)
    BY Zenon DEF block_disconnected, BeforeBlock
  <1>2. NodeOk(n, opened, h) /\ Finite(opened) /\ h \in Nat
    BY MailsNow, Zenon
  <1>3. IsSeq(n.view)
    BY <1>2, Zenon DEF NodeOk, NodeIn
  <1>4. IsSeq(chain)
    BY Zenon DEF IInv, ChainOk
  <1> HIDE DEF n, h
  <1>5. Len(n.view) # 0
    BY <1>1, <1>3, <1>4, NoneOnChain, Zenon
  <1>6. height = Len(n.view) - 1 /\ r = BeforeBlock(n, p, height)
    BY Zenon
  <1> HIDE DEF height, r
  <1>7. Good(n, r, opened, h)
    BY <1>2, <1>5, <1>6, DisconnectKeeps, Zenon
  <1> QED
    BY <1>1, <1>7, SyncStep, Zenon DEF n, h

LEMMA MonitorStep == ASSUME IInv, NEW p \in Peers, process_pending_monitor_events(p) PROVE IInv'
  <1> DEFINE n == node[p]
             gone == n.mevents \cap DOMAIN n.chans
             i == [n EXCEPT !.mevents = {}]
             m == Shutdown(i, gone, FALSE)
             f == [k \in gone |-> <<Error(k, channel_id(n.chans[k]))>>]
             q == InTurn(f)
             r == Result(m, q)
  <1>1. Sync(p, r)
    BY Zenon DEF process_pending_monitor_events
  <1>2. NodeOk(n, opened, left.height) /\ Finite(opened)
    BY MailsNow, Zenon
  <1>3. /\ DOMAIN n = NodeFields /\ n.ids \subseteq opened \X (1 .. left.height) /\ n.dead # "channel without monitor"
        /\ DOMAIN n.chans \subseteq opened
    BY <1>2, Zenon DEF NodeOk, NodeIn
  <1>4. Finite(gone)
    BY <1>2, <1>3, Fewer, Zenon
  <1>5. Simple(q)
    <2>1. Finite(DOMAIN f) /\ \A k \in DOMAIN f : Simple(f[k])
      BY <1>4, PlainMsgs, SimpleOne, Zenon
    <2> HIDE DEF f
    <2> QED
      BY <2>1, InTurnSimple, Zenon
  <1> HIDE DEF n, f
  <1>6. /\ DOMAIN i = NodeFields /\ i.chans = n.chans /\ i.mons = n.mons /\ i.view = n.view /\ i.events = n.events
        /\ i.hand = n.hand /\ i.ids = n.ids /\ i.dead = n.dead /\ i.tasks = n.tasks
    BY <1>3, Zenon DEF NodeFields
  <1> HIDE DEF i
  <1>7. NodeOk(i, opened, left.height) /\ Tame(n, i)
    <2>1. NodeOk(i, opened, left.height)
      BY <1>2, <1>3, <1>6, RestOk, Zenon
    <2>2. Tame(n, i)
      BY <1>6, RestTame, Zenon
    <2> QED
      BY <2>1, <2>2, Zenon
  <1>8. gone \subseteq DOMAIN i.chans
    BY <1>6, Zenon
  <1> DEFINE b == FALSE
  <1>9. m = Shutdown(i, gone, b)
    BY Zenon
  <1> HIDE DEF m, gone, b
  <1>10. NodeOk(m, opened, left.height) /\ Tame(i, m) /\ m.events = i.events /\ m.hand = i.hand
    BY <1>7, <1>8, <1>9, ShutdownKeeps
  <1>11. Tame(n, m)
    BY <1>7, <1>10, TameBoth, Zenon
  <1> HIDE DEF q
  <1>12. r.n = m /\ r.msgs = q
    BY ResultIs, Zenon
  <1> HIDE DEF r
  <1>13. Good(n, r, opened, left.height)
    BY <1>5, <1>6, <1>10, <1>11, <1>12, Zenon DEF Good
  <1> QED
    BY <1>1, <1>13, SyncStep, Zenon DEF n

LEMMA TickStep == ASSUME IInv, NEW p \in Peers, timer_tick_occurred(p) PROVE IInv'
  <1> DEFINE n == node[p]
             m == process_background_events(n)
  <1>1. node' = [node EXCEPT ![p] = m] /\ UNCHANGED <<file, net, chain, mempool, coin, opened, left>>
    BY Zenon DEF timer_tick_occurred
  <1>2. /\ NodeOk(n, opened, left.height) /\ DOMAIN net = Peers /\ left \in Budget
        /\ Mail(net[A], {}, DOMAIN node[B].mons) /\ Mail(net[B], opened \ Held(node[B]), DOMAIN node[B].mons)
        /\ node[B].events = <<>> /\ node[B].hand.pc \in {"idle", "starting"}
    BY MailsNow, Zenon
  <1>3. DOMAIN n = NodeFields /\ n.ids \subseteq opened \X (1 .. left.height) /\ n.dead # "channel without monitor"
    BY <1>2, Zenon DEF NodeOk, NodeIn
  <1> HIDE DEF n
  <1>4. /\ DOMAIN m = NodeFields /\ m.chans = n.chans /\ DOMAIN m.mons = DOMAIN n.mons /\ m.view = n.view
        /\ m.events = n.events /\ m.hand = n.hand /\ m.ids = n.ids /\ m.dead = n.dead
        /\ m.tasks = n.tasks \cup {Spend(k) : k \in n.later}
    BY <1>3, Zenon DEF NodeFields, process_background_events
  <1> HIDE DEF m
  <1>5. \A k : Fund(k) \in m.tasks => Fund(k) \in n.tasks
    BY <1>4, SpendIsNot, Zenon
  <1>6. NodeOk(m, opened, left.height)
    BY <1>2, <1>3, <1>4, RestOk, Zenon
  <1>7. Tame(n, m)
    BY <1>4, <1>5, RestTame, Zenon
  <1>8. p = B => m.events = <<>> /\ m.hand.pc \in {"idle", "starting"}
    BY <1>2, <1>4, Zenon DEF n
  <1> QED
    BY <1>1, <1>2, <1>6, <1>7, <1>8, TameStep, Zenon DEF n

LEMMA BreakStep == ASSUME IInv, NEW p \in Peers, peer_disconnected(p) PROVE IInv'
  <1> DEFINE n == node[p]
             m == Disconnected(n)
             M == DOMAIN node[B].mons
             S == opened \ Held(node[B])
             e == "breaks"
             w == [net EXCEPT ![p] = <<>>]
  <1>1. /\ node' = [node EXCEPT ![p] = m] /\ net' = w
        /\ UNCHANGED <<file, chain, mempool, coin, opened>> /\ (Use(e) \/ left' = left)
    BY Zenon DEF peer_disconnected
  <1>2. /\ NodeOk(n, opened, left.height) /\ DOMAIN net = Peers /\ left \in Budget
        /\ Mail(net[A], {}, M) /\ Mail(net[B], S, M)
        /\ node[B].events = <<>> /\ node[B].hand.pc \in {"idle", "starting"}
    BY MailsNow, Zenon
  <1>3. e \in {"reorgs", "breaks", "restarts"} /\ m = Disconnected(n) /\ w = [net EXCEPT ![p] = <<>>]
    BY Zenon
  <1> HIDE DEF n, m, M, S, e, w
  <1>4. left' \in Budget /\ left'.height = left.height
    BY <1>1, <1>2, <1>3, UseIs, Zenon
  <1>5. NodeOk(m, opened, left.height) /\ Tame(n, m) /\ m.events = n.events /\ m.hand = n.hand
    BY <1>2, <1>3, DisconnectedKeeps, Zenon
  <1> DEFINE R == {}
  <1>6. Mail(net[A], R, M)
    BY <1>2, Zenon
  <1> HIDE DEF R
  <1>7. DOMAIN w = Peers /\ Mail(w[A], R, M) /\ Mail(w[B], S, M)
    BY <1>2, <1>3, <1>6, LostMail, Zenon
  <1>8. p = B => m.events = <<>> /\ m.hand.pc \in {"idle", "starting"}
    BY <1>2, <1>5, Zenon DEF n
  <1> QED
    BY <1>1, <1>4, <1>5, <1>7, <1>8, TameStep, Zenon DEF n, M, S, R

LEMMA MeetStep == ASSUME IInv, peer_connected PROVE IInv'
  <1> DEFINE r == [p \in Peers |-> Connected(node[p])]
             both == \A p \in Peers : r[p].n.up
  <1>1. /\ node' = [p \in Peers |-> IF both \/ ~r[p].n.up THEN r[p].n ELSE node[p]]
        /\ net' = [p \in Peers |-> IF both THEN r[Other(p)].msgs ELSE <<>>]
        /\ UNCHANGED <<file, chain, mempool, coin, opened, left>>
    BY Zenon DEF peer_connected
  <1>2. /\ \A p \in Peers : NodeOk(node[p], opened, left.height)
        /\ node[B].events = <<>> /\ node[B].hand.pc \in {"idle", "starting"} /\ Finite(opened)
    BY MailsNow, Zenon
  <1>3. \A p \in Peers : r[p] = Connected(node[p])
    BY Zenon
  <1> HIDE DEF both, r
  <1>4. \A p \in Peers : Good(node[p], r[p], opened, left.height)
    <2> SUFFICES ASSUME NEW p \in Peers PROVE Good(node[p], r[p], opened, left.height)
      BY Zenon
    <2> DEFINE n == node[p]
               s == r[p]
               h == left.height
    <2>1. NodeOk(n, opened, h) /\ s = Connected(n)
      BY <1>2, <1>3, Zenon
    <2> HIDE DEF n, s, h
    <2>2. /\ NodeOk(s.n, opened, h) /\ Tame(n, s.n) /\ s.n.events = n.events /\ s.n.hand = n.hand
          /\ Simple(s.msgs)
      BY <1>2, <2>1, ConnectedKeeps, Zenon
    <2>3. Good(n, s, opened, h)
      BY <2>2, Zenon DEF Good
    <2> QED
      BY <2>3, Zenon DEF n, s, h
  <1>5. \A p \in Peers : node'[p] = r[p].n \/ node'[p] = node[p]
    BY <1>1, Zenon
  <1>6. \A p \in Peers : /\ NodeOk(node'[p], opened, left.height) /\ Tame(node[p], node'[p])
                         /\ node'[p].events = node[p].events /\ node'[p].hand = node[p].hand
    <2> SUFFICES ASSUME NEW p \in Peers
                 PROVE  /\ NodeOk(node'[p], opened, left.height) /\ Tame(node[p], node'[p])
                        /\ node'[p].events = node[p].events /\ node'[p].hand = node[p].hand
      BY Zenon
    <2>1. CASE node'[p] = r[p].n
      BY <1>4, <2>1, Zenon DEF Good
    <2>2. CASE node'[p] = node[p]
      BY <1>2, <2>2, TameSame, Zenon
    <2> QED
      BY <1>5, <2>1, <2>2, Zenon
  <1>7. B \in Peers /\ A \in Peers /\ Other(A) \in Peers /\ Other(B) \in Peers
    BY Peer, Zenon DEF Peers
  <1>8. \A p \in Peers : \A S, M : Mail(net'[p], S, M)
    <2> SUFFICES ASSUME NEW p \in Peers, NEW S, NEW M PROVE Mail(net'[p], S, M)
      BY Zenon
    <2> DEFINE q == r[Other(p)].msgs
    <2>1. Other(p) \in Peers
      BY Peer, Zenon
    <2>2. Simple(q)
      BY <1>4, <2>1, Zenon DEF Good
    <2>3. Sendable(q, M)
      BY <2>2, SimpleSent, Zenon
    <2>4. net'[p] = q \/ net'[p] = <<>>
      BY <1>1, Zenon
    <2> HIDE DEF q
    <2>5. Mail(<<>>, S, M)
      BY MailNone, Zenon
    <2>6. Mail(q, S, M)
      <3>1. IsSeq(q) /\ (\A i \in 1 .. Len(q) : q[i] \in Range(q))
        BY <2>2, SeqIs, Zenon DEF Simple
      <3> QED
        BY <2>3, <3>1, Zenon DEF Sendable, Mail
    <2> QED
      BY <2>4, <2>5, <2>6, Zenon
  <1>9. Mails'
    BY <1>7, <1>8, Zenon DEF Mails
  <1>10. Typed'
    BY <1>1, Zenon DEF IInv, Typed
  <1>11. \A p \in Peers : /\ DOMAIN node[p].mons \subseteq DOMAIN node'[p].mons
                          /\ \A k : Fund(k) \in node'[p].tasks => Fund(k) \in node[p].tasks
    BY <1>6, Zenon DEF Tame
  <1>12. node'[B].events = <<>> /\ node'[B].hand.pc \in {"idle", "starting"}
    BY <1>2, <1>6, <1>7, Zenon
  <1> QED
    BY <1>1, <1>6, <1>9, <1>10, <1>11, <1>12, NodesStep, Zenon

LEMMA PersistStep == ASSUME IInv, NEW p \in Peers, Persist(p) PROVE IInv'
  <1> DEFINE n == node[p]
             f == Snapshot(n)
             h == left.height
  <1>1. file' = [file EXCEPT ![p] = f] /\ UNCHANGED <<node, net, chain, mempool, coin, opened, left>>
    BY Zenon DEF Persist
  <1>2. NodeOk(n, opened, h) /\ f = Snapshot(n)
    BY MailsNow, Zenon
  <1> HIDE DEF n, f, h
  <1>3. FileOk(f, DOMAIN n.mons, opened, h) /\ f.events = n.events
    BY <1>2, SnapshotKeeps, Zenon
  <1>4. DOMAIN file' = Peers /\ file'[p] = f /\ \A q \in Peers : q # p => file'[q] = file[q]
    BY <1>1, Zenon DEF IInv, Typed
  <1>5. \A q \in Peers : NodeOk(node[q], opened, left.height) /\ FileOk(file[q], DOMAIN node[q].mons, opened, left.height)
    BY Zenon DEF IInv, NodesOk
  <1>6. \A q \in Peers : FileOk(file'[q], DOMAIN node[q].mons, opened, left.height)
    <2> SUFFICES ASSUME NEW q \in Peers PROVE FileOk(file'[q], DOMAIN node[q].mons, opened, left.height)
      BY Zenon
    <2>1. CASE q = p
      BY <1>3, <1>4, <2>1, Zenon DEF n, h
    <2>2. CASE q # p
      BY <1>4, <1>5, <2>2, Zenon
    <2> QED
      BY <2>1, <2>2, Zenon
  <1>7. NodesOk'
    BY <1>1, <1>5, <1>6, Zenon DEF NodesOk
  <1>8. B \in Peers
    BY Zenon DEF Peers
  <1>9. Quiet'
    BY <1>1, <1>3, <1>4, <1>8, Zenon DEF IInv, Quiet, n
  <1>10. Typed' /\ Mails' /\ Watched' /\ ChainOk'
    BY <1>1, <1>4, Zenon DEF IInv, Typed, Mails, Watched, ChainOk
  <1> QED
    BY <1>7, <1>9, <1>10, Zenon DEF IInv

LEMMA RestartStep == ASSUME IInv, NEW p \in Peers, Restart(p) PROVE IInv'
  <1> DEFINE n == node[p]
             f == file[p]
             h == left.height
             m == Loaded(n, f)
             M == DOMAIN node[B].mons
             S == opened \ Held(node[B])
             e == "restarts"
             w == [net EXCEPT ![p] = <<>>]
             R == {}
  <1>1. /\ node' = [node EXCEPT ![p] = m] /\ net' = w /\ Use(e)
        /\ UNCHANGED <<file, chain, mempool, coin, opened>>
    BY Zenon DEF Restart
  <1>2. /\ NodeOk(n, opened, h) /\ DOMAIN net = Peers /\ left \in Budget /\ h \in Nat
        /\ Mail(net[A], R, M) /\ Mail(net[B], S, M)
    BY MailsNow, Zenon
  <1>3. FileOk(f, DOMAIN n.mons, opened, h) /\ (p = B => f.events = <<>>)
    BY Zenon DEF IInv, NodesOk, Quiet
  <1>4. e \in {"reorgs", "breaks", "restarts"} /\ m = Loaded(n, f) /\ w = [net EXCEPT ![p] = <<>>]
    BY Zenon
  <1> HIDE DEF n, f, h, m, M, S, e, w, R
  <1>5. left' \in Budget /\ left'.height = left.height
    BY <1>1, <1>2, <1>4, UseIs, Zenon
  <1>6. NodeOk(m, opened, h) /\ Tame(n, m) /\ m.events = f.events /\ m.hand.pc = "starting"
    BY <1>2, <1>3, <1>4, LoadedKeeps
  <1>7. DOMAIN w = Peers /\ Mail(w[A], R, M) /\ Mail(w[B], S, M)
    BY <1>2, <1>4, LostMail, Zenon
  <1>8. p = B => m.events = <<>> /\ m.hand.pc \in {"idle", "starting"}
    BY <1>3, <1>6, Zenon
  <1> QED
    BY <1>1, <1>5, <1>6, <1>7, <1>8, TameStep, Zenon DEF n, h, M, S, R

LEMMA StartedStep == ASSUME IInv, NEW p \in Peers, Started(p) PROVE IInv'
  <1> DEFINE n == node[p]
             m == [n EXCEPT !.hand = Idle]
  <1>1. node' = [node EXCEPT ![p] = m] /\ UNCHANGED <<file, net, chain, mempool, coin, opened, left>>
    BY Zenon DEF Started
  <1>2. /\ NodeOk(n, opened, left.height) /\ DOMAIN net = Peers /\ left \in Budget
        /\ Mail(net[A], {}, DOMAIN node[B].mons) /\ Mail(net[B], opened \ Held(node[B]), DOMAIN node[B].mons)
        /\ node[B].events = <<>>
    BY MailsNow, Zenon
  <1> HIDE DEF n
  <1>3. NodeOk(m, opened, left.height) /\ Tame(n, m) /\ m.events = n.events /\ m.hand.pc = "idle"
    BY <1>2, HandIdle, Zenon
  <1> HIDE DEF m
  <1>4. p = B => m.events = <<>> /\ m.hand.pc \in {"idle", "starting"}
    BY <1>2, <1>3, Zenon DEF n
  <1> QED
    BY <1>1, <1>2, <1>3, <1>4, TameStep, Zenon DEF n

LEMMA IInvStep == ASSUME IInv, [Next]_vars PROVE IInv'
  <1>1. ASSUME NEW k \in Opens, create_channel(k) \/ internal_open_channel(k) PROVE IInv'
    BY <1>1, CreateStep, OpenStep, Zenon
  <1>2. ASSUME internal_accept_channel \/ internal_funding_created \/ internal_funding_signed PROVE IInv'
    BY <1>2, AcceptStep, FundingCreatedStep, FundingSignedStep, Zenon
  <1>3. ASSUME FundTransaction \/ TakeChannel \/ InsertChannel PROVE IInv'
    BY <1>3, FundStep, TakeStep, InsertStep, Zenon
  <1>4. ASSUME Mine \/ Reorg \/ peer_connected PROVE IInv'
    BY <1>4, MineStep, ReorgStep, MeetStep, Zenon
  <1>5. ASSUME NEW p \in Peers, UnknownChannel(p) \/ internal_channel_ready(p) \/ handle_error(p) PROVE IInv'
    BY <1>5, UnknownStep, ReadyStep, ErrorStep, Zenon
  <1>6. ASSUME NEW p \in Peers, internal_announcement_signatures(p) \/ internal_channel_reestablish(p) PROVE IInv'
    BY <1>6, SigsStep, ReestablishStep, Zenon
  <1>7. ASSUME NEW p \in Peers, block_connected(p) \/ block_disconnected(p) PROVE IInv'
    BY <1>7, ConnectStep, DisconnectStep, Zenon
  <1>8. ASSUME NEW p \in Peers, process_pending_monitor_events(p) \/ timer_tick_occurred(p) PROVE IInv'
    BY <1>8, MonitorStep, TickStep, Zenon
  <1>9. ASSUME NEW p \in Peers, peer_disconnected(p) \/ Persist(p) \/ Restart(p) \/ Started(p) PROVE IInv'
    BY <1>9, BreakStep, PersistStep, RestartStep, StartedStep, Zenon
  <1>10. ASSUME NEW p \in Peers, NEW tx \in node[p].tasks, Publish(p, tx) PROVE IInv'
    BY <1>10, PublishStep, Zenon
  <1>11. ASSUME UNCHANGED vars PROVE IInv'
    <2>1. /\ node' = node /\ file' = file /\ net' = net /\ chain' = chain /\ mempool' = mempool
          /\ opened' = opened /\ left' = left
      BY <1>11, Zenon DEF vars
    <2> QED
      BY <2>1, Zenon DEF IInv, Typed, NodesOk, Quiet, Mails, Watched, ChainOk
  <1> QED
    BY <1>1, <1>2, <1>3, <1>4, <1>5, <1>6, <1>7, <1>8, <1>9, <1>10, <1>11, Zenon DEF Next

LEMMA Invariant == Spec => []IInv
  BY IInvInit, IInvStep, PTL DEF Spec

-----------------------------------------------------------------------------
(* The theorems.                                                           *)

\* The nodes' tables hold what they may: every channel and monitor belongs to a
\* channel that was opened, a channel_ready that was sent alone belongs to a channel
\* in FundingSent, funding_tx_confirmation_height is none or the one of the short
\* channel id, and bitcoind has no transaction both in its mempool and in the chain.
THEOREM OpenTyped == Spec => []TypeOK
  <1>1. IInv => TypeOK
    <2> SUFFICES ASSUME IInv PROVE TypeOK
      BY Zenon
    <2>1. mempool \cap InChain(chain) = {}
      BY Zenon DEF IInv, ChainOk
    <2>2. \A p \in Peers : NodeOk(node[p], opened, left.height)
      BY Zenon DEF IInv, NodesOk
    <2> QED
      BY <2>1, <2>2, ZenonT(40) DEF TypeOK, NodeOk, NodeIn, ChanOk, Sane
  <1> QED
    BY <1>1, Invariant, PTL

\* funding_transaction_generated hands the funding transaction to nobody before
\* funding_signed, and internal_funding_created stores its monitor before it signs:
\* whatever is lost or restarted in between, a funding transaction that a task, the
\* mempool or the chain has is watched by both nodes.
THEOREM FundingAlwaysWatched == Spec => []FundedIsWatched
  <1>1. IInv => FundedIsWatched
    <2>1. A \in Peers
      BY Zenon DEF Peers
    <2> QED
      BY <2>1, Zenon DEF IInv, Watched, FundedIsWatched
  <1> QED
    BY <1>1, Invariant, PTL

\* ChannelManager::read never finds a channel in the manager file for which no
\* monitor is stored, at whatever step the node is stopped.
THEOREM ManagerAlwaysLoads == Spec => []ManagerLoads
  <1>1. IInv => ManagerLoads
    BY Zenon DEF IInv, NodesOk, NodeOk, NodeIn, ManagerLoads
  <1> QED
    BY <1>1, Invariant, PTL

\* check_get_channel_ready and best_block_updated keep the depth rule through every
\* reorganisation: a channel that counts as ready has its funding transaction in the
\* chain as the node sees it, at the height of its short channel id.
THEOREM ReadyAlwaysConfirmed == Spec => []ReadyIsConfirmed
  <1>1. IInv => ReadyIsConfirmed
    <2> SUFFICES ASSUME IInv, NEW p \in Peers, NEW k \in DOMAIN node[p].chans,
                        is_our_channel_ready(node[p].chans[k]),
                        node[p].chans[k].depth > 0 \/ node[p].chans[k].confIn
                 PROVE  LET c == node[p].chans[k] IN
                        /\ c.conf = c.scid /\ c.scid \in DOMAIN node[p].view
                        /\ Fund(k) \in node[p].view[c.scid].txs
      BY Zenon DEF ReadyIsConfirmed
    <2> DEFINE c == node[p].chans[k]
               V == node[p].view
    <2>1. IsSeq(V) /\ ChanOk(c, k, V, left.height)
      BY Zenon DEF IInv, NodesOk, NodeOk, NodeIn
    <2>2. DOMAIN V = 1 .. Len(V)
      BY <2>1, SeqIs, Zenon
    <2> QED
      BY <2>1, <2>2, Zenon DEF ChanOk, Sane, Anchored, ReadyOk
  <1> QED
    BY <1>1, Invariant, PTL
============================================================================
