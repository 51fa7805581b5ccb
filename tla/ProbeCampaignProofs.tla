------------------------- MODULE ProbeCampaignProofs ------------------------
(***************************************************************************)
(* Proofs about the probing campaign, for any node file, transaction file, *)
(* limit and network.                                                      *)
(***************************************************************************)
EXTENDS ProbeCampaign, FiniteSetTheorems, TLAPS

AllPaths ==
  (UNION {Routes(x[1], x[2]) : x \in Manual \cup (Range(Nodes) \X Range(Txs))})
    \cup {ToNode(n) : n \in Fake}
Sent == [path : AllPaths, probe : BOOLEAN]

\* The payments that the events of a queue are about.
About(q) == {q[k].probe : k \in 1 .. Len(q)}

\* A queue of events about the first n payments.
Queue(q, n) == q \in Seq(Event) /\ About(q) \subseteq 1 .. n

Types ==
  /\ cmd \in {"prompt", "node", "tx", "probe"}
  /\ ni \in Nat \ {0} /\ ti \in Nat \ {0}
  /\ cmd \in {"tx", "probe"} => ni \in 1 .. Len(Nodes)
  /\ cmd = "probe" => ti \in 1 .. Len(Txs)
  /\ sent \in Seq(Sent) /\ Len(sent) <= MaxSends
  /\ inflight \subseteq 1 .. Len(sent) /\ pending \subseteq 1 .. Len(sent)
  /\ Queue(events, Len(sent)) /\ Queue(batch, Len(sent)) /\ Queue(saved.events, Len(sent))

-----------------------------------------------------------------------------
(* Queues and paths.                                                  *)

LEMMA AppendAt ==
    ASSUME NEW S, NEW s \in Seq(S), NEW e \in S
    PROVE  /\ Append(s, e) \in Seq(S) /\ Len(s) \in Nat /\ Len(Append(s, e)) = Len(s) + 1
           /\ Append(s, e)[Len(s) + 1] = e
           /\ \A k \in 1 .. Len(s) : Append(s, e)[k] = s[k]
  OBVIOUS

LEMMA Appended ==
    ASSUME NEW n \in Nat, NEW q, Queue(q, n), NEW e \in Event, e.probe \in 1 .. n
    PROVE  Queue(Append(q, e), n) /\ About(Append(q, e)) = About(q) \cup {e.probe}
  <1> DEFINE r == Append(q, e)
  <1>1. /\ r \in Seq(Event) /\ Len(q) \in Nat /\ Len(r) = Len(q) + 1 /\ r[Len(q) + 1] = e
        /\ \A k \in 1 .. Len(q) : r[k] = q[k]
    BY DEF Queue
  <1> HIDE DEF r
  <1>2. About(r) = About(q) \cup {e.probe}
    BY <1>1 DEF About
  <1>3. Queue(r, n)
    BY <1>1, <1>2, Zenon DEF Queue
  <1> QED
    BY <1>2, <1>3, Zenon DEF r

LEMMA Taken ==
    ASSUME NEW n \in Nat, NEW q, Queue(q, n), q # <<>>
    PROVE  /\ Queue(Tail(q), n) /\ About(Tail(q)) \subseteq About(q)
           /\ Head(q) \in Event /\ Head(q).probe \in About(q) /\ Head(q).probe \in 1 .. n
  <1> DEFINE r == Tail(q)
  <1>1. /\ r \in Seq(Event) /\ Len(q) \in Nat \ {0} /\ Len(r) = Len(q) - 1
        /\ \A k \in 1 .. Len(r) : r[k] = q[k + 1]
    BY DEF Queue
  <1>2. Head(q) = q[1] /\ q[1] \in Event
    BY DEF Queue
  <1> HIDE DEF r
  <1>3. About(r) \subseteq About(q) /\ q[1].probe \in About(q)
    BY <1>1 DEF About
  <1>4. Queue(r, n) /\ q[1].probe \in 1 .. n
    BY <1>1, <1>3, Zenon DEF Queue
  <1> QED
    BY <1>2, <1>3, <1>4, Zenon DEF r

LEMMA Empty == ASSUME NEW n PROVE Queue(<<>>, n) /\ About(<<>>) = {}
  BY DEF Queue, About

LEMMA MoreSent ==
    ASSUME NEW n \in Nat, NEW m \in Nat, n <= m, NEW q, Queue(q, n) PROVE Queue(q, m)
  BY DEF Queue

\* Every answer of the network is a code the match of main.rs knows or "other".
LEMMA RepliesAreCodes == ASSUME NEW path PROVE Replies(path) \subseteq Codes
  BY CodesAssumption, Zenon DEF Replies, Codes, NoCode

\* A probe is about the pair under test, unless the router took an announced
\* channel of the guessed node.
LEMMA ProbedPair ==
    ASSUME NEW t, NEW s, NEW path \in Routes(t, s)
    PROVE  \/ LastHop(path) = <<t, s>>
           \/ \E c \in GuessChannels : LastHop(path) = <<c[1], c[2]>>
  <1>1. PICK c \in {<<t, s>>} \cup GuessChannels : path = Append(ToNode(c[1]), hop(Guess, c[2]))
    BY Zenon DEF Routes
  <1>2. CASE c[1] = Hub
    <2> DEFINE n == <<hop(Hub, "own")>>
               S == {hop(Hub, "own"), hop(Guess, c[2])}
    <2>1. n \in Seq(S) /\ Len(n) = 1 /\ n[1] = hop(Hub, "own") /\ hop(Guess, c[2]) \in S
      OBVIOUS
    <2>2. path = Append(n, hop(Guess, c[2]))
      BY <1>1, <1>2, Zenon DEF ToNode
    <2> HIDE DEF n, S
    <2>3. Len(path) = 2 /\ path[1] = hop(Hub, "own") /\ path[2] = hop(Guess, c[2])
      BY <2>1, <2>2, AppendAt
    <2>4. LastHop(path) = <<c[1], c[2]>>
      BY <1>2, <2>3 DEF LastHop, hop
    <2> QED
      BY <1>1, <2>4
  <1>3. CASE c[1] # Hub
    <2> DEFINE n == <<hop(Hub, "own"), hop(c[1], "announced")>>
               S == {hop(Hub, "own"), hop(c[1], "announced"), hop(Guess, c[2])}
    <2>1. /\ n \in Seq(S) /\ Len(n) = 2 /\ n[2] = hop(c[1], "announced")
          /\ hop(Guess, c[2]) \in S
      OBVIOUS
    <2>2. path = Append(n, hop(Guess, c[2]))
      BY <1>1, <1>3, Zenon DEF ToNode
    <2> HIDE DEF n, S
    <2>3. Len(path) = 3 /\ path[2] = hop(c[1], "announced") /\ path[3] = hop(Guess, c[2])
      BY <2>1, <2>2, AppendAt
    <2>4. LastHop(path) = <<c[1], c[2]>>
      BY <2>3 DEF LastHop, hop
    <2> QED
      BY <1>1, <2>4
  <1> QED
    BY <1>2, <1>3, Zenon

-----------------------------------------------------------------------------
(* Types.                                                                   *)

LEMMA TypesInit == Init => Types
  BY Empty, BoundsAssumption DEF Init, Types

\* What is sent is the next payment, and it is in flight.
Sending(path, is_probe) ==
  /\ Len(sent) \in Nat /\ Len(sent') = Len(sent) + 1
  /\ \A k \in 1 .. Len(sent) : sent'[k] = sent[k]
  /\ sent'[Len(sent) + 1].path = path /\ sent'[Len(sent) + 1].probe = is_probe
  /\ inflight' = inflight \cup {Len(sent) + 1}
  /\ pending' = IF is_probe THEN pending \cup {Len(sent) + 1} ELSE pending
  /\ UNCHANGED <<events, batch, saved>>

LEMMA Sends ==
    ASSUME Types, SendOk, NEW path \in AllPaths, NEW is_probe \in BOOLEAN,
           sent' = Append(sent, [path |-> path, probe |-> is_probe]),
           inflight' = inflight \cup {Len(sent')},
           pending' = IF is_probe THEN pending \cup {Len(sent')} ELSE pending,
           UNCHANGED <<events, batch, saved>>
    PROVE  /\ Sending(path, is_probe)
           /\ sent' \in Seq(Sent) /\ Len(sent') <= MaxSends
           /\ inflight' \subseteq 1 .. Len(sent') /\ pending' \subseteq 1 .. Len(sent')
           /\ \A q \in {events', batch', saved'.events} : Queue(q, Len(sent'))
  <1> DEFINE p == [path |-> path, probe |-> is_probe]
  <1>1. p \in Sent /\ p.path = path /\ p.probe = is_probe
    BY Zenon DEF Sent
  <1>2. sent' = Append(sent, p) /\ sent \in Seq(Sent)
    BY Zenon DEF Types
  <1> HIDE DEF p
  <1>3. /\ sent' \in Seq(Sent) /\ Len(sent) \in Nat /\ Len(sent') = Len(sent) + 1
        /\ sent'[Len(sent) + 1] = p /\ \A k \in 1 .. Len(sent) : sent'[k] = sent[k]
    BY <1>1, <1>2, AppendAt
  <1>4. Len(sent') <= MaxSends
    BY <1>3, BoundsAssumption DEF SendOk
  <1>5. inflight' \subseteq 1 .. Len(sent') /\ pending' \subseteq 1 .. Len(sent')
    <2>1. 1 .. Len(sent') = (1 .. Len(sent)) \cup {Len(sent')}
      BY <1>3
    <2>2. inflight \subseteq 1 .. Len(sent) /\ pending \subseteq 1 .. Len(sent)
      BY Zenon DEF Types
    <2> QED
      BY <2>1, <2>2, Zenon
  <1>6. \A q \in {events, batch, saved.events} : Queue(q, Len(sent'))
    BY <1>3, MoreSent DEF Types
  <1> QED
    BY <1>1, <1>3, <1>4, <1>5, <1>6, Zenon DEF Sending

LEMMA ProbeSends ==
    ASSUME Types, NEW x \in Manual \cup (Range(Nodes) \X Range(Txs)), probe(x[1], x[2])
    PROVE  \E path \in Routes(x[1], x[2]) :
             /\ Sending(path, TRUE)
             /\ sent' \in Seq(Sent) /\ Len(sent') <= MaxSends
             /\ inflight' \subseteq 1 .. Len(sent') /\ pending' \subseteq 1 .. Len(sent')
             /\ \A q \in {events', batch', saved'.events} : Queue(q, Len(sent'))
  <1>1. PICK path \in Routes(x[1], x[2]) : sent' = Append(sent, [path |-> path, probe |-> TRUE])
    BY Zenon DEF probe
  <1>2. path \in AllPaths
    BY <1>1, Zenon DEF AllPaths
  <1> QED
    BY <1>1, <1>2, Sends, Zenon DEF probe

\* At "probe" the campaign is about a pair of its files.
LEMMA AtPair ==
    ASSUME Types, cmd = "probe"
    PROVE  <<Nodes[ni], Txs[ti]>> \in Range(Nodes) \X Range(Txs)
  BY FilesAssumption DEF Types

LEMMA TypesStep == Types /\ [Next]_vars => Types'
  <1> SUFFICES ASSUME Types, [Next]_vars PROVE Types'
    BY Zenon
  <1> USE BoundsAssumption
  <1>0. Len(sent) \in Nat /\ Len(Nodes) \in Nat /\ Len(Txs) \in Nat
    BY FilesAssumption DEF Types
  <1>1. CASE probeprivate
    <2>1. PICK x \in Manual : probe(x[1], x[2])
      BY <1>1, Zenon DEF probeprivate
    <2> QED
      BY <1>1, <2>1, ProbeSends, Zenon DEF probeprivate, cli, Types
  <1>2. CASE sendfakepayment
    <2>1. PICK n \in Fake : sent' = Append(sent, [path |-> ToNode(n), probe |-> FALSE])
      BY <1>2, Zenon DEF sendfakepayment
    <2>2. ToNode(n) \in AllPaths
      BY <2>1, Zenon DEF AllPaths
    <2> QED
      BY <1>2, <2>1, <2>2, Sends, Zenon DEF sendfakepayment, cli, Types
  <1>3. CASE ProbeTx
    <2>1. probe(Nodes[ni], Txs[ti]) /\ cmd' = "tx" /\ ti' = ti + 1 /\ ni' = ni /\ cmd = "probe"
      BY <1>3, Zenon DEF ProbeTx
    <2>2. /\ sent' \in Seq(Sent) /\ Len(sent') <= MaxSends
          /\ inflight' \subseteq 1 .. Len(sent') /\ pending' \subseteq 1 .. Len(sent')
          /\ \A q \in {events', batch', saved'.events} : Queue(q, Len(sent'))
      <3> DEFINE x == <<Nodes[ni], Txs[ti]>>
      <3>1. x \in Range(Nodes) \X Range(Txs) /\ probe(x[1], x[2])
        BY <2>1, AtPair, Zenon
      <3> QED
        BY <3>1, ProbeSends, Zenon
    <2> QED
      BY <2>1, <2>2 DEF Types
  <1>4. CASE probeall
    BY <1>4 DEF probeall, manager, Types
  <1>5. CASE NextNode
    <2>1. /\ ni \in 1 .. Len(Nodes) /\ cmd' \in {"node", "tx"} /\ ni' \in {ni, ni + 1} /\ ti' \in {ti, 1}
          /\ cmd' = "tx" => ni' = ni
          /\ UNCHANGED <<pending, sent, inflight, events, batch, saved>>
      BY <1>0, <1>5 DEF NextNode, manager, Types
    <2> QED
      BY <1>0, <2>1 DEF Types
  <1>6. CASE LastNode
    BY <1>6 DEF LastNode, Prompt, manager, Types
  <1>7. CASE LeaveTxs
    BY <1>7 DEF LeaveTxs, manager, Types
  <1>8. CASE NextTx
    <2>1. /\ cmd = "tx" /\ cmd' \in {"tx", "probe"} /\ ti \in 1 .. Len(Txs) /\ ti' \in {ti, ti + 1}
          /\ cmd' = "probe" => ti' = ti
          /\ UNCHANGED <<ni, pending, sent, inflight, events, batch, saved>>
      BY <1>0, <1>8 DEF NextTx, TakeTx, manager, Types
    <2> QED
      BY <1>0, <2>1 DEF Types
  <1>9. CASE Interrupt \/ PeerGone \/ PeerBack \/ RouteChanges \/ ChannelClosed
    BY <1>9, Zenon DEF Interrupt, PeerGone, PeerBack, RouteChanges, ChannelClosed, cli, manager, Types
  <1>10. CASE process_pending_events
    BY <1>10, Empty, Zenon DEF process_pending_events, cli, Types
  <1>11. CASE PaymentPathFailed
    <2> DEFINE e == [kind |-> "PaymentFailed", probe |-> Head(batch).probe]
    <2>1. /\ batch # <<>> /\ events' = Append(events, e) /\ batch' = Tail(batch)
          /\ UNCHANGED <<cmd, ni, ti, sent, inflight, pending, saved>>
      BY <1>11, Zenon DEF PaymentPathFailed, cli
    <2>2. Queue(Tail(batch), Len(sent)) /\ Head(batch).probe \in 1 .. Len(sent)
      BY <1>0, <2>1, Taken, Zenon DEF Types
    <2>3. e \in Event /\ e.probe \in 1 .. Len(sent)
      BY <1>0, <2>2 DEF Types, Event, Probes
    <2> HIDE DEF e
    <2>4. Queue(events', Len(sent))
      BY <1>0, <2>1, <2>3, Appended, Zenon DEF Types
    <2> QED
      BY <2>1, <2>2, <2>4, Zenon DEF Types
  <1>12. CASE PaymentFailed
    <2>1. /\ batch # <<>> /\ pending' \subseteq pending /\ batch' = Tail(batch)
          /\ UNCHANGED <<cmd, ni, ti, sent, inflight, events, saved>>
      BY <1>12, Zenon DEF PaymentFailed, cli
    <2>2. Queue(Tail(batch), Len(sent))
      BY <1>0, <2>1, Taken, Zenon DEF Types
    <2> QED
      BY <2>1, <2>2, Zenon DEF Types
  <1>13. CASE persist_manager
    BY <1>13, Zenon DEF persist_manager, cli, Types
  <1>14. ASSUME NEW p \in Probes, HtlcFails(p) PROVE Types'
    <2>1. PICK code \in (IF link = "up" THEN Replies(sent[p].path) ELSE {"other", NoCode}) :
            events' = Append(events, [kind |-> "PaymentPathFailed", probe |-> p, code |-> code])
      BY <1>14, Zenon DEF HtlcFails
    <2> DEFINE e == [kind |-> "PaymentPathFailed", probe |-> p, code |-> code]
    <2>2. /\ p \in inflight /\ inflight' = inflight \ {p} /\ events' = Append(events, e)
          /\ UNCHANGED <<cmd, ni, ti, sent, pending, batch, saved>>
      BY <1>14, <2>1, Zenon DEF HtlcFails, cli
    <2>3. code \in Codes
      BY <2>1, RepliesAreCodes, Zenon DEF Codes
    <2>4. e \in Event /\ e.probe = p /\ p \in 1 .. Len(sent)
      BY <2>2, <2>3, Zenon DEF Event, Types
    <2> HIDE DEF e
    <2>5. Queue(events', Len(sent))
      BY <1>0, <2>2, <2>4, Appended, Zenon DEF Types
    <2> QED
      BY <2>2, <2>5, Zenon DEF Types
  <1>15. CASE Crash \/ stop
    <2>1. PICK queue \in {events, saved.events} : StartAgain(queue)
      BY <1>15, Zenon DEF Crash, stop
    <2>2. Queue(queue, Len(sent)) /\ saved'.events = queue
      BY <2>1, Zenon DEF Types, StartAgain
    <2> QED
      BY <2>1, <2>2, Empty DEF StartAgain, Prompt, Types
  <1>16. CASE UNCHANGED vars
    BY <1>16, Zenon DEF vars, Types
  <1> QED
    BY <1>1, <1>2, <1>3, <1>4, <1>5, <1>6, <1>7, <1>8, <1>9, <1>10, <1>11, <1>12, <1>13, <1>14,
       <1>15, <1>16, Zenon DEF Next, Campaign, Background, Network

-----------------------------------------------------------------------------
(* The type invariant.  Together with Types it is inductive.                *)

\* The row of a payment is about a pair of the files, a pair probed by hand, or an
\* announced channel.
LEMMA RowPair ==
    ASSUME NEW path \in AllPaths, Len(path) > 1
    PROVE  <<LastHop(path)[1], LastHop(path)[2]>> \in Pairs \cup Known
  <1>1. CASE \E x \in Manual \cup (Range(Nodes) \X Range(Txs)) : path \in Routes(x[1], x[2])
    <2>1. PICK x \in Manual \cup (Range(Nodes) \X Range(Txs)) : path \in Routes(x[1], x[2])
      BY <1>1, Zenon
    <2>2. <<x[1], x[2]>> \in Pairs \cup Known
      BY <2>1 DEF Pairs, Scids, Known
    <2>3. PICK y : LastHop(path) = <<y[1], y[2]>> /\ <<y[1], y[2]>> \in Pairs \cup Known
      <3>1. CASE LastHop(path) = <<x[1], x[2]>>
        BY <2>2, <3>1, Zenon
      <3>2. CASE \E c \in GuessChannels : LastHop(path) = <<c[1], c[2]>>
        <4>1. PICK c \in GuessChannels : LastHop(path) = <<c[1], c[2]>>
          BY <3>2, Zenon
        <4>2. <<c[1], c[2]>> \in Pairs \cup Known
          BY <4>1, Zenon DEF Known
        <4> QED
          BY <4>1, <4>2, Zenon
      <3>3. \/ \E c \in GuessChannels : LastHop(path) = <<c[1], c[2]>>
            \/ LastHop(path) = <<x[1], x[2]>>
        BY <2>1, ProbedPair
      <3> QED
        BY <3>1, <3>2, <3>3, Zenon
    <2>4. <<LastHop(path)[1], LastHop(path)[2]>> = LastHop(path)
      BY <2>3
    <2> QED
      BY <2>3, <2>4, Zenon
  <1>2. CASE \E n \in Fake : path = ToNode(n)
    <2>1. PICK n \in Fake : path = ToNode(n)
      BY <1>2, Zenon
    <2>2. n # Hub
      BY <2>1 DEF ToNode
    <2>3. path = <<hop(Hub, "own"), hop(n, "announced")>>
      BY <2>1, <2>2, Zenon DEF ToNode
    <2>4. LastHop(path)[1] = Hub /\ LastHop(path)[2] = "announced"
      BY <2>3 DEF LastHop, hop
    <2> QED
      BY <2>4, Zenon DEF Known
  <1> QED
    BY <1>1, <1>2, Zenon DEF AllPaths

\* The rows of a set of attempts are about such pairs, and so is what probeall skips.
RowsTyped(rows) == \A r \in rows : <<r.target, r.scid>> \in Pairs \cup Known

LEMMA AttemptsTyped ==
    ASSUME NEW rows, RowsTyped(rows) PROVE get_attempts_str(rows) \subseteq Pairs \cup Known
  BY Zenon DEF RowsTyped, get_attempts_str

\* What of TypeOK is beyond Types.
Rest ==
  /\ ni <= Len(Nodes) + 1 /\ ti <= Len(Txs) + 1
  /\ assume \in BOOLEAN /\ running \in 0 .. 1 /\ seen \subseteq Pairs \cup Known
  /\ saved.inflight \subseteq Probes /\ link \in {"up", "down", "closed"}
  /\ RowsTyped(attempt)
  /\ entered \subseteq Range(Nodes) /\ probed \subseteq Pairs

LEMMA RestInit == Init => Rest
  <1> SUFFICES ASSUME Init PROVE Rest
    BY Zenon
  <1>1. 1 <= Len(Nodes) + 1 /\ 1 <= Len(Txs) + 1
    BY FilesAssumption
  <1>2. /\ ni = 1 /\ ti = 1 /\ assume = FALSE /\ seen = {} /\ running = 0 /\ link = "up" /\ attempt = {}
        /\ entered = {} /\ probed = {} /\ saved.inflight = {}
    BY DEF Init
  <1>3. 0 \in 0 .. 1
    OBVIOUS
  <1> QED
    BY <1>1, <1>2, <1>3, Zenon DEF Rest, RowsTyped

\* A step that leaves the loops and the table alone.
LEMMA RestKept ==
    ASSUME Rest, UNCHANGED <<ni, ti, assume, seen, attempt, entered, probed>>,
           running' \in 0 .. 1, saved'.inflight \subseteq Probes, link' \in {"up", "down", "closed"}
    PROVE  Rest'
  BY Zenon DEF Rest, RowsTyped

LEMMA RestStep == ASSUME Types, Rest, [Next]_vars PROVE Rest'
  <1>1. Len(Nodes) \in Nat /\ Len(Txs) \in Nat /\ 0 \in 0 .. 1 /\ 1 \in 0 .. 1
    BY FilesAssumption
  <1>2. Len(sent) \in Nat /\ inflight \subseteq Probes /\ saved.inflight \subseteq Probes
    BY BoundsAssumption DEF Types, Rest, Probes
  <1>3. running \in 0 .. 1 /\ link \in {"up", "down", "closed"}
    BY Zenon DEF Rest
  <1>4. ASSUME Prompt, running' \in 0 .. 1, saved'.inflight \subseteq Probes,
               link' \in {"up", "down", "closed"}, UNCHANGED attempt
        PROVE  Rest'
    <2>1. /\ ni' = 1 /\ ti' = 1 /\ assume' = FALSE /\ seen' = {} /\ entered' = {} /\ probed' = {}
      BY <1>4, Zenon DEF Prompt
    <2>2. ni' <= Len(Nodes) + 1 /\ ti' <= Len(Txs) + 1
      BY <1>1, <2>1
    <2> QED
      BY <1>4, <2>1, <2>2, Zenon DEF Rest, RowsTyped
  <1>5. CASE \/ probeprivate \/ sendfakepayment \/ process_pending_events \/ PaymentFailed
             \/ PeerGone \/ PeerBack \/ RouteChanges \/ ChannelClosed \/ Interrupt \/ UNCHANGED vars
             \/ \E p \in Probes : HtlcFails(p)
    <2>1. /\ UNCHANGED <<ni, ti, assume, seen, attempt, entered, probed, saved>>
          /\ running' \in {running, 1} /\ link' \in {link, "up", "down", "closed"}
      BY <1>5, Zenon DEF probeprivate, probe, sendfakepayment, process_pending_events, PaymentFailed,
         PeerGone, PeerBack, RouteChanges, ChannelClosed, Interrupt, HtlcFails, cli, manager, hist, vars, outside
    <2> QED
      BY <1>1, <1>2, <1>3, <2>1, RestKept, Zenon
  <1>6. CASE persist_manager
    <2>1. /\ UNCHANGED <<ni, ti, assume, seen, attempt, entered, probed, running, link>>
          /\ saved'.inflight = inflight
      BY <1>6, Zenon DEF persist_manager, cli, hist, outside
    <2> QED
      BY <1>2, <1>3, <2>1, RestKept, Zenon
  <1>7. CASE PaymentPathFailed
    <2> DEFINE e == Head(batch)
               path == sent[e.probe].path
    <2>1. /\ UNCHANGED <<ni, ti, assume, seen, entered, probed, running, link, saved>>
          /\ batch # <<>>
          /\ attempt' = IF Recorded(path, e.code) THEN attempt \cup {Row(e.probe, path, e.code)}
                        ELSE attempt
      BY <1>7, Zenon DEF PaymentPathFailed, cli, hist, outside
    <2>2. path \in AllPaths
      <3>1. e.probe \in 1 .. Len(sent)
        BY <1>2, <2>1, Taken, Zenon DEF Types
      <3>2. sent[e.probe] \in Sent
        BY <3>1 DEF Types
      <3> QED
        BY <3>2, Zenon DEF Sent
    <2>3. RowsTyped(attempt')
      <3>1. CASE Recorded(path, e.code)
        <4>1. <<LastHop(path)[1], LastHop(path)[2]>> \in Pairs \cup Known
          BY <2>2, <3>1, RowPair, Zenon DEF Recorded
        <4> DEFINE r == Row(e.probe, path, e.code)
        <4>2. r.target = LastHop(path)[1] /\ r.scid = LastHop(path)[2]
          BY Zenon DEF Row
        <4>3. attempt' = attempt \cup {r}
          BY <2>1, <3>1, Zenon
        <4> HIDE DEF r, path, e
        <4> QED
          BY <4>1, <4>2, <4>3, Zenon DEF Rest, RowsTyped
      <3>2. CASE ~Recorded(path, e.code)
        BY <2>1, <3>2, Zenon DEF Rest
      <3> QED
        BY <3>1, <3>2, Zenon
    <2> QED
      BY <2>1, <2>3, Zenon DEF Rest
  <1>8. CASE probeall
    <2>1. /\ ni' = 1 /\ ti' = 1 /\ assume' \in BOOLEAN /\ seen' = get_attempts_str(attempt)
          /\ entered' = {} /\ probed' = {} /\ UNCHANGED <<running, saved, link, attempt>>
      BY <1>8, Zenon DEF probeall, manager, outside
    <2>2. ni' <= Len(Nodes) + 1 /\ ti' <= Len(Txs) + 1
      BY <1>1, <2>1
    <2> QED
      BY <2>1, <2>2, AttemptsTyped, Zenon DEF Rest
  <1>9. CASE NextNode
    <2>1. ni \in 1 .. Len(Nodes)
      BY <1>1, <1>9 DEF NextNode, Types
    <2>2. /\ ni' \in {ni, ni + 1} /\ ti' \in {ti, 1} /\ entered' \subseteq entered \cup {Nodes[ni]}
          /\ UNCHANGED <<assume, seen, running, saved, link, attempt, probed>>
      BY <1>9, Zenon DEF NextNode, manager, outside
    <2>3. ni' <= Len(Nodes) + 1 /\ ti' <= Len(Txs) + 1
      BY <1>1, <2>1, <2>2 DEF Rest
    <2>4. Nodes[ni] \in Range(Nodes)
      BY <2>1, FilesAssumption
    <2> QED
      BY <2>2, <2>3, <2>4, Zenon DEF Rest
  <1>10. CASE LastNode
    BY <1>2, <1>3, <1>4, <1>10, Zenon DEF LastNode, manager, outside
  <1>11. CASE LeaveTxs
    <2>1. ni' = ni + 1 /\ cmd = "tx" /\ UNCHANGED <<ti, assume, seen, running, saved, link, attempt, entered, probed>>
      BY <1>11, Zenon DEF LeaveTxs, manager, hist, outside
    <2>2. ni' <= Len(Nodes) + 1
      BY <1>1, <2>1 DEF Types
    <2> QED
      BY <2>1, <2>2, Zenon DEF Rest
  <1>12. CASE NextTx
    <2>1. /\ ti <= Len(Txs) /\ ti' \in {ti, ti + 1}
          /\ UNCHANGED <<ni, assume, seen, running, saved, link, attempt, entered, probed>>
      BY <1>12, Zenon DEF NextTx, TakeTx, manager, hist, outside
    <2>2. ti' <= Len(Txs) + 1
      BY <1>1, <2>1 DEF Types
    <2> QED
      BY <2>1, <2>2, Zenon DEF Rest
  <1>13. CASE ProbeTx
    <2>1. /\ cmd = "probe" /\ ti' = ti + 1 /\ probed' = probed \cup {<<Nodes[ni], Txs[ti]>>}
          /\ UNCHANGED <<ni, assume, seen, running, saved, link, attempt, entered>>
      BY <1>13, Zenon DEF ProbeTx, probe, outside
    <2>2. ti' <= Len(Txs) + 1
      BY <1>1, <2>1 DEF Types
    <2>3. <<Nodes[ni], Txs[ti]>> \in Pairs
      BY <2>1, AtPair DEF Pairs, Scids
    <2> QED
      BY <2>1, <2>2, <2>3, Zenon DEF Rest
  <1>14. CASE Crash \/ stop
    <2>1. PICK queue \in {events, saved.events} : StartAgain(queue)
      BY <1>14, Zenon DEF Crash, stop
    <2>2. /\ Prompt /\ running' = 0 /\ saved'.inflight = inflight /\ link' \in {link, "down"}
          /\ UNCHANGED attempt
      BY <2>1, Zenon DEF StartAgain
    <2> QED
      BY <1>1, <1>2, <1>3, <1>4, <2>2, Zenon
  <1> QED
    BY <1>5, <1>6, <1>7, <1>8, <1>9, <1>10, <1>11, <1>12, <1>13, <1>14, Zenon
       DEF Next, Campaign, Background, Network

\* The router's nodes.
Reaching == reach \subseteq Ends

LEMMA ReachInit == Init => Reaching
  BY Zenon DEF Init, Reaching

LEMMA ReachStep == ASSUME Reaching, [Next]_vars PROVE Reaching'
  <1> USE DEF Reaching
  <1>1. CASE RouteChanges
    BY <1>1, Zenon DEF RouteChanges
  <1>2. CASE ~RouteChanges
    <2>1. reach' = reach
      BY <1>2, Zenon DEF Next, Campaign, Background, Network, vars, outside, probeprivate,
         sendfakepayment, probeall, NextNode, LastNode, LeaveTxs, NextTx, TakeTx, ProbeTx, Interrupt,
         process_pending_events, PaymentPathFailed, PaymentFailed, persist_manager, PeerGone,
         PeerBack, ChannelClosed, HtlcFails, Crash, stop, StartAgain
    <2> QED
      BY <2>1, Zenon
  <1> QED
    BY <1>1, <1>2, Zenon

\* The map of pending probes, the queues, the manager file and the table always have
\* their shapes, whatever the user types and however often the program starts again:
\* every entry and event is of a payment that was sent, and every row is about a pair
\* that could have been probed.
THEOREM CampaignTyped == Spec => []TypeOK
  <1>1. ASSUME Types, Rest, Reaching PROVE TypeOK
    <2>1. Len(sent) \in Nat /\ Len(Nodes) \in Nat /\ Len(Txs) \in Nat
      BY FilesAssumption DEF Types
    <2>2. ni \in 1 .. Len(Nodes) + 1 /\ ti \in 1 .. Len(Txs) + 1
      BY <1>1, <2>1 DEF Types, Rest
    <2>3. pending \subseteq Probes
      BY <1>1, <2>1, BoundsAssumption DEF Types, Probes
    <2> QED
      BY <1>1, <2>2, <2>3, Zenon DEF TypeOK, Types, Rest, Reaching, RowsTyped, Queue
  <1> QED
    BY TypesInit, TypesStep, RestInit, RestStep, ReachInit, ReachStep, <1>1, PTL DEF Spec

-----------------------------------------------------------------------------
(* What a campaign does not probe again.  probeall reads the table once, at *)
(* its start; the rows it adds itself are of pairs it has passed already.   *)

\* The pairs before transaction t of node n, in the order of the two loops.
Passed(n, t) ==
  {x \in Range(Nodes) \X Range(Txs) :
     \E a \in 1 .. Len(Nodes), b \in 1 .. Len(Txs) :
        x = <<Nodes[a], Txs[b]>> /\ (a < n \/ (a = n /\ b < t))}

\* A pair that a campaign which has probed P does not come to any more.
Behind(pair, P) == pair \in P \/ pair[2] \in Public

OpenBehind(S, O, P) == \A k \in O : Behind(LastHop(S[k].path), P)
RowsBehind(R, s, P) ==
  \A r \in R : r.result # "unknown" =>
    <<r.target, r.scid>> \in s \/ Behind(<<r.target, r.scid>>, P)

Open == inflight \cup About(events) \cup About(batch)

Fresh ==
  cmd # "prompt" /\ quiet =>
    /\ probed \subseteq Passed(ni, IF cmd = "node" THEN 1 ELSE ti)
    /\ OpenBehind(sent, Open, probed)
    /\ RowsBehind(attempt, seen, probed)
    /\ cmd = "probe" => ~Skip(Nodes[ni], Txs[ti])

LEMMA PassedGrows ==
    ASSUME NEW n \in Nat, NEW t \in Nat, NEW m \in Nat, NEW u \in Nat,
           n < m \/ (n = m /\ t <= u)
    PROVE  Passed(n, t) \subseteq Passed(m, u)
  <1>0. Len(Nodes) \in Nat /\ Len(Txs) \in Nat
    BY FilesAssumption
  <1> SUFFICES ASSUME NEW x \in Passed(n, t) PROVE x \in Passed(m, u)
    BY Zenon
  <1>1. PICK a \in 1 .. Len(Nodes), b \in 1 .. Len(Txs) :
          x = <<Nodes[a], Txs[b]>> /\ (a < n \/ (a = n /\ b < t))
    BY Zenon DEF Passed
  <1>2. a < m \/ (a = m /\ b < u)
    BY <1>0, <1>1
  <1> QED
    BY <1>1, <1>2, Zenon DEF Passed

LEMMA FreshInit == Init => Fresh
  BY Zenon DEF Init, Fresh

\* The step of ProbeTx.
LEMMA FreshProbe ==
    ASSUME \A c \in GuessChannels : c[2] \in Public, Types, Fresh, ProbeTx
    PROVE  Fresh'
  <1> DEFINE x == <<Nodes[ni], Txs[ti]>>
  <1>0. /\ Len(sent) \in Nat /\ Len(Nodes) \in Nat /\ Len(Txs) \in Nat
        /\ ni \in 1 .. Len(Nodes) /\ ti \in 1 .. Len(Txs) /\ cmd = "probe"
    BY FilesAssumption DEF Types, ProbeTx
  <1>1. /\ cmd' = "tx" /\ ti' = ti + 1 /\ ni' = ni /\ probed' = probed \cup {x}
        /\ UNCHANGED <<seen, attempt, quiet>>
    BY Zenon DEF ProbeTx
  <1>2. x \in Range(Nodes) \X Range(Txs) /\ probe(x[1], x[2]) /\ x[1] = Nodes[ni] /\ x[2] = Txs[ti]
    BY AtPair, Zenon DEF ProbeTx
  <1>3. PICK path \in Routes(x[1], x[2]) : Sending(path, TRUE)
    BY <1>2, ProbeSends, Zenon
  <1>4. LastHop(path) = x \/ LastHop(path)[2] \in Public
    BY <1>2, <1>3, ProbedPair
  <1> SUFFICES ASSUME quiet
               PROVE  /\ probed' \subseteq Passed(ni, ti + 1)
                      /\ OpenBehind(sent', Open', probed')
                      /\ RowsBehind(attempt, seen, probed')
    BY <1>1, Zenon DEF Fresh
  <1>5. x \in Passed(ni, ti + 1)
    BY <1>0, <1>2 DEF Passed
  <1>6. probed \subseteq Passed(ni, ti)
    BY <1>0, Zenon DEF Fresh
  <1>7. Passed(ni, ti) \subseteq Passed(ni, ti + 1)
    BY <1>0, PassedGrows
  <1>8. OpenBehind(sent, Open, probed) /\ RowsBehind(attempt, seen, probed)
    BY <1>0, Zenon DEF Fresh
  <1> HIDE DEF x
  <1>9. Open' = Open \cup {Len(sent) + 1} /\ Open \subseteq 1 .. Len(sent)
    BY <1>3, Zenon DEF Open, Sending, Types, Queue
  <1>10. OpenBehind(sent', Open', probed')
    <2> SUFFICES ASSUME NEW k \in Open' PROVE Behind(LastHop(sent'[k].path), probed')
      BY Zenon DEF OpenBehind
    <2>1. CASE k \in Open
      <3>1. sent'[k] = sent[k] /\ Behind(LastHop(sent[k].path), probed)
        BY <1>3, <1>8, <1>9, <2>1, Zenon DEF Sending, OpenBehind
      <3> QED
        BY <1>1, <3>1, Zenon DEF Behind
    <2>2. CASE k = Len(sent) + 1
      BY <1>1, <1>3, <1>4, <2>2, Zenon DEF Sending, Behind
    <2> QED
      BY <1>9, <2>1, <2>2, Zenon
  <1>11. RowsBehind(attempt, seen, probed')
    BY <1>1, <1>8, Zenon DEF RowsBehind, Behind
  <1> QED
    BY <1>1, <1>5, <1>6, <1>7, <1>10, <1>11, Zenon

LEMMA FreshStep ==
    ASSUME \A c \in GuessChannels : c[2] \in Public, Types, Fresh, [Next]_vars PROVE Fresh'
  <1>0. /\ Len(sent) \in Nat /\ Len(Nodes) \in Nat /\ Len(Txs) \in Nat
        /\ ni \in Nat /\ ti \in Nat /\ ti >= 1
    BY FilesAssumption DEF Types
  <1>1. CASE probeprivate \/ sendfakepayment
    BY <1>1, Zenon DEF probeprivate, sendfakepayment, cli, Fresh
  <1>2. CASE LastNode \/ Crash \/ stop
    BY <1>2, Zenon DEF LastNode, Crash, stop, StartAgain, Prompt, Fresh
  <1>3. CASE ProbeTx
    BY <1>3, FreshProbe, Zenon
  <1>4. CASE probeall
    <2>1. /\ cmd' = "node" /\ probed' = {} /\ seen' = get_attempts_str(attempt)
          /\ UNCHANGED <<sent, inflight, events, batch, attempt>>
          /\ quiet' = (inflight = {} /\ events = <<>> /\ batch = <<>>)
      BY <1>4, Zenon DEF probeall, manager, outside
    <2>2. quiet' => Open' = {}
      BY <2>1, Empty, Zenon DEF Open
    <2>3. quiet' => OpenBehind(sent', Open', probed')
      BY <2>2, Zenon DEF OpenBehind
    <2>4. RowsBehind(attempt', seen', probed')
      BY <2>1, Zenon DEF RowsBehind, get_attempts_str
    <2> QED
      BY <2>1, <2>3, <2>4, Zenon DEF Fresh
  <1>5. CASE NextNode \/ LeaveTxs
    <2>1. /\ UNCHANGED <<sent, inflight, events, batch, seen, attempt, probed, quiet>>
          /\ cmd \in {"node", "tx"} /\ cmd' \in {"node", "tx"}
      BY <1>5, Zenon DEF NextNode, LeaveTxs, manager, hist, outside
    <2>2. \/ cmd' = "node" /\ ni' = ni + 1
          \/ cmd = "node" /\ cmd' = "tx" /\ ti' = 1 /\ ni' = ni
      BY <1>5, Zenon DEF NextNode, LeaveTxs
    <2>3. Passed(ni, IF cmd = "node" THEN 1 ELSE ti)
            \subseteq Passed(ni', IF cmd' = "node" THEN 1 ELSE ti')
      <3>1. Passed(ni, 1) \subseteq Passed(ni + 1, 1) /\ Passed(ni, ti) \subseteq Passed(ni + 1, 1)
        BY <1>0, PassedGrows
      <3> QED
        BY <2>2, <3>1, Zenon
    <2>4. Open' = Open
      BY <2>1, Zenon DEF Open
    <2> QED
      BY <2>1, <2>3, <2>4, Zenon DEF Fresh
  <1>6. CASE NextTx
    <2>1. /\ UNCHANGED <<ni, assume, sent, inflight, events, batch, seen, attempt, probed, quiet>>
          /\ cmd = "tx"
          /\ \/ cmd' = "tx" /\ ti' = ti + 1
             \/ cmd' = "probe" /\ ti' = ti /\ ~Skip(Nodes[ni], Txs[ti])
      BY <1>6, Zenon DEF NextTx, TakeTx, manager, hist, outside
    <2>2. Passed(ni, ti) \subseteq Passed(ni, ti + 1)
      BY <1>0, PassedGrows
    <2>3. Open' = Open
      BY <2>1, Zenon DEF Open
    <2> QED
      BY <2>1, <2>2, <2>3, Zenon DEF Fresh, Skip
  <1>7. ASSUME UNCHANGED <<cli, hist, attempt, sent>>, Open' \subseteq Open PROVE Fresh'
    BY <1>7, Zenon DEF Fresh, Skip, cli, hist, OpenBehind
  <1>8. CASE Interrupt \/ PeerGone \/ PeerBack \/ RouteChanges \/ ChannelClosed \/ persist_manager
    <2>1. UNCHANGED <<cli, hist, attempt, sent>> /\ Open' = Open
      BY <1>8, Zenon DEF Interrupt, PeerGone, PeerBack, RouteChanges, ChannelClosed, persist_manager, manager, Open
    <2> QED
      BY <1>7, <2>1, Zenon
  <1>9. CASE process_pending_events
    <2>1. UNCHANGED <<cli, hist, attempt, sent>> /\ Open' \subseteq Open
      BY <1>9, Empty, Zenon DEF process_pending_events, Open
    <2> QED
      BY <1>7, <2>1, Zenon
  <1>10. CASE PaymentFailed
    <2>1. UNCHANGED <<cli, hist, attempt, sent, inflight, events>> /\ batch # <<>> /\ batch' = Tail(batch)
      BY <1>10, Zenon DEF PaymentFailed
    <2>2. About(Tail(batch)) \subseteq About(batch)
      BY <1>0, <2>1, Taken, Zenon DEF Types
    <2> QED
      BY <1>7, <2>1, <2>2, Zenon DEF Open
  <1>11. ASSUME NEW p \in Probes, HtlcFails(p) PROVE Fresh'
    <2>1. PICK code \in (IF link = "up" THEN Replies(sent[p].path) ELSE {"other", NoCode}) :
            events' = Append(events, [kind |-> "PaymentPathFailed", probe |-> p, code |-> code])
      BY <1>11, Zenon DEF HtlcFails
    <2> DEFINE e == [kind |-> "PaymentPathFailed", probe |-> p, code |-> code]
    <2>2. /\ p \in inflight /\ inflight' = inflight \ {p} /\ events' = Append(events, e)
          /\ UNCHANGED <<cli, hist, attempt, sent, batch>>
      BY <1>11, <2>1, Zenon DEF HtlcFails
    <2>3. code \in Codes
      BY <2>1, RepliesAreCodes, Zenon DEF Codes
    <2>4. e \in Event /\ e.probe = p /\ p \in 1 .. Len(sent)
      BY <2>2, <2>3, Zenon DEF Event, Types
    <2> HIDE DEF e
    <2>5. About(events') = About(events) \cup {p}
      BY <1>0, <2>2, <2>4, Appended, Zenon DEF Types
    <2> QED
      BY <1>7, <2>2, <2>5, Zenon DEF Open
  <1>12. CASE PaymentPathFailed
    <2> DEFINE p == Head(batch).probe
               e == [kind |-> "PaymentFailed", probe |-> p]
               path == sent[p].path
               code == Head(batch).code
               r == Row(p, path, code)
    <2>1. /\ batch # <<>> /\ events' = Append(events, e) /\ batch' = Tail(batch)
          /\ UNCHANGED <<cli, hist, sent, inflight>>
          /\ attempt' = IF Recorded(path, code) THEN attempt \cup {r} ELSE attempt
      BY <1>12, Zenon DEF PaymentPathFailed
    <2>2. About(Tail(batch)) \subseteq About(batch) /\ p \in About(batch) /\ p \in 1 .. Len(sent)
      BY <1>0, <2>1, Taken, Zenon DEF Types
    <2>3. e \in Event /\ e.probe \in 1 .. Len(sent) /\ e.probe = p
      BY <1>0, <2>2, BoundsAssumption DEF Types, Event, Probes
    <2>4. r.target = LastHop(path)[1] /\ r.scid = LastHop(path)[2]
      BY Zenon DEF Row
    <2>5. <<r.target, r.scid>> = LastHop(path)
      BY <2>4, Zenon DEF LastHop
    <2> HIDE DEF e, r
    <2>6. About(events') = About(events) \cup {p}
      BY <1>0, <2>1, <2>3, Appended DEF Types
    <2>7. Open' \subseteq Open /\ p \in Open
      BY <2>1, <2>2, <2>6, Zenon DEF Open
    <2>8. attempt' \subseteq attempt \cup {r}
      BY <2>1, Zenon
    <2> SUFFICES ASSUME cmd # "prompt", quiet PROVE Fresh'
      BY <2>1, Zenon DEF Fresh, cli, hist
    <2>9. OpenBehind(sent, Open, probed) /\ RowsBehind(attempt, seen, probed)
      BY Zenon DEF Fresh
    <2>10. Behind(<<r.target, r.scid>>, probed)
      BY <2>5, <2>7, <2>9, Zenon DEF OpenBehind
    <2>11. RowsBehind(attempt', seen, probed)
      BY <2>8, <2>9, <2>10, Zenon DEF RowsBehind
    <2>12. OpenBehind(sent, Open', probed)
      BY <2>7, <2>9, Zenon DEF OpenBehind
    <2> QED
      BY <2>1, <2>11, <2>12, Zenon DEF Fresh, Skip, cli, hist
  <1>13. CASE UNCHANGED vars
    <2>1. UNCHANGED <<cli, hist, attempt, sent>> /\ Open' = Open
      BY <1>13, Zenon DEF vars, cli, hist, Open
    <2> QED
      BY <1>7, <2>1, Zenon
  <1> QED
    BY <1>1, <1>2, <1>3, <1>4, <1>5, <1>6, <1>8, <1>9, <1>10, <1>11, <1>12, <1>13, Zenon
       DEF Next, Campaign, Background, Network

\* For any files without repetitions, and however often the program ends and
\* starts again: a campaign that starts with nothing outstanding never sends a
\* probe for a pair that has a row with a verdict.  The announced channels of
\* the guessed node have to be among those that probeall skips.
THEOREM NeverReprobes ==
    ASSUME IsInjective(Nodes), IsInjective(Txs), \A c \in GuessChannels : c[2] \in Public
    PROVE  Spec => NoReprobe
  <1>1. Init => Types /\ Fresh
    BY TypesInit, FreshInit, Zenon
  <1>2. Types /\ Fresh /\ [Next]_vars => (Types /\ Fresh)'
    BY TypesStep, FreshStep, Zenon
  <1>3. Types /\ Fresh /\ [Next]_vars =>
          [cmd = "probe" /\ Len(sent') > Len(sent) /\ quiet =>
             ~ \E r \in attempt :
                 <<r.target, r.scid>> = <<Nodes[ni], Txs[ti]>> /\ r.result # "unknown"]_vars
    <2> SUFFICES ASSUME Types, Fresh, cmd = "probe", quiet, NEW r \in attempt,
                        <<r.target, r.scid>> = <<Nodes[ni], Txs[ti]>>, r.result # "unknown"
                 PROVE  FALSE
      BY Zenon
    <2> DEFINE x == <<Nodes[ni], Txs[ti]>>
    <2>1. x \in seen \/ x \in probed \/ x[2] \in Public
      BY Zenon DEF Fresh, RowsBehind, Behind
    <2>2. x \in probed
      BY <2>1, Zenon DEF Fresh, Skip
    <2>3. PICK a \in 1 .. Len(Nodes), b \in 1 .. Len(Txs) :
            x = <<Nodes[a], Txs[b]>> /\ (a < ni \/ (a = ni /\ b < ti))
      BY <2>2, Zenon DEF Fresh, Passed
    <2>4. Nodes[a] = Nodes[ni] /\ Txs[b] = Txs[ti]
      BY <2>3, Zenon
    <2>5. /\ DOMAIN Nodes = 1 .. Len(Nodes) /\ DOMAIN Txs = 1 .. Len(Txs)
          /\ ni \in 1 .. Len(Nodes) /\ ti \in 1 .. Len(Txs)
          /\ Len(Nodes) \in Nat /\ Len(Txs) \in Nat
      BY FilesAssumption DEF Types
    <2>6. a = ni /\ b = ti
      BY <2>4, <2>5, Zenon DEF IsInjective
    <2> QED
      BY <2>3, <2>5, <2>6
  <1> QED
    BY <1>1, <1>2, <1>3, PTL DEF Spec, NoReprobe

-----------------------------------------------------------------------------
(* What a campaign covers.  Every pair of an entered node that the filters  *)
(* let through is probed before the inner loop moves past it.               *)

Covering ==
  cmd # "prompt" /\ running = 0 =>
    /\ cmd # "node" => Nodes[ni] \in entered
    /\ cmd = "probe" => ~Skip(Nodes[ni], Txs[ti])
    /\ probed \subseteq {x \in entered \X Range(Txs) : ~Skip(x[1], x[2])}
    /\ \A m \in entered, b \in 1 .. Len(Txs) :
         (cmd = "node" \/ m # Nodes[ni] \/ b < ti) /\ ~Skip(m, Txs[b]) => <<m, Txs[b]>> \in probed

LEMMA CoveringInit == Init => Covering
  BY Zenon DEF Init, Covering

LEMMA CoveringStep == ASSUME Types, Covering, [Next]_vars PROVE Covering'
  <1>0. /\ Len(Nodes) \in Nat /\ Len(Txs) \in Nat /\ ni \in Nat /\ ti \in Nat /\ ti >= 1
    BY FilesAssumption DEF Types
  <1>1. CASE cmd' = "prompt" \/ running' # 0
    BY <1>1, Zenon DEF Covering
  <1>2. ASSUME UNCHANGED <<cmd, ni, ti, assume, seen, entered, probed>>, running' = running PROVE Covering'
    BY <1>2, Zenon DEF Covering, Skip
  <1>3. CASE probeall
    <2>1. cmd' = "node" /\ entered' = {} /\ probed' = {}
      BY <1>3, Zenon DEF probeall
    <2> QED
      BY <2>1, Zenon DEF Covering
  <1>4. CASE NextNode
    <2>1. /\ UNCHANGED <<assume, seen, running, probed>> /\ cmd = "node"
          /\ \/ cmd' = "tx" /\ ti' = 1 /\ ni' = ni /\ entered' = entered \cup {Nodes[ni]}
             \/ cmd' = "node" /\ entered' = entered
      BY <1>4, Zenon DEF NextNode
    <2>2. \A m, s : Skip(m, s)' <=> Skip(m, s)
      BY <2>1, Zenon DEF Skip
    <2> QED
      BY <1>0, <2>1, <2>2 DEF Covering
  <1>5. CASE LeaveTxs /\ running = 0
    <2>1. /\ UNCHANGED <<assume, seen, running, probed, entered>> /\ cmd = "tx" /\ cmd' = "node"
          /\ ti > Len(Txs)
      BY <1>5 DEF LeaveTxs, hist
    <2>2. \A m, s : Skip(m, s)' <=> Skip(m, s)
      BY <2>1, Zenon DEF Skip
    <2> QED
      BY <1>0, <1>5, <2>1, <2>2 DEF Covering
  <1>6. CASE NextTx
    <2>1. /\ UNCHANGED <<assume, seen, running, probed, entered, ni>> /\ cmd = "tx"
          /\ \/ cmd' = "tx" /\ ti' = ti + 1 /\ Skip(Nodes[ni], Txs[ti])
             \/ cmd' = "probe" /\ ti' = ti /\ ~Skip(Nodes[ni], Txs[ti])
      BY <1>6, Zenon DEF NextTx, TakeTx, hist
    <2>2. \A m, s : Skip(m, s)' <=> Skip(m, s)
      BY <2>1, Zenon DEF Skip
    <2>3. ti' \in {ti, ti + 1}
      BY <2>1, Zenon
    <2>4. \A b \in 1 .. Len(Txs) : b < ti' => b < ti \/ (b = ti /\ ti' = ti + 1)
      BY <1>0, <2>3
    <2> QED
      BY <1>0, <2>1, <2>2, <2>4, Zenon DEF Covering
  <1>7. CASE ProbeTx
    <2> DEFINE x == <<Nodes[ni], Txs[ti]>>
    <2>1. /\ UNCHANGED <<assume, seen, running, entered, ni>> /\ cmd = "probe" /\ cmd' = "tx"
          /\ ti' = ti + 1 /\ probed' = probed \cup {x}
      BY <1>7, Zenon DEF ProbeTx
    <2>2. \A m, s : Skip(m, s)' <=> Skip(m, s)
      BY <2>1, Zenon DEF Skip
    <2>3. \A b \in 1 .. Len(Txs) : b < ti' => b < ti \/ b = ti
      BY <1>0, <2>1
    <2>4. Txs[ti] \in Range(Txs)
      BY <2>1, AtPair, Zenon
    <2> SUFFICES ASSUME running = 0 PROVE Covering'
      BY <2>1, Zenon DEF Covering
    <2>5. x \in entered \X Range(Txs) /\ ~Skip(x[1], x[2])
      BY <2>1, <2>4, Zenon DEF Covering
    <2> QED
      BY <1>0, <2>1, <2>2, <2>3, <2>5, Zenon DEF Covering
  <1>8. CASE LastNode \/ Crash \/ stop \/ Interrupt \/ (LeaveTxs /\ running # 0)
    <2>1. cmd' = "prompt" \/ running' # 0
      BY <1>8 DEF LastNode, Crash, stop, StartAgain, Prompt, Interrupt, LeaveTxs
    <2> QED
      BY <1>1, <2>1, Zenon
  <1>9. CASE probeprivate \/ sendfakepayment \/ Background \/ persist_manager \/ Network
    <2>1. UNCHANGED <<cli, running, hist>>
      BY <1>9, Zenon DEF probeprivate, sendfakepayment, Background, persist_manager, Network, PeerGone,
         PeerBack, RouteChanges, ChannelClosed, HtlcFails, process_pending_events, PaymentPathFailed, PaymentFailed
    <2> QED
      BY <1>2, <2>1, Zenon DEF cli, hist
  <1>10. CASE UNCHANGED vars
    BY <1>2, <1>10, Zenon DEF vars
  <1> QED
    BY <1>3, <1>4, <1>5, <1>6, <1>7, <1>8, <1>9, <1>10, Zenon DEF Next, Campaign

\* For any files, with or without repetitions, any filters and any network, and
\* through crashes: a campaign that reached its end without an interrupt has
\* sent a probe for exactly the pairs that its filters let through, of the nodes
\* it had a route to.
THEOREM CampaignAlwaysCovers == Spec => []CampaignCovers
  <1>1. Init => Types /\ Covering
    BY TypesInit, CoveringInit, Zenon
  <1>2. Types /\ Covering /\ [Next]_vars => (Types /\ Covering)'
    BY TypesStep, CoveringStep, Zenon
  <1>3. Types /\ Covering => CampaignCovers
    <2> SUFFICES ASSUME Covering, cmd = "node", running = 0
                 PROVE  {x \in entered \X Range(Txs) : ~Skip(x[1], x[2])} \subseteq probed
      BY Zenon DEF Covering, CampaignCovers
    <2> SUFFICES ASSUME NEW m \in entered, NEW s \in Range(Txs), ~Skip(m, s) PROVE <<m, s>> \in probed
      OBVIOUS
    <2>1. PICK b \in 1 .. Len(Txs) : s = Txs[b]
      BY FilesAssumption DEF Range
    <2> QED
      BY <2>1, Zenon DEF Covering
  <1> QED
    BY <1>1, <1>2, <1>3, PTL DEF Spec

-----------------------------------------------------------------------------
(* What the table says.  A queued failure carries an answer that the       *)
(* network gives on the path of its payment, and every row was computed    *)
(* from such an answer.                                                     *)

\* The parameters: a queue, the payments sent.
Answered(q, S) ==
  \A k \in 1 .. Len(q) :
    q[k].kind = "PaymentPathFailed" => q[k].code \in Replies(S[q[k].probe].path)

Computed(r, S) ==
  /\ r.probe \in 1 .. Len(S)
  /\ Len(S[r.probe].path) > 1
  /\ \E code \in Replies(S[r.probe].path) : r = Row(r.probe, S[r.probe].path, code)

Honest ==
  /\ Answered(events, sent) /\ Answered(batch, sent) /\ Answered(saved.events, sent)
  /\ \A r \in attempt : Computed(r, sent)

LEMMA HonestInit == Init => Honest
  BY DEF Init, Honest, Answered

\* A payment more changes nothing for the ones before it.
LEMMA HonestSends ==
    ASSUME Types, Honest, NEW path, NEW is_probe, Sending(path, is_probe), attempt' = attempt
    PROVE  Honest'
  <1>1. /\ Len(sent) \in Nat /\ Len(sent') = Len(sent) + 1
        /\ \A k \in 1 .. Len(sent) : sent'[k] = sent[k]
    BY Zenon DEF Sending
  <1>2. ASSUME NEW q, Queue(q, Len(sent)), Answered(q, sent) PROVE Answered(q, sent')
    <2>1. \A k \in 1 .. Len(q) : q[k].probe \in 1 .. Len(sent)
      BY <1>2, Zenon DEF Queue, About
    <2> QED
      BY <1>1, <1>2, <2>1, Zenon DEF Answered
  <1>3. Answered(events, sent') /\ Answered(batch, sent') /\ Answered(saved.events, sent')
    BY <1>2, Zenon DEF Types, Honest
  <1>4. ASSUME NEW r \in attempt PROVE Computed(r, sent')
    <2>1. Computed(r, sent)
      BY Zenon DEF Honest
    <2>2. r.probe \in 1 .. Len(sent) /\ r.probe \in 1 .. Len(sent') /\ sent'[r.probe] = sent[r.probe]
      BY <1>1, <2>1 DEF Computed
    <2> QED
      BY <2>1, <2>2, Zenon DEF Computed
  <1> QED
    BY <1>3, <1>4, Zenon DEF Sending, Honest

LEMMA HonestStep == ASSUME Types, Honest, [Next]_vars PROVE Honest'
  <1>0. Len(sent) \in Nat
    BY DEF Types
  <1>1. CASE probeprivate
    <2>1. PICK x \in Manual : probe(x[1], x[2])
      BY <1>1, Zenon DEF probeprivate
    <2>2. PICK path \in Routes(x[1], x[2]) : Sending(path, TRUE)
      BY <2>1, ProbeSends, Zenon
    <2>3. attempt' = attempt
      BY <1>1, Zenon DEF probeprivate
    <2> QED
      BY <2>2, <2>3, HonestSends, Zenon
  <1>2. CASE sendfakepayment
    <2>1. PICK n \in Fake : sent' = Append(sent, [path |-> ToNode(n), probe |-> FALSE])
      BY <1>2, Zenon DEF sendfakepayment
    <2>2. ToNode(n) \in AllPaths
      BY <2>1, Zenon DEF AllPaths
    <2>3. Sending(ToNode(n), FALSE)
      BY <1>2, <2>1, <2>2, Sends, Zenon DEF sendfakepayment
    <2>4. attempt' = attempt
      BY <1>2, Zenon DEF sendfakepayment
    <2> QED
      BY <2>3, <2>4, HonestSends, Zenon
  <1>3. CASE ProbeTx
    <2> DEFINE x == <<Nodes[ni], Txs[ti]>>
    <2>1. x \in Range(Nodes) \X Range(Txs) /\ probe(x[1], x[2]) /\ attempt' = attempt
      BY <1>3, AtPair, Zenon DEF ProbeTx
    <2> HIDE DEF x
    <2>2. PICK path \in Routes(x[1], x[2]) : Sending(path, TRUE)
      BY <2>1, ProbeSends, Zenon
    <2> QED
      BY <2>1, <2>2, HonestSends, Zenon
  <1>4. CASE probeall \/ NextNode \/ LastNode \/ LeaveTxs \/ NextTx \/ Interrupt \/ PeerGone
             \/ PeerBack \/ RouteChanges \/ ChannelClosed \/ UNCHANGED vars
    <2>1. UNCHANGED <<manager, attempt>>
      BY <1>4, Zenon DEF probeall, NextNode, LastNode, LeaveTxs, NextTx, TakeTx, Interrupt, PeerGone,
         PeerBack, RouteChanges, ChannelClosed, vars, manager
    <2> QED
      BY <2>1, Zenon DEF manager, Honest
  <1>5. CASE process_pending_events
    <2>1. Answered(<<>>, sent)
      BY DEF Answered
    <2> QED
      BY <1>5, <2>1, Zenon DEF process_pending_events, Honest
  <1>6. ASSUME NEW q, Queue(q, Len(sent)), Answered(q, sent), q # <<>>
        PROVE  Answered(Tail(q), sent)
    <2> DEFINE r == Tail(q)
    <2>1. Len(q) \in Nat \ {0} /\ Len(r) = Len(q) - 1 /\ \A k \in 1 .. Len(r) : r[k] = q[k + 1]
      BY <1>6 DEF Queue
    <2> HIDE DEF r
    <2>2. Answered(r, sent)
      BY <1>6, <2>1 DEF Answered
    <2> QED
      BY <2>2, Zenon DEF r
  <1>7. ASSUME NEW q, Queue(q, Len(sent)), Answered(q, sent), NEW e \in Event,
               e.kind = "PaymentPathFailed" => e.code \in Replies(sent[e.probe].path)
        PROVE  Answered(Append(q, e), sent)
    <2> DEFINE r == Append(q, e)
    <2>1. /\ Len(q) \in Nat /\ Len(r) = Len(q) + 1 /\ r[Len(q) + 1] = e
          /\ \A k \in 1 .. Len(q) : r[k] = q[k]
      BY <1>7, AppendAt DEF Queue
    <2> HIDE DEF r
    <2>2. Answered(r, sent)
      BY <1>7, <2>1 DEF Answered
    <2> QED
      BY <2>2, Zenon DEF r
  <1>8. CASE PaymentPathFailed
    <2> DEFINE p == Head(batch).probe
               e == [kind |-> "PaymentFailed", probe |-> p]
               path == sent[p].path
               code == Head(batch).code
               r == Row(p, path, code)
    <2>1. /\ batch # <<>> /\ events' = Append(events, e) /\ batch' = Tail(batch)
          /\ UNCHANGED <<sent, saved>> /\ Head(batch).kind = "PaymentPathFailed"
          /\ attempt' = IF Recorded(path, code) THEN attempt \cup {r} ELSE attempt
      BY <1>8, Zenon DEF PaymentPathFailed
    <2>2. p \in 1 .. Len(sent) /\ e \in Event
      <3>1. Queue(batch, Len(sent)) /\ batch # <<>> /\ Len(sent) \in Nat /\ Len(sent) <= MaxSends
        BY <1>0, <2>1, Zenon DEF Types
      <3>2. p \in 1 .. Len(sent)
        BY <3>1, Taken, Zenon
      <3>3. p \in Probes
        BY <3>1, <3>2, BoundsAssumption DEF Probes
      <3> QED
        BY <3>2, <3>3, Zenon DEF Event
    <2>3. Head(batch) = batch[1] /\ Len(batch) \in Nat \ {0}
      <3>1. batch \in Seq(Event) /\ batch # <<>>
        BY <2>1, Zenon DEF Types, Queue
      <3> QED
        BY <3>1
    <2>4. code \in Replies(path)
      BY <2>1, <2>3 DEF Honest, Answered
    <2>5. r.probe = p
      BY Zenon DEF Row
    <2>6. e.kind = "PaymentFailed"
      BY Zenon
    <2> HIDE DEF r, e
    <2>7. Recorded(path, code) => Computed(r, sent)
      BY <2>2, <2>4, <2>5, Zenon DEF Computed, Recorded, r
    <2>8. Answered(events', sent)
      BY <2>1, <2>2, <2>6, <1>7, Zenon DEF Types, Honest
    <2>9. Answered(batch', sent)
      BY <2>1, <1>6, Zenon DEF Types, Honest
    <2> QED
      BY <2>1, <2>7, <2>8, <2>9, Zenon DEF Honest
  <1>9. CASE PaymentFailed
    <2>1. /\ batch # <<>> /\ batch' = Tail(batch) /\ UNCHANGED <<sent, events, saved, attempt>>
      BY <1>9, Zenon DEF PaymentFailed
    <2>2. Answered(batch', sent)
      BY <2>1, <1>6, Zenon DEF Types, Honest
    <2> QED
      BY <2>1, <2>2, Zenon DEF Honest
  <1>10. CASE persist_manager
    BY <1>10, Zenon DEF persist_manager, Honest
  <1>11. ASSUME NEW p \in Probes, HtlcFails(p) PROVE Honest'
    <2>1. PICK code \in (IF link = "up" THEN Replies(sent[p].path) ELSE {"other", NoCode}) :
            events' = Append(events, [kind |-> "PaymentPathFailed", probe |-> p, code |-> code])
      BY <1>11, Zenon DEF HtlcFails
    <2> DEFINE e == [kind |-> "PaymentPathFailed", probe |-> p, code |-> code]
    <2>2. events' = Append(events, e) /\ UNCHANGED <<sent, batch, saved, attempt>>
      BY <1>11, <2>1, Zenon DEF HtlcFails
    <2>3. code \in Replies(sent[p].path) /\ code \in Codes
      BY <2>1, RepliesAreCodes, Zenon DEF Replies
    <2>4. e \in Event /\ e.probe = p /\ e.code = code
      BY <2>3, Zenon DEF Event
    <2> HIDE DEF e
    <2>5. Answered(events', sent)
      BY <2>2, <2>3, <2>4, <1>7, Zenon DEF Types, Honest
    <2> QED
      BY <2>2, <2>5, Zenon DEF Honest
  <1>12. CASE Crash \/ stop
    <2>1. PICK queue \in {events, saved.events} : StartAgain(queue)
      BY <1>12, Zenon DEF Crash, stop
    <2>2. Answered(queue, sent) /\ Answered(<<>>, sent)
      BY DEF Honest, Answered
    <2>3. /\ events' = queue /\ batch' = <<>> /\ saved'.events = queue
          /\ UNCHANGED <<sent, attempt>>
      BY <2>1, Zenon DEF StartAgain
    <2> QED
      BY <2>2, <2>3, Zenon DEF Honest
  <1> QED
    BY <1>1, <1>2, <1>3, <1>4, <1>5, <1>8, <1>9, <1>10, <1>11, <1>12, Zenon
       DEF Next, Campaign, Background, Network

\* For any channels of the network, any codes that relays and targets answer
\* with, any files and filters, and through crashes that replay events: a row that
\* dump_results reports names a channel there is or stems from a relay's answer, and
\* an "unknown_next_peer" row names none, stems from a relay's answer, or from a
\* target that denies its channel.
THEOREM VerdictsAlwaysExplained == Spec => []VerdictsExplained
  <1>1. Init => Types /\ Honest
    BY TypesInit, HonestInit, Zenon
  <1>2. Types /\ Honest /\ [Next]_vars => (Types /\ Honest)'
    BY TypesStep, HonestStep, Zenon
  <1>3. Types /\ Honest => VerdictsExplained
    <2> SUFFICES ASSUME Honest, NEW r \in attempt
                 PROVE  LET path == sent[r.probe].path
                            pair == <<r.target, r.scid>>
                            relayed(codes) ==
                              Len(path) > 2 /\ \E code \in codes \cap RelayErrors : r.result = Result(code)
                        IN  /\ r.result \notin {"unknown", "unknown_next_peer"} => Exists(pair) \/ relayed(Codes)
                            /\ r.result = "unknown_next_peer" =>
                                 \/ ~Exists(pair) \/ relayed({"0x400a"})
                                 \/ pair \in Hidden /\ "0x400a" \in TargetErrors
      BY Zenon DEF VerdictsExplained, get_attempts_found
    <2> DEFINE path == sent[r.probe].path
    <2>1. r.probe \in 1 .. Len(sent) /\ Len(path) > 1
      BY Zenon DEF Honest, Computed
    <2>2. PICK code \in Replies(path) : r = Row(r.probe, path, code)
      BY Zenon DEF Honest, Computed
    <2>3. <<r.target, r.scid>> = LastHop(path) /\ r.result = Result(code)
      <3>1. r.target = LastHop(path)[1] /\ r.scid = LastHop(path)[2] /\ r.result = Result(code)
        BY <2>2 DEF Row
      <3> QED
        BY <3>1, Zenon DEF LastHop
    <2>4. \/ code \in {"other", NoCode}
          \/ Len(path) > 2 /\ code \in RelayErrors \cap Codes
          \/ LastHop(path) \in Hidden /\ code \in TargetErrors
          \/ Exists(LastHop(path)) /\ code = "0x400f"
          \/ ~Exists(LastHop(path)) /\ code = "0x400a"
      <3>1. Len(path) # 1
        <4> SUFFICES ASSUME Len(path) = 1 PROVE FALSE
          BY Zenon
        <4>1. 1 > 1
          BY <2>1, Zenon
        <4> QED
          BY <4>1
      <3>2. code \in Codes
        BY RepliesAreCodes, Zenon
      <3> HIDE DEF path
      <3> QED
        BY <2>2, <3>1, <3>2, Zenon DEF Replies
    <2>5. /\ Result(code) = "unknown_next_peer" => code = "0x400a"
          /\ code \in {"other", NoCode} => Result(code) = "unknown"
          /\ code = "0x400f" => Result(code) # "unknown_next_peer"
          /\ code = "0x400a" => Result(code) = "unknown_next_peer"
      BY DEF Result, NoCode
    <2>6. LastHop(path) \in Hidden => Exists(LastHop(path))
      BY Zenon DEF Exists
    <2> HIDE DEF path
    <2> QED
      BY <2>3, <2>4, <2>5, <2>6, Zenon DEF path
  <1> QED
    BY <1>1, <1>2, <1>3, PTL DEF Spec

-----------------------------------------------------------------------------
(* The wait in probeall.  Without a restart, every probe in flight has its  *)
(* entry in pending_payments: the entry goes in with the HTLC, and out when *)
(* an event is handled that is queued only after the HTLC has failed.       *)

\* The parameters: payments sent, in flight, in the map, the two queues.
Held(S, I, P, E, B) ==
  /\ {p \in I : S[p].probe} \subseteq P
  /\ (About(E) \cup About(B)) \cap I = {}

Throttled ==
  /\ restarts \in Nat
  /\ Held(sent, inflight, pending, events, batch)
  /\ cmd = "probe" => Cardinality(pending) <= Limit

LEMMA HeldSends ==
    ASSUME Types, Held(sent, inflight, pending, events, batch),
           NEW path, NEW is_probe, Sending(path, is_probe)
    PROVE  Held(sent', inflight', pending', events', batch')
  <1>1. \A p \in inflight' : sent'[p].probe => p \in pending'
    BY Zenon DEF Held, Sending, Types
  <1>2. (About(events) \cup About(batch)) \subseteq 1 .. Len(sent)
    BY Zenon DEF Types, Queue
  <1>3. (About(events') \cup About(batch')) \cap inflight' = {}
    BY <1>2 DEF Held, Sending
  <1> QED
    BY <1>1, <1>3, Zenon DEF Held

LEMMA PendingFinite == Types => IsFiniteSet(pending) /\ Cardinality(pending) \in Nat
  <1> SUFFICES ASSUME Types PROVE IsFiniteSet(pending) /\ Cardinality(pending) \in Nat
    BY Zenon
  <1>1. IsFiniteSet(1 .. Len(sent)) /\ pending \subseteq 1 .. Len(sent)
    BY FS_Interval DEF Types
  <1> QED
    BY <1>1, FS_Subset, FS_CardinalityType, Zenon

LEMMA ThrottledInit == Init => Throttled
  BY Empty DEF Init, Throttled, Held

LEMMA ThrottledStep ==
    ASSUME MaxRestarts = 0, Types, Throttled, [Next]_vars PROVE Throttled'
  <1>0. Len(sent) \in Nat
    BY DEF Types
  <1>1. CASE probeprivate
    <2>1. PICK x \in Manual : probe(x[1], x[2])
      BY <1>1, Zenon DEF probeprivate
    <2>2. \E path : Sending(path, TRUE)
      BY <2>1, ProbeSends, Zenon
    <2>3. Held(sent, inflight, pending, events, batch)'
      BY <2>2, HeldSends, Zenon DEF Throttled
    <2> QED
      BY <1>1, <2>3, Zenon DEF probeprivate, cli, Throttled
  <1>2. CASE sendfakepayment
    <2>1. PICK n \in Fake : sent' = Append(sent, [path |-> ToNode(n), probe |-> FALSE])
      BY <1>2, Zenon DEF sendfakepayment
    <2>2. ToNode(n) \in AllPaths
      BY <2>1, Zenon DEF AllPaths
    <2>3. Sending(ToNode(n), FALSE)
      BY <1>2, <2>1, <2>2, Sends, Zenon DEF sendfakepayment
    <2>4. Held(sent, inflight, pending, events, batch)'
      BY <2>3, HeldSends, Zenon DEF Throttled
    <2> QED
      BY <1>2, <2>4, Zenon DEF sendfakepayment, cli, Throttled
  <1>3. CASE ProbeTx
    <2> DEFINE x == <<Nodes[ni], Txs[ti]>>
    <2>1. x \in Range(Nodes) \X Range(Txs) /\ probe(x[1], x[2])
      BY <1>3, AtPair, Zenon DEF ProbeTx
    <2>2. \E path : Sending(path, TRUE)
      BY <2>1, ProbeSends, Zenon
    <2>3. Held(sent, inflight, pending, events, batch)'
      BY <2>2, HeldSends, Zenon DEF Throttled
    <2> QED
      BY <1>3, <2>3, Zenon DEF ProbeTx, Throttled
  <1>4. CASE probeall \/ NextNode \/ LastNode \/ LeaveTxs
    BY <1>4, Zenon DEF probeall, NextNode, LastNode, LeaveTxs, Prompt, manager, Throttled
  <1>5. CASE NextTx
    BY <1>5, Zenon DEF NextTx, TakeTx, manager, Throttled
  <1>6. CASE Interrupt \/ PeerGone \/ PeerBack \/ RouteChanges \/ ChannelClosed \/ persist_manager
    BY <1>6, Zenon DEF Interrupt, PeerGone, PeerBack, RouteChanges, ChannelClosed, persist_manager, cli, manager, Throttled
  <1>7. CASE process_pending_events
    BY <1>7, Empty, Zenon DEF process_pending_events, cli, Throttled, Held
  <1>8. CASE PaymentPathFailed
    <2> DEFINE e == [kind |-> "PaymentFailed", probe |-> Head(batch).probe]
    <2>1. /\ batch # <<>> /\ events' = Append(events, e) /\ batch' = Tail(batch)
          /\ UNCHANGED <<cmd, sent, inflight, pending, restarts>>
      BY <1>8, Zenon DEF PaymentPathFailed, cli
    <2>2. /\ About(Tail(batch)) \subseteq About(batch) /\ Head(batch).probe \in About(batch)
          /\ Head(batch).probe \in 1 .. Len(sent)
      BY <1>0, <2>1, Taken, Zenon DEF Types
    <2>3. e \in Event /\ e.probe \in 1 .. Len(sent) /\ e.probe = Head(batch).probe
      BY <1>0, <2>2, BoundsAssumption DEF Types, Event, Probes
    <2> HIDE DEF e
    <2>4. About(events') = About(events) \cup {Head(batch).probe}
      BY <1>0, <2>1, <2>3, Appended DEF Types
    <2> QED
      BY <2>1, <2>2, <2>4, Zenon DEF Throttled, Held
  <1>9. CASE PaymentFailed
    <2>1. /\ batch # <<>> /\ pending' = pending \ {Head(batch).probe} /\ batch' = Tail(batch)
          /\ UNCHANGED <<cmd, sent, inflight, events, restarts>>
      BY <1>9, Zenon DEF PaymentFailed, cli
    <2>2. About(Tail(batch)) \subseteq About(batch) /\ Head(batch).probe \in About(batch)
      BY <1>0, <2>1, Taken, Zenon DEF Types
    <2>3. Held(sent, inflight, pending, events, batch)'
      BY <2>1, <2>2, Zenon DEF Throttled, Held
    <2>4. Cardinality(pending') \in Nat /\ Cardinality(pending') <= Cardinality(pending)
      BY <2>1, PendingFinite, FS_Subset, FS_CardinalityType, Zenon
    <2>5. cmd = "probe" => Cardinality(pending') <= Limit
      BY <2>4, PendingFinite, BoundsAssumption DEF Throttled
    <2> QED
      BY <2>1, <2>3, <2>5, Zenon DEF Throttled
  <1>10. ASSUME NEW p \in Probes, HtlcFails(p) PROVE Throttled'
    <2>1. PICK code \in (IF link = "up" THEN Replies(sent[p].path) ELSE {"other", NoCode}) :
            events' = Append(events, [kind |-> "PaymentPathFailed", probe |-> p, code |-> code])
      BY <1>10, Zenon DEF HtlcFails
    <2> DEFINE e == [kind |-> "PaymentPathFailed", probe |-> p, code |-> code]
    <2>2. /\ p \in inflight /\ inflight' = inflight \ {p} /\ events' = Append(events, e)
          /\ UNCHANGED <<cmd, sent, pending, batch, restarts>>
      BY <1>10, <2>1, Zenon DEF HtlcFails, cli
    <2>3. code \in Codes
      BY <2>1, RepliesAreCodes, Zenon DEF Codes
    <2>4. e \in Event /\ e.probe = p /\ p \in 1 .. Len(sent)
      BY <2>2, <2>3, Zenon DEF Event, Types
    <2> HIDE DEF e
    <2>5. About(events') = About(events) \cup {p}
      BY <1>0, <2>2, <2>4, Appended, Zenon DEF Types
    <2> QED
      BY <2>2, <2>5, Zenon DEF Throttled, Held
  <1>11. CASE Crash \/ stop
    BY <1>11 DEF Crash, stop, StartAgain, Throttled
  <1>12. CASE UNCHANGED vars
    BY <1>12, Zenon DEF vars, Throttled
  <1> QED
    BY <1>1, <1>2, <1>3, <1>4, <1>5, <1>6, <1>7, <1>8, <1>9, <1>10, <1>11, <1>12, Zenon
       DEF Next, Campaign, Background, Network

\* Only ProbeTx sends from inside probeall.
LEMMA OnlyProbeTx ==
    ASSUME Types, [Next]_vars, cmd = "probe", Len(sent') > Len(sent) PROVE ProbeTx
  <1>1. \/ sent' = sent \/ ProbeTx \/ cmd = "prompt"
    BY Zenon DEF Next, Campaign, Background, Network, vars, manager, probeprivate, sendfakepayment,
           probeall, NextNode, LastNode, LeaveTxs, NextTx, TakeTx, Interrupt,
           process_pending_events, PaymentPathFailed, PaymentFailed, persist_manager, PeerGone,
           PeerBack, RouteChanges, ChannelClosed, HtlcFails, Crash, stop, StartAgain
  <1>2. Len(sent) \in Nat
    BY DEF Types
  <1> QED
    BY <1>1, <1>2

\* In a session without a restart, a probe that probeall sends never makes more
\* than Limit + 1 probes in flight, whatever the files, the limit, the answers
\* of the network and the order in which the two threads run.
THEOREM ThrottleAlwaysHolds == ASSUME MaxRestarts = 0 PROVE Spec => ThrottleHolds
  <1>1. Init => Types /\ Throttled
    BY TypesInit, ThrottledInit, Zenon
  <1>2. Types /\ Throttled /\ [Next]_vars => (Types /\ Throttled)'
    BY TypesStep, ThrottledStep, Zenon
  <1>3. Types /\ Throttled /\ [Next]_vars =>
          [cmd = "probe" /\ Len(sent') > Len(sent) =>
             Cardinality({p \in inflight' : sent'[p].probe}) <= Limit + 1]_vars
    <2> SUFFICES ASSUME Types, Throttled, [Next]_vars, cmd = "probe", Len(sent') > Len(sent)
                 PROVE  Cardinality({p \in inflight' : sent'[p].probe}) <= Limit + 1
      BY Zenon
    <2> DEFINE F == {p \in inflight' : sent'[p].probe}
    <2>1. ProbeTx
      BY OnlyProbeTx, Zenon
    <2>2. pending' = pending \cup {Len(sent')}
      BY <2>1, Zenon DEF ProbeTx, probe, outside
    <2>3. /\ IsFiniteSet(pending') /\ Cardinality(pending') \in Nat
          /\ Cardinality(pending') <= Cardinality(pending) + 1
      <3> DEFINE n == Len(sent')
      <3> HIDE DEF n
      <3>1. IsFiniteSet(pending) /\ Cardinality(pending) \in Nat /\ pending' = pending \cup {n}
        BY <2>2, PendingFinite, Zenon DEF n
      <3>2. /\ IsFiniteSet(pending \cup {n})
            /\ Cardinality(pending \cup {n}) = IF n \in pending THEN Cardinality(pending)
                                                ELSE Cardinality(pending) + 1
        BY <3>1, FS_AddElement, Zenon
      <3> QED
        BY <3>1, <3>2
    <2>4. F \subseteq pending'
      BY ThrottledStep, Zenon DEF Throttled, Held
    <2> HIDE DEF F
    <2>5. Cardinality(F) \in Nat /\ Cardinality(F) <= Cardinality(pending')
      BY <2>3, <2>4, FS_Subset, FS_CardinalityType, Zenon
    <2>6. Cardinality(F) <= Limit + 1
      BY <2>3, <2>5, PendingFinite, BoundsAssumption DEF Throttled
    <2> QED
      BY <2>6, Zenon DEF F
  <1> QED
    BY <1>1, <1>2, <1>3, PTL DEF Spec, ThrottleHolds
=============================================================================
