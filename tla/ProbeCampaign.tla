--------------------------- MODULE ProbeCampaign ---------------------------
(***************************************************************************)
(* The probing campaign: the command loop that runs probeall and           *)
(* probeprivate (cli.rs, probe.rs), the background thread that handles     *)
(* the events of the failed probes (main.rs, through the InvoicePayer), the *)
(* map pending_payments the two threads share, and the table of attempts.  *)
(*                                                                         *)
(* The channel manager and the network are modelled by what the program    *)
(* sees of them: HTLCs in flight, queued events, a peer that may go away.  *)
(***************************************************************************)
EXTENDS ProbeVerdict, Integers, FiniteSets

CONSTANTS
    Nodes,        \* the node file, in order
    Txs,          \* scids of the transaction files, highest block first
    Public,       \* scids of announced channels
    Plausible,    \* scids that pass the filter of "assumptions"
    Limit,        \* 30 in the code: wait while more probes than this pend
    Slots,        \* HTLCs the channel to Hub takes at once
    Manual,       \* <<node, scid>> that the user probes by hand
    Fake,         \* nodes that the user sends a fake payment to
    MaxSends,     \* bound: probes sent in a behaviour
    MaxRestarts   \* bound: times the program ends and starts again

ASSUME BoundsAssumption ==
    /\ {Limit, Slots, MaxSends, MaxRestarts} \subseteq Nat
    /\ Slots > 0

\* The node file and the transaction files are lists.
ASSUME FilesAssumption == Nodes \in Seq(Range(Nodes)) /\ Txs \in Seq(Range(Txs))

VARIABLES
    cmd,       \* "prompt", or where in probeall: "node", "tx", "probe"
    ni, ti,    \* indexes of the two for loops
    assume,    \* probetype is "assumptions"
    seen,      \* set_of_attempts
    running,   \* interrupts so far
    pending,   \* pending_payments: the probes it has a key for
    sent,      \* the paths of all payments sent, and which are probes
    inflight,  \* payments whose HTLC is in our channel
    events,    \* the manager's queue of events
    batch,     \* the events taken from it and not handled yet
    saved,     \* the manager file: HTLCs and events at the last write
    link,      \* "up", "down" or "closed": the channel to Hub
    reach,     \* the nodes that find_route knows a way to from Hub
    attempt,   \* the table of attempts
    restarts,
    entered,   \* history: nodes of this campaign that had a route
    probed,    \* history: pairs this campaign has sent a probe for
    quiet      \* history: nothing was outstanding when it started

cli     == <<cmd, ni, ti, assume, seen>>
manager == <<sent, inflight, events, batch, saved>>
outside == <<link, reach>>
hist    == <<entered, probed, quiet>>
vars == <<cmd, ni, ti, assume, seen, running, pending, sent, inflight, events,
          batch, saved, link, reach, attempt, restarts, entered, probed, quiet>>

Scids == Public \cup Range(Txs)
Pairs == Range(Nodes) \X Scids
\* What a row can be about beside the files: probes by hand, announced channels
\* of the guessed node, and the last hop of a fake payment.
Known == {<<c[1], c[2]>> : c \in Manual \cup GuessChannels} \cup {<<Hub, "announced">>}
\* The nodes behind our peer that a route may be wanted to.
Ends == (Range(Nodes) \cup {c[1] : c \in Manual \cup GuessChannels} \cup Fake) \ {Hub}
Probes == 1 .. MaxSends
Event == [kind : {"PaymentPathFailed"}, probe : Probes, code : Codes]
           \cup [kind : {"PaymentFailed"}, probe : Probes]

\* The type invariant: the shapes of the shared map, the queue and the table.
TypeOK ==
    /\ cmd \in {"prompt", "node", "tx", "probe"}
    /\ ni \in 1 .. Len(Nodes) + 1 /\ ti \in 1 .. Len(Txs) + 1
    /\ assume \in BOOLEAN /\ running \in 0 .. 1
    /\ seen \subseteq Pairs \cup Known
    /\ pending \subseteq Probes /\ inflight \subseteq 1 .. Len(sent)
    /\ Len(sent) <= MaxSends
    /\ events \in Seq(Event) /\ batch \in Seq(Event)
    /\ saved.inflight \subseteq Probes /\ saved.events \in Seq(Event)
    /\ link \in {"up", "down", "closed"} /\ reach \subseteq Ends
    /\ \A r \in attempt : <<r.target, r.scid>> \in Pairs \cup Known
    /\ entered \subseteq Range(Nodes) /\ probed \subseteq Pairs

Init ==
    /\ cmd = "prompt" /\ ni = 1 /\ ti = 1 /\ assume = FALSE /\ seen = {}
    /\ running = 0 /\ pending = {}
    /\ sent = <<>> /\ inflight = {} /\ events = <<>> /\ batch = <<>>
    /\ saved = [sends |-> 0, inflight |-> {}, events |-> <<>>]
    /\ link = "up" /\ reach \in SUBSET Ends /\ attempt = {} /\ restarts = 0
    /\ entered = {} /\ probed = {} /\ quiet = TRUE

-----------------------------------------------------------------------------
(* probe(): a route, then the entry and the HTLC under one lock.  Without   *)
(* a route it fails before it did anything; without a usable channel or a   *)
(* free slot it takes the entry out again and fails.  Both leave everything *)
(* as it was.                                                               *)

\* find_routes: over our channel, which must be usable, to its peer or beyond.
Routed(node) == link = "up" /\ node \in reach \cup {Hub}

SendOk == link = "up" /\ Cardinality(inflight) < Slots /\ Len(sent) < MaxSends

probe(target, scid) ==
    /\ SendOk
    /\ \E path \in {q \in Routes(target, scid) : Routed(LastHop(q)[1])} :
         sent' = Append(sent, [path |-> path, probe |-> TRUE])
    /\ pending' = pending \cup {Len(sent')}
    /\ inflight' = inflight \cup {Len(sent')}
    /\ UNCHANGED <<events, batch, saved>>

probeprivate ==
    /\ cmd = "prompt"
    /\ \E pair \in Manual : probe(pair[1], pair[2])
    /\ UNCHANGED <<cli, running, outside, attempt, restarts, hist>>

\* The same kind of payment to a node itself, without an entry in the map.
sendfakepayment ==
    /\ cmd = "prompt"
    /\ SendOk
    /\ \E node \in {n \in Fake : Routed(n)} :
         sent' = Append(sent, [path |-> ToNode(node), probe |-> FALSE])
    /\ inflight' = inflight \cup {Len(sent')}
    /\ UNCHANGED <<cli, running, pending, events, batch, saved, outside, attempt,
                   restarts, hist>>

-----------------------------------------------------------------------------
(* probeall.                                                                *)

\* Back at the prompt; the variables of the command are gone.
Prompt ==
    /\ cmd' = "prompt" /\ ni' = 1 /\ ti' = 1 /\ assume' = FALSE /\ seen' = {}
    /\ entered' = {} /\ probed' = {} /\ quiet' = TRUE

\* The snapshots: nodes, transactions, public channels, attempts so far.
\* The first guard keeps a campaign from running into MaxSends.
probeall ==
    /\ Len(sent) + Cardinality((Range(Nodes) \X (Range(Txs) \ Public))
                                 \ get_attempts_str(attempt)) <= MaxSends
    /\ cmd = "prompt"
    /\ cmd' = "node" /\ ni' = 1 /\ ti' = 1
    /\ assume' \in BOOLEAN
    /\ seen' = get_attempts_str(attempt)
    /\ entered' = {} /\ probed' = {}
    /\ quiet' = (inflight = {} /\ events = <<>> /\ batch = <<>>)
    /\ UNCHANGED <<running, pending, manager, outside, attempt, restarts>>

\* The next node: skipped when there is no route to it just now.
NextNode ==
    /\ cmd = "node" /\ ni <= Len(Nodes)
    /\ IF Routed(Nodes[ni])
       THEN /\ cmd' = "tx" /\ ti' = 1 /\ ni' = ni
            /\ entered' = entered \cup {Nodes[ni]}
       ELSE ni' = ni + 1 /\ UNCHANGED <<cmd, ti, entered>>
    /\ UNCHANGED <<assume, seen, running, pending, manager, outside, attempt,
                   restarts, probed, quiet>>

LastNode ==
    /\ cmd = "node" /\ ni > Len(Nodes)
    /\ Prompt
    /\ UNCHANGED <<running, pending, manager, outside, attempt, restarts>>

\* The transactions of a node are done, or an interrupt ends them.
LeaveTxs ==
    /\ cmd = "tx" /\ (ti > Len(Txs) \/ running > 0)
    /\ cmd' = "node" /\ ni' = ni + 1
    /\ UNCHANGED <<ti, assume, seen, running, pending, manager, outside, attempt,
                   restarts, hist>>

Skip(node, scid) ==
    \/ assume /\ scid \notin Plausible
    \/ scid \in Public
    \/ <<node, scid>> \in seen

TakeTx ==
    /\ IF Skip(Nodes[ni], Txs[ti]) THEN ti' = ti + 1 /\ cmd' = cmd
                                   ELSE cmd' = "probe" /\ ti' = ti
    /\ UNCHANGED <<ni, assume, seen, running, pending, manager, outside, attempt,
                   restarts, hist>>

NextTxOffByOne ==
    /\ cmd = "tx" /\ ti <= Len(Txs) /\ running = 0
    /\ Cardinality(pending) <= Limit + 1
    /\ TakeTx

\* A full map passes the transaction over instead of waiting.
NextTxNoWait ==
    /\ cmd = "tx" /\ ti <= Len(Txs) /\ running = 0
    /\ IF Cardinality(pending) <= Limit THEN TakeTx
       ELSE /\ ti' = ti + 1
            /\ UNCHANGED <<cmd, ni, assume, seen, running, pending, manager,
                           outside, attempt, restarts, hist>>

\* The wait for pending probes to clear, and the filters.
NextTx ==
    /\ cmd = "tx" /\ ti <= Len(Txs) /\ running = 0
    /\ Cardinality(pending) <= Limit
    /\ TakeTx

\* "keep probing this one until it succeeds": no way out but a probe sent, and
\* none is sent while the router finds no route.
ProbeTx ==
    /\ cmd = "probe"
    /\ probe(Nodes[ni], Txs[ti])
    /\ cmd' = "tx" /\ ti' = ti + 1
    /\ probed' = probed \cup {<<Nodes[ni], Txs[ti]>>}
    /\ UNCHANGED <<ni, assume, seen, running, outside, attempt, restarts, entered,
                   quiet>>

InterruptNeverExits ==
    /\ running' = running + 1
    /\ UNCHANGED <<cli, pending, manager, outside, attempt, restarts, hist>>

\* The first interrupt only sets the flag; it is never cleared.
Interrupt ==
    /\ running = 0 /\ running' = 1
    /\ UNCHANGED <<cli, pending, manager, outside, attempt, restarts, hist>>

-----------------------------------------------------------------------------
(* The background thread.  It takes the whole queue, handles it, and only   *)
(* then may write the manager: events being handled hold the manager's      *)
(* consistency lock.                                                        *)

process_pending_events ==
    /\ batch = <<>> /\ events # <<>>
    /\ batch' = events /\ events' = <<>>
    /\ UNCHANGED <<cli, running, pending, sent, inflight, saved, outside, attempt,
                   restarts, hist>>

\* InvoicePayer, with no retries, abandons the payment, which queues a
\* PaymentFailed; then the program's handler inserts the row.
PaymentPathFailed ==
    /\ batch # <<>> /\ Head(batch).kind = "PaymentPathFailed"
    /\ LET e == Head(batch)
           path == sent[e.probe].path
       IN  /\ events' = Append(events, [kind |-> "PaymentFailed", probe |-> e.probe])
           /\ attempt' = IF Recorded(path, e.code)
                         THEN attempt \cup {Row(e.probe, path, e.code)}
                         ELSE attempt
    /\ batch' = Tail(batch)
    /\ UNCHANGED <<cli, running, pending, sent, inflight, saved, outside,
                   restarts, hist>>

PaymentFailedKeepsEntry ==
    /\ batch # <<>> /\ Head(batch).kind = "PaymentFailed"
    /\ batch' = Tail(batch)
    /\ UNCHANGED <<cli, running, pending, sent, inflight, events, saved, outside,
                   attempt, restarts, hist>>

PaymentFailed ==
    /\ batch # <<>> /\ Head(batch).kind = "PaymentFailed"
    /\ pending' = pending \ {Head(batch).probe}
    /\ batch' = Tail(batch)
    /\ UNCHANGED <<cli, running, sent, inflight, events, saved, outside, attempt,
                   restarts, hist>>

\* A write matters only to a later start, of which there are MaxRestarts.
persist_manager ==
    /\ batch = <<>> /\ restarts < MaxRestarts
    /\ saved' = [sends |-> Len(sent), inflight |-> inflight, events |-> events]
    /\ UNCHANGED <<cli, running, pending, sent, inflight, events, batch, outside,
                   attempt, restarts, hist>>

-----------------------------------------------------------------------------
(* The network.                                                             *)

\* A node of the path answers; or, with the channel closed, the HTLC is
\* dropped before it was committed, or given up once the chain settles it.
HtlcFails(p) ==
    /\ link # "down" /\ p \in inflight
    /\ inflight' = inflight \ {p}
    /\ \E code \in IF link = "up" THEN Replies(sent[p].path) ELSE {"other", NoCode} :
         events' = Append(events,
                     [kind |-> "PaymentPathFailed", probe |-> p, code |-> code])
    /\ UNCHANGED <<cli, running, pending, sent, batch, saved, outside, attempt,
                   restarts, hist>>

\* Gossip, and what the scorer and the graph make of failed payments, give the
\* router a way to a node or take it.
RouteChanges ==
    /\ \E n \in Ends : reach' = IF n \in reach THEN reach \ {n} ELSE reach \cup {n}
    /\ UNCHANGED <<cli, running, pending, manager, link, attempt, restarts, hist>>

PeerGone ==
    /\ link = "up" /\ link' = "down"
    /\ UNCHANGED <<cli, running, pending, manager, reach, attempt, restarts, hist>>

PeerBack ==
    /\ link = "down" /\ link' = "up"
    /\ UNCHANGED <<cli, running, pending, manager, reach, attempt, restarts, hist>>

\* No probe leaves the node any more.
ChannelClosed ==
    /\ link # "closed" /\ link' = "closed"
    /\ UNCHANGED <<cli, running, pending, manager, reach, attempt, restarts, hist>>

-----------------------------------------------------------------------------
(* The end of the program, and the next start.  The flag and the map are in *)
(* memory only; the events come back from the manager file.  A manager file *)
(* with other HTLCs than the channel has would close the channel at the     *)
(* start (module MonitorStore); that case ends the campaign and is left out *)
(* here.                                                                    *)

StartAgain(queue) ==
    /\ restarts < MaxRestarts
    /\ restarts' = restarts + 1
    /\ Prompt
    /\ running' = 0 /\ pending' = {}
    /\ events' = queue /\ batch' = <<>>
    /\ saved' = [sends |-> Len(sent), inflight |-> inflight, events |-> queue]
    /\ link' = IF link = "up" THEN "down" ELSE link
    /\ UNCHANGED <<sent, inflight, reach, attempt>>

\* A crash, or the second interrupt: nothing is written on the way out.
Crash ==
    /\ saved.sends = Len(sent) /\ saved.inflight = inflight
    /\ StartAgain(saved.events)

\* "stop": the background thread finishes its round and writes the manager.
stop == cmd = "prompt" /\ batch = <<>> /\ StartAgain(events)

-----------------------------------------------------------------------------
Campaign == probeall \/ NextNode \/ LastNode \/ LeaveTxs \/ NextTx \/ ProbeTx
Background == process_pending_events \/ PaymentPathFailed \/ PaymentFailed
Network == \/ PeerGone \/ PeerBack \/ ChannelClosed \/ RouteChanges
           \/ \E p \in Probes : HtlcFails(p)

Next == \/ Campaign \/ probeprivate \/ sendfakepayment \/ Interrupt
        \/ Background \/ persist_manager \/ Network \/ Crash \/ stop

Spec == Init /\ [][Next]_vars

\* The threads keep running, and a peer that stays connected fails an HTLC
\* sooner or later, as does the chain once the channel is closed.  Nobody
\* promises that the peer comes back, or a route.
FairSpec ==
    /\ Spec
    /\ WF_vars(NextNode \/ LastNode \/ LeaveTxs \/ NextTx \/ ProbeTx)
    /\ WF_vars(Background)
    /\ \A p \in Probes : WF_vars(HtlcFails(p))

-----------------------------------------------------------------------------
\* What the comments beside the match of main.rs say of a row, and where they
\* fail.  A row that dump_results reports names a channel there is, unless a relay
\* before the target gave that code; a row "unknown_next_peer", which keeps the
\* pair from being probed again, names none, unless a relay answered or the target
\* denies its channel.  Through a target that is our peer only the target answers.
VerdictsExplained ==
    \A r \in attempt :
      LET pair == <<r.target, r.scid>>
          relayed(codes) == Len(sent[r.probe].path) > 2
                              /\ \E code \in codes \cap RelayErrors : r.result = Result(code)
      IN  /\ r \in get_attempts_found(attempt) => Exists(pair) \/ relayed(Codes)
          /\ r.result = "unknown_next_peer" =>
               \/ ~Exists(pair) \/ relayed({"0x400a"})
               \/ pair \in Hidden /\ "0x400a" \in TargetErrors

\* A campaign that ran to its end without an interrupt has sent a probe for
\* every pair its filters let through, of every node it had a route to.
CampaignCovers ==
    cmd = "node" /\ ni > Len(Nodes) /\ running = 0 =>
        probed = {x \in entered \X Range(Txs) : ~Skip(x[1], x[2])}

\* The wait in probeall works: a probe it sends never makes more than
\* Limit + 1 probes in flight, those of probeprivate counted too.
ThrottleHolds ==
    [][cmd = "probe" /\ Len(sent') > Len(sent) =>
         Cardinality({p \in inflight' : sent'[p].probe}) <= Limit + 1]_vars

\* A campaign that starts with nothing outstanding never sends a probe for a
\* pair that has a row with a verdict, whenever that row was written.
NoReprobe ==
    [][cmd = "probe" /\ Len(sent') > Len(sent) /\ quiet =>
         ~ \E r \in attempt :
             <<r.target, r.scid>> = <<Nodes[ni], Txs[ti]>> /\ r.result # "unknown"]_vars

\* While the peer stays connected and the router keeps finding the nodes every
\* campaign returns to the prompt: the wait ends because handled failures take
\* entries out of pending_payments.  A route that is lost for good after the check
\* at the top of the loop keeps the retry of cli.rs going for ever.
CampaignEnds ==
    <>[](link = "up" /\ Range(Nodes) \subseteq reach \cup {Hub})
      => (cmd # "prompt" ~> cmd = "prompt")

\* An interrupt during probeall brings the prompt back.
InterruptStops == (running > 0 /\ cmd # "prompt") ~> cmd = "prompt"
=============================================================================
