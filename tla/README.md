# hidden-lightning-network in TLA+

A TLA+ model of the node in `src/src/`, a Lightning node that looks for
unannounced channels by sending payments that must fail and reading the error
code of the failure, and of the parts of LDK (`src/rust-lightning/`, vendored
in the repository) that it depends on to keep its money: channels, peers,
persistence and claims on chain. TLC checks the modules on small instances;
TLAPS proves the main safety properties of the monitor store, of the probing
campaign, of the payment ledgers, of opening a channel, of the peer maps, of a
channel on chain and of the abstract HTLC ledger for every instance.

    tlc -workers 2 -config MonitorStore_one.cfg MC_MonitorStore
    tlapm PeerManagerProofs.tla

`PROJECT.json` lists the runs, the source lines each definition stands for, the
mutants that break each property, the hazards of the code, and the findings.

## The system and its parts

| Part | State | Interacts with | Module |
|---|---|---|---|
| Monitor persistence and restart (`disk.rs`, `main.rs` Steps 7-10, `chainmonitor.rs`) | `monitors/`, `updates/`, the manager file; monitors in memory | background processor, channel manager | `MonitorStore` |
| Probing campaign (`cli.rs`, `probe.rs`) | loop position, `set_of_attempts`, the interrupt flag, `pending_payments` | channel manager, event handler, table `attempt` | `ProbeCampaign` |
| Probe verdicts (`main.rs`, `cli.rs`) | table `attempt` | campaign, `dump_results` | `ProbeVerdict` |
| Payment ledgers (`cli.rs`, `main.rs`) | `outbound_payments`, `inbound_payments`, the `InvoicePayer`'s cache | `InvoicePayer`, channel manager | `Payments` |
| Opening a channel (`channelmanager.rs`, opening states of `channel.rs`, `FundingGenerationReady` of `main.rs`) | channels, short ids, monitors, manager file, wallet | peer, bitcoind, chain | `ChannelOpen` |
| Running and closing a channel (`channel.rs`, `channelmanager.rs`) | pending HTLCs and fee updates of both ends, holding cells | peer, monitor | `Channel`, `ChannelPair`, `HtlcLedger` |
| Connections (`peer_handler.rs`, `lightning-net-tokio`, `connectpeer` of `cli.rs`) | the two peer maps, socket tasks, reconnect tasks | channel manager | `PeerManager` |
| A channel on chain (`channelmonitor.rs`, `onchaintx.rs`, `package.rs`) | claims, delayed claims, events waiting to be final | chain, channel manager | `Onchain` |

How they compose: `ChannelPair` puts two `Channel`s, their managers and a
connection together and is shown to implement `HtlcLedger`; `ProbeCampaign`
runs `ProbeVerdict`; `ChannelOpen` has two nodes, their files, the wallet and
one chain; `PeerManager` has two nodes, their sockets and the manager's queue
of `channel_reestablish`. Each of the other modules has a small stand-in for its
neighbour: `MonitorStore` a channel that is only an update id, `ProbeCampaign` a
link that is up, down or closed and a set of nodes the router knows a way to.

What makes it hard: a crash can come between any two file system calls; the
command loop, the background processor, the socket tasks and the tasks that talk
to bitcoind share maps and files; events are handled later than what caused
them, in batches, and again after a restart; each end of a connection notices
its loss by itself; the chain can take back what it has confirmed.

Several runs take their faults from a set of budgets (`Budgets`, `Deals`): the
initial state picks one record, so that one run covers a union of fault
combinations, none of which would be small enough multiplied together.

## MonitorStore

One variable per file and per piece of memory. A monitor is its
`latest_update_id` and its `funding_spend_seen` flag; an update file is the
channel and the id in its name. The steps of a persister call are separate
actions, in the order of `disk.rs`: `WriteMonitor` (the rename in
`write_to_file`), `RemoveUpdate` once per file that `remove_dir_all` unlinks,
`ClearDone`. `UpdateChannel` and `WriteUpdate` are the two halves of
`ChainMonitor::update_channel`: memory first, then disk. `Startup` is Steps 7
to 10 of `start_ldk`: read the monitors and replay the updates filed under
their txid (`ReadMonitors`, or `ReplayFails` where `update_monitor` panics or
refuses), read the manager (`ReadManager`, which closes a channel that is
behind its monitor, or `FreshManager`), connect the blocks
missed, and persist every monitor again. `Crash` is enabled everywhere.

Temporary files are left out: no reader looks at them. A failed write in
`update_persisted_channel` ends the process (`unwrap` under `panic = "abort"`),
which is `Crash`.

| Run | Checks | Shows |
|---|---|---|
| `store_one` | `TypeOK`, `Durable`, `ManagerNeverStale`, `ClosedStaysClosed`, `MonitorFileNeverRollsBack`, `BlockSettles` | one channel, four updates: nothing that was reported persisted is lost, at any point of any write, and the writes of a block reach the disk unless the process dies |
| `store_shared_dir` | `Durable` fails | two channels: a full write of one removes the updates of the other |

Two hazards of this code follow from the same directory and are described in
`PROJECT.json`: after a crash between the monitor's rename and the emptying of
`updates/` the next start replays updates the monitor already holds, which
panics (the action `ReplayFails`); and channels funded by one transaction share
their update files, which are named by txid.

Bounds: with one channel `MaxUpdate` 4 has room for updates before a write,
between the write and the clearing, and after a restart; two channels need
only two updates each for one to be lost to the other.
Fairness: `start_ldk` goes on with its steps, and a persister call that has
begun goes on; both are straight-line code that waits for nothing but the disk.
No fairness is given to blocks, channel operations or crashes.

## ProbeVerdict and ProbeCampaign

`ProbeVerdict` is the data of a probe: the paths the router may return
(`Routes`), the codes the network may answer (`Replies`, external), the match
on the code (`Result`), the row (`Row`), and the two selects. The table is a set
of rows: it has no key, but nothing that reads it counts rows.

`ProbeCampaign` runs it. `cmd` is the position of the command loop: at the
prompt, at the head of the node loop, at the head of the transaction loop, or
in the loop that retries one probe. `probe` inserts the map entry and sends the
HTLC in one step, because `probe.rs` holds the map's lock across both. It needs
a route (`Routed`): our channel must be usable and the last node one that
`find_route` knows a way to. `reach` is the set of these nodes; gossip and the
scorer change it at any moment (`RouteChanges`). An attempt that fails, for want of
a route or because the send fails, changes nothing, so the retry loop is the
action `ProbeTx` waiting to be enabled. `NextNode` asks for a route once and passes
over a node that has none. `NextTx` merges the wait, the second look at the flag
and the filters; between them only this thread adds entries and the second look
sees a later interrupt. The background thread takes the whole queue
(`process_pending_events`), handles event by event, and writes the manager only
between batches, because event handling holds the manager's consistency lock.
`PaymentPathFailed` is the `InvoicePayer` (which, with `Retry::Attempts(0)`,
abandons the payment and so queues `PaymentFailed`) followed by the program's
handler (which inserts the row); `PaymentFailed` takes the entry out of the
map, one batch later. After `Crash` or `stop` the flag, the map and the
command's variables are gone and the events of the manager file are handled
again. Crashes that leave the manager behind the channel's monitor close the
channel at the next start; that case belongs to `MonitorStore` and is excluded
by the guard of `Crash`.

| Run | Checks | Shows |
|---|---|---|
| `campaign_once` | `TypeOK`, `VerdictsExplained`, `CampaignCovers`, `ThrottleHolds` | a campaign over two nodes and two outputs, one of them announced, with probes by hand and fake payments before and between campaigns, routes that come and go, and relays that answer 0x400a |
| `campaign_resume` | `NoReprobe`, `CampaignEnds` | two campaigns with a crash, a stop or an interrupt; every campaign ends if the peer stays and the nodes have routes |
| `campaign_interrupt` | `InterruptStops` fails | the retry of a probe ignores the flag |

`VerdictsExplained` says how far a row can be trusted. The match in `main.rs` reads
the code alone, not which node gave it. So a row that `dump_results` reports names a
channel there is, unless a relay before the target gave that code; and a row
`unknown_next_peer`, which keeps the pair from being probed again, names none, unless
a relay answered 0x400a or the target denies its channel. Both exceptions happen: in
the run the relay answers 0x400a for a hidden channel. A channel there is need not be
hidden: the router may take an announced channel to the guessed node, and a fake
payment to a node behind the peer leaves a row for the announced channel it
arrives over.

`ThrottleHolds` is about one session (`MaxRestarts` 0): a restart empties the map while
the probes of the manager file still hold their slots. It counts probes: the HTLCs of
`sendfakepayment`, `sendpayment` and `keysend` have no entry in the map.
`NoReprobe` is about campaigns that start with nothing outstanding
(`quiet`): the table is read once, so a campaign started while probes of an
earlier one are in flight may send them again. An event handled again after a
restart inserts its row again, which the set does not show.

The code's 30 is `Limit` 0; only the comparison matters, and two entries suffice
to be below, at and above it. `MaxSends` caps the probes of a
behaviour; `probeall` starts only if it can finish within it, so the cap never
blocks a campaign half-way. A manager write is taken only while a restart can
still happen. Runs do not check deadlock: with all sends used, the channel
closed and no restart left nothing more happens.

Fairness (`FairSpec`): the command loop and the background thread keep running,
and an HTLC is failed sooner or later by a connected peer (its expiry forces
it) or, once the channel is closed, by the chain. Nothing makes the peer come
back, as a reconnect task exists only if `connectpeer` started one, and nothing makes
the router find a way again. `CampaignEnds` therefore assumes that from some moment on
the peer is there and every node of the file has a route. Without either the retry
goes on for ever, which `campaign_interrupt` shows.

## Payments

`Pay` is `send_payment` or `keysend` up to the `InvoicePayer`'s answer,
`StorePayment` the insertion into `outbound_payments` afterwards: the handler
can run between them. Errors that store nothing (no route, bad invoice) change
nothing and have no action. `get_invoice` holds the map's lock throughout and
is one step. The five events follow `main.rs`, with the `InvoicePayer`'s part
first. `PaymentFailed` leaves `outbound_payments` alone, as the code that would
mark it is commented out.

| Run | Checks | Shows |
|---|---|---|
| `pay_maps` | `TypeOK`, `SucceededWasSent`, `OneInFlight`, `ClaimsListed` | three payments of two invoices and one invoice of our own, with a restart anywhere |

`OneInFlight` is about the time before a restart: the cache that ensures it is
in memory. That an invoice already paid can be paid again is left open: the
`InvoicePayer` leaves it to its caller and `send_payment` does not look.
Three payments are enough for a failure, a second try and a third. The hashes
to pay are interchangeable, and the run, which checks invariants only, uses
that symmetry.

## ChannelOpen

Two nodes, A which opens channels and B. The handlers keep their names
(`internal_open_channel`, `internal_funding_created`, ...). The program's
`FundingGenerationReady` handler calls bitcoind between two looks at the
channel, so it is three steps: `FundTransaction` (the wallet picks a coin),
`TakeChannel` and `InsertChannel`, the two locked stretches of
`funding_transaction_generated` with the channel out of the map between them.
The map `by_id` has a channel under its temporary id until the funding is created and
under the funding id afterwards (`channel_id`); a message finds a channel only by the
id it carries (`IdIn`, `Knows`), and one that finds none is answered with an error for
that id, or thrown away if it is an error itself (`UnknownChannel`).
The broadcast is a task of its own (`Publish`). Blocks reach the monitors and
then the manager (`block_connected`, `block_disconnected`), one at a time; the
manager hands each to `do_chain_event`, first with its transactions and then with
its height. `Reorg` replaces the last blocks. `Persist` writes the manager and `Restart`
loads an old one beside the monitors, which are stored at once. A panic stops
the node (`dead`), as the program is built with `panic = "abort"`.

| Run | Checks | Shows |
|---|---|---|
| `open_faults` | `TypeOK`, `FundedIsWatched`, `ManagerLoads`, `ReadyIsConfirmed`, `AnnouncedOnce`, `EndsAgree` | opening, funding, confirming and announcing a channel with up to two faults among a lost connection, a reorganisation and a restart |

`EndsAgree` is about states with nothing under way and no panic: whatever was lost, B
has no channel that A has not, and a channel of both is equally far on both sides. A may
be left with a channel of its own in one case. If B gives a channel up before
`funding_created` comes, for instance on a lost connection while A has the channel out of
the map, B's errors name the temporary id, which A no longer knows the channel by. A then waits for a `funding_signed` that does not come; the
funding transaction is never sent, as `EndsAgree` also says. Safety only: nobody promises
that the wallet pays or that the peer comes back, so deadlock is not checked.

Bounds: one channel, one coin, chains of one or two blocks. The budgets
(`TwoFaults`) pair a reorganisation with a lost connection, for a channel that
is announced at once and for a trusted one (depth 0), and each of these faults
with a restart of A, the reorganisation also after the announcement. The six confirmations of an announcement are one or two, B's
deadline of 2016 blocks is 2.

Met on the way, listed as hazards: while the channel is out of the map a
connection can be lost and made again, and the channel then gets a
`channel_reestablish` it is not paused for; a restart between the manager write
and the broadcast leaves a funding transaction nobody sends.

## Channel, ChannelPair and HtlcLedger

`Channel` is one side: its inbound and outbound HTLCs with the states of
`InboundHTLCState` and `OutboundHTLCState`, the pending fee update, the holding
cell, what is owed after a delayed monitor update, and the negotiation of a
close. The methods of `channel.rs` are operators from channels to channels.
A commitment transaction is what it pays (the HTLCs in it, the owner's balance,
the feerate), so a signature is valid when both sides built the same record.

`ChannelPair` adds the two managers and the connection. `net` is the queue
towards each end; a break loses a suffix, and each end notices by itself
(`up`). An end may restart from its last stored state. A monitor update may be
delayed (`TemporaryFailure`); the program's own persister never reports one, but
the interface allows it, and `restore` paths depend on it. A claim is repeated
after a restart, as the claim of the incoming HTLC is replayed; repeating it also
after a delayed update (`RepeatAfterDelay`) reaches the panic at
`channel.rs:3130`, and the runs leave it out.

`HtlcLedger` is what a channel promises for the HTLCs of one direction: handed
over at most once, one outcome, and the offerer hears that outcome and no other.
`LedgerKept` is its specification in both directions, under the refinement
mappings `FunderLedger` and `FundeeLedger`.

| Run | Checks | Shows |
|---|---|---|
| `channel_dance` | `TypeOK`, `NoClose`, `TheirTxIsWatched`, `OutcomesCommitted`, `BooksAgree`, `HandedOnce`, `NeverStuck`, `LedgerKept` | an HTLC each way, one of them refused, a fee update, a break, a restart and a delay |
| `channel_close` | `CloseAgreed`, `CloseEnds` | the funder closes with up to two HTLCs on the channel, with a break, a restart, a delay and two timer ticks |

`NeverStuck` and `CloseEnds` need no fairness: they say that when no message is
under way and nothing is due, the work is done. `CloseEnds` lets a close end by
force if the connection was lost: a `shutdown` is sent again before an
`update_add_htlc` that was lost with it (`channelmanager.rs:6511`), which the
other end answers by closing. Deadlock is not checked: a settled channel may
rest.

Bounds: two units each and HTLCs of one unit, so that both ends can offer;
`MaxAccepted` 2 where the code has 50. One HTLC each way is enough for every
pair of HTLC states to meet; the close has two of one side so that one can
be removed while the other is still pending.

## PeerManager

The map `peers` sits behind a read/write lock and each peer behind a mutex, so
an action is a stretch of code between two points where another thread can get
in. `process_events` takes the manager's messages before it takes the lock and
`EventsQueued` queues them after; `timer_tick_occurred` decides under the read
lock and `DoomedRemoved` removes under the write lock; a failed read lets go of
the read lock (`do_read_event`) before `ReadsEnd` takes the write lock.
`do_connect_peer` and `ConnectReturns` are the reconnect task that `connectpeer`
leaves behind. `FirstWriteFails` is the end of `setup_outbound` when act one cannot be
written: after a part of it was written the peer is told off and the socket task ends
(`failing`); after 100 ms without a byte written the task just returns, and the peer
stays in the map with a socket nobody reads (`unread`) until the second timer tick that
finds its handshake unfinished. `Break` cuts a connection at any point of both queues.

| Run | Checks | Shows |
|---|---|---|
| `peers_faults` | `TypeOK`, `PeersAgree`, `Settles` | up to two reconnect tasks, broken connections, a first write that fails, ping timeouts and `disconnect_all_peers` |

Fairness: every started task is polled again by tokio and the locks are fair, so
the socket tasks, `process_events`, and the second half of a tick go on; a
reconnect task is a timer and fires. Ticks, faults and commands owe nothing.
`Settles` is about one reconnect task, and leaves aside a socket that nobody reads: only a
tick takes it away. Two of them, which two `connectpeer`
commands leave behind, may keep refusing each other's connections for ever.

Bounds: two connection identities, reused once free, which suffices for a
second connection beside a first; budgets (`SomeFaults`) of a break with a tick,
two ticks with a failed first write, a break with `disconnect_all_peers`, and two tasks
with a tick.
A `channel_reestablish` taken for one connection and queued on the next
(`peer_handler.rs:1419`) can happen here too; it is listed as a hazard, since the
receiver may close the channel over it (`channel.rs:3809`).

## Onchain

One `ChannelMonitor` with its `OnchainTxHandler`, the counterparty, and the
chain. Every callback runs under the monitor's lock and is one action:
`block_connected`, `block_disconnected`, `provide_payment_preimage`,
`ChannelForceClosed`, `release_pending_monitor_events`. An output is a pair of a
transaction and an HTLC; claims are packages of outputs, merged and split as in
`package.rs`, delayed by timelocks (`locktimed`), and registered in the two maps
`requests` (`pending_claim_requests`) and `outpoints` (`claimable_outpoints`).
`block_connected` takes any valid block of at most `MaxTxs` of the channel's
transactions, the counterparty's included, and hands them one after the other to
`tx_confirmed` and then to `claims_tx_confirmed`, as the two loops of the code do.

| Run | Checks | Shows |
|---|---|---|
| `onchain_reorgs` | `TypeOK`, `FinalStays`, `NothingForgotten`, `MapsAgree`, `PreimageClaimsKept` | commitments of either side, reorganisations of one and two blocks, late preimages, a forced close |
| `onchain_claims` | `ClaimsKept` fails | a claim released by its timelock in a block that is taken back is not made again |

Bounds: chains of six blocks, and the constants in proportion to that:
`ANTI_REORG_DELAY` 3 (6), `CLTV_CLAIM_BUFFER` 2 (18),
`LATENCY_GRACE_PERIOD_BLOCKS` 1 (3), `CLTV_SHARED_CLAIM_BUFFER` 1 (12). At most
two blocks are taken back, fewer than `ANTI_REORG_DELAY`: finality is promised
for nothing deeper. The deals are two outbound HTLCs, one of them only in the
counterparty's newest commitment; two inbound ones with preimages known or late;
and one each way with a dust one. `PreimageClaimsKept` leaves out preimages that
arrive after the commitment is confirmed and claims by timeout, which
`onchain_claims` shows can be lost.

An aggregated claim made before a reorganisation may be mined after its outputs
were registered again one by one. It then splits a request down to nothing, and
taking that block back makes `merge_package` panic ("Merging template on an empty
package", `package.rs:569`). The model has that state (`panicked`), `MapsAgree`
and `PreimageClaimsKept` stop there, and the hazard is listed.

## Proofs

`MonitorStoreProofs` proves, with no bound on the number of steps, updates or
crashes:

* `TypeCorrect` and `NeverRollsBack` for any set of channels;
* `OneChannelDurable`, `OneChannelManagerLoads`, `OneChannelStaysClosed` when
  there is one channel. The run `store_shared_dir` shows that the hypothesis
  cannot be dropped from the first.

They assume `TxidAssumption` (every channel has a txid) and `MaxAssumption`
(the bound is a natural number), and nothing else.

`NeverRollsBack` is not inductive by itself: a write copies memory to the file,
so memory must not be behind the file. `Base` adds that (`FileBehind`), that a
monitor in memory exists while its file is being written (`Present`), and which
control states go together (`Control`).

The one-channel theorems rest on `IInv`. `Durable` alone does not survive the
clearing of `updates/`: the files may go because the monitor file has caught
up with memory, which `Level` states while the clearing lasts. `Exact` says
that memory, between calls, is exactly what was reported persisted, so that a
replay after a crash, which rebuilds memory from disk alone, comes back to it.
`ManagerBehind` says that the manager file lists nothing newer than what was
reported, and `Kept` that a closed channel is not listed at its monitor's
level, which is what makes the next start close it again. Each is preserved by
every action; the proofs go action by action, and `IInv` was model-checked
before it was proved.

`HtlcLedger` holds the theorem `LedgerKeepsOutcomes`: in the abstract ledger no
HTLC is both claimed and failed, and no offerer hears of an outcome that was not
decided. `LedgerKept` carries it over to the channel on the instance TLC checks.
`LedgerInv` adds that only what was handed over is claimed, and that what was
failed back was failed by the receiver or never given to it.

`PeerManagerProofs` proves two theorems. `PeersAlwaysAgree`: for any set of connections, any
reconnect tasks and any budgets, each node's map of ids leads to the one peer
that claims the id, and the channel handler counts a node as connected exactly
while a peer with features is mapped. It assumes that the two nodes differ and
that no connection is called `None` (`NodesDiffer`, `ConnsAssumption`).
`PeersAgree` is not inductive: whether a message may end a peer, set its node id
or complete its `Init` depends on how far the peer has come. `IInv` adds the
types and, for each node (`Peers`), that a peer exists only while its read task
does, that handshake, node id and `Init` come in this order, that a peer refused
as a second connection is never read from again, and that a peer whose mutex a
handler of `Init` holds is still mapped. Lemmas `OnePeer` and `SamePeer` reduce
an action to the peer it touches, so that each action's proof is about one
record. `PeersTyped` is the type invariant with `MessagesInOrder`: what a peer reads
next is what its state expects next. It needs a second invariant, `WInv`, which
counts along the fixed script of a connection (the acts of the handshake, `Init`,
then data): `Got` is how much of it an end has read and `Put` how much the other
end has written, both told from the state of the peers, and the wire is exactly the
piece between them (`Fits`, `Reach`). Where a read task is gone or the connection was
refused nothing is read any more and nothing needs to be known of the wire
(`Live`), and a peer that dialled but whose socket is no longer open may not have
written act one (`Mute`). Fairness is not used.

`PaymentsProofs` proves `SucceededAlwaysSent`, `NeverTwoInFlight` and
`ClaimsAlwaysListed` for any invoices and any bounds (`PayBounds`: they are
natural numbers). `OneInFlight` is not inductive: the cache entry of a payment
goes when the event that ends it is handled, which is after the payment has
ended, and the entry a handler takes out must not be that of a later payment of
the same hash. So `Covered` is about open payments, those in flight and those
whose ending event is still queued: until the first restart each has its entry,
no two have the same hash, and no payment has two ending events. `Types` says
that a queued event tells the truth (`Told`), which is what makes a
`PaymentSent` mark only a payment that was sent; a replayed event after a
restart still does, because payments end once and money held is only claimed
(`Advances`).

`ProbeCampaignProofs` proves five theorems, for any node and transaction files,
limit, slots and answers of the network. Their types and facts about queues and
paths come from `BoundsAssumption`, `FilesAssumption` (the files are lists) and
`CodesAssumption` (the errors of the network are codes that the handler tells
apart, or "other").

* `ThrottleAlwaysHolds`: a probe of `probeall` never makes more than `Limit + 1`
  probes in flight, as long as the program does not start again
  (`MaxRestarts = 0`). A restart empties `pending_payments` while HTLCs are in
  flight, so the hypothesis cannot be dropped; the other theorems hold for any
  number of restarts. `Throttled` says that every probe in flight is in the map
  (`Held`), which holds because the events about a payment are queued only after
  its HTLC is gone, and that nothing is added between the check of the map's size
  and the probe.
* `NeverReprobes`: a campaign that starts with nothing outstanding sends no probe
  for a pair that has a verdict in the table. It assumes that neither file
  repeats an entry and that the announced channels of the guessed node are among
  those `probeall` skips. `Fresh` says why reading the table once is enough: what
  is in flight or queued, and every row since the start, is of a pair the
  campaign has probed or of an announced channel, and the pairs it has probed are
  behind the position of its two loops (`Passed`).
* `CampaignAlwaysCovers`, without any hypothesis: files with repetitions and
  restarts included. `Covering` is the loop invariant of the two loops: of the
  nodes already left every pair that the filters let through is probed, of the
  present one those before the present output, and nothing else.
* `VerdictsAlwaysExplained`, without any hypothesis: whatever relays and targets
  answer, and restarts that handle events again included. `Honest` says that every
  queued event carries an answer the network may give to the path of its payment
  (`Answered`), in the queue, the batch and the manager file, and that every row is what
  the match makes of such an answer (`Computed`); the rest is a case split on the
  length of the path and the code.
* `CampaignTyped`: the type invariant, without any hypothesis. Its one part with
  content is about the table: the last hop of every path the router returns is a
  pair of the files, a pair probed by hand or an announced channel (`RowPair`).

`OnchainProofs` proves `MonitorTyped`, `FinalAlwaysStays` and
`NothingEverForgotten` for any HTLCs and deals, any blocks, and any
`ANTI_REORG_DELAY` above zero; blocks are taken back only within that delay of the
highest tip there was. It assumes `DelayAssumption` and `DealsAssumption` (HTLCs
have names of their own, only commitments of the counterparty can be revoked, and
preimages are of inbound HTLCs). Neither property is inductive: what is reported
follows from events that waited, so the invariant is about these. `Tracks` says
that an event waiting for confirmations stands for a transaction in the chain at
its height (`Stands`), that what was reported as final has enough confirmations
below the highest tip (`Settled`), that every claim of the counterparty in the
chain was reported (`Heard`), and that every lost HTLC was failed or waits
(`Noted`); `Waiting` says that nothing waits longer than it must. The second
ingredient is `Sound`: the confirmed transactions spend no output twice and spend
only what exists, so a transaction that makes an HTLC fail excludes the claim of
it. Splitting, merging and delaying of claims does not enter: lemma `TracksSame`
and the ones about `update_claims_view` show that claims never touch what is
reported, whatever the state of the two maps.

`ChannelOpenProofs` proves `OpenTyped`, `FundingAlwaysWatched`,
`ManagerAlwaysLoads` and `ReadyAlwaysConfirmed`, from the facts about handlers,
files and messages of `ChannelOpenLemmas`, for any finite sets of channels
and coins, any depths, deadlines and budgets of reorganisations (of any number of
blocks), lost connections and restarts (`OpenAssumption`). `IInv` has these parts:

* `NodesOk`: in each node a channel has a monitor exactly if its funding is under
  way, channels waiting for a funding transaction have none (`Pending`), a
  channel's confirmation is in the chain the node has seen (`Anchored`), and one
  that counts as ready remembers it (`ReadyOk`); the manager file lists only
  channels whose monitors are stored, with the chain seen when it was written
  (`FileOk`). The last is what a restart needs: it brings back channels and their
  view of the chain together, so they still agree.
* `Mails`: an `open_channel` on its way to B is of a channel B does not know, at
  most one for each, and a `funding_signed` on its way to A is of one B watches.
* `Watched`: a funding transaction in a task, the mempool or the chain has both
  monitors, which no step takes away.
* `Typed`, `Quiet` (B opens no channel) and `ChainOk`.

`ReadyIsConfirmed` fails between the two halves of a handler: `do_chain_event` runs
over channels whose confirmation may be in a block just taken back. The lemmas
about `best_block_updated` therefore start from a channel anchored in the old view
and show that it is closed, reset or anchored in the new one. `Tame` says what every
handler but the ones that open or fund a channel has in common: no monitor is lost,
no channel comes in, no funding is sent. With it most actions need only the
facts about the one node they touch.

Proofs about sequences that a fold or a recursive function builds (the messages of
`do_chain_event`, the transactions of a block) go by the least counterexample
(lemma `Least`, from the well-foundedness of the naturals), since the library's
induction rules, which take an operator as a parameter, cannot be instantiated
by the installed provers.

Only model-checked: liveness (`BlockSettles`, `CampaignEnds`, `Settles`), which the
prover does not handle; the refinement `LedgerKept` and the other properties of
`ChannelPair`, whose state is two channels of nested records that change in most
fields at every step; `EndsAgree` and `AnnouncedOnce` of `ChannelOpen`, which relate
the two ends through all the messages between them; and
`MapsAgree` and `PreimageClaimsKept` of `Onchain`, which are about the claims that the
proofs set aside.

## Findings

* `store_shared_dir`: the persister empties the whole `updates/` directory
  (`disk.rs:166`), against the interface it implements (`chainmonitor.rs:115`).
* `campaign_interrupt`: the retry of a probe never looks at the interrupt flag
  (`cli.rs:798`), against the comments at `cli.rs:724` and `cli.rs:728`.
* `onchain_claims`: a claim registered in a disconnected block is forgotten
  (`onchaintx.rs:683`), against the comment at `channelmonitor.rs:208`.

## Not modelled

* Channel opening: permanent and temporary failures of `watch_channel`, the
  retry with another channel type, invalid signatures, the workaround for
  early `channel_ready` of another implementation, `transaction_unconfirmed`.
* Channels: the amounts and fees of single HTLCs, dust and reserve limits,
  signatures and keys, configuration limits; payments in several parts and
  forwarding between two channels.
* Peers: gossip and its back-pressure, read pauses, invalid messages, a silent
  partition without an end of file, `disconnect_by_node_id`, the file
  `channel_peer_data`.
* On chain: revoked commitments, fee bumping and its height timers, the relay
  policy of the network, our previous commitment, `chain::Confirm`,
  `get_claimable_balances`. A claim is broadcast one block before the chain
  takes it, and the model lets a miner have it from then on.
* The router, the scorer, the network graph and the gossip protocol enter as
  what the program sees of them: the routes it may get. A lost or old graph file
  changes which routes are preferred, which no property here is about.
* Cryptography (noise, onions, keys) and the serialisation of messages and
  files: computations without state whose correctness is not a question of
  order or failure.
* Short channel ids are model values: packing them is three shifts and an or.
* The key seed is written once and read at every start. The scraper is one pass
  over a file. Argument parsing, listings, log lines, hex text, the layout of
  `results.json`, and the RPC conversions hold no state.
