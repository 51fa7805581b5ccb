---------------------------- MODULE ChannelOpen ----------------------------
(***************************************************************************)
(* How a channel comes to be: the opening handshake of two nodes            *)
(* (rust-lightning, ln/channelmanager.rs and the opening states of          *)
(* ln/channel.rs), the handler of this program that has bitcoind build the   *)
(* funding transaction (main.rs), the chain that confirms it and may be      *)
(* reorganised, channel_ready, the announcement, and what a lost connection  *)
(* or a restart between any two of these steps leaves behind.               *)
(*                                                                         *)
(* A opens channels to B.  A channel is named by its number in Opens; which   *)
(* of its two ids, the temporary one or the one of its funding transaction, a *)
(* node keeps it under or a message names it by is modelled beside.  A short  *)
(* channel id is the height of the funding transaction.                     *)
(***************************************************************************)
EXTENDS Integers, FiniteSets, Sequences, Functions

CONSTANTS
    A, B,           \* the node that opens channels and its peer
    Opens,          \* the channels A may open
    Coins,          \* what its wallet can spend
    Deadline,       \* blocks B waits for the funding (FUNDING_CONF_DEADLINE_BLOCKS)
    Public,         \* whether A wants its channels announced
    MayRefuse,      \* whether the parameters of a channel may be refused
    Restarters,     \* bound: the nodes that restart
    Budgets         \* which minimum_depth B asks for (0 if it trusts A), and how
                    \* many confirmations past the first an announcement takes (5);
                    \* bounds: how high the chain grows, and how often it is
                    \* reorganised, a connection breaks and a node restarts

Peers == {A, B}
Other(p) == IF p = A THEN B ELSE A

ASSUME OpenAssumption ==
    /\ A # B /\ IsFiniteSet(Opens) /\ IsFiniteSet(Coins)
    /\ Deadline \in Nat
    /\ Public \in BOOLEAN /\ MayRefuse \in BOOLEAN
    /\ Restarters \subseteq Peers
    /\ Budgets \subseteq [depths : SUBSET Nat, announce : Nat, height : Nat, reorgs : Nat,
                           breaks : Nat, restarts : Nat]

VARIABLES
    node,     \* what each node has in memory, and its monitors, which are stored
    file,     \* the manager file of each node
    net,      \* the messages on their way to each node
    chain,    \* the blocks: their transactions, and the branch they are from
    mempool,  \* transactions that wait for a block
    coin,     \* the coin each funding transaction spends
    opened,   \* the channels A has begun to open
    left      \* what is left of the budget of this behaviour

vars == <<node, file, net, chain, mempool, coin, opened, left>>

Idle == [pc |-> "idle"]

Init ==
    /\ node = [p \in Peers |->
         [chans |-> <<>>,      \* by_id
          ids |-> {},          \* short_to_id: channels with their short ids
          mons |-> <<>>,       \* the monitors, and whether they were told to close
          mevents |-> {},      \* channels whose monitor saw the funding spent
          view |-> <<>>,       \* the chain as far as the node has seen it
          later |-> {},        \* pending_background_events: monitors to be told to close
          up |-> FALSE,        \* whether the node believes to be connected
          known |-> FALSE,     \* whether per_peer_state has the peer
          events |-> <<>>,     \* FundingGenerationReady events
          hand |-> Idle,       \* where the event handler is
          tasks |-> {},        \* transactions a task is about to send to bitcoind
          dead |-> "no",       \* the panic that ended the process
          ann |-> {}]]         \* the announcements it has broadcast
    /\ file = [p \in Peers |-> [chans |-> <<>>, view |-> <<>>, events |-> <<>>,
                                later |-> {}, known |-> FALSE]]
    /\ net = [p \in Peers |-> <<>>]
    /\ chain = <<>>
    /\ mempool = {}
    /\ coin = <<>>
    /\ opened = {}
    /\ left \in Budgets

Use(event) == left[event] > 0 /\ left' = [left EXCEPT ![event] = @ - 1]

Drop(f, S) == [i \in DOMAIN f \ S |-> f[i]]
Insert(f, S, v) == [i \in DOMAIN f \cup S |-> IF i \in S THEN v ELSE f[i]]
Fund(k) == <<"fund", k>>
Spend(k) == <<"close", k>>
InChain(blocks) == UNION {blocks[h].txs : h \in DOMAIN blocks}
HeightOf(tx, blocks) == CHOOSE h \in DOMAIN blocks : tx \in blocks[h].txs

-----------------------------------------------------------------------------
(* The channel (channel.rs).  minimum_depth is unknown to A until the        *)
(* answer; a channel without it is never ready.                             *)

NewChannel(st, depth, height) ==
    [st |-> st,
     ready |-> {},        \* which channel_ready were sent, in FundingSent
     gone |-> FALSE,      \* PeerDisconnected
     depth |-> depth,     \* minimum_depth
     conf |-> 0,          \* funding_tx_confirmation_height
     confIn |-> FALSE,    \* whether funding_tx_confirmed_in is set
     scid |-> 0,          \* short_channel_id
     sigs |-> FALSE,      \* announcement_sigs_state is MessageSent
     theirSigs |-> 0,     \* the short id of the announcement_sigs we hold
     since |-> height]    \* channel_creation_height

\* The funder's channel, and the other's, whose parameters passed its checks.
new_outbound == NewChannel("OurInitSent", 1, 0)
new_from_req(depth, height) == NewChannel("InitBoth", depth, height)

accept_channel(c, depth) == [c EXCEPT !.st = "InitBoth", !.depth = depth]

is_usable(c) == c.st = "ChannelFunded"
is_our_channel_ready(c) == c.st = "ChannelFunded" \/ "our" \in c.ready
is_funding_initiated(c) == c.st \in {"FundingSent", "ChannelFunded"}

\* Mutant: the flag of the one that came first is left set.
ReadyUncleared(c, who) ==
    IF c.ready = {} THEN [c EXCEPT !.ready = {who}] ELSE [c EXCEPT !.st = "ChannelFunded"]

\* Both have said so now, or only we (who).
Ready(c, who) ==
    IF c.ready = {} THEN [c EXCEPT !.ready = {who}]
                    ELSE [c EXCEPT !.st = "ChannelFunded", !.ready = {}]

\* Whether channel_ready is due at this height.  It is not sent, but counts as
\* sent, while the peer is away: the reestablish sends it again.  A channel that
\* has no funding transaction yet must not get this far.
Unready(c) == [c |-> c, ready |-> FALSE, err |-> "no"]

ReadyAt(c, confs) ==
    IF confs < c.depth \/ is_our_channel_ready(c) THEN Unready(c)
    ELSE IF ~is_funding_initiated(c) THEN [Unready(c) EXCEPT !.err = "panic"]
    ELSE [c |-> Ready(c, "our"), ready |-> ~c.gone, err |-> "no"]

check_get_channel_ready(c, height) ==
    IF c.conf = 0 /\ c.depth # 0 THEN Unready(c)
    ELSE ReadyAt([c EXCEPT !.conf = IF @ > height THEN 0 ELSE @], height - c.conf + 1)

\* The peer's channel_ready; a repeated one changes nothing.
channel_ready(c) == IF is_usable(c) \/ "their" \in c.ready THEN c ELSE Ready(c, "their")

\* Whether our announcement_signatures are due.
get_announcement_sigs(c, height) ==
    IF \/ c.conf = 0 \/ c.conf + left.announce > height
       \/ ~is_usable(c) \/ c.gone \/ c.sigs \/ ~Public
    THEN [c |-> c, sigs |-> FALSE]
    ELSE [c |-> [c EXCEPT !.sigs = TRUE], sigs |-> TRUE]

\* What a channel makes of a block.
Outcome(c, ready, sigs, err) == [c |-> c, ready |-> ready, sigs |-> sigs, err |-> err]
Signed(s, ready) == Outcome(s.c, ready, s.sigs, "no")

\* The transactions of a block, in which the funding comes before its spend: a
\* channel that becomes ready returns before it looks at the spend.
Confirmed(r, height, spent) ==
    IF r.ready THEN Signed(get_announcement_sigs(r.c, height), TRUE)
    ELSE Outcome(r.c, FALSE, FALSE, IF r.err = "no" /\ spent THEN "close" ELSE r.err)

transactions_confirmed(c, k, height, txs) ==
    IF c.st \in {"OurInitSent", "InitBoth"} THEN Outcome(c, FALSE, FALSE, "no")
    ELSE IF c.conf # 0 THEN Confirmed(Unready(c), height, Spend(k) \in txs)
    ELSE Confirmed(check_get_channel_ready(
                     IF Fund(k) \in txs
                     THEN [c EXCEPT !.conf = height, !.confIn = TRUE, !.scid = height] ELSE c,
                     height),
                   height, Spend(k) \in txs)

\* Mutant: a channel outlives its funding transaction.
LostFundingIgnored(c) == FALSE

\* The new height: a channel that was ready and has lost its funding is closed,
\* and one that was never funded is given up by the node that did not open it.
LostFunding(c) == is_our_channel_ready(c) /\ c.conf = 0 /\ c.confIn
FundingTimedOut(c, p, height) ==
    p = B /\ ~is_our_channel_ready(c) /\ ~c.confIn /\ height >= c.since + Deadline

AtHeight(r, p, height) ==
    IF r.err # "no" THEN Outcome(r.c, FALSE, FALSE, r.err)
    ELSE IF ~r.ready /\ (LostFunding(r.c) \/ FundingTimedOut(r.c, p, height))
    THEN Outcome(r.c, FALSE, FALSE, "close")
    ELSE Signed(get_announcement_sigs(r.c, height), r.ready)

best_block_updated(c, p, height) == AtHeight(check_get_channel_ready(c, height), p, height)

remove_uncommitted_htlcs_and_mark_paused(c) == [c EXCEPT !.gone = TRUE, !.sigs = FALSE]

-----------------------------------------------------------------------------
(* The manager: what a handler makes of the node n.                         *)

Msg(type, k) == [type |-> type, k |-> k]
Sigs(k, scid) == [type |-> "announcement_signatures", k |-> k, scid |-> scid]
Error(k, id) == [type |-> "error", k |-> k, id |-> id]

\* The key of channel c in by_id, and the id that message m looks a channel up by.
channel_id(c) == IF c.st \in {"OurInitSent", "InitBoth"} THEN "temporary" ELSE "funding"
IdIn(m) == IF m.type = "error" THEN m.id
           ELSE IF m.type \in {"open_channel", "accept_channel", "funding_created"}
           THEN "temporary" ELSE "funding"

Knows(n, m) == m.k \in DOMAIN n.chans /\ channel_id(n.chans[m.k]) = IdIn(m)

\* What o has for each channel, one channel after the other.
InTurn(o) == FoldFunction(LAMBDA x, y : x \o y, <<>>, o)

\* A message for each of the channels ks.
Each(type, ks) == InTurn([k \in ks |-> <<Msg(type, k)>>])

Put(n, k, c) == [n EXCEPT !.chans = Insert(@, {k}, c)]

\* update_maps_on_chan_removal: only the short ids they have now are removed.
remove_channels(n, ks) ==
    [n EXCEPT !.chans = Drop(@, ks), !.ids = @ \ {<<k, n.chans[k].scid>> : k \in ks}]

Funded(n, ks) == {k \in ks : is_funding_initiated(n.chans[k])}

\* force_shutdown and finish_force_close_channel: the monitors of funded channels
\* are told, and broadcast the commitment transaction if they should.
Shutdown(n, ks, should_broadcast) ==
    [remove_channels(n, ks) EXCEPT
       !.mons = Insert(@, Funded(n, ks), TRUE),
       !.tasks = IF should_broadcast THEN @ \cup {Spend(k) : k \in Funded(n, ks)} ELSE @]

\* A handler's result: the node, and messages for the peer.
Result(n, msgs) == [n |-> n, msgs |-> msgs]
Close(n, k) == Result(Shutdown(n, {k}, TRUE), <<Error(k, channel_id(n.chans[k]))>>)

ShortId(k, c) == IF c.scid = 0 THEN {} ELSE {<<k, c.scid>>}

\* get_signed_channel_announcement: with the signatures of both.
Announced(k, c, height) ==
    IF c.theirSigs = 0 \/ c.conf = 0 \/ c.conf + left.announce > height THEN {}
    ELSE {<<k, c.scid>>}

\* Messages that are sent if they are due.
If(due, m) == IF due THEN <<m>> ELSE <<>>

\* What do_chain_event tells the peer of the outcome o of channel k.
Messages(k, o) ==
    IF o.err = "close" THEN <<Error(k, channel_id(o.c))>>
    ELSE If(o.ready, Msg("channel_ready", k)) \o If(o.sigs, Sigs(k, o.c.scid))

\* One call of do_chain_event: o gives the outcome of each channel.  A block may
\* come before the monitors are there, so handle_init_event_channel_failures has
\* the monitor of a closed channel told at the next timer tick.
do_chain_event(r, height, o) ==
    LET closed == {k \in DOMAIN o : o[k].err = "close"}
        kept == DOMAIN o \ closed
        ready == {k \in kept : is_our_channel_ready(o[k].c)}
    IN  Result([remove_channels(r.n, closed) EXCEPT
                  !.later = @ \cup Funded(r.n, closed),
                  !.chans = [k \in kept |-> o[k].c],
                  !.ids = @ \cup UNION {ShortId(k, o[k].c) : k \in ready},
                  !.ann = @ \cup UNION {Announced(k, o[k].c, height) : k \in {j \in kept : o[j].sigs}},
                  !.dead = IF \E k \in kept : o[k].err = "panic"
                           THEN "confirming before FundingSent" ELSE @],
               r.msgs \o InTurn([k \in DOMAIN o |-> Messages(k, o[k])]))

-----------------------------------------------------------------------------
(* Messages.  A node reads them only while it believes to be connected, and   *)
(* what it sends is lost unless both ends are.                              *)

Alive(p) == node[p].dead = "no"

Reply(msgs, nodes, p) ==
    [net EXCEPT ![p] = Tail(@),
                ![Other(p)] = IF nodes[A].up /\ nodes[B].up THEN @ \o msgs ELSE @]

\* The handler of a message on a channel that p has under the id the message gives:
\* F is what it makes of it.
Receive(p, type, F(_, _)) ==
    /\ Alive(p) /\ node[p].up /\ net[p] # <<>> /\ Head(net[p]).type = type
    /\ Knows(node[p], Head(net[p]))
    /\ \E r \in {F(Head(net[p]), node[p].chans[Head(net[p]).k])} :
           /\ node' = [node EXCEPT ![p] = r.n]
           /\ net' = Reply(r.msgs, node', p)
    /\ UNCHANGED <<file, chain, mempool, coin, opened, left>>

\* Any other message on a channel p does not know by that id is answered with an
\* error for the same id; an error is thrown away.
UnknownChannel(p) ==
    /\ Alive(p) /\ node[p].up /\ net[p] # <<>>
    /\ LET m == Head(net[p])
       IN  /\ ~Knows(node[p], m) /\ m.type # "open_channel"
           /\ net' = Reply(If(m.type # "error", Error(m.k, IdIn(m))), node, p)
    /\ UNCHANGED <<node, file, chain, mempool, coin, opened, left>>

\* The user opens a channel; open_channel is queued even for a peer that is away.
create_channel(k) ==
    /\ Alive(A) /\ node[A].known /\ k \notin opened
    /\ opened' = opened \cup {k}
    /\ node' = [node EXCEPT ![A] = Put(@, k, new_outbound)]
    /\ net' = [net EXCEPT ![B] = IF node[A].up /\ node[B].up
                                 THEN Append(@, Msg("open_channel", k)) ELSE @]
    /\ UNCHANGED <<file, chain, mempool, coin, left>>

\* B answers, or refuses the parameters.
internal_open_channel(k) ==
    /\ Alive(B) /\ node[B].up /\ net[B] # <<>> /\ Head(net[B]) = Msg("open_channel", k)
    /\ \/ \E depth \in left.depths :
            /\ node' = [node EXCEPT ![B] = Put(@, k, new_from_req(depth, Len(node[B].view)))]
            /\ net' = Reply(<<[type |-> "accept_channel", k |-> k, depth |-> depth]>>, node, B)
       \/ /\ MayRefuse
          /\ net' = Reply(<<Error(k, "temporary")>>, node, B)
          /\ UNCHANGED node
    /\ UNCHANGED <<file, chain, mempool, coin, opened, left>>

\* A takes the answer and asks for a funding transaction, or refuses it.
internal_accept_channel ==
    \E refuse \in {FALSE, MayRefuse} :
        Receive(A, "accept_channel", LAMBDA m, c :
            IF c.st # "OurInitSent" \/ refuse THEN Close(node[A], m.k)
            ELSE Result([Put(node[A], m.k, accept_channel(c, m.depth))
                           EXCEPT !.events = Append(@, m.k)], <<>>))

\* Mutant: the answer is sent without a stored monitor.
StartUnwatched(n, k, c, msgs) ==
    LET With(r) == Result(Put(n, k, r.c), msgs \o If(r.ready, Msg("channel_ready", k)))
    IN  With(check_get_channel_ready([c EXCEPT !.st = "FundingSent"], 0))

\* A funded channel starts its monitor, which is stored before the answer is sent,
\* and may be ready at once.
StartFunded(n, k, c, msgs) ==
    LET With(r) == Result(Put([n EXCEPT !.mons = Insert(@, {k}, FALSE)], k, r.c),
                          msgs \o If(r.ready, Msg("channel_ready", k)))
    IN  With(check_get_channel_ready([c EXCEPT !.st = "FundingSent"], 0))

internal_funding_created ==
    Receive(B, "funding_created", LAMBDA m, c :
        IF c.st # "InitBoth" THEN Close(node[B], m.k)
        ELSE StartFunded(node[B], m.k, c, <<Msg("funding_signed", m.k)>>))

\* The funding transaction is handed to a task that sends it to bitcoind.
internal_funding_signed ==
    Receive(A, "funding_signed", LAMBDA m, c :
        IF c.st # "FundingCreated" THEN Close(node[A], m.k)
        ELSE StartFunded([node[A] EXCEPT !.tasks = @ \cup {Fund(m.k)}], m.k, c, <<>>))

internal_channel_ready(p) ==
    Receive(p, "channel_ready", LAMBDA m, c :
        LET With(s) == Result(Put(node[p], m.k, s.c), If(s.sigs, Sigs(m.k, s.c.scid)))
        IN  IF c.gone THEN Result(node[p], <<>>)
            ELSE IF ~is_funding_initiated(c) THEN Close(node[p], m.k)
            ELSE With(get_announcement_sigs(channel_ready(c), Len(node[p].view))))

\* The peer's signatures are for the short id the channel has at its end; those for
\* another one close the channel, and early ones are kept.  A channel that is used
\* before it is confirmed has no short id to compare with.
internal_announcement_signatures(p) ==
    Receive(p, "announcement_signatures", LAMBDA m, c :
        LET With(d) == Result([Put(node[p], m.k, d) EXCEPT
                                 !.ann = @ \cup Announced(m.k, d, Len(node[p].view))], <<>>)
        IN  IF ~is_usable(c) \/ ~Public THEN Result(node[p], <<>>)
            ELSE IF c.scid = 0
            THEN Result([node[p] EXCEPT !.dead = "announcement without a short id"], <<>>)
            ELSE IF m.scid # c.scid THEN Close(node[p], m.k)
            ELSE With([c EXCEPT !.theirSigs = m.scid]))

\* channel_ready is sent again, since nothing can have been committed since.
internal_channel_reestablish(p) ==
    Receive(p, "channel_reestablish", LAMBDA m, c :
        LET With(s) ==
              Result([Put(node[p], m.k, s.c) EXCEPT
                        !.ids = IF is_our_channel_ready(c) THEN @ \cup ShortId(m.k, c) ELSE @],
                     If(is_our_channel_ready(c), Msg("channel_ready", m.k))
                       \o If(s.sigs, Sigs(m.k, s.c.scid)))
        IN  IF ~c.gone THEN Close(node[p], m.k)
            ELSE With(get_announcement_sigs([c EXCEPT !.gone = FALSE], Len(node[p].view))))

\* An error closes the channel it is about and is not answered.
handle_error(p) ==
    Receive(p, "error", LAMBDA m, c : Result(Shutdown(node[p], {m.k}, TRUE), <<>>))

-----------------------------------------------------------------------------
(* The funding transaction: the handler of FundingGenerationReady (main.rs)    *)
(* runs in the background thread, between the messages of the peer.         *)

Spent == {coin[tx[2]] : tx \in {t \in mempool \cup InChain(chain) : t[1] = "fund"}}
Handler(pc, k) == [pc |-> pc, k |-> k]

\* bitcoind picks a coin that no transaction it knows spends, and signs; it does not
\* lock it.  Without a coin the call fails and the thread ends with it.
FundTransaction ==
    /\ Alive(A) /\ node[A].hand = Idle /\ node[A].events # <<>>
    /\ LET k == Head(node[A].events)
           n == [node[A] EXCEPT !.events = Tail(@)]
       IN  \/ \E c \in Coins \ Spent :
                /\ coin' = Insert(coin, {k}, c)
                /\ node' = [node EXCEPT ![A] = [n EXCEPT !.hand = Handler("signed", k)]]
          \/ /\ Coins \subseteq Spent
             /\ node' = [node EXCEPT ![A] = [n EXCEPT !.hand = Handler("ended", k)]]
             /\ UNCHANGED coin
    /\ UNCHANGED <<file, net, chain, mempool, opened, left>>

\* funding_transaction_generated takes the channel out of by_id and lets go of the
\* lock; a channel that is not there any more makes it an error, which is printed.
TakeChannel ==
    /\ Alive(A) /\ node[A].hand.pc = "signed"
    /\ LET n == node[A]
           k == n.hand.k
       IN  node' = [node EXCEPT ![A] =
             IF k \notin DOMAIN n.chans THEN [n EXCEPT !.hand = Idle]
             ELSE [n EXCEPT !.chans = Drop(@, {k}),
                            !.hand = [pc |-> "taken", k |-> k,
                                      chan |-> [n.chans[k] EXCEPT !.st = "FundingCreated"]]]]
    /\ UNCHANGED <<file, net, chain, mempool, coin, opened, left>>

\* It then queues funding_created, which names the temporary id, and puts the channel
\* back under the id of its funding transaction.
InsertChannel ==
    /\ Alive(A) /\ node[A].hand.pc = "taken"
    /\ LET n == node[A]
       IN  node' = [node EXCEPT ![A] = [Put(n, n.hand.k, n.hand.chan) EXCEPT !.hand = Idle]]
    /\ net' = [net EXCEPT ![B] = IF node[A].up /\ node[B].up
                                 THEN Append(@, Msg("funding_created", node[A].hand.k)) ELSE @]
    /\ UNCHANGED <<file, chain, mempool, coin, opened, left>>

\* The task reaches bitcoind, which refuses a transaction whose coin is spent or
\* whose funding it does not know.
Publish(p, tx) ==
    /\ tx \in node[p].tasks
    /\ node' = [node EXCEPT ![p].tasks = @ \ {tx}]
    /\ LET known == mempool \cup InChain(chain)
           valid == /\ tx \notin known
                    /\ IF tx[1] = "fund" THEN coin[tx[2]] \notin Spent ELSE Fund(tx[2]) \in known
       IN  mempool' = IF valid THEN mempool \cup {tx} ELSE mempool
    /\ UNCHANGED <<file, net, chain, coin, opened, left>>

-----------------------------------------------------------------------------
(* The chain, and the nodes that follow it block by block.                  *)

\* The transactions txs may be mined on top of blocks.
Minable(txs, blocks) ==
    \A k \in Opens : Spend(k) \in txs => Fund(k) \in txs \cup InChain(blocks)

Block(txs, branch) == [txs |-> txs, branch |-> branch]

Mine ==
    /\ Len(chain) < left.height
    /\ \E txs \in SUBSET mempool :
         /\ Minable(txs, chain)
         /\ chain' = Append(chain, Block(txs, left.reorgs))
         /\ mempool' = mempool \ txs
    /\ UNCHANGED <<node, file, net, coin, opened, left>>

\* The last d blocks are replaced by d + 1 others one of which has whatever comes
\* back.
Reorg ==
    /\ Use("reorgs")
    /\ Len(chain) < left.height
    /\ \E d \in 1..Len(chain) :
         LET kept == SubSeq(chain, 1, Len(chain) - d)
             pool == mempool \cup (InChain(chain) \ InChain(kept))
         IN  \E txs \in SUBSET pool, at \in 1..d + 1 :
                 /\ Minable(txs, kept)
                 /\ chain' = kept \o [i \in 1..d + 1 |->
                                Block(IF i = at THEN txs ELSE {}, left'.reorgs)]
                 /\ mempool' = pool \ txs
    /\ UNCHANGED <<node, file, net, coin, opened>>

Sync(p, result) ==
    /\ \E r \in {result} :
         /\ node' = [node EXCEPT ![p] = r.n]
         /\ net' = [net EXCEPT ![Other(p)] =
                      IF node[A].up /\ node[B].up THEN @ \o r.msgs ELSE @]
    /\ UNCHANGED <<file, chain, mempool, coin, opened, left>>

\* The monitors see the block first, then the manager: the transactions, and the
\* height.
BlockSeen(n, block) ==
    [n EXCEPT !.view = Append(@, block),
              !.mevents = @ \cup {k \in DOMAIN n.mons : Spend(k) \in block.txs}]

\* Whether no block of a view was taken back.
OnChain(view) == Len(view) <= Len(chain) /\ view = SubSeq(chain, 1, Len(view))

SeeTransactions(r, height, txs) ==
    do_chain_event(r, height, [k \in DOMAIN r.n.chans |->
                                 transactions_confirmed(r.n.chans[k], k, height, txs)])
SeeHeight(r, p, height) ==
    do_chain_event(r, height, [k \in DOMAIN r.n.chans |-> best_block_updated(r.n.chans[k], p, height)])

block_connected(p) ==
    /\ Alive(p) /\ OnChain(node[p].view) /\ Len(node[p].view) < Len(chain)
    /\ \E height \in {Len(node[p].view) + 1} :
         Sync(p, SeeHeight(SeeTransactions(Result(BlockSeen(node[p], chain[height]), <<>>),
                                           height, chain[height].txs),
                           p, height))

block_disconnected(p) ==
    /\ Alive(p) /\ ~OnChain(node[p].view)
    /\ \E height \in {Len(node[p].view) - 1} :
         Sync(p, SeeHeight(Result([node[p] EXCEPT !.view = SubSeq(@, 1, height)], <<>>), p, height))

\* The manager hears from the monitors that the funding was spent.
process_pending_monitor_events(p) ==
    /\ Alive(p) /\ node[p].hand.pc # "starting" /\ node[p].mevents # {}
    /\ \E gone \in {node[p].mevents \cap DOMAIN node[p].chans} :
         Sync(p, Result(Shutdown([node[p] EXCEPT !.mevents = {}], gone, FALSE), 
                        InTurn([k \in gone |-> <<Error(k, channel_id(node[p].chans[k]))>>])))

\* The monitors are told of the channels a block closed.
process_background_events(n) ==
    [n EXCEPT !.later = {},
              !.mons = [k \in DOMAIN @ |-> @[k] \/ k \in n.later],
              !.tasks = @ \cup {Spend(k) : k \in n.later}]

timer_tick_occurred(p) ==
    /\ Alive(p) /\ node[p].hand.pc # "starting" /\ node[p].later # {}
    /\ node' = [node EXCEPT ![p] = process_background_events(@)]
    /\ UNCHANGED <<file, net, chain, mempool, coin, opened, left>>

-----------------------------------------------------------------------------
(* Connections and restarts.                                                *)

\* Mutant: a channel without a funding transaction is kept.
DisconnectedKeepsAll(n) ==
    [n EXCEPT !.up = FALSE,
              !.chans = [k \in DOMAIN @ |-> remove_uncommitted_htlcs_and_mark_paused(@[k])]]

\* What a node does when it notices that its connection is gone: a channel without
\* a funding transaction is forgotten, the others are marked.
Disconnected(n) ==
    LET kept == {k \in DOMAIN n.chans : is_funding_initiated(n.chans[k])}
    IN  [n EXCEPT !.up = FALSE, !.known = kept # {},
                  !.chans = [k \in kept |-> remove_uncommitted_htlcs_and_mark_paused(n.chans[k])]]

peer_disconnected(p) ==
    /\ Alive(p) /\ node[p].up
    /\ IF node[Other(p)].up THEN Use("breaks") ELSE UNCHANGED left
    /\ node' = [node EXCEPT ![p] = Disconnected(@)]
    /\ net' = [net EXCEPT ![p] = <<>>]
    /\ UNCHANGED <<file, chain, mempool, coin, opened>>

\* Each end sends channel_reestablish for what it has, and drops a channel whose
\* open_channel was never answered.  A channel that was not marked when the
\* connection was lost trips the assertion of get_channel_reestablish.
Connected(n) ==
    LET kept == {k \in DOMAIN n.chans : n.chans[k].st # "OurInitSent"}
        m == [n EXCEPT !.up = TRUE, !.known = TRUE, !.chans = [k \in kept |-> @[k]]]
    IN  IF \A k \in kept : n.chans[k].gone
        THEN Result(m, Each("channel_reestablish", kept))
        ELSE Result([m EXCEPT !.up = FALSE, !.dead = "reestablish without a disconnect"], <<>>)

peer_connected ==
    /\ \A p \in Peers : Alive(p) /\ ~node[p].up /\ node[p].hand.pc # "starting"
    /\ \E r \in {[p \in Peers |-> Connected(node[p])]} :
       \E both \in {\A p \in Peers : r[p].n.up} :
           /\ node' = [p \in Peers |-> IF both \/ ~r[p].n.up THEN r[p].n ELSE node[p]]
           /\ net' = [p \in Peers |-> IF both THEN r[Other(p)].msgs ELSE <<>>]
    /\ UNCHANGED <<file, chain, mempool, coin, opened, left>>

\* Mutant: channels without a funding transaction are written too.
SnapshotAll(n) ==
    [chans |-> [k \in DOMAIN n.chans |-> remove_uncommitted_htlcs_and_mark_paused(n.chans[k])],
     view |-> n.view, events |-> n.events, later |-> n.later, known |-> n.known]

\* The background thread writes the manager between two rounds of events: only
\* funded channels, as if the peer were away.  A file that no restart will read
\* need not be written.
Snapshot(n) ==
    LET funded == {k \in DOMAIN n.chans : is_funding_initiated(n.chans[k])}
    IN  [chans |-> [k \in funded |-> remove_uncommitted_htlcs_and_mark_paused(n.chans[k])],
         view |-> n.view, events |-> n.events, later |-> n.later, known |-> n.known]

Persist(p) ==
    /\ Alive(p) /\ node[p].hand = Idle /\ file[p] # Snapshot(node[p])
    /\ p \in Restarters /\ left.restarts > 0
    /\ file' = [file EXCEPT ![p] = Snapshot(node[p])]
    /\ UNCHANGED <<node, net, chain, mempool, coin, opened, left>>

\* The manager is read back with the monitors: one whose monitor was told to close
\* is closed, a monitor without a channel broadcasts, and a channel without a
\* monitor is refused.
Loaded(n, f) ==
    LET behind == {k \in DOMAIN f.chans \cap DOMAIN n.mons : n.mons[k]}
        kept == DOMAIN f.chans \ behind
        lone == DOMAIN n.mons \ kept
    IN  [n EXCEPT !.chans = [k \in kept |-> f.chans[k]],
                  !.ids = UNION {ShortId(k, f.chans[k]) : k \in kept},
                  \* the monitors keep their events, and report them again
                  !.mevents = {k \in DOMAIN n.mons : Spend(k) \in InChain(n.view)},
                  !.view = f.view, !.up = FALSE, !.known = f.known,
                  !.events = f.events, !.later = f.later, !.hand = [pc |-> "starting"],
                  !.tasks = {Spend(k) : k \in lone},
                  !.dead = IF kept \subseteq DOMAIN n.mons THEN @ ELSE "channel without monitor"]

Restart(p) ==
    /\ Alive(p) /\ p \in Restarters /\ Use("restarts")
    /\ node' = [node EXCEPT ![p] = Loaded(@, file[p])]
    /\ net' = [net EXCEPT ![p] = <<>>]
    /\ UNCHANGED <<file, chain, mempool, coin, opened>>

\* main.rs follows the chain to its tip before it starts anything else.
Started(p) ==
    /\ Alive(p) /\ node[p].hand.pc = "starting" /\ node[p].view = chain
    /\ node' = [node EXCEPT ![p].hand = Idle]
    /\ UNCHANGED <<file, net, chain, mempool, coin, opened, left>>

Next ==
    \/ \E k \in Opens : create_channel(k) \/ internal_open_channel(k)
    \/ internal_accept_channel \/ internal_funding_created \/ internal_funding_signed
    \/ FundTransaction \/ TakeChannel \/ InsertChannel
    \/ Mine \/ Reorg \/ peer_connected
    \/ \E p \in Peers :
         \/ UnknownChannel(p) \/ internal_channel_ready(p) \/ handle_error(p)
         \/ internal_announcement_signatures(p) \/ internal_channel_reestablish(p)
         \/ block_connected(p) \/ block_disconnected(p) \/ process_pending_monitor_events(p)
         \/ timer_tick_occurred(p)
         \/ peer_disconnected(p) \/ Persist(p) \/ Restart(p) \/ Started(p)
         \/ \E tx \in node[p].tasks : Publish(p, tx)

Spec == Init /\ [][Next]_vars

-----------------------------------------------------------------------------
(* What the two nodes rely on.                                              *)

States == {"OurInitSent", "InitBoth", "FundingCreated", "FundingSent", "ChannelFunded"}

TypeOK ==
    /\ \A p \in Peers :
         /\ DOMAIN node[p].chans \subseteq opened /\ DOMAIN node[p].mons \subseteq opened
         /\ \A k \in DOMAIN node[p].chans :
              /\ node[p].chans[k].st \in States
              /\ node[p].chans[k].ready # {} => node[p].chans[k].st = "FundingSent"
              /\ node[p].chans[k].conf \in {0, node[p].chans[k].scid}
         /\ node[p].ids \subseteq opened \X (1..left.height)
    /\ mempool \cap InChain(chain) = {}

\* Before the funding transaction can be on its way to the network, both nodes have
\* stored the monitor that can spend it again: neither loses the money put in, at
\* whatever step one of them stops.
FundedIsWatched ==
    \A k \in opened :
      Fund(k) \in mempool \cup InChain(chain) \cup node[A].tasks =>
        \A p \in Peers : k \in DOMAIN node[p].mons

\* A restart never finds a channel in the manager file without its monitor, which
\* ChannelManager::read refuses.
ManagerLoads == \A p \in Peers : node[p].dead # "channel without monitor"

\* A channel that counts as ready has its funding transaction in the chain as this
\* node sees it, at the height its short channel id names; only a channel that was
\* trusted without a confirmation may lack it until the first one.
ReadyIsConfirmed ==
    \A p \in Peers : Alive(p) => \A k \in DOMAIN node[p].chans :
      LET c == node[p].chans[k]
      IN  is_our_channel_ready(c) /\ (c.depth > 0 \/ c.confIn) =>
            /\ c.conf = c.scid /\ c.scid \in DOMAIN node[p].view
            /\ Fund(k) \in node[p].view[c.scid].txs

\* Whatever is announced of a channel, by either node and before or after a
\* reorganisation, names one short channel id.
AnnouncedOnce ==
    \A x, y \in node[A].ann \cup node[B].ann : x[1] = y[1] => x = y

\* Nothing is under way: no message, block, event or task.
AtRest ==
    /\ \A p \in Peers :
         /\ Alive(p) /\ node[p].up /\ node[p].hand = Idle /\ node[p].view = chain
         /\ node[p].mevents = {} /\ node[p].tasks = {} /\ node[p].later = {}
         /\ node[p].events = <<>>
         /\ net[p] = <<>>

\* At rest the two nodes agree on which channels there are and how far they have
\* come: none is left half open by a lost message or connection or by a restart.  One
\* case is left: B gave the channel up before funding_created came, its error names
\* the temporary id, and A, which has the channel under the other id by then, throws
\* it away and waits for a funding_signed.  B never had a monitor for that channel,
\* so its funding transaction is never sent.
EndsAgree ==
    AtRest =>
      /\ DOMAIN node[B].chans \subseteq DOMAIN node[A].chans
      /\ \A k \in DOMAIN node[A].chans \ DOMAIN node[B].chans :
           node[A].chans[k].st = "FundingCreated" /\ k \notin DOMAIN node[B].mons
      /\ \A k \in DOMAIN node[B].chans :
           LET a == node[A].chans[k]
               b == node[B].chans[k]
           IN  /\ is_usable(a) <=> is_usable(b)
               /\ a.scid = b.scid /\ ~a.gone /\ ~b.gone
=============================================================================
