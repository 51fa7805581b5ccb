---------------------------- MODULE ChannelPair ----------------------------
(***************************************************************************)
(* The two ends of one channel, each a ChannelManager around a Channel      *)
(* (rust-lightning, ln/channelmanager.rs), and the connection between them.  *)
(*                                                                         *)
(* A message is delivered in order or, when the connection breaks, not at    *)
(* all: each end notices the break on its own, and goes on with what it had  *)
(* received until then.  A monitor update may be stored only later           *)
(* (TemporaryFailure).  An end may restart from its last stored state.       *)
(***************************************************************************)
EXTENDS Channel

CONSTANTS
    Bad,          \* the HTLCs <<offerer, id>> whose onion the receiver refuses
    MaxHtlcs,     \* bound: HTLCs each end offers, [Peers -> Nat]
    MaxBreaks,    \* bound: how often an end may lose the connection by itself
    MaxRestarts,  \* bound: how often an end restarts
    MaxDelays,    \* bound: how often a monitor update is delayed
    MaxFees,      \* bound: new feerates the funder proposes
    RepeatAfterDelay, \* whether a claim is repeated also after a delayed update
    Closers,      \* the ends whose user may close the channel
    MaxTicks      \* bound: timer ticks of an end that negotiates a close

VARIABLES
    ch,        \* the channel of each end
    net,       \* the messages on their way to each end
    up,        \* whether an end believes to be connected
    handed,    \* the HTLCs an end was given to forward or receive, in order
    decided,   \* what it decided about each of them
    failq,     \* those it will fail at the next process_pending_htlc_forwards
    told,      \* what an end has heard about the HTLCs it offered
    err,       \* the first error a handler of an end returned
    delays,    \* how many monitor updates were delayed
    count      \* how often each other bounded event has happened

vars == <<ch, net, up, handed, decided, failq, told, err, delays, count>>

Init ==
    /\ ch = [p \in Peers |-> Open(p)]
    /\ net = [p \in Peers |-> <<>>]
    /\ up = [p \in Peers |-> TRUE]
    /\ handed = [p \in Peers |-> <<>>]
    /\ decided = [p \in Peers |-> <<>>]
    /\ failq = [p \in Peers |-> {}]
    /\ told = [p \in Peers |-> <<>>]
    /\ err = [p \in Peers |-> "none"]
    /\ count = [breaks |-> 0, restarts |-> 0, fees |-> 0, ticks |-> 0]
    /\ delays = 0

Count(event, max) == count[event] < max /\ count' = [count EXCEPT ![event] = @ + 1]

\* The end p has a channel to work on.
Live(p) == ch[p].closed = "no" /\ err[p] # "panic"

-----------------------------------------------------------------------------
(* What a handler of p leaves behind.                                       *)

\* A CommitmentUpdate goes out with its additions first and its signature last.
UpdateHTLCs(msgs) ==
    LET Of(type) == SelectSeq(msgs, LAMBDA m : m.type = type)
    IN  Of("update_add_htlc") \o Of("update_fulfill_htlc") \o Of("update_fail_htlc")
        \o Of("update_fee") \o Of("commitment_signed")

\* inbox is what is left of p's own; what is sent is lost unless the other end
\* is connected, too.
Send(p, inbox, msgs) ==
    net' = [net EXCEPT ![p] = inbox,
                       ![Other(p)] = IF up[p] /\ up[Other(p)] THEN @ \o msgs ELSE @]

\* The HTLCs p may now act on, and those of its own it must fail back.
HandOver(p, fwd, failed) ==
    /\ handed' = [handed EXCEPT ![p] = @ \o SetToSortSeq(fwd, <)]
    /\ told' = [told EXCEPT ![p] = [i \in failed |-> "failed"] @@ @]

\* Mutant: what waits for the monitor is handed over at once, and again later.
StoreHandsOver(p, inbox, c, msgs, raa, cs, fwd, failed, final) ==
    \E late \in {FALSE} \cup (IF delays < MaxDelays THEN {TRUE} ELSE {}) :
      /\ delays' = delays + (IF late THEN 1 ELSE 0)
      /\ ch' = [ch EXCEPT ![p] =
                  IF late THEN monitor_update_failed(c, raa, cs, fwd, failed, final) ELSE c]
      /\ Send(p, inbox, IF late THEN <<>> ELSE msgs)
      /\ HandOver(p, fwd, failed)

\* chain_monitor.update_channel and handle_monitor_err: the update is stored and
\* the messages go out, or the channel waits for it and remembers them.
Store(p, inbox, c, msgs, raa, cs, fwd, failed, final) ==
    \/ /\ ch' = [ch EXCEPT ![p] = c]
       /\ Send(p, inbox, msgs)
       /\ HandOver(p, fwd, failed)
       /\ UNCHANGED delays
    \/ /\ delays < MaxDelays /\ delays' = delays + 1
       /\ ch' = [ch EXCEPT ![p] = monitor_update_failed(c, raa, cs, fwd, failed, final)]
       /\ Send(p, inbox, <<>>)
       /\ HandOver(p, {}, {})

\* Without an update for the monitor.
Plain(p, inbox, c, msgs) ==
    /\ ch' = [ch EXCEPT ![p] = c]
    /\ Send(p, inbox, msgs)
    /\ UNCHANGED <<handed, told, delays>>

\* ChannelError::Close: the channel is closed on chain and the other end told so.
\* A warning is sent and the channel left alone; a panic ends the process.
Fail(p, inbox, c, e) ==
    /\ err' = [err EXCEPT ![p] = IF @ = "none" THEN e ELSE @]
    /\ Plain(p, inbox, IF e = "close" THEN force_shutdown(c) ELSE c,
             IF e = "close" THEN <<[type |-> "error"]>> ELSE <<>>)

\* The updates of ours in r, signed.
Commit(r) ==
    IF r.msg = <<>> THEN r
    ELSE Sign(r.c, r.msg) @@ [new |-> r.new]

\* An update of ours: new has the monitor to be told.
Ours(p, r) ==
    IF r.new THEN Store(p, net[p], r.c, UpdateHTLCs(r.msg), FALSE, r.msg # <<>>, {}, {}, {})
             ELSE Plain(p, net[p], r.c, <<>>)

-----------------------------------------------------------------------------
(* The user, the timers and the other channels of an end.                   *)

\* A payment, or an HTLC forwarded from another channel (send_htlc_and_commit).
send_payment(p) ==
    /\ Live(p)
    /\ ch[p].nextOut + HeldAdds(ch[p]) <= MaxHtlcs[p]
    /\ Ours(p, Commit(send_htlc(ch[p])))
    /\ UNCHANGED <<up, decided, failq, err, count>>

\* Mutant: an HTLC that is about to be failed can be claimed.
claim_funds_of_failed(p, i) ==
    /\ Live(p)
    /\ i \in ToSet(handed[p])
    /\ i \in DOMAIN decided[p] => RepeatAfterDelay \/ delays = 0
    /\ decided' = [decided EXCEPT ![p] = (i :> "claim") @@ @]
    /\ Ours(p, Commit(get_update_fulfill_htlc(ch[p], i)))
    /\ UNCHANGED <<up, failq, err, count>>

\* The HTLC is ours or its preimage is known: claimed, also more than once.
claim_funds_from_hop(p, i) ==
    /\ Live(p)
    /\ i \in ToSet(handed[p])
    /\ i \in DOMAIN decided[p] =>
         decided[p][i] = "claim" /\ (RepeatAfterDelay \/ delays = 0)
    /\ decided' = [decided EXCEPT ![p] = (i :> "claim") @@ @]
    /\ Ours(p, Commit(get_update_fulfill_htlc(ch[p], i)))
    /\ UNCHANGED <<up, failq, err, count>>

\* Mutant: the HTLC is queued for failing, and stays claimable.
fail_htlc_not_decided(p, i) ==
    /\ Live(p)
    /\ i \in ToSet(handed[p]) \ DOMAIN decided[p]
    /\ failq' = [failq EXCEPT ![p] = @ \cup {i}]
    /\ UNCHANGED <<ch, net, up, handed, decided, told, err, delays, count>>

\* It cannot be forwarded, or was failed further on; it waits to be processed.
fail_htlc_backwards_internal(p, i) ==
    /\ Live(p)
    /\ i \in ToSet(handed[p]) \ DOMAIN decided[p]
    /\ decided' = [decided EXCEPT ![p] = (i :> "fail") @@ @]
    /\ failq' = [failq EXCEPT ![p] = @ \cup {i}]
    /\ UNCHANGED <<ch, net, up, handed, told, err, delays, count>>

FailOne(r, i) ==
    LET With(one) == [c |-> one.c, msg |-> r.msg \o one.msg, new |-> r.new \/ one.new]
    IN  With(get_update_fail_htlc(r.c, i))

\* All of them at once, under one signature.
process_pending_htlc_forwards(p) ==
    /\ Live(p)
    /\ failq[p] # {}
    /\ failq' = [failq EXCEPT ![p] = {}]
    /\ Ours(p, Commit(FoldLeft(FailOne, Quiet(ch[p]), SetToSortSeq(failq[p], <))))
    /\ UNCHANGED <<up, decided, err, count>>

\* The feerate estimate moved; only a channel in use is updated.
update_channel_fee(p) ==
    /\ Live(p)
    /\ p = Funder
    /\ ~ch[p].gone /\ ~ch[p].localShutdown /\ ~ch[p].remoteShutdown
    /\ Count("fees", MaxFees)
    /\ \E afford \in BOOLEAN :
         Ours(p, Commit(send_update_fee(ch[p], count.fees + 2, afford)))
    /\ UNCHANGED <<up, decided, failq, err>>

\* What was kept back while a monitor update was due goes out.
check_free_holding_cells(p) ==
    /\ Live(p)
    /\ ~Paused(ch[p])
    /\ ch[p].hold # <<>> \/ ch[p].holdFee # 0
    /\ \E r \in {free_holding_cell_htlcs(ch[p], afford) : afford \in BOOLEAN} :
         IF r.panic THEN Fail(p, net[p], r.c, "panic")
         ELSE /\ Ours(p, [c |-> r.c, msg |-> r.msg, new |-> r.msg # <<>>])
              /\ UNCHANGED err
    /\ UNCHANGED <<up, decided, failq, count>>

\* The delayed update of p's monitor is stored.
channel_monitor_updated(p) ==
    /\ Live(p)
    /\ ch[p].frozen
    /\ \E r \in {monitor_updating_restored(ch[p])} :
           /\ ch' = [ch EXCEPT ![p] = r.c]
           /\ Send(p, net[p], r.msg)
           /\ HandOver(p, ch[p].pendFwd, ch[p].pendFail)
    /\ UNCHANGED <<up, decided, failq, err, delays, count>>

\* The user closes the channel.
close_channel(p) ==
    /\ Live(p)
    /\ p \in Closers
    /\ get_shutdown(ch[p]).msg # <<>>
    /\ ch' = [ch EXCEPT ![p] = get_shutdown(ch[p]).c]
    /\ Send(p, net[p], get_shutdown(ch[p]).msg)
    /\ UNCHANGED <<up, handed, decided, failq, told, err, delays, count>>

\* With every look for messages to send.
maybe_generate_initial_closing_signed(p) ==
    /\ Live(p)
    /\ \E r \in {maybe_propose_closing_signed(ch[p])} :
           /\ r.c # ch[p]
           /\ IF r.err # "none" THEN Fail(p, net[p], r.c, r.err)
              ELSE Plain(p, net[p], r.c, r.msg) /\ UNCHANGED err
    /\ UNCHANGED <<up, decided, failq, count>>

\* The part of timer_tick_occurred that looks after a close.
timer_tick_occurred(p) ==
    /\ Live(p)
    /\ closing_negotiation_ready(ch[p])
    /\ Count("ticks", MaxTicks)
    /\ \E r \in {timer_check_closing_negotiation_progress(ch[p])} :
           IF r.err = "none"
           THEN ch' = [ch EXCEPT ![p] = r.c] /\ UNCHANGED net
           ELSE /\ ch' = [ch EXCEPT ![p] = force_shutdown(r.c)]
                /\ Send(p, net[p], <<[type |-> "error"]>>)
    /\ UNCHANGED <<up, handed, decided, failq, told, err, delays>>

-----------------------------------------------------------------------------
(* The messages of the other end.                                           *)

Gets(p, type) == Live(p) /\ net[p] # <<>> /\ Head(net[p]).type = type

\* An update is noted, and takes effect with the commitment_signed after it.
Theirs(p, r) ==
    /\ IF r.err = "none" THEN Plain(p, Tail(net[p]), r.c, <<>>) /\ UNCHANGED err
                         ELSE Fail(p, Tail(net[p]), r.c, r.err)
    /\ UNCHANGED <<up, decided, failq, count>>

internal_update_add_htlc(p) ==
    /\ Gets(p, "update_add_htlc")
    /\ LET m == Head(net[p])
       IN  Theirs(p, update_add_htlc(ch[p], m, IF <<Other(p), m.id>> \in Bad THEN "bad" ELSE "ok"))

\* The preimage is passed on at once: nothing can take it back.
internal_update_fulfill_htlc(p) ==
    /\ Gets(p, "update_fulfill_htlc")
    /\ \E m \in {Head(net[p])} : \E r \in {update_fulfill_htlc(ch[p], m)} :
           IF r.err # "none" THEN Fail(p, Tail(net[p]), r.c, r.err)
           ELSE /\ ch' = [ch EXCEPT ![p] = r.c]
                /\ Send(p, Tail(net[p]), <<>>)
                /\ told' = [told EXCEPT ![p] = (m.id :> "claimed") @@ @]
                /\ UNCHANGED <<handed, delays, err>>
    /\ UNCHANGED <<up, decided, failq, count>>

internal_update_fail_htlc(p) ==
    /\ Gets(p, "update_fail_htlc")
    /\ Theirs(p, update_fail_htlc(ch[p], Head(net[p])))

internal_update_fee(p) ==
    /\ Gets(p, "update_fee")
    /\ Theirs(p, update_fee(ch[p], Head(net[p])))

internal_commitment_signed(p) ==
    /\ Gets(p, "commitment_signed")
    /\ \E r \in {commitment_signed(ch[p], Head(net[p]))} :
           IF r.err # "none" THEN Fail(p, Tail(net[p]), r.c, r.err)
           ELSE /\ IF ch[p].frozen THEN Plain(p, Tail(net[p]), r.c, <<>>)
                   ELSE Store(p, Tail(net[p]), r.c, r.raa \o r.cs, TRUE, r.cs # <<>>, {}, {}, {})
                /\ UNCHANGED err
    /\ UNCHANGED <<up, decided, failq, count>>

internal_revoke_and_ack(p) ==
    /\ Gets(p, "revoke_and_ack")
    /\ \E r \in {revoke_and_ack(ch[p], Head(net[p]), afford) : afford \in BOOLEAN} :
           IF r.err # "none" THEN Fail(p, Tail(net[p]), r.c, r.err)
           ELSE /\ IF ch[p].frozen THEN Plain(p, Tail(net[p]), r.c, <<>>)
                   ELSE Store(p, Tail(net[p]), r.c, UpdateHTLCs(r.msg), FALSE,
                              r.msg # <<>>, r.fwd, r.failed, r.final)
                /\ UNCHANGED err
    /\ UNCHANGED <<up, decided, failq, count>>

\* A shutdown that was sent before is repeated first, then what was missed.
internal_channel_reestablish(p) ==
    /\ Gets(p, "channel_reestablish")
    /\ \E r \in {channel_reestablish(ch[p], Head(net[p]), afford) : afford \in BOOLEAN} :
       \E again \in {IF ch[p].localShutdown THEN <<[type |-> "shutdown"]>> ELSE <<>>} :
           IF r.err # "none" THEN Fail(p, Tail(net[p]), r.c, r.err)
           ELSE /\ \/ r.new /\ delays < MaxDelays /\ delays' = delays + 1
                      /\ ch' = [ch EXCEPT ![p] =
                            monitor_update_failed(r.c, r.raa # <<>>, TRUE, {}, {}, {})]
                      /\ Send(p, Tail(net[p]), again)
                      /\ UNCHANGED <<handed, told>>
                   \/ Plain(p, Tail(net[p]), r.c,
                            again \o InOrder(r.c.order, r.raa, UpdateHTLCs(r.cs)))
                /\ UNCHANGED err
    /\ UNCHANGED <<up, decided, failq, count>>

internal_shutdown(p) ==
    /\ Gets(p, "shutdown")
    /\ \E r \in {shutdown(ch[p], Head(net[p]))} :
           IF r.err # "none" THEN Fail(p, Tail(net[p]), r.c, r.err)
           ELSE Plain(p, Tail(net[p]), r.c, r.msg) /\ UNCHANGED err
    /\ UNCHANGED <<up, decided, failq, count>>

internal_closing_signed(p) ==
    /\ Gets(p, "closing_signed")
    /\ \E r \in {closing_signed(ch[p], Head(net[p]))} :
           IF r.err # "none" THEN Fail(p, Tail(net[p]), r.c, r.err)
           ELSE Plain(p, Tail(net[p]), r.c, r.msg) /\ UNCHANGED err
    /\ UNCHANGED <<up, decided, failq, count>>

\* The other end closed the channel: so do we.
handle_error(p) ==
    /\ Gets(p, "error")
    /\ Plain(p, Tail(net[p]), force_shutdown(ch[p]), <<>>)
    /\ UNCHANGED <<up, decided, failq, err, count>>

\* A message for a channel that is gone is answered with an error.
NoSuchChannel(p) ==
    /\ ch[p].closed # "no" /\ net[p] # <<>>
    /\ Plain(p, Tail(net[p]), ch[p],
             IF Head(net[p]).type = "error" THEN <<>> ELSE <<[type |-> "error"]>>)
    /\ UNCHANGED <<up, decided, failq, err, count>>

Receive(p) ==
    \/ internal_update_add_htlc(p) \/ internal_update_fulfill_htlc(p)
    \/ internal_update_fail_htlc(p) \/ internal_update_fee(p)
    \/ internal_commitment_signed(p) \/ internal_revoke_and_ack(p)
    \/ internal_channel_reestablish(p)
    \/ internal_shutdown(p) \/ internal_closing_signed(p)
    \/ handle_error(p) \/ NoSuchChannel(p)

-----------------------------------------------------------------------------
(* The connection.                                                          *)

\* The end p finds the connection broken; after the first of the two, the
\* other will, too.
peer_disconnected(p) ==
    /\ up[p]
    /\ IF up[Other(p)] THEN Count("breaks", MaxBreaks) ELSE UNCHANGED count
    /\ up' = [up EXCEPT ![p] = FALSE]
    /\ net' = [net EXCEPT ![p] = <<>>]
    /\ ch' = IF Live(p) THEN [ch EXCEPT ![p] = remove_uncommitted_htlcs_and_mark_paused(@)]
             ELSE ch
    /\ UNCHANGED <<handed, decided, failq, told, err, delays>>

\* The process stops and starts again from the manager it had stored.
Restart(p) ==
    /\ Live(p)
    /\ Count("restarts", MaxRestarts)
    /\ up' = [up EXCEPT ![p] = FALSE]
    /\ net' = [net EXCEPT ![p] = <<>>]
    /\ ch' = [ch EXCEPT ![p] = read(write(@))]
    /\ UNCHANGED <<handed, decided, failq, told, err, delays>>

peer_connected ==
    /\ \A p \in Peers : ~up[p]
    /\ up' = [p \in Peers |-> TRUE]
    /\ net' = [p \in Peers |-> IF Live(Other(p))
                               THEN <<get_channel_reestablish(ch[Other(p)])>> ELSE <<>>]
    /\ UNCHANGED <<ch, handed, decided, failq, told, err, delays, count>>

Next ==
    \/ \E p \in Peers :
         \/ send_payment(p)
         \/ \E i \in ToSet(handed[p]) :
              claim_funds_from_hop(p, i) \/ fail_htlc_backwards_internal(p, i)
         \/ process_pending_htlc_forwards(p)
         \/ update_channel_fee(p)
         \/ check_free_holding_cells(p)
         \/ channel_monitor_updated(p)
         \/ close_channel(p)
         \/ maybe_generate_initial_closing_signed(p)
         \/ timer_tick_occurred(p)
         \/ Receive(p)
         \/ peer_disconnected(p)
         \/ Restart(p)
    \/ peer_connected

Spec == Init /\ [][Next]_vars

-----------------------------------------------------------------------------
(* What the two ends rely on.                                               *)

Offered(p) == 1 .. ch[p].nextOut - 1
ToldOf(p, i) == IF i \in DOMAIN told[p] THEN told[p][i] ELSE "none"

TypeOK ==
    /\ \A p \in Peers :
         /\ ch[p].me = p /\ ch[p].own \in 0 .. Total
         /\ ToSet(handed[p]) \subseteq Offered(Other(p))
         /\ DOMAIN told[p] \subseteq Offered(p)
         /\ DOMAIN decided[p] \subseteq ToSet(handed[p])
         /\ failq[p] \subseteq DOMAIN decided[p]
    /\ up \in [Peers -> BOOLEAN]
    /\ err \in [Peers -> {"none", "close", "warn", "panic"}]

\* Two ends that follow the code never break the channel between them: no
\* handler of channel.rs returns an error or panics, whatever was lost, resent,
\* delayed or held back.  Above all, every commitment_signed is for the
\* transaction that the receiver builds itself.
NoClose == err = [p \in Peers |-> "none"]

\* The transactions of the other end that p has signed and that are not revoked
\* include the one the other end would publish, and every one on its way to
\* it: p's monitor knows what it may see on chain.
TheirTxIsWatched ==
    \A p \in Peers :
      /\ ch[Other(p)].holder \in ToSet(ch[p].theirs)
      /\ \A m \in ToSet(net[Other(p)]) :
           m.type = "commitment_signed" => m.tx \in ToSet(ch[p].theirs)

\* The HTLCs of p with the outcome v.
Outcome(f, p, v) == {i \in DOMAIN f[p] : f[p][i] = v}

\* Whatever leaves the channel is settled in every transaction that can still be
\* published, ours and each the other end may sign off. An HTLC handed over by
\* revoke_and_ack (or by monitor_updating_restored) is in all of them until it is
\* decided: what is paid for it downstream can be claimed upstream. An HTLC of ours
\* that was failed back is in none: it cannot be claimed after its sender was told.
OutcomesCommitted ==
    \A p \in Peers : \A tx \in {ch[p].holder} \cup ToSet(ch[p].theirs) :
      /\ \A i \in ToSet(handed[p]) \ DOMAIN decided[p] : <<Other(p), i>> \in tx.htlcs
      /\ \A i \in Outcome(told, p, "failed") : <<p, i>> \notin tx.htlcs

\* Nothing is pending on the channel and nothing is on its way.
Settled ==
    /\ \A p \in Peers : Live(p) /\ up[p] /\ net[p] = <<>> /\ ~Paused(ch[p])
    /\ \A p \in Peers : DOMAIN ch[p].inb = {} /\ DOMAIN ch[p].out = {}

\* Once settled, both ends book the same: an end has gained the HTLCs it
\* claimed and paid those it was told were claimed, and both use one feerate.
BooksAgree ==
    Settled =>
      \A p \in Peers :
        /\ ch[p].own = Balance[p]
             + Cardinality({i \in DOMAIN decided[p] : decided[p][i] = "claim"})
             - Cardinality({i \in DOMAIN told[p] : told[p][i] = "claimed"})
        /\ ch[p].own + ch[Other(p)].own = Total
        /\ ch[p].fee = ch[Other(p)].fee

\* No HTLC is handed to the manager twice, so none is forwarded or credited
\* twice: not by a repeated revoke_and_ack, not by a reconnect or a restart.
HandedOnce == \A p \in Peers : IsInjective(handed[p])

Fundee == Other(Funder)

FunderLedger == INSTANCE HtlcLedger WITH
    offered     <- Offered(Funder),
    handed      <- ToSet(handed[Fundee]),
    claimed     <- Outcome(decided, Fundee, "claim"),
    failed      <- Outcome(decided, Fundee, "fail"),
    toldClaimed <- Outcome(told, Funder, "claimed"),
    toldFailed  <- Outcome(told, Funder, "failed")

FundeeLedger == INSTANCE HtlcLedger WITH
    offered     <- Offered(Fundee),
    handed      <- ToSet(handed[Funder]),
    claimed     <- Outcome(decided, Funder, "claim"),
    failed      <- Outcome(decided, Funder, "fail"),
    toldClaimed <- Outcome(told, Fundee, "claimed"),
    toldFailed  <- Outcome(told, Fundee, "failed")

\* The channel implements HtlcLedger in both directions: no break, restart or delay
\* makes an end hear of an outcome that the other has not decided on, or lets an HTLC
\* through that was failed back.
LedgerKept == FunderLedger!Spec /\ FundeeLedger!Spec

\* No message is under way, no timer and no decision is due.
NothingToDo ==
    \A p \in Peers :
      /\ up[p] /\ net[p] = <<>> /\ ~ch[p].frozen
      /\ failq[p] = {} /\ ToSet(handed[p]) \subseteq DOMAIN decided[p]
      /\ ~Paused(ch[p]) => ch[p].hold = <<>> /\ ch[p].holdFee = 0
      /\ maybe_propose_closing_signed(ch[p]).msg = <<>>

\* The two ends never wait for one another: when no message is under way and nothing
\* is due, no update stays in a holding cell, no HTLC is half removed, and no
\* revoke_and_ack or signature is owed.
NeverStuck ==
    NothingToDo /\ (\A p \in Peers : Live(p))
      => Settled /\ \A p \in Peers : ch[p].hold = <<>> /\ ch[p].pfee.st = "none"

\* Two ends that close together publish one transaction: its fee is in the range of
\* both, and it pays each end what the decided HTLCs leave it, with none cut off. The fee
\* is only negotiated once neither end has an HTLC left, as the comment on
\* closing_negotiation_ready has it ("all HTLCs have been drained").
CloseAgreed ==
    \A p \in Peers :
      /\ Live(p) /\ ch[p].closingFee # 0 /\ Live(Other(p)) =>
           DOMAIN ch[Other(p)].inb = {} /\ DOMAIN ch[Other(p)].out = {}
      /\ ch[p].closed = "coop" =>
           /\ ch[p].closingFee \in FeeFloor[Funder] .. FeeCeil[Funder]
           /\ ch[p].closingFee >= FeeFloor[Fundee]
           /\ ch[Other(p)].closed = "coop" => ch[p].closingFee = ch[Other(p)].closingFee
           /\ ch[p].own = Balance[p] + Cardinality(Outcome(decided, p, "claim"))
                                    - Cardinality(Outcome(told, p, "claimed"))
           /\ Offered(p) \subseteq DOMAIN told[p]

\* A close that was asked for comes to its end on both sides, and goes on chain
\* by force only if the connection was lost or two timer ticks passed meanwhile.
CloseEnds ==
    /\ NothingToDo /\ (\E p \in Peers : ch[p].localShutdown) => \A p \in Peers : ~Live(p)
    /\ (\E p \in Peers : ch[p].closed = "forced") => count.breaks + count.restarts > 0 \/ count.ticks > 1
=============================================================================
