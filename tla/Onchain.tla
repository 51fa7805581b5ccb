------------------------------ MODULE Onchain ------------------------------
(***************************************************************************)
(* One channel after it goes on chain: the ChannelMonitor of our node      *)
(* (lightning/src/chain/channelmonitor.rs), the OnchainTxHandler it claims *)
(* outputs with (onchaintx.rs, package.rs), the counterparty, and a chain  *)
(* that can be reorganised.                                                *)
(*                                                                         *)
(* The channel is closed by our latest commitment transaction ("holder")   *)
(* or by one of the counterparty's unrevoked ones ("cur", "prev").  Blocks *)
(* are connected and disconnected one at a time, as chain::Listen reports  *)
(* them, and every callback runs under the monitor's lock, so one callback *)
(* is one step.  Between two blocks a preimage can arrive, and the channel *)
(* manager can collect what the monitor has to tell it.                    *)
(*                                                                         *)
(* An output is a pair of the transaction it belongs to and the HTLC it    *)
(* carries.  Amounts, fees and scripts are left out: a bumped claim of the *)
(* same outputs is the same transaction here, so height timers are left    *)
(* out as well.  A transaction once broadcast may be mined whenever it is  *)
(* valid: some miner may hold it, whatever our own mempool dropped.        *)
(***************************************************************************)
EXTENDS Integers, Sequences, FiniteSets, Functions, SequencesExt

CONSTANTS HtlcSeq,      \* the HTLCs of the channel, in the order of their outputs
          Outbound,     \* the ones we offered; each has a source to resolve
          Deals,        \* what the channel's commitments hold, and the fault budget
          ANTI_REORG_DELAY, LATENCY_GRACE_PERIOD_BLOCKS, CLTV_CLAIM_BUFFER,
          CLTV_SHARED_CLAIM_BUFFER,
          HolderCsv,    \* on_holder_tx_csv
          MaxHeight,    \* bound on the length of the chain
          MaxTxs        \* bound on the channel's transactions in one block

ASSUME DelayAssumption == ANTI_REORG_DELAY \in Nat \ {0} /\ {HolderCsv, MaxTxs} \subseteq Nat

VARIABLES deal,         \* the member of Deals this behaviour is about
          chain,        \* the blocks since the commitments were last updated
          top,          \* the greatest height the chain has had
          mon,          \* the monitor and its OnchainTxHandler
          told,         \* what the channel manager has collected
          left          \* how many blocks may still be disconnected

vars == <<deal, chain, top, mon, told, left>>

Htlcs == Range(HtlcSeq)
Theirs == {"cur", "prev"}
Sides == {"holder"} \cup Theirs

\* HTLCs have names of their own; only the counterparty's commitments can be
\* revoked, and only inbound HTLCs have preimages we learn.
ASSUME DealsAssumption ==
  /\ Outbound \subseteq Htlcs /\ "funding" \notin Htlcs
  /\ \A d \in Deals : d.unrevoked \subseteq Theirs /\ d.preimages \cup d.late \subseteq Htlcs \ Outbound

\* The funding output, and the output of HTLC h in commitment c.
Funding == <<"funding", "funding">>
Commit(c) == [as |-> c, spends |-> <<Funding>>]

\* A claim of outputs, by us or by the counterparty.  One party can spend an
\* HTLC output only with the preimage, the other only by timeout.
Claim(who, outs) == [as |-> who, spends |-> outs]

-----------------------------------------------------------------------------
(* The chain.                                                              *)

Height == Len(chain)

\* The transactions of a chain, each with its height.
Confirmed(blocks) ==
  UNION {{<<i, blocks[i][j]>> : j \in DOMAIN blocks[i]} : i \in DOMAIN blocks}

Spends(tx, out) == out \in Range(tx.spends)

SpentIn(blocks, out) == \E e \in Confirmed(blocks) : Spends(e[2], out)

\* May tx be in the block at height `at` after the transactions `before`?
\* A locktime lets a transaction in above the height it names.
Valid(tx, before, at) ==
  /\ \A out \in Range(tx.spends) : \A t \in before : ~Spends(t, out)
  /\ \A out \in Range(tx.spends) \ {Funding} :
       /\ \E t \in before : t = Commit(out[1])
       /\ (out[2] \in Outbound) = (tx.as = "ours") => at > deal.expiry[out[2]]

\* What the counterparty may broadcast: a commitment of theirs that is not
\* revoked, and a claim of one output.  Their HTLC transactions have one input.
TheirTxs ==
  {Commit(c) : c \in deal.unrevoked}
    \cup {Claim("theirs", <<<<c, h>>>>) : c \in {"holder"} \cup deal.unrevoked, h \in Htlcs}

\* The outputs exist only where the commitment has one for the HTLC.
Exists(tx) == Range(tx.spends) \subseteq {Funding} \cup UNION {{c} \X deal.outputs[c] : c \in Sides}

\* The blocks that can come next: sequences of valid transactions.
Blocks ==
  LET txs == {tx \in mon.sent \cup TheirTxs : Exists(tx)}
      old == {e[2] : e \in Confirmed(chain)}
  IN {b \in UNION {[1..n -> txs] : n \in 0..MaxTxs} :
        \A i \in DOMAIN b :
          Valid(b[i], old \cup {b[j] : j \in 1..i-1}, Height + 1)}

-----------------------------------------------------------------------------
(* OnchainTxHandler: the claims and what becomes of them.                  *)

\* The outputs of a commitment that we can claim, in their order: an outbound
\* HTLC by timeout, an inbound one with its preimage.
Claimable(m, c) ==
  SelectSeq([i \in DOMAIN HtlcSeq |-> <<c, HtlcSeq[i]>>],
            LAMBDA out : /\ out[2] \in deal.outputs[c]
                         /\ out[2] \in Outbound \cup m.preimages)

get_counterparty_htlc_output_claim_reqs(m, c) == Claimable(m, c)
get_broadcasted_holder_claims(m) == Claimable(m, "holder")

\* package_timelock: the height below which a claim cannot be confirmed.
package_timelock(out) ==
  IF out # Funding /\ out[2] \in Outbound THEN deal.expiry[out[2]] ELSE 0

\* Claims of our own commitment's outputs are signed in advance and take one
\* input; only preimage claims on their commitment share a transaction.
Untractable(out) == out[1] \notin Theirs
Aggregable(out) == ~Untractable(out) /\ out[2] \notin Outbound

ClaimTx(outs) == IF outs = <<Funding>> THEN Commit("holder") ELSE Claim("ours", outs)

\* The packages to claim now: one each for those that may not share, one for all the others.
Packages(outs, cur) ==
  LET Shared(out) == Aggregable(out) /\ deal.expiry[out[2]] > cur + CLTV_SHARED_CLAIM_BUFFER
      shared == SelectSeq(outs, Shared)
  IN {<<out>> : out \in {o \in Range(outs) : ~Shared(o)}}
       \cup (IF shared = <<>> THEN {} ELSE {shared})

\* generate_claim_tx and its registration, for a set of packages.
Register(m, packages, conf) ==
  [m EXCEPT
     !.outpoints = [out \in UNION {Range(p) : p \in packages} |->
                      [req |-> CHOOSE p \in packages : out \in Range(p), conf |-> conf]] @@ @,
     !.requests = [p \in packages |-> p] @@ @,
     !.sent = @ \cup {ClaimTx(p) : p \in packages}]

\* The first half of update_claims_view: take new requests in, unless they are
\* known, and the delayed ones whose time has come.
take_requests(m, reqs, conf, cur) ==
  LET fresh == SelectSeq(reqs, LAMBDA out : out \notin DOMAIN m.outpoints \cup m.locktimed)
      late == {out \in Range(fresh) : package_timelock(out) > cur + 1}
      due == {out \in m.locktimed : package_timelock(out) <= cur + 1}
      Now(out) == out \notin late
  IN Register([m EXCEPT !.locktimed = (@ \cup late) \ due],
              Packages(SelectSeq(fresh, Now), cur) \cup {<<out>> : out \in due}, conf)

\* What a request keeps when a transaction spends some of its outputs.
split_package(outs, tx) == SelectSeq(outs, LAMBDA out : ~Spends(tx, out))

\* A confirmed transaction spends outputs of the request r.
spend_request(m, r, tx, conf) ==
  LET lost == {out \in Range(m.requests[r]) : Spends(tx, out)}
      rest == split_package(m.requests[r], tx)
      done == {[kind |-> "Claim", height |-> conf, req |-> r]}
  IN IF m.requests[r] = tx.spends
       THEN [m EXCEPT !.claims = @ \cup done]
     ELSE IF \E out \in lost : Untractable(out) THEN m
     ELSE [m EXCEPT
             !.requests[r] = rest,
             !.sent = @ \cup (IF rest = <<>> THEN {} ELSE {ClaimTx(rest)}),
             !.claims = @ \cup (IF rest = <<>> THEN done ELSE {})
                          \cup {[kind |-> "ContentiousOutpoint", height |-> conf, out |-> out]
                                  : out \in lost}]

\* A confirmed transaction, as the second half of update_claims_view sees it:
\* the first input with a claim on it decides which request it meets.
claims_tx_confirmed(m, tx, conf) ==
  LET known == SelectSeq(tx.spends, LAMBDA out : out \in DOMAIN m.outpoints)
      Meets(r) == IF r \in DOMAIN m.requests THEN spend_request(m, r, tx, conf)
                                             ELSE [m EXCEPT !.panicked = TRUE]
  IN IF known = <<>> THEN m ELSE Meets(m.outpoints[known[1]].req)

\* (Mutant: a finished request leaves its outputs behind.)
OutputsLeftBehind(m, cur) ==
  LET ripe == {e \in m.claims : cur >= e.height + ANTI_REORG_DELAY - 1}
  IN [m EXCEPT !.claims = @ \ ripe,
               !.requests = Restrict(@, DOMAIN @ \ {e.req : e \in {f \in ripe : f.kind = "Claim"}})]

\* The events that have enough confirmations end the tracking of their outputs.
claims_mature(m, cur) ==
  LET ripe == {e \in m.claims : cur >= e.height + ANTI_REORG_DELAY - 1}
      over == {e.req : e \in {f \in ripe : f.kind = "Claim"}} \cap DOMAIN m.requests
      gone == UNION {Range(m.requests[r]) : r \in over}
                \cup {e.out : e \in {f \in ripe : f.kind = "ContentiousOutpoint"}}
  IN [m EXCEPT !.claims = @ \ ripe,
               !.requests = Restrict(@, DOMAIN @ \ over),
               !.outpoints = Restrict(@, DOMAIN @ \ gone)]

\* The transactions of a block, one after the other.
spend_requests(m, txs, conf) ==
  LET after[i \in 0 .. Len(txs)] == IF i = 0 THEN m ELSE claims_tx_confirmed(after[i - 1], txs[i], conf)
  IN after[Len(txs)]

update_claims_view(m, txs, reqs, conf, cur) ==
  claims_mature(spend_requests(take_requests(m, reqs, conf, cur), txs, conf), cur)

\* Lost outputs come back to their requests, and each of these is broadcast anew.
merge_package(m, back) ==
  LET Of(r) == {out \in back \cap DOMAIN m.outpoints : m.outpoints[out].req = r}
      met == {r \in DOMAIN m.requests : Of(r) # {}}
      merged == [r \in DOMAIN m.requests |-> m.requests[r] \o SetToSeq(Of(r))]
  IN [m EXCEPT !.requests = merged,
               !.sent = @ \cup {ClaimTx(merged[r]) : r \in met},
               !.panicked = @ \/ \E r \in met : m.requests[r] = <<>>]

\* (Mutant: claims registered in the block before are forgotten as well.)
OneBlockTooMany(m, height) ==
  LET gone == {out \in DOMAIN m.outpoints : m.outpoints[out].conf >= height - 1}
  IN [m EXCEPT !.claims = {e \in @ : e.height < height},
               !.requests = Restrict(@, DOMAIN @ \ {m.outpoints[o].req : o \in gone}),
               !.outpoints = Restrict(@, DOMAIN @ \ gone)]

\* OnchainTxHandler::block_disconnected: forget what the block said of claims,
\* and every claim that was registered at its height or later.
claims_disconnected(m, height) ==
  LET undone == {e \in m.claims : e.height >= height}
      back == {e.out : e \in {f \in undone : f.kind = "ContentiousOutpoint"}}
      Drop(n) == LET gone == {out \in DOMAIN n.outpoints : n.outpoints[out].conf >= height}
                 IN [n EXCEPT !.requests = Restrict(@, DOMAIN @ \ {n.outpoints[o].req : o \in gone}),
                              !.outpoints = Restrict(@, DOMAIN @ \ gone)]
  IN Drop(merge_package([m EXCEPT !.claims = @ \ undone], back))

-----------------------------------------------------------------------------
(* ChannelMonitor.                                                         *)

\* The output of a transaction that waits for on_holder_tx_csv: our part of our
\* own commitment, and what a claim of its outputs pays.
Delayed(tx) == tx.as = "holder" \/ (tx.as = "ours" /\ tx.spends[1][1] = "holder")

Entry(kind, height, tx, h) == [kind |-> kind, height |-> height, tx |-> tx, h |-> h]

\* (Mutant: one confirmation too few.)
OneTooFew(e) == e.height + ANTI_REORG_DELAY - 2

confirmation_threshold(e) ==
  e.height - 1 + (IF e.kind # "HTLCUpdate" /\ Delayed(e.tx) /\ HolderCsv > ANTI_REORG_DELAY
                    THEN HolderCsv ELSE ANTI_REORG_DELAY)

\* (Mutant: only the HTLCs of our own commitment are looked at.)
OwnHtlcsOnly(m, c, height) ==
  [m EXCEPT !.awaiting = @ \cup {Entry("HTLCUpdate", height, Commit(c), h)
                                   : h \in (Outbound \cap deal.listed["holder"]) \ deal.outputs[c]}]

\* HTLCs of an unrevoked commitment of theirs that the confirmed one has no
\* output for will fail; a failure noted at the same height is replaced.
fail_unbroadcast_htlcs(m, c, height) ==
  LET lost == {h \in Outbound \ deal.outputs[c] : \E d \in deal.unrevoked : h \in deal.listed[d]}
      Replaced(e) == e.kind = "HTLCUpdate" /\ e.height = height /\ e.h \in lost
  IN [m EXCEPT !.awaiting = {e \in @ : ~Replaced(e)}
                              \cup {Entry("HTLCUpdate", height, Commit(c), h) : h \in lost}]

\* A commitment of theirs, or ours, is confirmed: counterparty_commitment_txn_on_chain
\* or broadcasted_holder_revokable_script remembers it, for good.
check_spend_counterparty_transaction(m, c, height) ==
  fail_unbroadcast_htlcs([m EXCEPT !.on_chain = @ \cup {c}], c, height)

check_spend_holder_transaction(m, height) ==
  fail_unbroadcast_htlcs([m EXCEPT !.on_chain = @ \cup {"holder"}], "holder", height)

\* A transaction that spends the funding output.
funding_spent(m, tx, height) ==
  LET Noted(n) == [n EXCEPT !.awaiting = @ \cup {Entry("FundingSpendConfirmation", height, tx, "none")}]
  IN Noted(IF tx.as \in Theirs THEN check_spend_counterparty_transaction(m, tx.as, height)
                               ELSE check_spend_holder_transaction(m, height))

\* is_resolving_htlc_output: a preimage is passed on at once, unless something
\* about the HTLC waits to be collected; a timeout waits for confirmations.
is_resolving_htlc_output(m, tx, height) ==
  LET hs == {out[2] : out \in Range(tx.spends) \ {Funding}}
      claimed == {h \in hs \cap Outbound : tx.as = "theirs" /\ ~\E e \in m.events : e[1] = h}
      timedOut == {h \in hs \cap Outbound : tx.as = "ours"}
      Replaced(e) == e.kind = "HTLCUpdate" /\ e.height = height /\ e.h \in timedOut
  IN [m EXCEPT
        !.awaiting = {e \in @ : ~Replaced(e)}
                       \cup {Entry("HTLCUpdate", height, tx, h) : h \in timedOut}
                       \cup {Entry("HTLCSpendConfirmation", height, tx, h)
                               : h \in claimed \cup (hs \ Outbound)},
        !.events = @ \cup {<<h, "claim">> : h \in claimed}]

\* is_paying_spendable_output: every commitment and every claim of ours pays us.
is_paying_spendable_output(m, tx, height) ==
  [m EXCEPT !.awaiting = @ \cup (IF tx.as = "theirs" THEN {}
                                 ELSE {Entry("MaturingOutput", height, tx, "none")})]

\* One transaction of a block in transactions_confirmed.
tx_confirmed(m, tx, height) ==
  is_paying_spendable_output(
    is_resolving_htlc_output(
      IF tx.spends = <<Funding>> THEN funding_spent(m, tx, height) ELSE m,
      tx, height),
    tx, height)

transactions_confirmed(m, txs, height) ==
  LET after[i \in 0 .. Len(txs)] == IF i = 0 THEN m ELSE tx_confirmed(after[i - 1], txs[i], height)
  IN after[Len(txs)]

should_broadcast_holder_commitment_txn(m, height) ==
  \E h \in UNION {deal.listed[c] : c \in {"holder"} \cup deal.unrevoked} :
    IF h \in Outbound THEN deal.expiry[h] + LATENCY_GRACE_PERIOD_BLOCKS <= height
    ELSE h \in m.preimages /\ deal.expiry[h] <= height + CLTV_CLAIM_BUFFER

\* Events with enough confirmations are final.
events_mature(m, height) ==
  LET ripe == {e \in m.awaiting : height >= confirmation_threshold(e)}
      Of(kind) == {e \in ripe : e.kind = kind}
  IN [m EXCEPT
        !.awaiting = @ \ ripe,
        !.events = @ \cup {<<e.h, "fail">> : e \in Of("HTLCUpdate")},
        !.spendable = @ \cup {e.tx : e \in Of("MaturingOutput")},
        !.resolved = @ \cup {<<e.tx, e.h>> : e \in Of("HTLCSpendConfirmation")}
                         \cup {<<e.tx, e.h>> : e \in {f \in Of("HTLCUpdate") : f.tx.as = "ours"}},
        !.confirmed = @ \cup {e.tx : e \in Of("FundingSpendConfirmation")}]

\* The claims that a block calls for: those of a commitment in it, and when an
\* HTLC is about to be decided on chain, our commitment and its claims.
requests_of(m, txs, height) ==
  FlattenSeq([i \in DOMAIN txs |->
                IF txs[i].spends # <<Funding>> THEN <<>>
                ELSE IF txs[i].as \in Theirs
                       THEN get_counterparty_htlc_output_claim_reqs(m, txs[i].as)
                ELSE get_broadcasted_holder_claims(m)])
    \o (IF should_broadcast_holder_commitment_txn(m, height)
          THEN <<Funding>> \o get_broadcasted_holder_claims(m) ELSE <<>>)

\* block_confirmed: first the events, then the claims.
block_confirmed(m, txs, height) ==
  update_claims_view(events_mature(m, height), txs, requests_of(m, txs, height), height, height)

-----------------------------------------------------------------------------
(* The steps.                                                              *)

Init ==
  /\ deal \in Deals
  /\ chain = <<>> /\ top = 0 /\ told = {}
  /\ left = [blocks |-> deal.reorgs, close |-> deal.close]
  /\ mon = [preimages |-> deal.preimages, on_chain |-> {}, awaiting |-> {}, events |-> {},
            spendable |-> {}, resolved |-> {}, confirmed |-> {},
            outpoints |-> <<>>, requests |-> <<>>, locktimed |-> {}, claims |-> {},
            sent |-> {}, panicked |-> FALSE]

\* A block is connected: transactions_confirmed and block_confirmed.
block_connected ==
  /\ ~mon.panicked /\ Height < MaxHeight
  /\ \E b \in Blocks :
       /\ chain' = Append(chain, b)
       /\ mon' = block_confirmed(transactions_confirmed(mon, b, Height + 1), b, Height + 1)
  /\ top' = IF Height + 1 > top THEN Height + 1 ELSE top
  /\ UNCHANGED <<deal, told, left>>

\* (Mutant: what the disconnected block itself said is kept.)
LastBlockKept ==
  /\ ~mon.panicked /\ left.blocks > 0
  /\ Height > 0 /\ top < Height + ANTI_REORG_DELAY - 1
  /\ chain' = Front(chain)
  /\ mon' = claims_disconnected([mon EXCEPT !.awaiting = {e \in @ : e.height <= Height}], Height)
  /\ left' = [left EXCEPT !.blocks = @ - 1]
  /\ UNCHANGED <<deal, top, told>>

\* The last block is disconnected.  ANTI_REORG_DELAY is an assumption on the
\* chain: a block with that many confirmations stays.
block_disconnected ==
  /\ ~mon.panicked /\ left.blocks > 0
  /\ Height > 0 /\ top < Height + ANTI_REORG_DELAY - 1
  /\ chain' = Front(chain)
  /\ mon' = claims_disconnected([mon EXCEPT !.awaiting = {e \in @ : e.height < Height}], Height)
  /\ left' = [left EXCEPT !.blocks = @ - 1]
  /\ UNCHANGED <<deal, top, told>>

\* The preimage of an inbound HTLC arrives.  The monitor claims outputs of a
\* commitment of theirs it has seen, else of ours if it has seen that.
provide_payment_preimage(h) ==
  /\ ~mon.panicked /\ h \in deal.late \ mon.preimages
  /\ \E m \in {[mon EXCEPT !.preimages = @ \cup {h}]} :
       mon' = update_claims_view(m, <<>>,
                IF "cur" \in m.on_chain THEN get_counterparty_htlc_output_claim_reqs(m, "cur")
                ELSE IF "prev" \in m.on_chain THEN get_counterparty_htlc_output_claim_reqs(m, "prev")
                ELSE IF "holder" \in m.on_chain THEN get_broadcasted_holder_claims(m)
                ELSE <<>>, Height, Height)
  /\ UNCHANGED <<deal, chain, top, told, left>>

\* The channel manager force-closes: our commitment and the HTLC transactions
\* that can follow it are broadcast, and nothing is registered yet.
ChannelForceClosed ==
  /\ ~mon.panicked /\ left.close
  /\ mon' = [mon EXCEPT !.sent = @ \cup {Commit("holder")} \cup
               {ClaimTx(<<out>>) : out \in {o \in Range(get_broadcasted_holder_claims(mon)) :
                                              package_timelock(o) <= Height + 1}}]
  /\ left' = [left EXCEPT !.close = FALSE]
  /\ UNCHANGED <<deal, chain, top, told>>

\* The channel manager collects the HTLC events.
release_pending_monitor_events ==
  /\ mon.events # {}
  /\ told' = told \cup mon.events
  /\ mon' = [mon EXCEPT !.events = {}]
  /\ UNCHANGED <<deal, chain, top, left>>

Next ==
  \/ block_connected
  \/ block_disconnected
  \/ \E h \in Htlcs : provide_payment_preimage(h)
  \/ ChannelForceClosed
  \/ release_pending_monitor_events

Spec == Init /\ [][Next]_vars

-----------------------------------------------------------------------------
(* Properties.                                                             *)

Reported == told \cup mon.events
TxsUpTo(n) == {e[2] : e \in {f \in Confirmed(chain) : f[1] <= n}}
InChain(tx) == \E e \in Confirmed(chain) : e[2] = tx

\* Shape of the monitor's state.
TypeOK ==
  /\ mon.preimages \subseteq Htlcs \ Outbound
  /\ mon.on_chain \subseteq Sides
  /\ mon.events \subseteq Outbound \X {"claim", "fail"}
  /\ \A e \in mon.awaiting : e.height <= Height
  /\ Height <= top

\* What the monitor calls final stays so: an HTLC it failed upstream is never
\* claimed by the counterparty on chain, and the funding spend, the HTLC spends
\* and the outputs to us that it reported as final stay in the chain.
FinalStays ==
  /\ \A h \in Outbound : <<h, "fail">> \in Reported =>
       ~\E c \in Sides : InChain(Claim("theirs", <<<<c, h>>>>))
  /\ \A tx \in mon.confirmed \cup mon.spendable \cup {r[1] : r \in mon.resolved} : InChain(tx)

\* Nothing is forgotten: the counterparty's claim of an outbound HTLC is passed
\* on as soon as it is in the chain; our timeout of it, or a commitment without
\* it, has failed it upstream once it has ANTI_REORG_DELAY confirmations.
NothingForgotten ==
  /\ \A h \in Outbound, c \in Sides :
       InChain(Claim("theirs", <<<<c, h>>>>)) => <<h, "claim">> \in Reported
  /\ \A h \in Outbound : \A tx \in TxsUpTo(Height - ANTI_REORG_DELAY + 1) :
       \/ tx.as = "ours" /\ h \in {o[2] : o \in Range(tx.spends)}
       \/ tx.spends = <<Funding>> /\ h \notin deal.outputs[tx.as]
            /\ \E d \in deal.unrevoked : h \in deal.listed[d]
       => <<h, "fail">> \in Reported

\* Is there a claim on an output, registered or waiting for its time?
Claimed(out) ==
  \/ out \in mon.locktimed
  \/ /\ out \in DOMAIN mon.outpoints
     /\ mon.outpoints[out].req \in DOMAIN mon.requests
     /\ out \in Range(mon.requests[mon.outpoints[out].req])

\* The handler's two maps agree, so that no block meets "Inconsistencies between
\* pending_claim_requests map and claimable_outpoints map": every output with a
\* claim leads to a request that is there, a request holds only outputs that
\* lead to it, and an output it has lost to another transaction waits for that
\* transaction to be final.
MapsAgree == ~mon.panicked =>
  /\ \A out \in DOMAIN mon.outpoints :
       /\ mon.outpoints[out].req \in DOMAIN mon.requests
       /\ \/ out \in Range(mon.requests[mon.outpoints[out].req])
          \/ \E e \in mon.claims : e.kind = "ContentiousOutpoint" /\ e.out = out
  /\ \A r \in DOMAIN mon.requests : \A out \in Range(mon.requests[r]) :
       out \in DOMAIN mon.outpoints /\ mon.outpoints[out].req = r

\* An output of the confirmed commitment that is ours to claim and that nobody
\* has spent has a claim on it, for the outputs in `of`.
Kept(of) ==
  \A c \in Sides : InChain(Commit(c)) =>
    \A out \in Range(Claimable(mon, c)) :
      out[2] \in of => SpentIn(chain, out) \/ Claimed(out)

\* Claims with a preimage we had when the commitment was confirmed are never
\* lost, whichever blocks come and go.
PreimageClaimsKept == ~mon.panicked => Kept(deal.preimages)

\* "What we want to avoid is reorg evicting our claim tx and us not keep bumping
\* another claim tx to solve the outpoint": no claim is ever lost.
ClaimsKept == Kept(Htlcs)
=============================================================================
