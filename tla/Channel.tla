------------------------------ MODULE Channel ------------------------------
(***************************************************************************)
(* One side of a payment channel (rust-lightning, ln/channel.rs): the       *)
(* HTLCs and the fee update it has pending, how far each of them has gone   *)
(* into the two commitment transactions, and what is kept back while no     *)
(* update may be sent.  A channel is a record; the methods of the source    *)
(* are operators from records to records.                                   *)
(*                                                                         *)
(* Every HTLC is worth one unit.  Fees, the channel reserve and dust are    *)
(* left out of the amounts: a feerate is only a value the two sides must    *)
(* agree on.                                                               *)
(***************************************************************************)
EXTENDS Integers, FiniteSets, Sequences, SequencesExt

CONSTANTS
    Peers,        \* the two ends of the channel
    Funder,       \* the end that opened it, and pays its fees
    Balance,      \* what each end owns when the model starts
    MaxAccepted,  \* HTLCs an end accepts at once (50 in the code)
    FeeFloor,     \* the least fee of a closing transaction each end agrees to
    FeeCeil       \* and the highest (the side that does not pay: all the funder owns);
                  \* estimates that last as long as the model

ASSUME PeersAssumption ==
    /\ IsFiniteSet(Peers) /\ Cardinality(Peers) = 2 /\ Funder \in Peers
    /\ Balance \in [Peers -> Nat] /\ MaxAccepted \in Nat
    /\ FeeFloor \in [Peers -> Nat \ {0}] /\ FeeCeil \in [Peers -> Nat \ {0}]

Other(p) == CHOOSE q \in Peers : q # p
Total == LET p == CHOOSE q \in Peers : TRUE IN Balance[p] + Balance[Other(p)]

NoMsg == [type |-> "none"]
NoFee == [rate |-> 0, st |-> "none"]

\* The part of f over the domain S.
Keep(f, S) == [i \in S |-> f[i]]
InState(htlcs, states) == {i \in DOMAIN htlcs : htlcs[i].st \in states}
OutCome(htlcs, states, how) == {i \in InState(htlcs, states) : htlcs[i].how = how}

-----------------------------------------------------------------------------
(* The commitment transaction of one side, as c builds it: the other        *)
(* side's, which c signs (ours = TRUE: with the updates that c proposed),    *)
(* or c's own, whose signature it checks (with those of the other side).    *)

InTx(c, ours) ==
    IF ours THEN InState(c.inb, {"AwaitingAnnouncedRemoteRevoke", "Committed"})
            ELSE DOMAIN c.inb

OutTx(c, ours) ==
    InState(c.out, IF ours THEN {"LocalAnnounced", "Committed", "RemoteRemoved",
                                 "AwaitingRemoteRevokeToRemove"}
                           ELSE {"Committed"})

\* Fulfilled HTLCs that have left the transaction but not yet value_to_self.
Gained(c, ours) == IF ours THEN Cardinality(OutCome(c.inb, {"LocalRemoved"}, "ok")) ELSE 0
Spent(c, ours) ==
    Cardinality(OutCome(c.out, {"AwaitingRemovedRemoteRevoke"} \cup
        (IF ours THEN {} ELSE {"RemoteRemoved", "AwaitingRemoteRevokeToRemove"}), "ok"))

\* What is left for c itself.
LocalBalance(c, ours) ==
    c.own - Cardinality(OutTx(c, ours)) + Gained(c, ours) - Spent(c, ours)
RemoteBalance(c, ours) ==
    Total - c.own - Cardinality(InTx(c, ours)) - Gained(c, ours) + Spent(c, ours)

FeeInTx(c, ours) ==
    IF c.pfee.st \in (IF ours THEN {"Outbound"}
                      ELSE {"RemoteAnnounced", "AwaitingRemoteRevokeToAnnounce"})
    THEN c.pfee.rate ELSE c.fee

build_commitment_transaction(c, number, ours) ==
    [num   |-> number,
     htlcs |-> {<<c.me, i>> : i \in OutTx(c, ours)}
                 \cup {<<Other(c.me), i>> : i \in InTx(c, ours)},
     bal   |-> [p \in Peers |-> IF p = c.me THEN LocalBalance(c, ours)
                                            ELSE RemoteBalance(c, ours)],
     fee   |-> FeeInTx(c, ours)]

-----------------------------------------------------------------------------
(* Signing the other side's next commitment transaction.                    *)

send_commitment_no_state_update(c) ==
    [type |-> "commitment_signed",
     tx |-> build_commitment_transaction(c, c.remote, TRUE)]

Step(htlcs, from, to) ==
    [i \in DOMAIN htlcs |-> IF htlcs[i].st = from THEN [htlcs[i] EXCEPT !.st = to]
                                                  ELSE htlcs[i]]

\* Mutant: the monitor is told of the transaction as it was before the updates.
send_commitment_watched_early(c) ==
    [c EXCEPT
      !.inb = Step(@, "AwaitingRemoteRevokeToAnnounce", "AwaitingAnnouncedRemoteRevoke"),
      !.out = Step(@, "AwaitingRemoteRevokeToRemove", "AwaitingRemovedRemoteRevoke"),
      !.fee = IF c.pfee.st = "AwaitingRemoteRevokeToAnnounce" THEN c.pfee.rate ELSE @,
      !.pfee = IF @.st = "AwaitingRemoteRevokeToAnnounce" THEN NoFee ELSE @,
      !.order = "RevokeAndACKFirst",
      !.wait = TRUE,
      !.theirs = Append(@, send_commitment_no_state_update(c).tx)]

\* The monitor is told of the transaction that c signs.
Watch(c) == [c EXCEPT !.theirs = Append(@, send_commitment_no_state_update(c).tx)]

\* What has waited for a commitment_signed of ours is in this one.
send_commitment_no_status_check(c) ==
    Watch([c EXCEPT
      !.inb = Step(@, "AwaitingRemoteRevokeToAnnounce", "AwaitingAnnouncedRemoteRevoke"),
      !.out = Step(@, "AwaitingRemoteRevokeToRemove", "AwaitingRemovedRemoteRevoke"),
      !.fee = IF c.pfee.st = "AwaitingRemoteRevokeToAnnounce" THEN c.pfee.rate ELSE @,
      !.pfee = IF @.st = "AwaitingRemoteRevokeToAnnounce" THEN NoFee ELSE @,
      !.order = "RevokeAndACKFirst",
      !.wait = TRUE])

\* The channel d after it has signed, and the updates msgs with the signature.
SignedWith(d, msgs) == [c |-> d, msg |-> Append(msgs, send_commitment_no_state_update(d))]
Sign(c, msgs) == SignedWith(send_commitment_no_status_check(c), msgs)

get_last_revoke_and_ack(c) == [type |-> "revoke_and_ack", num |-> c.local]

-----------------------------------------------------------------------------
(* Our updates.  While they may not be sent they go into the holding cell.  *)

Held(c, kind) == {c.hold[i].id : i \in {j \in DOMAIN c.hold : c.hold[j].kind = kind}}
HeldAdds(c) == Len(SelectSeq(c.hold, LAMBDA u : u.kind = "add"))
Paused(c) == c.wait \/ c.gone \/ c.frozen

\* send_htlc refuses: no peer, a shutdown, too many HTLCs, or too little left.
CannotSend(c) ==
    \/ c.gone \/ c.localShutdown \/ c.remoteShutdown
    \/ Cardinality(DOMAIN c.out) + HeldAdds(c) + 1 > MaxAccepted
    \/ LocalBalance(c, TRUE) - HeldAdds(c) < 1

\* The result of an update: the channel, the message if there is one, and
\* whether there is something new to tell the monitor.
Quiet(c) == [c |-> c, msg |-> <<>>, new |-> FALSE]

send_htlc(c) ==
    IF CannotSend(c) THEN Quiet(c)
    ELSE IF c.wait \/ c.frozen
    THEN Quiet([c EXCEPT !.hold = Append(@, [kind |-> "add", id |-> 0])])
    ELSE [c |-> [c EXCEPT
              !.out = @ @@ (c.nextOut :> [st |-> "LocalAnnounced", how |-> "none"]),
              !.nextOut = @ + 1],
          msg |-> <<[type |-> "update_add_htlc", id |-> c.nextOut]>>, new |-> TRUE]

LocalRemove(c, id, how) == [c EXCEPT !.inb[id] = [st |-> "LocalRemoved", how |-> how]]

\* Claims an HTLC.  A claim that is already under way changes nothing; one of
\* an HTLC whose failure waits in the cell is only told to the monitor.
get_update_fulfill_htlc(c, id) ==
    IF \/ id \notin InState(c.inb, {"Committed"})
       \/ Paused(c) /\ id \in Held(c, "claim") THEN Quiet(c)
    ELSE IF ~Paused(c)
    THEN [c |-> LocalRemove(c, id, "ok"), new |-> TRUE,
          msg |-> <<[type |-> "update_fulfill_htlc", id |-> id]>>]
    ELSE [c |-> [c EXCEPT !.hold = IF id \in Held(c, "fail") THEN @
                             ELSE Append(@, [kind |-> "claim", id |-> id])],
          msg |-> <<>>, new |-> TRUE]

get_update_fail_htlc(c, id) ==
    IF \/ id \notin InState(c.inb, {"Committed"})
       \/ Paused(c) /\ id \in Held(c, "claim") \cup Held(c, "fail") THEN Quiet(c)
    ELSE IF ~Paused(c)
    THEN [c |-> LocalRemove(c, id, "bad"), new |-> TRUE,
          msg |-> <<[type |-> "update_fail_htlc", id |-> id]>>]
    ELSE Quiet([c EXCEPT !.hold = Append(@, [kind |-> "fail", id |-> id])])

\* The funder proposes a feerate; afford is whether it can pay it.
send_update_fee(c, rate, afford) ==
    IF ~afford THEN Quiet(c)
    ELSE IF c.wait \/ c.frozen THEN Quiet([c EXCEPT !.holdFee = rate])
    ELSE [c |-> [c EXCEPT !.pfee = [rate |-> rate, st |-> "Outbound"]],
          msg |-> <<[type |-> "update_fee", rate |-> rate]>>, new |-> TRUE]

\* One update of the cell.  An add that is refused now is failed back; a claim or a
\* failure must come through, or the code panics.
Freed(r, u, one) ==
    [c |-> one.c, msg |-> r.msg \o one.msg,
     panic |-> r.panic \/ (u.kind # "add" /\ one.msg = <<>>)]

FreeOne(r, u) ==
    Freed(r, u, IF u.kind = "add" THEN send_htlc(r.c)
                ELSE IF u.kind = "claim" THEN get_update_fulfill_htlc(r.c, u.id)
                ELSE get_update_fail_htlc(r.c, u.id))

\* The feerate of the cell goes with its updates, and all are signed.
FreeFee(c, r, afford) ==
    LET WithFee(f) == Sign(f.c, r.msg \o f.msg) @@ [panic |-> r.panic]
    IN  IF c.holdFee = 0 THEN IF r.msg = <<>> THEN r ELSE WithFee(Quiet(r.c))
        ELSE WithFee(send_update_fee([r.c EXCEPT !.holdFee = 0], c.holdFee, afford))

\* Sends what waits in the cell: msg is the updates with their signature, or empty.
free_holding_cell_htlcs(c, afford) ==
    IF c.hold = <<>> /\ c.holdFee = 0 THEN [c |-> c, msg |-> <<>>, panic |-> FALSE]
    ELSE FreeFee(c, FoldLeft(FreeOne, [c |-> [c EXCEPT !.hold = <<>>], msg |-> <<>>,
                                       panic |-> FALSE], c.hold), afford)

-----------------------------------------------------------------------------
(* The other side's messages.  A result has the channel, the answer, and    *)
(* the error: "close" is ChannelError::Close, which ends the channel.       *)

Fine(c) == [c |-> c, err |-> "none"]
Close(c) == [c |-> c, err |-> "close"]

RemoteLeft(c) == Total - c.own - Cardinality(DOMAIN c.inb)
  + Cardinality(OutCome(c.out, {"AwaitingRemoteRevokeToRemove",
                                "AwaitingRemovedRemoteRevoke"}, "ok"))

\* how: whether the onion can be forwarded or received ("ok") or not ("bad").
update_add_htlc(c, m, how) ==
    IF \/ c.gone \/ c.remoteShutdown
       \/ Cardinality(DOMAIN c.inb) + 1 > MaxAccepted
       \/ RemoteLeft(c) < 1
       \/ m.id # c.nextIn
    THEN Close(c)
    ELSE Fine([c EXCEPT
           !.inb = @ @@ (m.id :> [st |-> "RemoteAnnounced",
                                  how |-> IF c.localShutdown THEN "bad" ELSE how]),
           !.nextIn = @ + 1])

mark_outbound_htlc_removed(c, id, how) ==
    IF c.gone \/ id \notin InState(c.out, {"Committed"}) THEN Close(c)
    ELSE Fine([c EXCEPT !.out[id] = [st |-> "RemoteRemoved", how |-> how]])

update_fulfill_htlc(c, m) == mark_outbound_htlc_removed(c, m.id, "ok")
update_fail_htlc(c, m) == mark_outbound_htlc_removed(c, m.id, "bad")

update_fee(c, m) ==
    IF c.me = Funder \/ c.gone THEN Close(c)
    ELSE Fine([c EXCEPT !.pfee = [rate |-> m.rate, st |-> "RemoteAnnounced"]])

\* The signature is for the transaction we would build ourselves, and no
\* closing transaction has been proposed yet.
Unsignable(c, m) ==
    \/ c.gone
    \/ c.localShutdown /\ c.remoteShutdown /\ c.closingFee # 0
    \/ m.tx # build_commitment_transaction(c, c.local, FALSE)

\* We owe the other side a commitment transaction with the same updates.
NeedCommitment(c) ==
    \/ c.pfee.st = "RemoteAnnounced"
    \/ InState(c.inb, {"RemoteAnnounced"}) # {}
    \/ InState(c.out, {"RemoteRemoved"}) # {}

\* The updates of the other side are in our commitment transaction now.
Countersign(c, tx, sign) ==
    [c EXCEPT
      !.pfee.st = IF @ = "RemoteAnnounced" THEN "AwaitingRemoteRevokeToAnnounce" ELSE @,
      !.inb = Step(@, "RemoteAnnounced", "AwaitingRemoteRevokeToAnnounce"),
      !.out = Step(@, "RemoteRemoved", "AwaitingRemoteRevokeToRemove"),
      !.holder = tx,
      !.local = @ + 1,
      !.order = "CommitmentFirst",
      !.pendRaa = @ \/ c.frozen,
      !.pendCs = @ \/ (c.frozen /\ sign)]

\* The answer with s, what we sign in turn: nothing while a monitor update is due.
Acked(s, frozen) ==
    [c |-> s.c, err |-> "none",
     raa |-> IF frozen THEN <<>> ELSE <<get_last_revoke_and_ack(s.c)>>,
     cs |-> IF frozen THEN <<>> ELSE s.msg]

commitment_signed(c, m) ==
    LET Answer(sign) ==
          Acked(IF sign THEN Sign(Countersign(c, m.tx, TRUE), <<>>)
                        ELSE [c |-> Countersign(c, m.tx, FALSE), msg |-> <<>>], c.frozen)
    IN  IF Unsignable(c, m) THEN [c |-> c, err |-> "close", raa |-> <<>>, cs |-> <<>>]
        ELSE Answer(NeedCommitment(c) /\ ~c.wait)

\* The HTLCs whose last trace in the other side's transactions is revoked now.
Revoked(c) == InState(c.out, {"AwaitingRemovedRemoteRevoke"})

\* Mutant: one revocation too early.
AcceptedEarly(c) ==
    InState(c.inb, {"AwaitingRemoteRevokeToAnnounce", "AwaitingAnnouncedRemoteRevoke"})

\* Those that are in every transaction now, and cannot be taken back.
Accepted(c) == InState(c.inb, {"AwaitingAnnouncedRemoteRevoke"})

\* The HTLCs we claimed are ours, and those of ours that were claimed are gone.
Own(c, final) ==
    c.own + Cardinality(OutCome(c.inb, {"LocalRemoved"}, "ok")) - Cardinality(final)

\* Mutant: an HTLC that was handed over is not marked as such.
RevokedInbKept(c) ==
    LET left == Keep(c.inb, DOMAIN c.inb \ InState(c.inb, {"LocalRemoved"}))
    IN  [i \in DOMAIN left |->
          IF left[i].how = "ok" \/ left[i].st = "AwaitingRemoteRevokeToAnnounce"
          THEN [left[i] EXCEPT !.st = "AwaitingAnnouncedRemoteRevoke"]
          ELSE IF left[i].st = "AwaitingAnnouncedRemoteRevoke"
          THEN [left[i] EXCEPT !.st = "LocalRemoved"] ELSE left[i]]

\* One step for every update that this revocation was needed for.  An HTLC
\* that is now irrevocably ours to forward is Committed; a bad one is failed.
RevokedInb(c) ==
    LET left == Keep(c.inb, DOMAIN c.inb \ InState(c.inb, {"LocalRemoved"}))
    IN  [i \in DOMAIN left |->
          IF left[i].st = "AwaitingRemoteRevokeToAnnounce"
          THEN [left[i] EXCEPT !.st = "AwaitingAnnouncedRemoteRevoke"]
          ELSE IF left[i].st = "AwaitingAnnouncedRemoteRevoke"
          THEN [left[i] EXCEPT !.st = IF left[i].how = "ok" THEN "Committed" ELSE "LocalRemoved"]
          ELSE left[i]]

RevokedOut(c) ==
    Step(Step(Keep(c.out, DOMAIN c.out \ Revoked(c)), "LocalAnnounced", "Committed"),
         "AwaitingRemoteRevokeToRemove", "AwaitingRemovedRemoteRevoke")

\* What the revocation settles: the HTLCs to forward and those to refuse, and of ours
\* those to fail back and those whose claim is final.
Settles(c) ==
    [fwd    |-> {i \in Accepted(c) : c.inb[i].how = "ok"},
     bad    |-> {i \in Accepted(c) : c.inb[i].how # "ok"},
     failed |-> {i \in Revoked(c) : c.out[i].how = "bad"},
     final  |-> {i \in Revoked(c) : c.out[i].how # "bad"}]

\* It lets us sign updates that waited for it, or makes us refuse an HTLC.
NeedSignature(c, bad) ==
    \/ InState(c.inb, {"AwaitingRemoteRevokeToAnnounce"}) # {} \/ bad # {}
    \/ InState(c.out, {"AwaitingRemoteRevokeToRemove"}) # {}
    \/ c.pfee.st = "AwaitingRemoteRevokeToAnnounce"

Revoke(c, final) ==
    [c EXCEPT
      !.wait = FALSE, !.remote = @ + 1, !.theirs = Tail(@),
      !.inb = RevokedInb(c), !.out = RevokedOut(c),
      !.own = Own(c, final),
      !.fee = IF c.pfee.st \in {"Outbound", "AwaitingRemoteRevokeToAnnounce"}
              THEN c.pfee.rate ELSE @,
      !.pfee = IF @.st = "RemoteAnnounced" THEN @ ELSE NoFee]

\* While a monitor update is due everything waits for it.
RevokedFrozen(d, s, need) ==
    [c |-> [(IF need THEN send_commitment_no_status_check(d) ELSE d) EXCEPT
              !.pendCs = @ \/ need, !.pendFwd = @ \cup s.fwd,
              !.pendFail = @ \cup s.failed, !.pendFinal = @ \cup s.final],
     err |-> "none", msg |-> <<>>, fwd |-> {}, failed |-> {}, final |-> {}]

\* Otherwise the holding cell goes out with the refusals, or those alone.
RevokedFree(free, s, need) ==
    LET fails == SetToSeq({[type |-> "update_fail_htlc", id |-> i] : i \in s.bad})
    IN  [err |-> IF free.panic THEN "panic" ELSE "none",
         fwd |-> s.fwd, failed |-> s.failed, final |-> s.final] @@
        IF free.msg # <<>> THEN [c |-> free.c, msg |-> fails \o free.msg]
        ELSE IF need THEN Sign(free.c, fails)
        ELSE [c |-> free.c, msg |-> <<>>]

\* The result also has the HTLCs to forward, to fail back, and those whose
\* claim is final.
revoke_and_ack(c, m, afford) ==
    LET Go(s) ==
          IF c.frozen THEN RevokedFrozen(Revoke(c, s.final), s, NeedSignature(c, s.bad))
          ELSE RevokedFree(free_holding_cell_htlcs(Revoke(c, s.final), afford), s,
                           NeedSignature(c, s.bad))
    IN  IF \/ c.gone \/ ~c.wait \/ m.num # c.remote + 1
           \/ c.localShutdown /\ c.remoteShutdown /\ c.closingFee # 0
        THEN [c |-> c, err |-> "close", msg |-> <<>>, fwd |-> {}, failed |-> {}, final |-> {}]
        ELSE Go(Settles(c))

-----------------------------------------------------------------------------
(* A lost peer, a monitor update that is not stored yet, a restart.         *)

\* What was announced without a commitment_signed is forgotten on both sides.
remove_uncommitted_htlcs_and_mark_paused(c) ==
    LET dropped == InState(c.inb, {"RemoteAnnounced"})
    IN  [c EXCEPT
          !.inb = Keep(@, DOMAIN @ \ dropped),
          !.nextIn = @ - Cardinality(dropped),
          !.pfee = IF @.st = "RemoteAnnounced" THEN NoFee ELSE @,
          !.out = [i \in DOMAIN @ |-> IF @[i].st = "RemoteRemoved"
                                      THEN [st |-> "Committed", how |-> "none"] ELSE @[i]],
          !.closingFee = 0, !.closingHeld = NoMsg,
          !.gone = TRUE]

\* Mutant: claims that are final are failed back with the rest.
monitor_update_failed_all(c, raa, cs, fwd, failed, final) ==
    [c EXCEPT !.pendRaa = @ \/ raa, !.pendCs = @ \/ cs, !.pendFwd = @ \cup fwd,
              !.pendFail = @ \cup failed \cup final, !.frozen = TRUE]

monitor_update_failed(c, raa, cs, fwd, failed, final) ==
    [c EXCEPT !.pendRaa = @ \/ raa, !.pendCs = @ \/ cs, !.pendFwd = @ \cup fwd,
              !.pendFail = @ \cup failed, !.pendFinal = @ \cup final, !.frozen = TRUE]

\* Every update of ours that the other side has not acknowledged, again.
get_last_commitment_update(c) ==
    LET Msgs(type, ids) == [i \in 1 .. Cardinality(ids) |->
                              [type |-> type, id |-> SetToSortSeq(ids, <)[i]]]
    IN  Msgs("update_add_htlc", InState(c.out, {"LocalAnnounced"}))
        \o Msgs("update_fulfill_htlc", OutCome(c.inb, {"LocalRemoved"}, "ok"))
        \o Msgs("update_fail_htlc", OutCome(c.inb, {"LocalRemoved"}, "bad"))
        \o (IF c.me = Funder /\ c.pfee.st # "none"
            THEN <<[type |-> "update_fee", rate |-> c.pfee.rate]>> ELSE <<>>)
        \o <<send_commitment_no_state_update(c)>>

InOrder(order, raa, cs) ==
    IF order = "CommitmentFirst" THEN cs \o raa ELSE raa \o cs

\* Mutant: the revoke_and_ack that was due is not sent.
monitor_updating_restored_no_raa(c) ==
    [c |-> [c EXCEPT !.frozen = FALSE, !.pendRaa = FALSE, !.pendCs = FALSE,
                     !.pendFwd = {}, !.pendFail = {}, !.pendFinal = {}],
     msg |-> IF c.gone \/ ~c.pendCs THEN <<>> ELSE get_last_commitment_update(c)]

\* Without a peer what was due is left to channel_reestablish.
monitor_updating_restored(c) ==
    [c |-> [c EXCEPT !.frozen = FALSE, !.pendRaa = FALSE, !.pendCs = FALSE,
                     !.pendFwd = {}, !.pendFail = {}, !.pendFinal = {}],
     msg |-> IF c.gone THEN <<>>
             ELSE InOrder(c.order,
                    IF c.pendRaa THEN <<get_last_revoke_and_ack(c)>> ELSE <<>>,
                    IF c.pendCs THEN get_last_commitment_update(c) ELSE <<>>)]

\* The next commitment_signed and the next revoke_and_ack that c waits for.
get_channel_reestablish(c) ==
    [type |-> "channel_reestablish", next_local |-> c.local, next_remote |-> c.remote - 1]

\* raa and cs are what the other side has missed; new is whether cs is an
\* update from the holding cell, which the monitor has to be told of.
Reestablished(c, raa, cs, new, err) ==
    [c |-> c, raa |-> raa, cs |-> cs, new |-> new, err |-> err]

\* With a monitor update due, what was missed waits for it.
Later(c, missedRaa, missedCs) ==
    Reestablished([c EXCEPT !.pendRaa = @ \/ (missedRaa /\ c.frozen),
                            !.pendCs = @ \/ (missedCs /\ c.frozen)],
                  IF missedRaa /\ ~c.frozen THEN <<get_last_revoke_and_ack(c)>> ELSE <<>>,
                  <<>>, FALSE, "none")

\* The peer has missed none of our signatures: new updates may go out.
UpToDate(c, missedRaa, afford) ==
    LET Free(f) ==
          Reestablished(f.c, IF missedRaa THEN <<get_last_revoke_and_ack(c)>> ELSE <<>>,
                        f.msg, f.msg # <<>>, IF f.panic THEN "panic" ELSE "none")
    IN  IF c.wait \/ c.frozen THEN Later(c, missedRaa, FALSE)
        ELSE Free(free_holding_cell_htlcs(c, afford))

\* It has missed the last one.
MissedSignature(c, missedRaa) ==
    IF c.frozen THEN Later(c, missedRaa, TRUE)
    ELSE Reestablished(c, IF missedRaa THEN <<get_last_revoke_and_ack(c)>> ELSE <<>>,
                       get_last_commitment_update(c), FALSE, "none")

channel_reestablish(c, m, afford) ==
    LET d == [c EXCEPT !.gone = FALSE]
        theirNext == c.remote + (IF c.wait THEN 1 ELSE 0)
        missedRaa == m.next_remote + 2 = c.local
        Refuse(e, err) == Reestablished(e, <<>>, <<>>, FALSE, err)
    IN  IF ~c.gone \/ m.next_local = 0 THEN Refuse(c, "close")
        ELSE IF m.next_remote > c.local THEN Refuse(c, "panic")
        ELSE IF m.next_remote + 2 < c.local THEN Refuse(c, "warn")
        ELSE IF ~missedRaa /\ m.next_remote + 1 # c.local THEN Refuse(d, "close")
        ELSE IF m.next_local = theirNext THEN UpToDate(d, missedRaa, afford)
        ELSE IF m.next_local = theirNext - 1 THEN MissedSignature(d, missedRaa)
        ELSE Refuse(d, "close")

\* The channel as the manager file holds it, and as it is read back: what was
\* announced only is not written, and the peer is gone.
write(c) ==
    LET dropped == InState(c.inb, {"RemoteAnnounced"})
    IN  [c EXCEPT
          !.inb = Keep(@, DOMAIN @ \ dropped),
          !.nextIn = @ - Cardinality(dropped),
          !.out = [i \in DOMAIN @ |-> IF @[i].st = "RemoteRemoved"
                                      THEN [st |-> "Committed", how |-> "none"] ELSE @[i]],
          !.pfee = IF c.me = Funder \/ @.st = "AwaitingRemoteRevokeToAnnounce"
                   THEN @ ELSE NoFee,
          !.gone = TRUE]

read(w) ==
    [w EXCEPT !.closingFee = 0, !.closingHeld = NoMsg, !.closingSlow = FALSE,
              !.pfee = IF @.rate = 0 THEN NoFee
                       ELSE [@ EXCEPT !.st = IF w.me = Funder THEN "Outbound"
                                             ELSE "AwaitingRemoteRevokeToAnnounce"]]

-----------------------------------------------------------------------------
(* Closing together: no new HTLCs, then a fee both ends agree on.           *)

\* Our updates that wait in the cell are dropped, except for claims and failures.
DropHeldAdds(c) ==
    [c EXCEPT !.hold = SelectSeq(@, LAMBDA u : u.kind # "add"), !.holdFee = 0]

get_shutdown(c) ==
    IF \/ InState(c.out, {"LocalAnnounced"}) # {}
       \/ c.localShutdown \/ c.remoteShutdown \/ c.gone \/ c.frozen
    THEN Quiet(c)
    ELSE [c |-> [DropHeldAdds(c) EXCEPT !.localShutdown = TRUE],
          msg |-> <<[type |-> "shutdown"]>>, new |-> FALSE]

shutdown(c, m) ==
    IF c.gone \/ InState(c.inb, {"RemoteAnnounced"}) # {}
    THEN [c |-> c, msg |-> <<>>, err |-> "close"]
    ELSE [c |-> [DropHeldAdds(c) EXCEPT !.remoteShutdown = TRUE, !.localShutdown = TRUE],
          msg |-> IF c.localShutdown THEN <<>> ELSE <<[type |-> "shutdown"]>>,
          err |-> "none"]

closing_negotiation_ready(c) ==
    /\ DOMAIN c.inb = {} /\ DOMAIN c.out = {} /\ c.pfee.st = "none"
    /\ c.localShutdown /\ c.remoteShutdown /\ ~Paused(c)

\* A signed closing transaction: the fee, the range the sender agrees to, and
\* what it leaves to each end before the funder has paid the fee.
ClosingSigned(c, fee) ==
    [type |-> "closing_signed", fee |-> fee, min |-> FeeFloor[c.me], max |-> FeeCeil[c.me],
     bal |-> [p \in Peers |-> IF p = c.me THEN c.own ELSE Total - c.own]]

\* Mutant: the transaction is published with our signature alone.
ProposeAndClose(c, fee, done) ==
    [c |-> [c EXCEPT !.closingFee = fee, !.closed = "coop"],
     msg |-> <<ClosingSigned(c, fee)>>, err |-> "none"]

Propose(c, fee, done) ==
    [c |-> [c EXCEPT !.closingFee = fee, !.closed = IF done THEN "coop" ELSE @],
     msg |-> <<ClosingSigned(c, fee)>>, err |-> "none"]

\* Mutant: the highest fee that we allow, whatever the other side does.
AgreedFeeOurs(c, m) == IF c.me = Funder THEN m.fee ELSE FeeCeil[c.me]

\* The side that does not pay takes the highest fee both ranges allow; the
\* funder accepts any fee in its own range.
AgreedFee(c, m) ==
    IF c.me = Funder THEN m.fee
    ELSE IF m.max < FeeCeil[c.me] THEN m.max ELSE FeeCeil[c.me]

closing_signed(c, m) ==
    LET Fail(err) == [c |-> c, msg |-> <<>>, err |-> err]
        fee == AgreedFee(c, m)
    IN  IF \/ ~c.localShutdown \/ ~c.remoteShutdown \/ c.gone
           \/ DOMAIN c.inb # {} \/ DOMAIN c.out # {}
           \/ c.me = Funder /\ c.closingFee = 0
        THEN Fail("close")
        ELSE IF c.frozen THEN [c |-> [c EXCEPT !.closingHeld = m], msg |-> <<>>, err |-> "none"]
        ELSE IF m.bal # ClosingSigned(c, m.fee).bal THEN Fail("close")
        ELSE IF c.closingFee = m.fee
        THEN [c |-> [c EXCEPT !.closed = "coop"], msg |-> <<>>, err |-> "none"]
        ELSE IF m.fee < m.min \/ m.fee > m.max THEN Fail("close")
        ELSE IF m.max < FeeFloor[c.me] \/ m.min > FeeCeil[c.me] THEN Fail("warn")
        ELSE IF c.me = Funder /\ (m.fee < FeeFloor[c.me] \/ m.fee > FeeCeil[c.me])
        THEN Fail("close")
        ELSE Propose(c, fee, fee = m.fee)

\* The funder opens the negotiation; the other side looks at the proposal it
\* had put aside while a monitor update was due.
maybe_propose_closing_signed(c) ==
    IF c.closingFee # 0 \/ ~closing_negotiation_ready(c)
    THEN [c |-> c, msg |-> <<>>, err |-> "none"]
    ELSE IF c.me = Funder THEN Propose(c, FeeFloor[c.me], FALSE)
    ELSE IF c.closingHeld = NoMsg THEN [c |-> c, msg |-> <<>>, err |-> "none"]
    ELSE closing_signed([c EXCEPT !.closingHeld = NoMsg], c.closingHeld)

\* Called every minute: a negotiation that is open on two calls has stalled.
timer_check_closing_negotiation_progress(c) ==
    IF ~closing_negotiation_ready(c) THEN Fine(c)
    ELSE IF c.closingSlow THEN Close(c)
    ELSE Fine([c EXCEPT !.closingSlow = TRUE])

\* No further call is made into the channel.
force_shutdown(c) == [c EXCEPT !.hold = <<>>, !.closed = "forced"]

\* An open channel without HTLCs; both sides have signed the first commitment.
Open(p) ==
    [me |-> p, inb |-> <<>>, out |-> <<>>, nextIn |-> 1, nextOut |-> 1,
     hold |-> <<>>, holdFee |-> 0, fee |-> 1, pfee |-> NoFee, own |-> Balance[p],
     wait |-> FALSE, gone |-> FALSE, frozen |-> FALSE,
     localShutdown |-> FALSE, remoteShutdown |-> FALSE,
     closingFee |-> 0, closingHeld |-> NoMsg, closingSlow |-> FALSE, closed |-> "no",
     local |-> 1, remote |-> 1, order |-> "CommitmentFirst",
     pendRaa |-> FALSE, pendCs |-> FALSE,
     pendFwd |-> {}, pendFail |-> {}, pendFinal |-> {},
     holder |-> [num |-> 0, htlcs |-> {}, bal |-> Balance, fee |-> 1],
     theirs |-> <<[num |-> 0, htlcs |-> {}, bal |-> Balance, fee |-> 1]>>]
=============================================================================
