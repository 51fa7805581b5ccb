------------------------------ MODULE Payments ------------------------------
(***************************************************************************)
(* The payment ledgers: the maps outbound_payments and inbound_payments    *)
(* that the commands sendpayment, keysend and getinvoice fill (cli.rs) and *)
(* the event handler updates (main.rs), beside the InvoicePayer's cache of *)
(* payments under way and the payments the channel manager knows of.       *)
(*                                                                         *)
(* The maps and the cache are in memory only; the channel manager's state  *)
(* and its queue of events are in its file.                                *)
(***************************************************************************)
EXTENDS Naturals, Sequences, FiniteSets, Functions

CONSTANTS
    OutHashes,    \* payment hashes of invoices to pay
    InHashes,     \* payment hashes of our own invoices
    MaxPays,      \* bound: payments made in a behaviour
    MaxRestarts   \* bound: times the program ends and starts again

ASSUME PayBounds == MaxPays \in Nat /\ MaxRestarts \in Nat

VARIABLES
    outbound, inbound,  \* the two maps: hash -> status, for known hashes
    cache,              \* payment_cache: hashes of payments under way
    storing,            \* a payment made and not yet stored: <<>> or <<hash, status>>
    pays,               \* the manager's outbound payments, in order
    invoices,           \* state of each of our own invoices
    events, batch,      \* queued events, and the ones being handled
    saved,              \* the manager file
    restarts,
    claimed             \* history: PaymentClaimed handled since the start

ldk  == <<pays, invoices>>
vars == <<outbound, inbound, cache, storing, pays, invoices, events, batch,
          saved, restarts, claimed>>

HTLCStatus == {"Pending", "Succeeded", "Failed"}
Event == [kind : {"PaymentSent", "PaymentPathFailed", "PaymentFailed"}, pay : 1 .. MaxPays]
           \cup [kind : {"PaymentReceived", "PaymentClaimed"}, hash : InHashes]

\* The type invariant: partial maps from hashes to statuses, a queue of events.
TypeOK ==
    /\ DOMAIN outbound \subseteq OutHashes /\ Range(outbound) \subseteq HTLCStatus
    /\ DOMAIN inbound \subseteq InHashes /\ Range(inbound) \subseteq HTLCStatus
    /\ cache \subseteq OutHashes
    /\ storing \in {<<>>} \cup (OutHashes \X HTLCStatus)
    /\ pays \in Seq([hash : OutHashes, state : {"inflight", "sent", "failed"}])
    /\ invoices \in [InHashes -> {"none", "issued", "held", "claimed"}]
    /\ events \in Seq(Event) /\ batch \in Seq(Event)
    /\ claimed \subseteq InHashes

Init ==
    /\ outbound = <<>> /\ inbound = <<>> /\ cache = {} /\ storing = <<>>
    /\ pays = <<>> /\ invoices = [h \in InHashes |-> "none"]
    /\ events = <<>> /\ batch = <<>>
    /\ saved = [ldk |-> ldk, events |-> <<>>]
    /\ restarts = 0 /\ claimed = {}

\* HashMap::insert.
Insert(map, key, value) ==
    [k \in DOMAIN map \cup {key} |-> IF k = key THEN value ELSE map[k]]

-----------------------------------------------------------------------------
(* Commands.                                                                *)

\* sendpayment and keysend, up to the InvoicePayer's answer: a hash in the
\* cache is refused; otherwise the payment leaves, or sending it fails and
\* the cache forgets it.  Without a route nothing is stored at all.
PayUnguarded(h) ==
    /\ storing = <<>> /\ Len(pays) < MaxPays
    /\ \/ /\ storing' = <<h, "Pending">>
          /\ cache' = cache \cup {h}
          /\ pays' = Append(pays, [hash |-> h, state |-> "inflight"])
       \/ storing' = <<h, "Failed">> /\ UNCHANGED <<cache, pays>>
    /\ UNCHANGED <<outbound, inbound, invoices, events, batch, saved, restarts,
                   claimed>>

Pay(h) ==
    /\ storing = <<>> /\ Len(pays) < MaxPays
    /\ h \notin cache
    /\ \/ /\ storing' = <<h, "Pending">>
          /\ cache' = cache \cup {h}
          /\ pays' = Append(pays, [hash |-> h, state |-> "inflight"])
       \/ storing' = <<h, "Failed">> /\ UNCHANGED <<cache, pays>>
    /\ UNCHANGED <<outbound, inbound, invoices, events, batch, saved, restarts,
                   claimed>>

\* The end of both commands: the map is locked and written only now.
StorePayment ==
    /\ storing # <<>>
    /\ outbound' = Insert(outbound, storing[1], storing[2])
    /\ storing' = <<>>
    /\ UNCHANGED <<inbound, cache, pays, invoices, events, batch, saved,
                   restarts, claimed>>

\* The wrong one of the two maps.
get_invoice_outbound(h) ==
    /\ storing = <<>> /\ invoices[h] = "none"
    /\ invoices' = [invoices EXCEPT ![h] = "issued"]
    /\ outbound' = Insert(outbound, h, "Pending")
    /\ UNCHANGED <<inbound, cache, storing, pays, events, batch, saved,
                   restarts, claimed>>

\* getinvoice holds the lock on the map while it makes the invoice.
get_invoice(h) ==
    /\ storing = <<>> /\ invoices[h] = "none"
    /\ invoices' = [invoices EXCEPT ![h] = "issued"]
    /\ inbound' = Insert(inbound, h, "Pending")
    /\ UNCHANGED <<outbound, cache, storing, pays, events, batch, saved,
                   restarts, claimed>>

-----------------------------------------------------------------------------
(* Peers.                                                                   *)

Settle(i, outcome, kind) ==
    /\ pays[i].state = "inflight"
    /\ pays' = [pays EXCEPT ![i].state = outcome]
    /\ events' = Append(events, [kind |-> kind, pay |-> i])
    /\ UNCHANGED <<outbound, inbound, cache, storing, invoices, batch, saved,
                   restarts, claimed>>

PaymentArrives(h) ==
    /\ invoices[h] = "issued"
    /\ invoices' = [invoices EXCEPT ![h] = "held"]
    /\ events' = Append(events, [kind |-> "PaymentReceived", hash |-> h])
    /\ UNCHANGED <<outbound, inbound, cache, storing, pays, batch, saved,
                   restarts, claimed>>

-----------------------------------------------------------------------------
(* The background thread: the InvoicePayer sees each event first, then the  *)
(* program's handler.                                                       *)

process_pending_events ==
    /\ batch = <<>> /\ events # <<>>
    /\ batch' = events /\ events' = <<>>
    /\ UNCHANGED <<outbound, inbound, cache, storing, ldk, saved, restarts,
                   claimed>>

Handling(kind) ==
    /\ batch # <<>> /\ Head(batch).kind = kind
    /\ batch' = Tail(batch)
    /\ UNCHANGED <<storing, saved, restarts>>

\* Every payment of the map is marked, whatever its hash.
PaymentSentMarksAll ==
    LET h == pays[Head(batch).pay].hash
    IN  /\ Handling("PaymentSent")
        /\ cache' = cache \ {h}
        /\ outbound' = [k \in DOMAIN outbound |-> "Succeeded"]
        /\ UNCHANGED <<inbound, ldk, events, claimed>>

\* Only a payment already in the map is marked.
PaymentSent ==
    LET h == pays[Head(batch).pay].hash
    IN  /\ Handling("PaymentSent")
        /\ cache' = cache \ {h}
        /\ outbound' = [k \in DOMAIN outbound |->
                          IF k = h THEN "Succeeded" ELSE outbound[k]]
        /\ UNCHANGED <<inbound, ldk, events, claimed>>

\* No retry is allowed, so the payment is abandoned; counting the attempt
\* may put the hash back into the cache.
PaymentPathFailed ==
    LET i == Head(batch).pay
    IN  /\ Handling("PaymentPathFailed")
        /\ cache' \in {cache, cache \cup {pays[i].hash}}
        /\ events' = Append(events, [kind |-> "PaymentFailed", pay |-> i])
        /\ UNCHANGED <<outbound, inbound, ldk, claimed>>

\* The code that would mark the payment Failed is commented out.
PaymentFailed ==
    /\ Handling("PaymentFailed")
    /\ cache' = cache \ {pays[Head(batch).pay].hash}
    /\ UNCHANGED <<outbound, inbound, ldk, events, claimed>>

\* claim_funds: an HTLC that is still held is claimed, once.
PaymentReceived ==
    LET h == Head(batch).hash
    IN  /\ Handling("PaymentReceived")
        /\ IF invoices[h] = "held"
           THEN /\ invoices' = [invoices EXCEPT ![h] = "claimed"]
                /\ events' = Append(events, [kind |-> "PaymentClaimed", hash |-> h])
           ELSE UNCHANGED <<invoices, events>>
        /\ UNCHANGED <<outbound, inbound, cache, pays, claimed>>

PaymentClaimedNoInsert ==
    LET h == Head(batch).hash
    IN  /\ Handling("PaymentClaimed")
        /\ inbound' = IF h \in DOMAIN inbound THEN Insert(inbound, h, "Succeeded")
                                             ELSE inbound
        /\ claimed' = claimed \cup {h}
        /\ UNCHANGED <<outbound, cache, ldk, events>>

\* The entry is changed, or made if the map does not have it.
PaymentClaimed ==
    LET h == Head(batch).hash
    IN  /\ Handling("PaymentClaimed")
        /\ inbound' = Insert(inbound, h, "Succeeded")
        /\ claimed' = claimed \cup {h}
        /\ UNCHANGED <<outbound, cache, ldk, events>>

\* Only between rounds of events, and only if there is a restart to come.
persist_manager ==
    /\ batch = <<>> /\ restarts < MaxRestarts
    /\ saved' = [ldk |-> ldk, events |-> events]
    /\ UNCHANGED <<outbound, inbound, cache, storing, ldk, events, batch,
                   restarts, claimed>>

-----------------------------------------------------------------------------
\* The program ends and starts again: maps and cache are empty, the events
\* come back from the file.  A file behind the channels is MonitorStore's.
Restart ==
    /\ restarts < MaxRestarts /\ saved.ldk = ldk
    /\ restarts' = restarts + 1
    /\ outbound' = <<>> /\ inbound' = <<>> /\ cache' = {} /\ storing' = <<>>
    /\ events' = saved.events /\ batch' = <<>> /\ claimed' = {}
    /\ UNCHANGED <<ldk, saved>>

Commands == StorePayment \/ (\E h \in OutHashes : Pay(h))
              \/ (\E h \in InHashes : get_invoice(h))
Peers == \/ \E i \in DOMAIN pays : \/ Settle(i, "sent", "PaymentSent")
                                   \/ Settle(i, "failed", "PaymentPathFailed")
         \/ \E h \in InHashes : PaymentArrives(h)
Background == \/ process_pending_events \/ PaymentSent \/ PaymentPathFailed
              \/ PaymentFailed \/ PaymentReceived \/ PaymentClaimed

Next == Commands \/ Peers \/ Background \/ persist_manager \/ Restart

Spec == Init /\ [][Next]_vars

-----------------------------------------------------------------------------
\* A payment listed as succeeded was sent: PaymentSent marks no other hash,
\* and nothing else marks one.
SucceededWasSent ==
    \A h \in DOMAIN outbound : outbound[h] = "Succeeded" =>
        \E i \in DOMAIN pays : pays[i].hash = h /\ pays[i].state = "sent"

\* Until the first restart a hash never has two payments in flight, whatever
\* the order of commands and events: the InvoicePayer's cache covers a payment
\* from before it leaves until the event that ends it is handled.  A restart
\* empties the cache, and the payments of the manager file stay.
OneInFlight ==
    restarts = 0 => \A i, j \in DOMAIN pays :
        pays[i].hash = pays[j].hash /\ pays[i].state = "inflight"
          /\ pays[j].state = "inflight" => i = j

\* A claim that the handler has seen since the start is listed as succeeded,
\* also when its invoice was made before the start.
ClaimsListed == \A h \in claimed : h \in DOMAIN inbound /\ inbound[h] = "Succeeded"
=============================================================================
