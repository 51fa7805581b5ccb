--------------------------- MODULE PaymentsProofs ---------------------------
(***************************************************************************)
(* Proofs about the payment ledgers, for any invoices and any number of    *)
(* payments and restarts: what is listed as succeeded was sent, no hash    *)
(* has two payments in flight before a restart, and every claim handled is *)
(* listed.                                                                 *)
(***************************************************************************)
EXTENDS Payments, TLAPS

PayKinds == {"PaymentSent", "PaymentPathFailed", "PaymentFailed"}
Payment == [hash : OutHashes, state : {"inflight", "sent", "failed"}]

\* What an event says has happened, in the payments P and the invoices I: the
\* payment is over, and was sent if the event says so; the money of the invoice
\* is held or claimed.
Told(e, P, I) ==
  /\ e.kind \in PayKinds =>
       /\ e.pay \in 1 .. Len(P) /\ P[e.pay].state # "inflight"
       /\ e.kind = "PaymentSent" => P[e.pay].state = "sent"
  /\ e.kind = "PaymentReceived" => I[e.hash] \in {"held", "claimed"}
  /\ e.kind = "PaymentClaimed" => I[e.hash] = "claimed"

Queue(q, P, I) == q \in Seq(Event) /\ \A k \in 1 .. Len(q) : Told(q[k], P, I)

\* The payments whose end is announced by an event of q, and that none is
\* announced twice.
Ending(q) == {q[k].pay : k \in {l \in 1 .. Len(q) : q[l].kind \in PayKinds}}
Once(q) == \A k, l \in 1 .. Len(q) :
             q[k].kind \in PayKinds /\ q[l].kind \in PayKinds /\ q[k].pay = q[l].pay => k = l

\* A payment of P is open until the event that ends it, in E or B, is handled.
Open(P, E, B) == {i \in 1 .. Len(P) : P[i].state = "inflight"} \cup Ending(E) \cup Ending(B)

Types ==
  /\ TypeOK /\ Len(pays) <= MaxPays /\ restarts \in Nat
  /\ storing # <<>> => storing[2] # "Succeeded"
  /\ saved = [ldk |-> saved.ldk, events |-> saved.events]
  /\ \A q \in {events, batch, saved.events} : Queue(q, pays, invoices)

\* The cache C holds the hash of every open payment, no two open payments
\* have the same hash, and no payment ends twice.
Covers(P, C, E, B) ==
  /\ Once(E) /\ Once(B) /\ Ending(E) \cap Ending(B) = {}
  /\ \A i \in Open(P, E, B) : P[i].hash \in C
  /\ \A i, j \in Open(P, E, B) : P[i].hash = P[j].hash => i = j

\* That is so until a restart.
Covered == restarts = 0 => Covers(pays, cache, events, batch)

ClaimedHeld == \A h \in claimed : invoices[h] = "claimed"

IInv == Types /\ SucceededWasSent /\ Covered /\ ClaimsListed /\ ClaimedHeld

-----------------------------------------------------------------------------
(* Queues.                                                                  *)

LEMMA AppendedQueue ==
    ASSUME NEW P, NEW I, NEW q, NEW e \in Event, Queue(q, P, I), Told(e, P, I)
    PROVE  Queue(Append(q, e), P, I)
  <1> DEFINE r == Append(q, e)
  <1>1. /\ r \in Seq(Event) /\ Len(q) \in Nat /\ Len(r) = Len(q) + 1 /\ r[Len(q) + 1] = e
        /\ \A k \in 1 .. Len(q) : r[k] = q[k]
    BY DEF Queue
  <1> HIDE DEF r
  <1>2. Queue(r, P, I)
    BY <1>1 DEF Queue
  <1> QED
    BY <1>2 DEF r

\* An event appended to a queue adds the payment it ends.
LEMMA AppendedEnding ==
    ASSUME NEW q \in Seq(Event), NEW e \in Event
    PROVE  /\ e.kind \in PayKinds => Ending(Append(q, e)) = Ending(q) \cup {e.pay}
           /\ e.kind \notin PayKinds => Ending(Append(q, e)) = Ending(q)
           /\ Once(q) /\ (e.kind \in PayKinds => e.pay \notin Ending(q)) => Once(Append(q, e))
  <1> DEFINE r == Append(q, e)
  <1>1. /\ Len(q) \in Nat /\ Len(r) = Len(q) + 1 /\ r[Len(q) + 1] = e
        /\ \A k \in 1 .. Len(q) : r[k] = q[k]
    OBVIOUS
  <1> HIDE DEF r
  <1>2. e.kind \in PayKinds => Ending(r) = Ending(q) \cup {e.pay}
    BY <1>1 DEF Ending
  <1>3. e.kind \notin PayKinds => Ending(r) = Ending(q)
    BY <1>1 DEF Ending
  <1>4. Once(q) /\ (e.kind \in PayKinds => e.pay \notin Ending(q)) => Once(r)
    BY <1>1 DEF Ending, Once
  <1> QED
    BY <1>2, <1>3, <1>4 DEF r

\* The first event of a queue taken off takes with it the payment it ends.
LEMMA Taken ==
    ASSUME NEW P, NEW I, NEW q, Queue(q, P, I), q # <<>>
    PROVE  /\ Head(q) \in Event /\ Told(Head(q), P, I) /\ Queue(Tail(q), P, I)
           /\ Ending(Tail(q)) \subseteq Ending(q)
           /\ Head(q).kind \in PayKinds => Head(q).pay \in Ending(q)
           /\ Head(q).kind \notin PayKinds => Ending(Tail(q)) = Ending(q)
           /\ Once(q) => Once(Tail(q))
           /\ Once(q) /\ Head(q).kind \in PayKinds => Head(q).pay \notin Ending(Tail(q))
  <1> DEFINE r == Tail(q)
  <1>1. /\ r \in Seq(Event) /\ Len(q) \in Nat \ {0} /\ Len(r) = Len(q) - 1
        /\ \A k \in 1 .. Len(r) : r[k] = q[k + 1]
    BY DEF Queue
  <1>2. Head(q) = q[1] /\ q[1] \in Event
    BY DEF Queue
  <1> HIDE DEF r
  <1>3. Queue(r, P, I) /\ Told(q[1], P, I)
    BY <1>1 DEF Queue
  <1>4. Ending(r) \subseteq Ending(q)
    BY <1>1 DEF Ending
  <1>5. q[1].kind \in PayKinds => q[1].pay \in Ending(q)
    BY <1>1 DEF Ending
  <1>6. ASSUME q[1].kind \notin PayKinds PROVE Ending(q) \subseteq Ending(r)
    <2> SUFFICES ASSUME NEW k \in 1 .. Len(q), q[k].kind \in PayKinds
                 PROVE  q[k].pay \in Ending(r)
      BY DEF Ending
    <2>1. k # 1 /\ k - 1 \in 1 .. Len(r) /\ r[k - 1] = q[k]
      BY <1>1, <1>6
    <2> QED
      BY <2>1 DEF Ending
  <1>7. Once(q) => Once(r)
    BY <1>1 DEF Once
  <1>8. Once(q) /\ q[1].kind \in PayKinds => q[1].pay \notin Ending(r)
    BY <1>1 DEF Once, Ending
  <1> QED
    BY <1>2, <1>3, <1>4, <1>5, <1>6, <1>7, <1>8, Zenon DEF r

\* Payments end once, and money held is only claimed.
Advances(P, Q, I, J) ==
  /\ Len(P) \in Nat /\ Len(Q) \in Nat /\ Len(Q) >= Len(P)
  /\ \A i \in 1 .. Len(P) : P[i].state # "inflight" => Q[i].state = P[i].state
  /\ \A h \in InHashes : /\ I[h] = "claimed" => J[h] = "claimed"
                         /\ I[h] = "held" => J[h] \in {"held", "claimed"}

\* Then what was told stays true.
LEMMA StaysTold ==
    ASSUME NEW P, NEW Q, NEW I, NEW J, Advances(P, Q, I, J), NEW q, Queue(q, P, I)
    PROVE  Queue(q, Q, J)
  <1> SUFFICES ASSUME NEW k \in 1 .. Len(q) PROVE Told(q[k], Q, J)
    BY DEF Queue
  <1>1. Told(q[k], P, I) /\ q[k] \in Event
    BY DEF Queue
  <1>2. q[k].kind \in {"PaymentReceived", "PaymentClaimed"} => q[k].hash \in InHashes
    BY <1>1 DEF Event
  <1> QED
    BY <1>1, <1>2 DEF Told, PayKinds, Advances

-----------------------------------------------------------------------------
(* The three properties, by what a step may do.                             *)

LEMMA Begins == Init => IInv
  <1> SUFFICES ASSUME Init PROVE IInv
    OBVIOUS
  <1>1. Queue(<<>>, pays, invoices) /\ Ending(<<>>) = {} /\ Once(<<>>)
    BY DEF Queue, Ending, Once
  <1>2. TypeOK
    BY DEF Init, TypeOK, Range
  <1>3. Types
    BY <1>1, <1>2, PayBounds DEF Init, Types
  <1>4. Open(<<>>, <<>>, <<>>) = {}
    BY <1>1 DEF Open
  <1>5. Covered
    BY <1>1, <1>4 DEF Init, Covered, Covers
  <1> QED
    BY <1>3, <1>5 DEF Init, IInv, SucceededWasSent, ClaimsListed, ClaimedHeld

LEMMA PayStep == ASSUME IInv, NEW h \in OutHashes, Pay(h) PROVE IInv'
  <1>1. TypeOK /\ Types
    BY DEF IInv, Types
  <1>2. CASE /\ storing' = <<h, "Pending">> /\ cache' = cache \cup {h}
             /\ pays' = Append(pays, [hash |-> h, state |-> "inflight"])
    <2> DEFINE p == [hash |-> h, state |-> "inflight"]
    <2>1. /\ p \in Payment /\ p.hash = h /\ p.state = "inflight"
      BY DEF Payment
    <2>2. /\ pays' \in Seq(Payment) /\ Len(pays') = Len(pays) + 1 /\ Len(pays) \in Nat
          /\ pays'[Len(pays) + 1] = p
          /\ \A i \in 1 .. Len(pays) : pays'[i] = pays[i]
      BY <1>1, <1>2, <2>1 DEF TypeOK, Payment
    <2> HIDE DEF p
    <2>3. /\ UNCHANGED <<outbound, inbound, invoices, events, batch, saved, restarts, claimed>>
          /\ Len(pays) < MaxPays /\ h \notin cache
      BY DEF Pay
    <2>4. \A q \in {events', batch', saved'.events} : Queue(q, pays', invoices')
      <3>1. Advances(pays, pays', invoices, invoices')
        BY <2>2, <2>3 DEF Advances
      <3> QED
        BY <1>1, <2>3, <3>1, StaysTold DEF Types
    <2>5. TypeOK'
      BY <1>1, <1>2, <2>2, <2>3 DEF TypeOK, Payment, HTLCStatus
    <2>6. Types'
      BY <1>1, <1>2, <2>2, <2>3, <2>4, <2>5, PayBounds DEF Types
    <2>7. SucceededWasSent'
      <3>1. DOMAIN pays = 1 .. Len(pays) /\ DOMAIN pays \subseteq DOMAIN pays'
        BY <1>1, <2>2 DEF TypeOK
      <3> QED
        BY <2>2, <2>3, <3>1 DEF IInv, SucceededWasSent
    <2>8. Open(pays', events, batch) \subseteq Open(pays, events, batch) \cup {Len(pays) + 1}
      BY <2>2 DEF Open
    <2>9. Open(pays, events, batch) \subseteq 1 .. Len(pays)
      BY <1>1 DEF Open, Ending, Types, Queue, Told
    <2>10. ASSUME Covers(pays, cache, events, batch) PROVE Covers(pays', cache', events, batch)
      <3>1. \A i \in Open(pays, events, batch) :
              pays'[i] = pays[i] /\ pays[i].hash \in cache /\ pays[i].hash # h
        BY <2>2, <2>3, <2>9, <2>10 DEF Covers
      <3>2. pays'[Len(pays) + 1].hash = h
        BY <2>1, <2>2
      <3>3. \A i \in Open(pays', events, batch) : pays'[i].hash \in cache'
        BY <1>2, <2>8, <3>1, <3>2, Zenon
      <3>4. \A i, j \in Open(pays, events, batch) : pays'[i].hash = pays'[j].hash => i = j
        BY <2>10, <3>1 DEF Covers
      <3>5. \A i, j \in Open(pays', events, batch) : pays'[i].hash = pays'[j].hash => i = j
        BY <2>8, <3>1, <3>2, <3>4
      <3> QED
        BY <2>10, <3>3, <3>5 DEF Covers
    <2>11. Covered'
      BY <2>3, <2>10 DEF IInv, Covered
    <2> QED
      BY <2>3, <2>6, <2>7, <2>11 DEF IInv, ClaimsListed, ClaimedHeld
  <1>3. CASE storing' = <<h, "Failed">> /\ UNCHANGED <<cache, pays>>
    <2>1. UNCHANGED <<outbound, inbound, invoices, events, batch, saved, restarts, claimed>>
      BY DEF Pay
    <2>2. Types'
      BY <1>1, <1>3, <2>1 DEF Types, TypeOK, HTLCStatus
    <2> QED
      BY <1>3, <2>1, <2>2 DEF IInv, SucceededWasSent, Covered, ClaimsListed, ClaimedHeld
  <1> QED
    BY <1>2, <1>3 DEF Pay

LEMMA StoreStep == ASSUME IInv, StorePayment PROVE IInv'
  <1>1. TypeOK /\ Types /\ storing \in OutHashes \X HTLCStatus /\ storing[2] # "Succeeded"
    BY DEF IInv, Types, TypeOK, StorePayment
  <1>2. UNCHANGED <<inbound, cache, pays, invoices, events, batch, saved, restarts, claimed>>
    BY DEF StorePayment
  <1>3. /\ DOMAIN outbound' \subseteq OutHashes /\ Range(outbound') \subseteq HTLCStatus
        /\ \A k \in DOMAIN outbound' :
             outbound'[k] = "Succeeded" => k \in DOMAIN outbound /\ outbound[k] = "Succeeded"
    <2>1. storing[1] \in OutHashes /\ storing[2] \in HTLCStatus
      BY <1>1
    <2>2. outbound' = Insert(outbound, storing[1], storing[2])
      BY DEF StorePayment
    <2>3. /\ DOMAIN outbound' = DOMAIN outbound \cup {storing[1]} /\ outbound'[storing[1]] = storing[2]
          /\ \A k \in DOMAIN outbound \ {storing[1]} : outbound'[k] = outbound[k]
          /\ Range(outbound') \subseteq Range(outbound) \cup {storing[2]}
      BY <2>2 DEF Insert, Range
    <2> QED
      BY <1>1, <2>1, <2>3 DEF TypeOK
  <1>4. Types'
    BY <1>1, <1>2, <1>3 DEF Types, TypeOK, StorePayment
  <1>5. SucceededWasSent'
    BY <1>2, <1>3 DEF IInv, SucceededWasSent
  <1> QED
    BY <1>2, <1>4, <1>5 DEF IInv, Covered, ClaimsListed, ClaimedHeld

LEMMA InvoiceStep == ASSUME IInv, NEW h \in InHashes, get_invoice(h) PROVE IInv'
  <1>1. TypeOK /\ Types
    BY DEF IInv, Types
  <1>2. /\ UNCHANGED <<outbound, cache, storing, pays, events, batch, saved, restarts, claimed>>
        /\ invoices[h] = "none" /\ invoices' = [invoices EXCEPT ![h] = "issued"]
        /\ inbound' = Insert(inbound, h, "Pending")
    BY DEF get_invoice
  <1>3. /\ invoices' \in [InHashes -> {"none", "issued", "held", "claimed"}]
        /\ \A k \in InHashes \ {h} : invoices'[k] = invoices[k]
    BY <1>1, <1>2 DEF TypeOK
  <1>4. Len(pays) \in Nat /\ Len(pays') = Len(pays)
    BY <1>1, <1>2 DEF TypeOK
  <1>5. \A q \in {events', batch', saved'.events} : Queue(q, pays', invoices')
    <2>1. Advances(pays, pays', invoices, invoices')
      BY <1>2, <1>3, <1>4 DEF Advances
    <2> QED
      BY <1>1, <1>2, <2>1, StaysTold DEF Types
  <1>6. /\ DOMAIN inbound' = DOMAIN inbound \cup {h}
        /\ \A k \in DOMAIN inbound \ {h} : inbound'[k] = inbound[k]
        /\ Range(inbound') \subseteq Range(inbound) \cup {"Pending"}
    BY <1>2 DEF Insert, Range
  <1>7. Types'
    BY <1>1, <1>2, <1>3, <1>5, <1>6 DEF Types, TypeOK, HTLCStatus
  <1>8. h \notin claimed
    BY <1>2 DEF IInv, ClaimedHeld
  <1>9. ClaimsListed' /\ ClaimedHeld'
    BY <1>1, <1>2, <1>3, <1>6, <1>8 DEF IInv, ClaimsListed, ClaimedHeld, TypeOK
  <1> QED
    BY <1>2, <1>7, <1>9 DEF IInv, SucceededWasSent, Covered

\* A payment that an event ends is over.
LEMMA EndingOver ==
    ASSUME NEW P, NEW I, NEW q, Queue(q, P, I), NEW i \in Ending(q)
    PROVE  i \in 1 .. Len(P) /\ P[i].state # "inflight"
  BY DEF Queue, Ending, Told

LEMMA SettleStep ==
    ASSUME IInv, NEW i \in DOMAIN pays, NEW outcome \in {"sent", "failed"},
           NEW kind \in {"PaymentSent", "PaymentPathFailed"},
           kind = "PaymentSent" => outcome = "sent", Settle(i, outcome, kind)
    PROVE  IInv'
  <1> DEFINE e == [kind |-> kind, pay |-> i]
  <1>1. TypeOK /\ Types
    BY DEF IInv, Types
  <1>2. /\ UNCHANGED <<outbound, inbound, cache, storing, invoices, batch, saved, restarts, claimed>>
        /\ pays[i].state = "inflight" /\ pays' = [pays EXCEPT ![i].state = outcome]
        /\ events' = Append(events, e)
    BY DEF Settle
  <1>3. /\ Len(pays) \in Nat /\ Len(pays') = Len(pays) /\ i \in 1 .. Len(pays)
        /\ DOMAIN pays = 1 .. Len(pays) /\ DOMAIN pays' = 1 .. Len(pays)
        /\ \A j \in 1 .. Len(pays) \ {i} : pays'[j] = pays[j]
        /\ pays'[i].state = outcome /\ pays'[i].hash = pays[i].hash
        /\ pays' \in Seq(Payment)
    <2>1. pays \in Seq(Payment)
      BY <1>1 DEF TypeOK, Payment
    <2>2. /\ Len(pays) \in Nat /\ i \in 1 .. Len(pays) /\ DOMAIN pays = 1 .. Len(pays)
          /\ pays[i] \in Payment
      BY <2>1
    <2>3. LET p == [pays[i] EXCEPT !.state = outcome]
          IN  p \in Payment /\ p.state = outcome /\ p.hash = pays[i].hash
      BY <2>2 DEF Payment
    <2>4. pays' = [pays EXCEPT ![i] = [pays[i] EXCEPT !.state = outcome]]
      BY <1>2
    <2> HIDE DEF Payment
    <2> QED
      BY <2>1, <2>2, <2>3, <2>4
  <1>4. e \in Event /\ e.kind = kind /\ e.pay = i /\ e.kind \in PayKinds
    BY <1>1, <1>3, PayBounds DEF Event, Types, PayKinds
  <1> HIDE DEF e
  <1>5. \A q \in {events', batch', saved'.events} : Queue(q, pays', invoices')
    <2>1. \A q \in {events, batch, saved.events} : Queue(q, pays', invoices')
      <3>1. Advances(pays, pays', invoices, invoices')
        BY <1>2, <1>3 DEF Advances
      <3> QED
        BY <1>1, <3>1, StaysTold DEF Types
    <2>2. Told(e, pays', invoices')
      BY <1>3, <1>4 DEF Told
    <2>3. Queue(Append(events, e), pays', invoices')
      BY <1>4, <2>1, <2>2, AppendedQueue
    <2> QED
      BY <1>2, <2>1, <2>3, Zenon
  <1>6. Types'
    BY <1>1, <1>2, <1>3, <1>5, Zenon DEF Types, TypeOK, Queue, Payment
  <1>7. SucceededWasSent'
    BY <1>2, <1>3 DEF IInv, SucceededWasSent
  <1>8. ASSUME Covers(pays, cache, events, batch) PROVE Covers(pays', cache, events', batch)
    <2>1. i \notin Ending(events) /\ i \notin Ending(batch)
      BY <1>1, <1>2, EndingOver DEF Types
    <2>2. Ending(events') = Ending(events) \cup {i} /\ Once(events')
      BY <1>1, <1>2, <1>4, <1>8, <2>1, AppendedEnding DEF Types, Queue, Covers
    <2>3. Open(pays', events', batch) \subseteq Open(pays, events, batch)
      BY <1>2, <1>3, <2>2 DEF Open
    <2>4. Open(pays, events, batch) \subseteq 1 .. Len(pays)
      BY <1>1, EndingOver DEF Open, Types
    <2>5. \A j \in Open(pays, events, batch) : pays'[j].hash = pays[j].hash
      BY <1>3, <2>4
    <2> QED
      BY <1>8, <2>1, <2>2, <2>3, <2>5 DEF Covers
  <1> QED
    BY <1>2, <1>6, <1>7, <1>8 DEF IInv, Covered, ClaimsListed, ClaimedHeld

LEMMA ArriveStep == ASSUME IInv, NEW h \in InHashes, PaymentArrives(h) PROVE IInv'
  <1> DEFINE e == [kind |-> "PaymentReceived", hash |-> h]
  <1>1. TypeOK /\ Types
    BY DEF IInv, Types
  <1>2. /\ UNCHANGED <<outbound, inbound, cache, storing, pays, batch, saved, restarts, claimed>>
        /\ invoices[h] = "issued" /\ invoices' = [invoices EXCEPT ![h] = "held"]
        /\ events' = Append(events, e)
    BY DEF PaymentArrives
  <1>3. /\ invoices' \in [InHashes -> {"none", "issued", "held", "claimed"}] /\ invoices'[h] = "held"
        /\ \A k \in InHashes \ {h} : invoices'[k] = invoices[k]
        /\ Len(pays) \in Nat /\ Len(pays') = Len(pays)
    BY <1>1, <1>2 DEF TypeOK
  <1>4. e \in Event /\ e.kind = "PaymentReceived" /\ e.hash = h /\ e.kind \notin PayKinds
    BY DEF Event, PayKinds
  <1> HIDE DEF e
  <1>5. \A q \in {events', batch', saved'.events} : Queue(q, pays', invoices')
    <2>1. \A q \in {events, batch, saved.events} : Queue(q, pays', invoices')
      <3>1. Advances(pays, pays', invoices, invoices')
        BY <1>2, <1>3 DEF Advances
      <3> QED
        BY <1>1, <3>1, StaysTold DEF Types
    <2>2. Told(e, pays', invoices')
      BY <1>3, <1>4 DEF Told
    <2>3. Queue(Append(events, e), pays', invoices')
      BY <1>4, <2>1, <2>2, AppendedQueue
    <2> QED
      BY <1>2, <2>1, <2>3, Zenon
  <1>6. Types'
    BY <1>1, <1>2, <1>3, <1>5, Zenon DEF Types, TypeOK, Queue
  <1>7. ASSUME Covers(pays, cache, events, batch) PROVE Covers(pays, cache, events', batch)
    <2>1. Ending(events') = Ending(events) /\ Once(events')
      BY <1>1, <1>2, <1>4, <1>7, AppendedEnding DEF Types, Queue, Covers
    <2> QED
      BY <1>7, <2>1 DEF Covers, Open
  <1>8. ClaimedHeld'
    BY <1>1, <1>2, <1>3 DEF IInv, ClaimedHeld, TypeOK
  <1> QED
    BY <1>2, <1>6, <1>7, <1>8 DEF IInv, SucceededWasSent, Covered, ClaimsListed

LEMMA TakeStep == ASSUME IInv, process_pending_events PROVE IInv'
  <1>1. /\ UNCHANGED <<outbound, inbound, cache, storing, pays, invoices, saved, restarts, claimed>>
        /\ batch = <<>> /\ batch' = events /\ events' = <<>>
    BY DEF process_pending_events, ldk
  <1>2. Queue(<<>>, pays, invoices) /\ Ending(<<>>) = {} /\ Once(<<>>)
    BY DEF Queue, Ending, Once
  <1>3. Types'
    BY <1>1, <1>2 DEF IInv, Types, TypeOK
  <1>4. ASSUME Covers(pays, cache, events, <<>>) PROVE Covers(pays, cache, <<>>, events)
    BY <1>2, <1>4 DEF Covers, Open
  <1> QED
    BY <1>1, <1>3, <1>4 DEF IInv, SucceededWasSent, Covered, ClaimsListed, ClaimedHeld

\* The payment whose end is handled is open no more, and its hash, which no
\* other open payment has, may leave the cache.
LEMMA Handled ==
    ASSUME NEW P, NEW I, NEW C, NEW E, NEW B, Queue(E, P, I), Queue(B, P, I), B # <<>>,
           Head(B).kind \in PayKinds, Covers(P, C, E, B)
    PROVE  /\ Covers(P, C \ {P[Head(B).pay].hash}, E, Tail(B))
           /\ Head(B).pay \in Open(P, E, B) \ Open(P, E, Tail(B))
           /\ Open(P, E, Tail(B)) \subseteq Open(P, E, B)
  <1> DEFINE i == Head(B).pay
  <1>1. /\ Ending(Tail(B)) \subseteq Ending(B) /\ Once(Tail(B))
        /\ i \in Ending(B) /\ i \notin Ending(Tail(B))
    BY Taken, Zenon DEF Covers
  <1>2. i \notin Ending(E) /\ P[i].state # "inflight"
    BY <1>1, EndingOver DEF Covers
  <1>3. /\ i \in Open(P, E, B) /\ i \notin Open(P, E, Tail(B))
        /\ Open(P, E, Tail(B)) \subseteq Open(P, E, B)
    BY <1>1, <1>2 DEF Open
  <1> HIDE DEF i
  <1>4. Covers(P, C \ {P[i].hash}, E, Tail(B))
    BY <1>1, <1>3 DEF Covers
  <1> QED
    BY <1>3, <1>4 DEF i

\* What every handler of an event does.
LEMMA Handles ==
    ASSUME IInv, NEW kind, Handling(kind)
    PROVE  /\ batch # <<>> /\ batch' = Tail(batch) /\ Head(batch).kind = kind
           /\ UNCHANGED <<storing, saved, restarts>>
           /\ Head(batch) \in Event /\ Told(Head(batch), pays, invoices)
           /\ Queue(batch', pays, invoices)
           /\ kind \in {"PaymentReceived", "PaymentClaimed"} => Head(batch).hash \in InHashes
           /\ kind \notin PayKinds => Ending(batch') = Ending(batch) /\ (Once(batch) => Once(batch'))
  <1>1. /\ batch # <<>> /\ batch' = Tail(batch) /\ Head(batch).kind = kind
        /\ UNCHANGED <<storing, saved, restarts>> /\ Queue(batch, pays, invoices)
    BY DEF Handling, IInv, Types
  <1>2. /\ Head(batch) \in Event /\ Told(Head(batch), pays, invoices)
        /\ Queue(Tail(batch), pays, invoices)
        /\ Head(batch).kind \notin PayKinds => Ending(Tail(batch)) = Ending(batch)
        /\ Once(batch) => Once(Tail(batch))
    BY <1>1, Taken
  <1>3. Head(batch).kind \in {"PaymentReceived", "PaymentClaimed"} => Head(batch).hash \in InHashes
    BY <1>2 DEF Event
  <1> QED
    BY <1>1, <1>2, <1>3

LEMMA SentStep == ASSUME IInv, PaymentSent PROVE IInv'
  <1> DEFINE i == Head(batch).pay
  <1>1. /\ Handling("PaymentSent") /\ cache' = cache \ {pays[i].hash}
        /\ outbound' = [k \in DOMAIN outbound |->
                          IF k = pays[i].hash THEN "Succeeded" ELSE outbound[k]]
        /\ UNCHANGED <<inbound, pays, invoices, events, claimed>>
    BY DEF PaymentSent, ldk
  <1>2. /\ batch # <<>> /\ batch' = Tail(batch) /\ Head(batch).kind \in PayKinds
        /\ UNCHANGED <<storing, saved, restarts>> /\ Queue(batch', pays, invoices)
        /\ i \in 1 .. Len(pays) /\ pays[i].state = "sent"
    BY <1>1, Handles DEF Told, PayKinds
  <1> HIDE DEF i
  <1>3. DOMAIN outbound' = DOMAIN outbound /\ Range(outbound') \subseteq Range(outbound) \cup {"Succeeded"}
    BY <1>1 DEF Range
  <1>4. Types'
    BY <1>1, <1>2, <1>3, Zenon DEF IInv, Types, TypeOK, HTLCStatus, Queue
  <1>5. SucceededWasSent'
    <2>1. i \in DOMAIN pays
      BY <1>2 DEF IInv, Types, TypeOK
    <2> QED
      BY <1>1, <1>2, <2>1 DEF IInv, SucceededWasSent
  <1>6. Covered'
    BY <1>1, <1>2, Handled DEF IInv, Types, Covered, i
  <1> QED
    BY <1>1, <1>4, <1>5, <1>6 DEF IInv, ClaimsListed, ClaimedHeld

LEMMA FailedStep == ASSUME IInv, PaymentFailed PROVE IInv'
  <1>1. /\ Handling("PaymentFailed") /\ cache' = cache \ {pays[Head(batch).pay].hash}
        /\ UNCHANGED <<outbound, inbound, pays, invoices, events, claimed>>
    BY DEF PaymentFailed, ldk
  <1>2. /\ batch # <<>> /\ batch' = Tail(batch) /\ Head(batch).kind \in PayKinds
        /\ UNCHANGED <<storing, saved, restarts>> /\ Queue(batch', pays, invoices)
    BY <1>1, Handles DEF PayKinds
  <1>3. Types'
    BY <1>1, <1>2 DEF IInv, Types, TypeOK, Queue
  <1>4. Covered'
    BY <1>1, <1>2, Handled DEF IInv, Types, Covered
  <1> QED
    BY <1>1, <1>3, <1>4 DEF IInv, SucceededWasSent, ClaimsListed, ClaimedHeld

\* The payment stays open: its PathFailed event gives way to a PaymentFailed.
LEMMA PathFailedStep == ASSUME IInv, PaymentPathFailed PROVE IInv'
  <1> DEFINE i == Head(batch).pay
             e == [kind |-> "PaymentFailed", pay |-> i]
  <1>1. /\ Handling("PaymentPathFailed") /\ cache' \in {cache, cache \cup {pays[i].hash}}
        /\ events' = Append(events, e)
        /\ UNCHANGED <<outbound, inbound, pays, invoices, claimed>>
    BY DEF PaymentPathFailed, ldk
  <1>2. /\ batch # <<>> /\ batch' = Tail(batch) /\ Head(batch).kind \in PayKinds
        /\ UNCHANGED <<storing, saved, restarts>> /\ Queue(batch', pays, invoices)
        /\ i \in 1 .. Len(pays) /\ pays[i].state # "inflight"
    BY <1>1, Handles DEF Told, PayKinds
  <1>3. pays[i].hash \in OutHashes /\ i \in 1 .. MaxPays
    <2>1. pays \in Seq(Payment) /\ Len(pays) \in Nat /\ Len(pays) <= MaxPays
      BY DEF IInv, Types, TypeOK, Payment
    <2> HIDE DEF i
    <2>2. pays[i] \in Payment
      BY <1>2, <2>1
    <2> QED
      BY <1>2, <2>1, <2>2, PayBounds DEF Payment
  <1>4. e \in Event /\ e.kind \in PayKinds /\ e.pay = i /\ Told(e, pays, invoices)
    BY <1>2, <1>3 DEF Event, PayKinds, Told
  <1> HIDE DEF e
  <1>5. Queue(events, pays, invoices) /\ Queue(events', pays, invoices)
    BY <1>1, <1>4, AppendedQueue DEF IInv, Types
  <1>6. Types'
    BY <1>1, <1>2, <1>3, <1>5, Zenon DEF IInv, Types, TypeOK, Queue
  <1>7. ASSUME Covers(pays, cache, events, batch) PROVE Covers(pays, cache', events', batch')
    <2>1. /\ i \in Open(pays, events, batch) /\ i \notin Open(pays, events, batch')
          /\ Open(pays, events, batch') \subseteq Open(pays, events, batch)
          /\ Once(batch') /\ Once(events) /\ Ending(events) \cap Ending(batch') = {}
      BY <1>2, <1>5, <1>7, Handled, Zenon DEF IInv, Types, Covers
    <2>2. i \notin Ending(events) /\ i \notin Ending(batch')
      BY <2>1 DEF Open
    <2>3. Ending(events') = Ending(events) \cup {i} /\ Once(events')
      BY <1>1, <1>4, <1>5, <2>1, <2>2, AppendedEnding DEF Queue
    <2>4. Open(pays, events', batch') \subseteq Open(pays, events, batch)
      BY <2>1, <2>3 DEF Open
    <2> HIDE DEF i
    <2> QED
      BY <1>1, <1>7, <2>1, <2>2, <2>3, <2>4 DEF Covers
  <1> QED
    BY <1>1, <1>2, <1>6, <1>7 DEF IInv, SucceededWasSent, Covered, ClaimsListed, ClaimedHeld

LEMMA ReceivedStep == ASSUME IInv, PaymentReceived PROVE IInv'
  <1> DEFINE h == Head(batch).hash
             e == [kind |-> "PaymentClaimed", hash |-> h]
  <1>1. /\ Handling("PaymentReceived")
        /\ \/ /\ invoices[h] = "held" /\ invoices' = [invoices EXCEPT ![h] = "claimed"]
              /\ events' = Append(events, e)
           \/ UNCHANGED <<invoices, events>>
        /\ UNCHANGED <<outbound, inbound, cache, pays, claimed>>
    BY DEF PaymentReceived
  <1>2. /\ UNCHANGED <<storing, saved, restarts>> /\ Queue(batch', pays, invoices)
        /\ h \in InHashes
        /\ Ending(batch') = Ending(batch) /\ (Once(batch) => Once(batch'))
    BY <1>1, Handles DEF PayKinds
  <1>3. e \in Event /\ e.kind \notin PayKinds /\ e.kind = "PaymentClaimed" /\ e.hash = h
    BY <1>2 DEF Event, PayKinds
  <1> HIDE DEF e, h
  <1>4. \A q \in {events, batch, saved.events} : Queue(q, pays, invoices)
    BY DEF IInv, Types
  <1>5. CASE UNCHANGED <<invoices, events>>
    <2>1. Types'
      BY <1>1, <1>2, <1>4, <1>5 DEF IInv, Types, TypeOK, Queue
    <2>2. ASSUME Covers(pays, cache, events, batch) PROVE Covers(pays, cache, events, batch')
      BY <1>2, <2>2 DEF Covers, Open
    <2> QED
      BY <1>1, <1>2, <1>5, <2>1, <2>2 DEF IInv, SucceededWasSent, Covered, ClaimsListed, ClaimedHeld
  <1>6. CASE /\ invoices[h] = "held" /\ invoices' = [invoices EXCEPT ![h] = "claimed"]
             /\ events' = Append(events, e)
    <2>1. /\ invoices' \in [InHashes -> {"none", "issued", "held", "claimed"}] /\ invoices'[h] = "claimed"
          /\ \A k \in InHashes \ {h} : invoices'[k] = invoices[k]
          /\ Len(pays) \in Nat
      BY <1>2, <1>6 DEF IInv, Types, TypeOK
    <2>2. Advances(pays, pays, invoices, invoices')
      BY <1>6, <2>1 DEF Advances
    <2>3. \A q \in {events, batch', saved.events} : Queue(q, pays, invoices')
      BY <1>2, <1>4, <2>2, StaysTold
    <2>4. Told(e, pays, invoices')
      BY <1>3, <2>1 DEF Told
    <2>5. Queue(events', pays, invoices')
      BY <1>3, <1>6, <2>3, <2>4, AppendedQueue
    <2>6. Types'
      BY <1>1, <1>2, <2>1, <2>3, <2>5 DEF IInv, Types, TypeOK, Queue
    <2>7. ASSUME Covers(pays, cache, events, batch) PROVE Covers(pays, cache, events', batch')
      <3>1. Ending(events') = Ending(events) /\ Once(events')
        BY <1>3, <1>4, <1>6, <2>7, AppendedEnding DEF Queue, Covers
      <3> QED
        BY <1>2, <2>7, <3>1 DEF Covers, Open
    <2>8. ClaimedHeld'
      BY <1>1, <2>1 DEF IInv, ClaimedHeld, Types, TypeOK
    <2> QED
      BY <1>1, <1>2, <2>6, <2>7, <2>8 DEF IInv, SucceededWasSent, Covered, ClaimsListed
  <1> QED
    BY <1>1, <1>5, <1>6

LEMMA ClaimedStep == ASSUME IInv, PaymentClaimed PROVE IInv'
  <1> DEFINE h == Head(batch).hash
  <1>1. /\ Handling("PaymentClaimed") /\ inbound' = Insert(inbound, h, "Succeeded")
        /\ claimed' = claimed \cup {h}
        /\ UNCHANGED <<outbound, cache, pays, invoices, events>>
    BY DEF PaymentClaimed, ldk
  <1>2. /\ UNCHANGED <<storing, saved, restarts>> /\ Queue(batch', pays, invoices)
        /\ h \in InHashes /\ invoices[h] = "claimed"
        /\ Ending(batch') = Ending(batch) /\ (Once(batch) => Once(batch'))
    BY <1>1, Handles DEF PayKinds, Told
  <1> HIDE DEF h
  <1>3. /\ DOMAIN inbound' = DOMAIN inbound \cup {h} /\ inbound'[h] = "Succeeded"
        /\ \A k \in DOMAIN inbound \ {h} : inbound'[k] = inbound[k]
        /\ Range(inbound') \subseteq Range(inbound) \cup {"Succeeded"}
    BY <1>1 DEF Insert, Range
  <1>4. Types'
    BY <1>1, <1>2, <1>3 DEF IInv, Types, TypeOK, HTLCStatus, Queue
  <1>5. ASSUME Covers(pays, cache, events, batch) PROVE Covers(pays, cache, events, batch')
    BY <1>2, <1>5 DEF Covers, Open
  <1>6. ClaimsListed' /\ ClaimedHeld'
    BY <1>1, <1>2, <1>3 DEF IInv, ClaimsListed, ClaimedHeld
  <1> QED
    BY <1>1, <1>2, <1>4, <1>5, <1>6 DEF IInv, SucceededWasSent, Covered

LEMMA PersistStep == ASSUME IInv, persist_manager PROVE IInv'
  <1>1. /\ saved' = [ldk |-> ldk, events |-> events]
        /\ UNCHANGED <<outbound, inbound, cache, storing, pays, invoices, events, batch, restarts,
                       claimed>>
    BY DEF persist_manager, ldk
  <1>2. saved'.events = events /\ saved' = [ldk |-> saved'.ldk, events |-> saved'.events]
    BY <1>1
  <1>3. Types'
    BY <1>1, <1>2 DEF IInv, Types, TypeOK
  <1> QED
    BY <1>1, <1>3 DEF IInv, SucceededWasSent, Covered, ClaimsListed, ClaimedHeld

LEMMA RestartStep == ASSUME IInv, Restart PROVE IInv'
  <1>1. /\ restarts' = restarts + 1 /\ outbound' = <<>> /\ inbound' = <<>> /\ cache' = {}
        /\ storing' = <<>> /\ events' = saved.events /\ batch' = <<>> /\ claimed' = {}
        /\ UNCHANGED <<pays, invoices, saved>>
    BY DEF Restart, ldk
  <1>2. Queue(<<>>, pays, invoices)
    BY DEF Queue
  <1>3. DOMAIN outbound' = {} /\ DOMAIN inbound' = {} /\ Range(outbound') = {} /\ Range(inbound') = {}
    BY <1>1 DEF Range
  <1>4. Types'
    BY <1>1, <1>2, <1>3 DEF IInv, Types, TypeOK, Queue
  <1>5. restarts' # 0
    BY <1>1 DEF IInv, Types
  <1> QED
    BY <1>1, <1>3, <1>4, <1>5 DEF IInv, SucceededWasSent, Covered, ClaimsListed, ClaimedHeld

LEMMA StutterStep == ASSUME IInv, UNCHANGED vars PROVE IInv'
  <1>1. Types'
    BY DEF IInv, Types, TypeOK, vars
  <1> QED
    BY <1>1 DEF IInv, SucceededWasSent, Covered, ClaimsListed, ClaimedHeld, vars

LEMMA Steps == IInv /\ [Next]_vars => IInv'
  <1> SUFFICES ASSUME IInv, [Next]_vars PROVE IInv'
    OBVIOUS
  <1>1. CASE Commands
    BY <1>1, PayStep, StoreStep, InvoiceStep DEF Commands
  <1>2. CASE Peers
    <2>1. ASSUME NEW i \in DOMAIN pays, Settle(i, "sent", "PaymentSent") PROVE IInv'
      BY <2>1, SettleStep
    <2>2. ASSUME NEW i \in DOMAIN pays, Settle(i, "failed", "PaymentPathFailed") PROVE IInv'
      BY <2>2, SettleStep
    <2> QED
      BY <1>2, <2>1, <2>2, ArriveStep DEF Peers
  <1>3. CASE Background
    BY <1>3, TakeStep, SentStep, PathFailedStep, FailedStep, ReceivedStep, ClaimedStep DEF Background
  <1> QED
    BY <1>1, <1>2, <1>3, PersistStep, RestartStep, StutterStep DEF Next

LEMMA Holds == Spec => []IInv
  BY Begins, Steps, PTL DEF Spec

-----------------------------------------------------------------------------
\* The maps that main.rs and cli.rs keep, the payment_cache and the queues of
\* events hold only hashes and statuses of their kind, however commands, events
\* and restarts interleave.
THEOREM PaymentsTyped == Spec => []TypeOK
  <1>1. IInv => TypeOK
    BY DEF IInv, Types
  <1> QED
    BY <1>1, Holds, PTL

\* Whatever the order of commands, events and restarts, a hash that the map
\* outbound_payments (cli.rs, main.rs) lists as succeeded belongs to a payment
\* that was sent.
THEOREM SucceededAlwaysSent == Spec => []SucceededWasSent
  <1>1. IInv => SucceededWasSent
    BY DEF IInv
  <1> QED
    BY <1>1, Holds, PTL

\* Until the first restart no invoice has two payments in flight: the
\* InvoicePayer's payment_cache covers each from before it leaves until its
\* last event is handled.
THEOREM NeverTwoInFlight == Spec => []OneInFlight
  <1>1. IInv => OneInFlight
    <2> SUFFICES ASSUME IInv, restarts = 0 PROVE OneInFlight
      BY DEF OneInFlight
    <2>1. DOMAIN pays = 1 .. Len(pays)
      BY DEF IInv, Types, TypeOK
    <2>2. \A i, j \in Open(pays, events, batch) : pays[i].hash = pays[j].hash => i = j
      BY DEF IInv, Covered, Covers
    <2> QED
      BY <2>1, <2>2 DEF OneInFlight, Open
  <1> QED
    BY <1>1, Holds, PTL

\* Every PaymentClaimed event handled since the start leaves its hash listed
\* as succeeded in inbound_payments, also if its invoice is older than that.
THEOREM ClaimsAlwaysListed == Spec => []ClaimsListed
  <1>1. IInv => ClaimsListed
    BY DEF IInv
  <1> QED
    BY <1>1, Holds, PTL
=============================================================================
