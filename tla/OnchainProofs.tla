--------------------------- MODULE OnchainProofs ---------------------------
(***************************************************************************)
(* Proofs about a channel on chain, for any channel, any delays, chains of *)
(* any length and any blocks.                                              *)
(***************************************************************************)
EXTENDS Onchain, SequenceTheorems, WellFoundedInduction, TLAPS

-----------------------------------------------------------------------------
(* Induction: a set of naturals has a least element.                        *)

LEMMA Least ==
    ASSUME NEW T \in SUBSET Nat, T # {}
    PROVE  \E n \in T : \A k \in T : n <= k
  <1>1. \E x \in T : \A y \in T : ~(<<y, x>> \in OpToRel(<, Nat))
    BY NatLessThanWellFounded, WFMin, Zenon
  <1>2. \A x, y \in T : <<y, x>> \notin OpToRel(<, Nat) => x <= y
    BY DEF OpToRel
  <1> QED
    BY <1>1, <1>2, Zenon

-----------------------------------------------------------------------------
(* The claims never touch what the monitor tells the channel manager.       *)

Fields == {"preimages", "on_chain", "awaiting", "events", "spendable", "resolved", "confirmed",
           "outpoints", "requests", "locktimed", "claims", "sent", "panicked"}

\* What we broadcast: our commitment, or a claim that does not look like one.
Ours(txs) == \A tx \in txs : tx = Commit("holder") \/ (tx.as = "ours" /\ tx.spends # <<Funding>>)

IsMon(m) == DOMAIN m = Fields /\ Ours(m.sent)

\* n differs from m at most in the claims.
Same(m, n) ==
  /\ IsMon(n)
  /\ n.preimages = m.preimages /\ n.on_chain = m.on_chain /\ n.awaiting = m.awaiting
  /\ n.events = m.events /\ n.spendable = m.spendable /\ n.resolved = m.resolved
  /\ n.confirmed = m.confirmed

LEMMA ClaimTxOurs == ASSUME NEW outs PROVE Ours({ClaimTx(outs)})
  BY DEF Ours, ClaimTx, Claim

LEMMA RegisterSame ==
    ASSUME NEW m, IsMon(m), NEW packages, NEW conf PROVE Same(m, Register(m, packages, conf))
  BY ClaimTxOurs DEF Register, Same, IsMon, Ours, Fields

LEMMA SameTrans ==
    ASSUME NEW m, NEW n, NEW o, Same(m, n), Same(n, o) PROVE Same(m, o)
  BY DEF Same

LEMMA SameRefl == ASSUME NEW m, IsMon(m) PROVE Same(m, m)
  BY DEF Same

LEMMA TakeSame ==
    ASSUME NEW m, IsMon(m), NEW reqs, NEW conf, NEW cur
    PROVE  Same(m, take_requests(m, reqs, conf, cur))
  <1>1. ASSUME NEW L PROVE Same(m, [m EXCEPT !.locktimed = L]) /\ IsMon([m EXCEPT !.locktimed = L])
    BY DEF Same, IsMon, Fields
  <1>2. ASSUME NEW L, NEW P PROVE Same(m, Register([m EXCEPT !.locktimed = L], P, conf))
    BY <1>1, RegisterSame, SameTrans, Zenon
  <1> QED
    BY <1>2 DEF take_requests

LEMMA SpendSame ==
    ASSUME NEW m, IsMon(m), NEW r, NEW tx, NEW conf PROVE Same(m, spend_request(m, r, tx, conf))
  <1>1. ASSUME NEW C PROVE Same(m, [m EXCEPT !.claims = C])
    BY DEF Same, IsMon, Fields
  <1>2. ASSUME NEW q, NEW S, NEW C, Ours(S)
        PROVE  Same(m, [m EXCEPT !.requests[r] = q, !.sent = S, !.claims = C])
    BY <1>2 DEF Same, IsMon, Fields
  <1>3. ASSUME NEW rest PROVE Ours(m.sent \cup (IF rest = <<>> THEN {} ELSE {ClaimTx(rest)}))
    BY ClaimTxOurs DEF IsMon, Ours
  <1> QED
    BY <1>1, <1>2, <1>3, SameRefl, Zenon DEF spend_request

LEMMA ConfirmedSame ==
    ASSUME NEW m, IsMon(m), NEW tx, NEW conf PROVE Same(m, claims_tx_confirmed(m, tx, conf))
  <1>1. Same(m, [m EXCEPT !.panicked = TRUE])
    BY DEF Same, IsMon, Fields
  <1> QED
    BY <1>1, SpendSame, SameRefl, Zenon DEF claims_tx_confirmed

LEMMA MatureSame == ASSUME NEW m, IsMon(m), NEW cur PROVE Same(m, claims_mature(m, cur))
  <1>1. ASSUME NEW C, NEW R, NEW O
        PROVE  Same(m, [m EXCEPT !.claims = C, !.requests = R, !.outpoints = O])
    BY DEF Same, IsMon, Fields
  <1> QED
    BY <1>1, Zenon DEF claims_mature

LEMMA MergeSame == ASSUME NEW m, IsMon(m), NEW back PROVE Same(m, merge_package(m, back))
  <1>1. ASSUME NEW f, NEW R PROVE Ours(m.sent \cup {ClaimTx(f[r]) : r \in R})
    BY ClaimTxOurs DEF IsMon, Ours
  <1> DEFINE Of(r) == {out \in back \cap DOMAIN m.outpoints : m.outpoints[out].req = r}
             met == {r \in DOMAIN m.requests : Of(r) # {}}
             merged == [r \in DOMAIN m.requests |-> m.requests[r] \o SetToSeq(Of(r))]
             sent == m.sent \cup {ClaimTx(merged[r]) : r \in met}
             panicked == m.panicked \/ \E r \in met : m.requests[r] = <<>>
  <1>2. merge_package(m, back) = [m EXCEPT !.requests = merged, !.sent = sent, !.panicked = panicked]
    BY Zenon DEF merge_package
  <1>3. Ours(sent)
    BY <1>1, Zenon
  <1> HIDE DEF merged, sent, panicked
  <1> QED
    BY <1>2, <1>3, Zenon DEF Same, IsMon, Fields

LEMMA DisconnectedSame ==
    ASSUME NEW m, IsMon(m), NEW height PROVE Same(m, claims_disconnected(m, height))
  <1>1. ASSUME NEW C PROVE Same(m, [m EXCEPT !.claims = C]) /\ IsMon([m EXCEPT !.claims = C])
    BY Zenon DEF Same, IsMon, Fields
  <1>2. ASSUME NEW C, NEW B PROVE Same(m, merge_package([m EXCEPT !.claims = C], B))
    BY <1>1, MergeSame, SameTrans, Zenon
  <1> DEFINE undone == {e \in m.claims : e.height >= height}
             back == {e.out : e \in {f \in undone : f.kind = "ContentiousOutpoint"}}
             n == merge_package([m EXCEPT !.claims = m.claims \ undone], back)
             gone == {out \in DOMAIN n.outpoints : n.outpoints[out].conf >= height}
             R == Restrict(n.requests, DOMAIN n.requests \ {n.outpoints[o].req : o \in gone})
             O == Restrict(n.outpoints, DOMAIN n.outpoints \ gone)
  <1>3. claims_disconnected(m, height) = [n EXCEPT !.requests = R, !.outpoints = O]
    BY Zenon DEF claims_disconnected
  <1>4. Same(m, n)
    BY <1>2
  <1> HIDE DEF n, R, O
  <1> QED
    BY <1>3, <1>4 DEF Same, IsMon, Fields

\* The recursive function of spend_requests.
SpendRun(f, n, m, txs, conf) ==
  f = [i \in 0 .. n |-> IF i = 0 THEN m ELSE claims_tx_confirmed(f[i - 1], txs[i], conf)]

LEMMA SpendRuns ==
    ASSUME NEW m, NEW txs, NEW conf, NEW n \in Nat
    PROVE  \E f : SpendRun(f, n, m, txs, conf)
  <1> DEFINE Ok(k) == \E f : SpendRun(f, k, m, txs, conf)
             Bad == {k \in Nat : ~Ok(k)}
  <1> SUFFICES ASSUME Bad # {} PROVE FALSE
    OBVIOUS
  <1> HIDE DEF Ok
  <1>1. PICK k \in Bad : \A j \in Bad : k <= j
    BY Least, Zenon
  <1>2. Ok(0)
    <2> DEFINE f == [i \in 0 .. 0 |-> m]
    <2>1. SpendRun(f, 0, m, txs, conf)
      BY DEF SpendRun
    <2> QED
      BY <2>1, Zenon DEF Ok
  <1>3. k \in Nat \ {0} /\ k - 1 \in Nat /\ k - 1 \notin Bad
    BY <1>1, <1>2
  <1>4. PICK f : SpendRun(f, k - 1, m, txs, conf)
    BY <1>3, Zenon DEF Ok
  <1> DEFINE g == [i \in 0 .. k |-> IF i < k THEN f[i] ELSE claims_tx_confirmed(f[k - 1], txs[k], conf)]
  <1>5. \A i \in 0 .. k : g[i] = IF i = 0 THEN m ELSE claims_tx_confirmed(g[i - 1], txs[i], conf)
    <2> SUFFICES ASSUME NEW i \in 0 .. k
                 PROVE  g[i] = IF i = 0 THEN m ELSE claims_tx_confirmed(g[i - 1], txs[i], conf)
      OBVIOUS
    <2>1. CASE i = k
      <3>1. g[i - 1] = f[k - 1] /\ g[i] = claims_tx_confirmed(f[k - 1], txs[k], conf)
        BY <1>3, <2>1
      <3> QED
        BY <1>3, <2>1, <3>1, Zenon
    <2>2. CASE i # k
      <3>1. i \in 0 .. k - 1 /\ g[i] = f[i] /\ (i # 0 => i - 1 \in 0 .. k - 1 /\ g[i - 1] = f[i - 1])
        BY <1>3, <2>2
      <3> QED
        BY <1>4, <3>1 DEF SpendRun
    <2> QED
      BY <2>1, <2>2
  <1>6. SpendRun(g, k, m, txs, conf)
    <2> DEFINE r == [i \in 0 .. k |-> IF i = 0 THEN m ELSE claims_tx_confirmed(g[i - 1], txs[i], conf)]
    <2>1. g = r
      BY <1>5
    <2> QED
      BY <2>1 DEF SpendRun
  <1> HIDE DEF g
  <1> QED
    BY <1>1, <1>6 DEF Ok

LEMMA SpendRequestsSame ==
    ASSUME NEW m, IsMon(m), NEW txs, NEW conf, Len(txs) \in Nat
    PROVE  Same(m, spend_requests(m, txs, conf))
  <1> DEFINE n == Len(txs)
             f[i \in 0 .. Len(txs)] == IF i = 0 THEN m ELSE claims_tx_confirmed(f[i - 1], txs[i], conf)
  <1>1. SpendRun(f, n, m, txs, conf)
    BY SpendRuns DEF SpendRun
  <1>2. spend_requests(m, txs, conf) = f[n]
    BY DEF spend_requests
  <1> HIDE DEF f, n
  <1> DEFINE Bad == {i \in 0 .. n : ~Same(m, f[i])}
  <1> SUFFICES ASSUME Bad # {} PROVE FALSE
    BY <1>2 DEF n
  <1>3. n \in Nat /\ Bad \in SUBSET Nat
    BY DEF n
  <1>4. PICK k \in Bad : \A j \in Bad : k <= j
    BY <1>3, Least, Zenon
  <1>5. f[0] = m /\ \A i \in 1 .. n : f[i] = claims_tx_confirmed(f[i - 1], txs[i], conf)
    BY <1>1, <1>3 DEF SpendRun
  <1>6. k \in 1 .. n /\ k - 1 \in 0 .. n /\ k - 1 \notin Bad
    BY <1>3, <1>4, <1>5, SameRefl
  <1>7. Same(m, f[k - 1])
    BY <1>6
  <1>8. Same(m, f[k])
    BY <1>5, <1>6, <1>7, ConfirmedSame, SameTrans DEF Same
  <1> QED
    BY <1>4, <1>8

LEMMA UpdateSame ==
    ASSUME NEW m, IsMon(m), NEW txs, NEW reqs, NEW conf, NEW cur, Len(txs) \in Nat
    PROVE  Same(m, update_claims_view(m, txs, reqs, conf, cur))
  <1>1. Same(m, take_requests(m, reqs, conf, cur))
    BY TakeSame
  <1>2. Same(m, spend_requests(take_requests(m, reqs, conf, cur), txs, conf))
    BY <1>1, SpendRequestsSame, SameTrans DEF Same
  <1> QED
    BY <1>2, MatureSame, SameTrans DEF Same, update_claims_view

-----------------------------------------------------------------------------
(* The chain.  X is a set of transactions with their heights, D the channel. *)

\* The transaction tx settles that the counterparty cannot claim HTLC h.
Excludes(D, tx, h) ==
  \/ tx.as = "ours" /\ \E o \in Range(tx.spends) \ {Funding} : o[2] = h
  \/ \E c \in Sides : tx = Commit(c) /\ h \notin D.outputs[c]

\* It calls for a failure of h upstream.
Loses(D, tx, h) ==
  \/ tx.as = "ours" /\ \E o \in Range(tx.spends) \ {Funding} : o[2] = h
  \/ tx.spends = <<Funding>> /\ h \notin D.outputs[tx.as] /\ \E d \in D.unrevoked : h \in D.listed[d]

\* It is the counterparty's claim of h.
Takes(tx, h) == tx.as = "theirs" /\ \E o \in Range(tx.spends) \ {Funding} : o[2] = h

\* No output is spent twice, outputs exist and are spent after they are made,
\* and only commitments spend the funding output alone.
Sound(D, X) ==
  /\ \A x \in X : x[1] \in Nat
  /\ \A x, y \in X : x # y => Range(x[2].spends) \cap Range(y[2].spends) = {}
  /\ \A x \in X : \A o \in Range(x[2].spends) \ {Funding} :
       /\ o = <<o[1], o[2]>> /\ o[2] \in D.outputs[o[1]]
       /\ \E y \in X : y[2] = Commit(o[1]) /\ y[1] <= x[1]
  /\ \A x \in X : x[2].spends = <<Funding>> => \E c \in Sides : x[2] = Commit(c)

LEMMA CommitIs ==
    ASSUME NEW c, NEW d
    PROVE  /\ Commit(c).as = c /\ Commit(c).spends = <<Funding>> /\ Funding \in Range(Commit(c).spends)
           /\ Commit(c) = Commit(d) => c = d
  BY DEF Commit, Range

LEMMA OneCommitment ==
    ASSUME NEW D, NEW X, Sound(D, X), NEW x \in X, NEW y \in X, NEW c, NEW d,
           x[2] = Commit(c), y[2] = Commit(d)
    PROVE  c = d
  BY CommitIs DEF Sound

\* An HTLC that the chain denies the counterparty is not claimed in it.
LEMMA Conflict ==
    ASSUME NEW D, NEW X, Sound(D, X), NEW x \in X, NEW y \in X, NEW h,
           Excludes(D, x[2], h), Takes(y[2], h)
    PROVE  FALSE
  <1>1. PICK o \in Range(y[2].spends) \ {Funding} : o[2] = h /\ y[2].as = "theirs"
    BY DEF Takes
  <1>2. o = <<o[1], o[2]>> /\ o[2] \in D.outputs[o[1]] /\ \E z \in X : z[2] = Commit(o[1])
    BY <1>1, Zenon DEF Sound
  <1>3. CASE x[2].as = "ours" /\ \E p \in Range(x[2].spends) \ {Funding} : p[2] = h
    <2>1. PICK p \in Range(x[2].spends) \ {Funding} : p[2] = h
      BY <1>3, Zenon
    <2>2. p = <<p[1], p[2]>> /\ \E z \in X : z[2] = Commit(p[1])
      BY <2>1, Zenon DEF Sound
    <2>3. p[1] = o[1]
      BY <1>2, <2>2, OneCommitment
    <2>4. p = o
      BY <1>1, <1>2, <2>1, <2>2, <2>3, Zenon
    <2>5. x # y
      BY <1>1, <1>3
    <2> QED
      BY <1>1, <2>1, <2>4, <2>5 DEF Sound
  <1>4. ASSUME NEW c \in Sides, x[2] = Commit(c), h \notin D.outputs[c] PROVE FALSE
    BY <1>1, <1>2, <1>4, OneCommitment
  <1> QED
    BY <1>3, <1>4 DEF Excludes

\* A valid transaction on top of a sound chain.
LEMMA SoundMore ==
    ASSUME NEW X, Sound(deal, X), NEW H \in Nat, \A x \in X : x[1] <= H, NEW tx, Exists(tx),
           Valid(tx, {x[2] : x \in X}, H),
           tx.spends = <<Funding>> => \E c \in Sides : tx = Commit(c)
    PROVE  Sound(deal, X \cup {<<H, tx>>})
  <1> DEFINE z == <<H, tx>>
  <1>1. z[1] = H /\ z[2] = tx
    OBVIOUS
  <1> HIDE DEF z
  <1>2. \A x \in X \cup {z} : x[1] \in Nat
    BY <1>1 DEF Sound
  <1>3. \A x \in X : Range(x[2].spends) \cap Range(tx.spends) = {}
    BY DEF Valid, Spends
  <1>4. \A x, y \in X \cup {z} : x # y => Range(x[2].spends) \cap Range(y[2].spends) = {}
    BY <1>1, <1>3, Zenon DEF Sound
  <1>5. ASSUME NEW o \in Range(tx.spends) \ {Funding}
        PROVE  /\ o = <<o[1], o[2]>> /\ o[2] \in deal.outputs[o[1]]
               /\ \E y \in X : y[2] = Commit(o[1]) /\ y[1] <= H
    <2>1. PICK c \in Sides : o \in {c} \X deal.outputs[c]
      BY <1>5, Zenon DEF Exists
    <2>2. \E y \in X : y[2] = Commit(o[1])
      BY <1>5, Zenon DEF Valid
    <2> QED
      BY <2>1, <2>2
  <1>6. \A x \in X \cup {z} : \A o \in Range(x[2].spends) \ {Funding} :
          /\ o = <<o[1], o[2]>> /\ o[2] \in deal.outputs[o[1]]
          /\ \E y \in X \cup {z} : y[2] = Commit(o[1]) /\ y[1] <= x[1]
    BY <1>1, <1>5, Zenon DEF Sound
  <1>7. \A x \in X \cup {z} : x[2].spends = <<Funding>> => \E c \in Sides : x[2] = Commit(c)
    BY <1>1, Zenon DEF Sound
  <1>8. Sound(deal, X \cup {z})
    BY <1>2, <1>4, <1>6, <1>7, Zenon DEF Sound
  <1> QED
    BY <1>8 DEF z

LEMMA SoundLess ==
    ASSUME NEW D, NEW X, Sound(D, X), NEW H \in Nat
    PROVE  Sound(D, {x \in X : x[1] < H})
  <1> DEFINE Y == {x \in X : x[1] < H}
  <1>1. Y \subseteq X /\ \A x \in X : x[1] \in Nat
    BY DEF Sound
  <1>2. ASSUME NEW x \in Y, NEW o \in Range(x[2].spends) \ {Funding}
        PROVE  /\ o = <<o[1], o[2]>> /\ o[2] \in D.outputs[o[1]]
               /\ \E y \in Y : y[2] = Commit(o[1]) /\ y[1] <= x[1]
    <2>1. o = <<o[1], o[2]>> /\ o[2] \in D.outputs[o[1]]
      BY <1>1, <1>2 DEF Sound
    <2>2. PICK y \in X : y[2] = Commit(o[1]) /\ y[1] <= x[1]
      BY <1>1, <1>2 DEF Sound
    <2>3. y \in Y
      BY <1>1, <2>2
    <2> QED
      BY <2>1, <2>2, <2>3, Zenon
  <1> HIDE DEF Y
  <1>3. Sound(D, Y)
    BY <1>1, <1>2, Zenon DEF Sound
  <1> QED
    BY <1>3, Zenon DEF Y

-----------------------------------------------------------------------------
(* What the monitor keeps of the chain.  T is what was collected, n the     *)
(* greatest height there was.                                               *)

\* tx is in a block that stays.
Final(X, n, tx) == \E i \in Nat : <<i, tx>> \in X /\ i + ANTI_REORG_DELAY - 1 <= n

\* An event under way stands for a transaction of the chain.
Stands(D, X, W) ==
  \A e \in W : /\ <<e.height, e.tx>> \in X
               /\ e.kind = "HTLCUpdate" => e.h \in Outbound /\ Excludes(D, e.tx, e.h)

\* What was reported as final is final.
Settled(D, X, m, T, n) ==
  /\ \A h : <<h, "fail">> \in T \cup m.events => \E tx : Final(X, n, tx) /\ Excludes(D, tx, h)
  /\ \A tx \in m.confirmed \cup m.spendable \cup {r[1] : r \in m.resolved} : Final(X, n, tx)

\* The counterparty's claims were reported.
Heard(X, R) == \A x \in X, h \in Outbound : Takes(x[2], h) => <<h, "claim">> \in R

\* A failure of HTLC h waits since height i.
Waits(W, i, h) == \E e \in W : e.kind = "HTLCUpdate" /\ e.height = i /\ e.h = h

\* Lost HTLCs have failed or will.
Noted(D, X, W, R) ==
  \A x \in X, h \in Outbound : Loses(D, x[2], h) => <<h, "fail">> \in R \/ Waits(W, x[1], h)

Tracks(D, X, m, T, n) ==
  /\ m.events \subseteq Outbound \X {"claim", "fail"} /\ m.on_chain \subseteq Sides
  /\ Stands(D, X, m.awaiting)
  /\ Settled(D, X, m, T, n)
  /\ Heard(X, T \cup m.events)
  /\ Noted(D, X, m.awaiting, T \cup m.events)

LEMMA TracksSame ==
    ASSUME NEW D, NEW X, NEW m, NEW k, NEW T, NEW n, Tracks(D, X, m, T, n), Same(m, k)
    PROVE  Tracks(D, X, k, T, n)
  BY Zenon DEF Tracks, Same, Settled

\* From W to V the events of transaction tx at height H come in, and a failure
\* under way goes only for another one of the same height and HTLC.
Grows(W, V, H, tx) ==
  /\ \A e \in V : e \in W \/ (/\ e.height = H /\ e.tx = tx
                              /\ e.kind = "HTLCUpdate" => e.h \in Outbound /\ Excludes(deal, tx, e.h))
  /\ \A i, h : Waits(W, i, h) => Waits(V, i, h)

LEMMA GrowsTrans ==
    ASSUME NEW U, NEW W, NEW V, NEW H, NEW tx, Grows(U, W, H, tx), Grows(W, V, H, tx)
    PROVE  Grows(U, V, H, tx)
  BY DEF Grows

LEMMA EntryIs ==
    ASSUME NEW kind, NEW height, NEW tx, NEW h
    PROVE  /\ Entry(kind, height, tx, h).kind = kind /\ Entry(kind, height, tx, h).height = height
           /\ Entry(kind, height, tx, h).tx = tx /\ Entry(kind, height, tx, h).h = h
  BY DEF Entry

\* Failures of the HTLCs in `lost` replace those of the same height; more comes in.
Replacing(W, H, tx, lost, more) ==
  {e \in W : ~(e.kind = "HTLCUpdate" /\ e.height = H /\ e.h \in lost)}
    \cup {Entry("HTLCUpdate", H, tx, h) : h \in lost} \cup more

LEMMA ReplacingGrows ==
    ASSUME NEW W, NEW H, NEW tx, NEW lost \in SUBSET Outbound, NEW more,
           \A h \in lost : Excludes(deal, tx, h),
           \A e \in more : e.kind # "HTLCUpdate" /\ e.height = H /\ e.tx = tx
    PROVE  /\ Grows(W, Replacing(W, H, tx, lost, more), H, tx)
           /\ \A h \in lost : Waits(Replacing(W, H, tx, lost, more), H, h)
  <1> DEFINE V == Replacing(W, H, tx, lost, more)
  <1>1. \A h \in lost : Waits(V, H, h)
    BY EntryIs DEF Waits, Replacing
  <1>2. ASSUME NEW i, NEW h, Waits(W, i, h) PROVE Waits(V, i, h)
    <2>1. PICK e \in W : e.kind = "HTLCUpdate" /\ e.height = i /\ e.h = h
      BY <1>2 DEF Waits
    <2>2. CASE i = H /\ h \in lost
      BY <1>1, <2>2, Zenon
    <2>3. CASE ~(i = H /\ h \in lost)
      BY <2>1, <2>3 DEF Waits, Replacing
    <2> QED
      BY <2>2, <2>3
  <1>3. ASSUME NEW e \in V, e \notin W
        PROVE  /\ e.height = H /\ e.tx = tx
               /\ e.kind = "HTLCUpdate" => e.h \in Outbound /\ Excludes(deal, tx, e.h)
    <2>1. CASE e \in more
      BY <2>1
    <2>2. CASE e \in {Entry("HTLCUpdate", H, tx, h) : h \in lost}
      BY <2>2, EntryIs
    <2> QED
      BY <1>3, <2>1, <2>2 DEF Replacing
  <1> QED
    BY <1>1, <1>2, <1>3 DEF Grows

-----------------------------------------------------------------------------
(* One transaction of a block.                                              *)

LEMMA FailStep ==
    ASSUME NEW m, IsMon(m), NEW H, NEW c \in Sides
    PROVE  LET k == fail_unbroadcast_htlcs(m, c, H) IN
           /\ IsMon(k) /\ k.sent = m.sent /\ k.events = m.events /\ k.confirmed = m.confirmed
           /\ k.spendable = m.spendable /\ k.resolved = m.resolved /\ k.preimages = m.preimages
           /\ k.on_chain = m.on_chain
           /\ Grows(m.awaiting, k.awaiting, H, Commit(c))
           /\ \A h \in Outbound \ deal.outputs[c] :
                (\E d \in deal.unrevoked : h \in deal.listed[d]) => Waits(k.awaiting, H, h)
  <1> DEFINE lost == {h \in Outbound \ deal.outputs[c] : \E d \in deal.unrevoked : h \in deal.listed[d]}
             V == Replacing(m.awaiting, H, Commit(c), lost, {})
             k == fail_unbroadcast_htlcs(m, c, H)
  <1>1. k = [m EXCEPT !.awaiting = V]
    BY DEF fail_unbroadcast_htlcs, Replacing
  <1>2. lost \in SUBSET Outbound /\ \A h \in lost : Excludes(deal, Commit(c), h)
    BY DEF Excludes
  <1>3. \A h \in Outbound \ deal.outputs[c] : (\E d \in deal.unrevoked : h \in deal.listed[d]) => h \in lost
    OBVIOUS
  <1> HIDE DEF lost, k
  <1>4. Grows(m.awaiting, V, H, Commit(c)) /\ \A h \in lost : Waits(V, H, h)
    BY <1>2, ReplacingGrows
  <1> HIDE DEF V
  <1>5. /\ IsMon(k) /\ k.sent = m.sent /\ k.events = m.events /\ k.confirmed = m.confirmed
        /\ k.spendable = m.spendable /\ k.resolved = m.resolved /\ k.preimages = m.preimages
        /\ k.on_chain = m.on_chain /\ k.awaiting = V
    BY <1>1 DEF IsMon, Fields
  <1> QED
    BY <1>3, <1>4, <1>5 DEF k

LEMMA FundingStep ==
    ASSUME NEW m, IsMon(m), NEW H, NEW c \in Sides
    PROVE  LET k == funding_spent(m, Commit(c), H) IN
           /\ IsMon(k) /\ k.sent = m.sent /\ k.events = m.events /\ k.confirmed = m.confirmed
           /\ k.spendable = m.spendable /\ k.resolved = m.resolved /\ k.preimages = m.preimages
           /\ k.on_chain = m.on_chain \cup {c}
           /\ Grows(m.awaiting, k.awaiting, H, Commit(c))
           /\ \A h \in Outbound \ deal.outputs[c] :
                (\E d \in deal.unrevoked : h \in deal.listed[d]) => Waits(k.awaiting, H, h)
  <1> DEFINE e == Entry("FundingSpendConfirmation", H, Commit(c), "none")
             i == [m EXCEPT !.on_chain = m.on_chain \cup {c}]
             j == fail_unbroadcast_htlcs(i, c, H)
             k == funding_spent(m, Commit(c), H)
  <1>1. k = [j EXCEPT !.awaiting = j.awaiting \cup {e}]
    <2> DEFINE tx == Commit(c)
    <2>1. tx.as = c
      BY CommitIs
    <2> HIDE DEF tx
    <2>2. funding_spent(m, tx, H)
            = [(IF tx.as \in Theirs THEN check_spend_counterparty_transaction(m, tx.as, H)
                ELSE check_spend_holder_transaction(m, H))
               EXCEPT !.awaiting = @ \cup {Entry("FundingSpendConfirmation", H, tx, "none")}]
      BY Zenon DEF funding_spent
    <2>3. CASE c \in Theirs
      BY <2>1, <2>2, <2>3, Zenon DEF check_spend_counterparty_transaction, tx
    <2>4. CASE c = "holder"
      BY <2>1, <2>2, <2>4 DEF check_spend_holder_transaction, Theirs, tx
    <2> QED
      BY <2>3, <2>4 DEF Sides
  <1>2. /\ IsMon(i) /\ i.sent = m.sent /\ i.events = m.events /\ i.confirmed = m.confirmed
        /\ i.spendable = m.spendable /\ i.resolved = m.resolved /\ i.preimages = m.preimages
        /\ i.on_chain = m.on_chain \cup {c} /\ i.awaiting = m.awaiting
    BY DEF IsMon, Fields
  <1>3. e.kind # "HTLCUpdate" /\ e.height = H /\ e.tx = Commit(c)
    BY EntryIs
  <1> HIDE DEF e, i, k
  <1>4. /\ IsMon(j) /\ j.sent = i.sent /\ j.events = i.events /\ j.confirmed = i.confirmed
        /\ j.spendable = i.spendable /\ j.resolved = i.resolved /\ j.preimages = i.preimages
        /\ j.on_chain = i.on_chain
        /\ Grows(i.awaiting, j.awaiting, H, Commit(c))
        /\ \A h \in Outbound \ deal.outputs[c] :
             (\E d \in deal.unrevoked : h \in deal.listed[d]) => Waits(j.awaiting, H, h)
    BY <1>2, FailStep, Zenon
  <1> HIDE DEF j
  <1>5. /\ IsMon(k) /\ k.sent = j.sent /\ k.events = j.events /\ k.confirmed = j.confirmed
        /\ k.spendable = j.spendable /\ k.resolved = j.resolved /\ k.preimages = j.preimages
        /\ k.on_chain = j.on_chain /\ k.awaiting = j.awaiting \cup {e}
    BY <1>1, <1>4, Zenon DEF IsMon, Fields
  <1>6. Grows(j.awaiting, j.awaiting \cup {e}, H, Commit(c))
    BY <1>3, Zenon DEF Grows, Waits
  <1>7. Grows(m.awaiting, k.awaiting, H, Commit(c))
    BY <1>2, <1>4, <1>5, <1>6, GrowsTrans
  <1>8. \A h : Waits(j.awaiting, H, h) => Waits(k.awaiting, H, h)
    BY <1>5, Zenon DEF Waits
  <1> QED
    BY <1>2, <1>4, <1>5, <1>7, <1>8, Zenon DEF k

LEMMA ResolvingStep ==
    ASSUME NEW m, IsMon(m), NEW H, NEW tx
    PROVE  LET k == is_resolving_htlc_output(m, tx, H) IN
           /\ IsMon(k) /\ k.sent = m.sent /\ k.confirmed = m.confirmed
           /\ k.spendable = m.spendable /\ k.resolved = m.resolved /\ k.preimages = m.preimages
           /\ k.on_chain = m.on_chain
           /\ Grows(m.awaiting, k.awaiting, H, tx)
           /\ \A h \in Outbound :
                /\ tx.as = "ours" /\ (\E o \in Range(tx.spends) \ {Funding} : o[2] = h)
                     => Waits(k.awaiting, H, h)
                /\ Takes(tx, h) => <<h, "claim">> \in k.events \/ \E e \in m.events : e[1] = h
           /\ m.events \subseteq k.events
           /\ k.events \subseteq m.events \cup (Outbound \X {"claim"})
  <1> DEFINE hs == {out[2] : out \in Range(tx.spends) \ {Funding}}
             claimed == {h \in hs \cap Outbound : tx.as = "theirs" /\ ~\E e \in m.events : e[1] = h}
             timedOut == {h \in hs \cap Outbound : tx.as = "ours"}
             more == {Entry("HTLCSpendConfirmation", H, tx, h) : h \in claimed \cup (hs \ Outbound)}
             V == Replacing(m.awaiting, H, tx, timedOut, more)
             E == m.events \cup {<<h, "claim">> : h \in claimed}
             k == is_resolving_htlc_output(m, tx, H)
  <1>1. k = [m EXCEPT !.awaiting = V, !.events = E]
    BY DEF is_resolving_htlc_output, Replacing
  <1>2. timedOut \in SUBSET Outbound /\ \A h \in timedOut : Excludes(deal, tx, h)
    BY DEF Excludes
  <1>3. \A e \in more : e.kind # "HTLCUpdate" /\ e.height = H /\ e.tx = tx
    BY EntryIs
  <1>4. \A h \in Outbound :
          /\ tx.as = "ours" /\ (\E o \in Range(tx.spends) \ {Funding} : o[2] = h) => h \in timedOut
          /\ Takes(tx, h) => <<h, "claim">> \in E \/ \E e \in m.events : e[1] = h
    BY DEF Takes
  <1>5. m.events \subseteq E /\ E \subseteq m.events \cup (Outbound \X {"claim"})
    OBVIOUS
  <1> HIDE DEF timedOut, more, E, k
  <1>6. Grows(m.awaiting, V, H, tx) /\ \A h \in timedOut : Waits(V, H, h)
    BY <1>2, <1>3, ReplacingGrows, Zenon
  <1> HIDE DEF V
  <1>7. /\ IsMon(k) /\ k.sent = m.sent /\ k.confirmed = m.confirmed
        /\ k.spendable = m.spendable /\ k.resolved = m.resolved /\ k.preimages = m.preimages
        /\ k.on_chain = m.on_chain /\ k.awaiting = V /\ k.events = E
    BY <1>1, Zenon DEF IsMon, Fields
  <1> QED
    BY <1>4, <1>5, <1>6, <1>7, Zenon DEF k

LEMMA PayingStep ==
    ASSUME NEW m, IsMon(m), NEW H, NEW tx
    PROVE  LET k == is_paying_spendable_output(m, tx, H) IN
           /\ IsMon(k) /\ k.sent = m.sent /\ k.confirmed = m.confirmed /\ k.events = m.events
           /\ k.spendable = m.spendable /\ k.resolved = m.resolved /\ k.preimages = m.preimages
           /\ k.on_chain = m.on_chain
           /\ Grows(m.awaiting, k.awaiting, H, tx)
  <1> DEFINE more == IF tx.as = "theirs" THEN {} ELSE {Entry("MaturingOutput", H, tx, "none")}
             V == m.awaiting \cup more
             k == is_paying_spendable_output(m, tx, H)
  <1>1. k = [m EXCEPT !.awaiting = V]
    BY Zenon DEF is_paying_spendable_output
  <1>2. \A e \in more : e.kind # "HTLCUpdate" /\ e.height = H /\ e.tx = tx
    BY EntryIs
  <1> HIDE DEF more
  <1>3. Grows(m.awaiting, V, H, tx)
    BY <1>2, Zenon DEF Grows, Waits
  <1> HIDE DEF V, k
  <1>4. /\ IsMon(k) /\ k.sent = m.sent /\ k.confirmed = m.confirmed /\ k.events = m.events
        /\ k.spendable = m.spendable /\ k.resolved = m.resolved /\ k.preimages = m.preimages
        /\ k.on_chain = m.on_chain /\ k.awaiting = V
    BY <1>1 DEF IsMon, Fields
  <1> QED
    BY <1>3, <1>4 DEF k

LEMMA TxStep ==
    ASSUME NEW m, IsMon(m), NEW X, NEW H \in Nat, NEW tx, NEW T, NEW n,
           Sound(deal, X \cup {<<H, tx>>}), Tracks(deal, X, m, T, n)
    PROVE  LET k == tx_confirmed(m, tx, H) IN
           /\ IsMon(k) /\ k.sent = m.sent /\ k.preimages = m.preimages
           /\ Tracks(deal, X \cup {<<H, tx>>}, k, T, n)
  <1> DEFINE z == <<H, tx>>
             Y == X \cup {z}
             i == IF tx.spends = <<Funding>> THEN funding_spent(m, tx, H) ELSE m
             j == is_resolving_htlc_output(i, tx, H)
             k == is_paying_spendable_output(j, tx, H)
  <1>1. k = tx_confirmed(m, tx, H) /\ z[1] = H /\ z[2] = tx /\ z \in Y
    BY DEF tx_confirmed
  <1>2. /\ IsMon(i) /\ i.sent = m.sent /\ i.events = m.events /\ i.confirmed = m.confirmed
        /\ i.spendable = m.spendable /\ i.resolved = m.resolved /\ i.preimages = m.preimages
        /\ i.on_chain \subseteq m.on_chain \cup Sides
        /\ Grows(m.awaiting, i.awaiting, H, tx)
        /\ tx.spends = <<Funding>> => \A h \in Outbound \ deal.outputs[tx.as] :
             (\E d \in deal.unrevoked : h \in deal.listed[d]) => Waits(i.awaiting, H, h)
    <2>1. CASE tx.spends = <<Funding>>
      <3>1. PICK c \in Sides : tx = Commit(c)
        BY <2>1, <1>1, Zenon DEF Sound
      <3>2. tx.as = c /\ i = funding_spent(m, Commit(c), H)
        BY <2>1, <3>1, CommitIs, Zenon
      <3> HIDE DEF i
      <3> QED
        BY <3>1, <3>2, FundingStep
    <2>2. CASE tx.spends # <<Funding>>
      BY <2>2, Zenon DEF Grows
    <2> QED
      BY <2>1, <2>2, Zenon
  <1> HIDE DEF i
  <1>3. /\ IsMon(j) /\ j.sent = i.sent /\ j.confirmed = i.confirmed
        /\ j.spendable = i.spendable /\ j.resolved = i.resolved /\ j.preimages = i.preimages
        /\ j.on_chain = i.on_chain
        /\ Grows(i.awaiting, j.awaiting, H, tx)
        /\ \A h \in Outbound :
             /\ tx.as = "ours" /\ (\E o \in Range(tx.spends) \ {Funding} : o[2] = h)
                  => Waits(j.awaiting, H, h)
             /\ Takes(tx, h) => <<h, "claim">> \in j.events \/ \E e \in i.events : e[1] = h
        /\ i.events \subseteq j.events
        /\ j.events \subseteq i.events \cup (Outbound \X {"claim"})
    BY <1>2, ResolvingStep, Zenon
  <1> HIDE DEF j
  <1>4. /\ IsMon(k) /\ k.sent = j.sent /\ k.confirmed = j.confirmed /\ k.events = j.events
        /\ k.spendable = j.spendable /\ k.resolved = j.resolved /\ k.preimages = j.preimages
        /\ k.on_chain = j.on_chain
        /\ Grows(j.awaiting, k.awaiting, H, tx)
    BY <1>3, PayingStep, Zenon
  <1> HIDE DEF k, z
  <1>5. Grows(m.awaiting, k.awaiting, H, tx)
    BY <1>2, <1>3, <1>4, GrowsTrans, Zenon
  <1>6. ASSUME NEW h \in Outbound, Loses(deal, tx, h) PROVE Waits(k.awaiting, H, h)
    <2>1. CASE tx.as = "ours" /\ \E o \in Range(tx.spends) \ {Funding} : o[2] = h
      BY <2>1, <1>3, <1>4, Zenon DEF Grows
    <2>2. CASE /\ tx.spends = <<Funding>> /\ h \notin deal.outputs[tx.as]
               /\ \E d \in deal.unrevoked : h \in deal.listed[d]
      BY <2>2, <1>2, <1>3, <1>4 DEF Grows
    <2> QED
      BY <1>6, <2>1, <2>2 DEF Loses
  <1>7. Stands(deal, Y, k.awaiting)
    <2> SUFFICES ASSUME NEW e \in k.awaiting
                 PROVE  /\ <<e.height, e.tx>> \in Y
                        /\ e.kind = "HTLCUpdate" => e.h \in Outbound /\ Excludes(deal, e.tx, e.h)
      BY DEF Stands
    <2>1. CASE e \in m.awaiting
      BY <2>1 DEF Tracks, Stands
    <2>2. CASE /\ e.height = H /\ e.tx = tx
               /\ e.kind = "HTLCUpdate" => e.h \in Outbound /\ Excludes(deal, tx, e.h)
      BY <2>2 DEF z
    <2> QED
      BY <1>5, <2>1, <2>2 DEF Grows
  <1>8. \A h : <<h, "fail">> \in T \cup k.events => <<h, "fail">> \in T \cup m.events
    BY <1>2, <1>3, <1>4
  <1>9. \A t : Final(X, n, t) => Final(Y, n, t)
    BY DEF Final
  <1>10. Settled(deal, Y, k, T, n)
    <2>1. Settled(deal, X, m, T, n)
      BY DEF Tracks
    <2> QED
      BY <1>2, <1>3, <1>4, <1>8, <1>9, <2>1, Zenon DEF Settled
  <1>11. Heard(Y, T \cup k.events)
    <2> SUFFICES ASSUME NEW x \in Y, NEW h \in Outbound, Takes(x[2], h)
                 PROVE  <<h, "claim">> \in T \cup k.events
      BY DEF Heard
    <2>1. CASE x \in X
      BY <2>1, <1>2, <1>3, <1>4, Zenon DEF Tracks, Heard
    <2>2. CASE x = z
      <3> SUFFICES ASSUME NEW e \in m.events, e[1] = h PROVE <<h, "claim">> \in T \cup k.events
        BY <1>1, <1>2, <1>3, <1>4, <2>2
      <3>1. e = <<h, "claim">> \/ e = <<h, "fail">>
        BY DEF Tracks
      <3>2. ASSUME e = <<h, "fail">> PROVE FALSE
        <4>1. PICK t : Final(X, n, t) /\ Excludes(deal, t, h)
          BY <3>2 DEF Tracks, Settled
        <4>2. PICK q \in Nat : <<q, t>> \in Y
          BY <4>1 DEF Final
        <4> DEFINE y == <<q, t>>
        <4>3. y \in Y /\ y[2] = t
          BY <4>2
        <4> HIDE DEF y
        <4>4. Sound(deal, Y)
          BY DEF z
        <4> HIDE DEF Y
        <4> QED
          BY <4>1, <4>3, <4>4, Conflict
      <3> QED
        BY <1>2, <1>3, <1>4, <3>1, <3>2, Zenon
    <2> QED
      BY <2>1, <2>2
  <1>12. Noted(deal, Y, k.awaiting, T \cup k.events)
    <2> SUFFICES ASSUME NEW x \in Y, NEW h \in Outbound, Loses(deal, x[2], h)
                 PROVE  <<h, "fail">> \in T \cup k.events \/ Waits(k.awaiting, x[1], h)
      BY DEF Noted
    <2>1. CASE x \in X
      <3>1. <<h, "fail">> \in T \cup m.events \/ Waits(m.awaiting, x[1], h)
        BY <2>1, Zenon DEF Tracks, Noted
      <3> QED
        BY <1>2, <1>3, <1>4, <1>5, <3>1, Zenon DEF Grows
    <2>2. CASE x = z
      BY <1>1, <1>6, <2>2
    <2> QED
      BY <2>1, <2>2, Zenon
  <1>13. k.events \subseteq Outbound \X {"claim", "fail"} /\ k.on_chain \subseteq Sides
    BY <1>2, <1>3, <1>4 DEF Tracks
  <1>14. Tracks(deal, Y, k, T, n)
    BY <1>7, <1>10, <1>11, <1>12, <1>13, Zenon DEF Tracks
  <1> QED
    BY <1>1, <1>2, <1>3, <1>4, <1>14, Zenon DEF z

-----------------------------------------------------------------------------
(* A block.                                                                 *)

LEMMA BlockTxs ==
    ASSUME Ours(mon.sent), deal.unrevoked \subseteq Theirs, NEW b \in Blocks
    PROVE  /\ Len(b) \in Nat /\ DOMAIN b = 1 .. Len(b)
           /\ \A i \in 1 .. Len(b) :
                /\ Exists(b[i])
                /\ Valid(b[i], {e[2] : e \in Confirmed(chain)} \cup {b[j] : j \in 1 .. i - 1}, Height + 1)
                /\ b[i].spends = <<Funding>> => \E c \in Sides : b[i] = Commit(c)
  <1> DEFINE txs == {tx \in mon.sent \cup TheirTxs : Exists(tx)}
  <1>1. PICK n \in 0 .. MaxTxs : b \in [1 .. n -> txs]
    BY DEF Blocks
  <1>2. \A i \in DOMAIN b :
          Valid(b[i], {e[2] : e \in Confirmed(chain)} \cup {b[j] : j \in 1 .. i - 1}, Height + 1)
    BY DEF Blocks
  <1>3. n \in Nat
    BY DelayAssumption
  <1>4. \A tx \in txs : Exists(tx) /\ (tx.spends = <<Funding>> => \E c \in Sides : tx = Commit(c))
    <2> SUFFICES ASSUME NEW tx \in txs, tx.spends = <<Funding>> PROVE \E c \in Sides : tx = Commit(c)
      OBVIOUS
    <2>1. CASE tx \in mon.sent
      BY <2>1 DEF Ours, Sides
    <2>2. CASE tx \in {Commit(c) : c \in deal.unrevoked}
      BY <2>2, Zenon DEF Sides
    <2>3. ASSUME NEW c \in {"holder"} \cup deal.unrevoked, NEW h, tx = Claim("theirs", <<<<c, h>>>>)
          PROVE  FALSE
      <3>1. c # "funding"
        BY DEF Theirs
      <3>2. tx.spends = <<<<c, h>>>>
        BY <2>3 DEF Claim
      <3> QED
        BY <3>1, <3>2 DEF Funding
    <2>4. \/ tx \in mon.sent \/ tx \in {Commit(c) : c \in deal.unrevoked}
          \/ \E c \in {"holder"} \cup deal.unrevoked, h \in Htlcs : tx = Claim("theirs", <<<<c, h>>>>)
      BY DEF TheirTxs
    <2> HIDE DEF txs
    <2> QED
      BY <2>1, <2>2, <2>3, <2>4, Zenon
  <1> HIDE DEF txs
  <1>5. b \in Seq(txs) /\ Len(b) = n
    BY <1>1, <1>3
  <1>6. \A i \in 1 .. n : b[i] \in txs
    BY <1>1, Zenon
  <1> QED
    BY <1>1, <1>2, <1>3, <1>4, <1>5, <1>6, Zenon

\* The recursive function of transactions_confirmed.
TxRun(f, n, m, txs, H) ==
  f = [i \in 0 .. n |-> IF i = 0 THEN m ELSE tx_confirmed(f[i - 1], txs[i], H)]

LEMMA TxRuns ==
    ASSUME NEW m, NEW txs, NEW H, NEW n \in Nat
    PROVE  \E f : TxRun(f, n, m, txs, H)
  <1> DEFINE Ok(k) == \E f : TxRun(f, k, m, txs, H)
             Bad == {k \in Nat : ~Ok(k)}
  <1> SUFFICES ASSUME Bad # {} PROVE FALSE
    OBVIOUS
  <1> HIDE DEF Ok
  <1>1. PICK k \in Bad : \A j \in Bad : k <= j
    BY Least, Zenon
  <1>2. Ok(0)
    <2> DEFINE f == [i \in 0 .. 0 |-> m]
    <2>1. TxRun(f, 0, m, txs, H)
      BY DEF TxRun
    <2> QED
      BY <2>1, Zenon DEF Ok
  <1>3. k \in Nat \ {0} /\ k - 1 \in Nat /\ k - 1 \notin Bad
    BY <1>1, <1>2
  <1>4. PICK f : TxRun(f, k - 1, m, txs, H)
    BY <1>3, Zenon DEF Ok
  <1> DEFINE g == [i \in 0 .. k |-> IF i < k THEN f[i] ELSE tx_confirmed(f[k - 1], txs[k], H)]
  <1>5. \A i \in 0 .. k : g[i] = IF i = 0 THEN m ELSE tx_confirmed(g[i - 1], txs[i], H)
    <2> SUFFICES ASSUME NEW i \in 0 .. k
                 PROVE  g[i] = IF i = 0 THEN m ELSE tx_confirmed(g[i - 1], txs[i], H)
      OBVIOUS
    <2>1. CASE i = k
      <3>1. g[i - 1] = f[k - 1] /\ g[i] = tx_confirmed(f[k - 1], txs[k], H)
        BY <1>3, <2>1
      <3> QED
        BY <1>3, <2>1, <3>1, Zenon
    <2>2. CASE i # k
      <3>1. i \in 0 .. k - 1 /\ g[i] = f[i] /\ (i # 0 => i - 1 \in 0 .. k - 1 /\ g[i - 1] = f[i - 1])
        BY <1>3, <2>2
      <3> QED
        BY <1>4, <3>1, Zenon DEF TxRun
    <2> QED
      BY <2>1, <2>2, Zenon
  <1>6. TxRun(g, k, m, txs, H)
    <2> DEFINE r == [i \in 0 .. k |-> IF i = 0 THEN m ELSE tx_confirmed(g[i - 1], txs[i], H)]
    <2>1. g = r
      BY <1>5
    <2> QED
      BY <2>1, Zenon DEF TxRun
  <1> HIDE DEF g
  <1> QED
    BY <1>1, <1>6, Zenon DEF Ok

\* The chain with the first i transactions of a block at height H.
Upto(X, H, b, i) == X \cup {<<H, b[j]>> : j \in 1 .. i}

LEMMA TransactionsConfirmed ==
    ASSUME NEW X, X = Confirmed(chain), NEW H \in Nat, H = Height + 1, \A x \in X : x[1] <= H,
           IsMon(mon), deal.unrevoked \subseteq Theirs, NEW b \in Blocks, NEW T, NEW t,
           Sound(deal, X), Tracks(deal, X, mon, T, t)
    PROVE  LET k == transactions_confirmed(mon, b, H)
               Y == Upto(X, H, b, Len(b))
           IN  IsMon(k) /\ k.preimages = mon.preimages /\ Sound(deal, Y) /\ Tracks(deal, Y, k, T, t)
  <1> DEFINE n == Len(b)
             f[i \in 0 .. Len(b)] == IF i = 0 THEN mon ELSE tx_confirmed(f[i - 1], b[i], H)
             Ok(i) == /\ IsMon(f[i]) /\ f[i].preimages = mon.preimages
                      /\ Sound(deal, Upto(X, H, b, i)) /\ Tracks(deal, Upto(X, H, b, i), f[i], T, t)
             Bad == {i \in 0 .. n : ~Ok(i)}
  <1>1. /\ n \in Nat
        /\ \A i \in 1 .. n :
             /\ Exists(b[i])
             /\ Valid(b[i], {x[2] : x \in X} \cup {b[j] : j \in 1 .. i - 1}, H)
             /\ b[i].spends = <<Funding>> => \E c \in Sides : b[i] = Commit(c)
    BY BlockTxs, Zenon DEF IsMon
  <1>2. TxRun(f, n, mon, b, H)
    BY <1>1, TxRuns DEF TxRun
  <1>3. transactions_confirmed(mon, b, H) = f[n]
    BY DEF transactions_confirmed
  <1> HIDE DEF f, n
  <1>4. f[0] = mon /\ \A i \in 1 .. n : f[i] = tx_confirmed(f[i - 1], b[i], H)
    BY <1>1, <1>2 DEF TxRun
  <1> SUFFICES ASSUME Bad # {} PROVE FALSE
    BY <1>1, <1>3 DEF n
  <1>5. Upto(X, H, b, 0) = X
    BY DEF Upto
  <1>6. Ok(0)
    BY <1>4, <1>5
  <1> HIDE DEF Ok
  <1>7. PICK k \in Bad : \A j \in Bad : k <= j
    <2>1. Bad \in SUBSET Nat
      BY <1>1
    <2> HIDE DEF Bad
    <2> QED
      BY <2>1, Least
  <1>8. k \in 1 .. n /\ k - 1 \in 0 .. n /\ k - 1 \notin Bad
    BY <1>1, <1>7, <1>6
  <1>9. Ok(k - 1)
    BY <1>8, Zenon
  <1> DEFINE Z == Upto(X, H, b, k - 1)
  <1>10. Upto(X, H, b, k) = Z \cup {<<H, b[k]>>}
    BY <1>1, <1>8 DEF Upto
  <1>11. {x[2] : x \in Z} = {x[2] : x \in X} \cup {b[j] : j \in 1 .. k - 1}
    <2>1. ASSUME NEW x \in Z PROVE x[2] \in {y[2] : y \in X} \cup {b[j] : j \in 1 .. k - 1}
      BY DEF Upto
    <2>2. ASSUME NEW j \in 1 .. k - 1 PROVE b[j] \in {x[2] : x \in Z}
      <3>1. <<H, b[j]>> \in Z /\ <<H, b[j]>>[2] = b[j]
        BY DEF Upto
      <3> HIDE DEF Z
      <3> QED
        BY <3>1
    <2>3. X \subseteq Z
      BY DEF Upto
    <2> HIDE DEF Z
    <2> QED
      BY <2>1, <2>2, <2>3
  <1>12. \A x \in Z : x[1] <= H
    BY DEF Upto
  <1> HIDE DEF Z
  <1>13. Sound(deal, Z) /\ IsMon(f[k - 1]) /\ f[k - 1].preimages = mon.preimages
         /\ Tracks(deal, Z, f[k - 1], T, t)
    BY <1>9, Zenon DEF Ok, Z
  <1>14. Sound(deal, Z \cup {<<H, b[k]>>})
    BY <1>1, <1>8, <1>11, <1>12, <1>13, SoundMore, Zenon
  <1>15. Ok(k)
    <2>1. /\ IsMon(tx_confirmed(f[k - 1], b[k], H))
          /\ tx_confirmed(f[k - 1], b[k], H).preimages = f[k - 1].preimages
          /\ Tracks(deal, Z \cup {<<H, b[k]>>}, tx_confirmed(f[k - 1], b[k], H), T, t)
      BY <1>13, <1>14, TxStep
    <2> QED
      BY <1>4, <1>8, <1>10, <1>13, <1>14, <2>1, Zenon DEF Ok
  <1> QED
    BY <1>7, <1>15

-----------------------------------------------------------------------------
(* Events with enough confirmations, and the steps.                         *)

\* A failure under way lacks confirmations.
Waiting(W, H) == \A e \in W : e.kind = "HTLCUpdate" => H < e.height + ANTI_REORG_DELAY - 1

LEMMA EventsMature ==
    ASSUME NEW m, IsMon(m), NEW X, Sound(deal, X), NEW H \in Nat, NEW T, NEW t \in Nat, NEW n \in Nat,
           t <= n, H <= n, Tracks(deal, X, m, T, t)
    PROVE  LET k == events_mature(m, H) IN
           /\ IsMon(k) /\ k.preimages = m.preimages
           /\ Tracks(deal, X, k, T, n) /\ Waiting(k.awaiting, H)
  <1> DEFINE ripe == {e \in m.awaiting : H >= confirmation_threshold(e)}
             Of(kind) == {e \in ripe : e.kind = kind}
             V == m.awaiting \ ripe
             E == m.events \cup {<<e.h, "fail">> : e \in Of("HTLCUpdate")}
             S == m.spendable \cup {e.tx : e \in Of("MaturingOutput")}
             R == m.resolved \cup {<<e.tx, e.h>> : e \in Of("HTLCSpendConfirmation")}
                    \cup {<<e.tx, e.h>> : e \in {f \in Of("HTLCUpdate") : f.tx.as = "ours"}}
             C == m.confirmed \cup {e.tx : e \in Of("FundingSpendConfirmation")}
             k == events_mature(m, H)
  <1>1. k = [m EXCEPT !.awaiting = V, !.events = E, !.spendable = S, !.resolved = R, !.confirmed = C]
    BY DEF events_mature
  <1>2. \A e \in m.awaiting : /\ e.height \in Nat /\ <<e.height, e.tx>> \in X
                              /\ e.kind = "HTLCUpdate" => e.h \in Outbound /\ Excludes(deal, e.tx, e.h)
    BY Zenon DEF Tracks, Stands, Sound
  <1>3. \A e \in ripe : e.height + ANTI_REORG_DELAY - 1 <= n
    <2> SUFFICES ASSUME NEW e \in ripe PROVE e.height + ANTI_REORG_DELAY - 1 <= n
      OBVIOUS
    <2>1. e \in m.awaiting /\ e.height \in Nat /\ H >= confirmation_threshold(e)
      BY <1>2, Zenon
    <2>2. ASSUME NEW d \in Nat, d >= ANTI_REORG_DELAY, confirmation_threshold(e) = e.height - 1 + d
          PROVE  e.height + ANTI_REORG_DELAY - 1 <= n
      BY <2>1, <2>2, DelayAssumption
    <2> QED
      BY <2>2, DelayAssumption DEF confirmation_threshold
  <1>4. Waiting(V, H)
    <2> SUFFICES ASSUME NEW e \in V, e.kind = "HTLCUpdate" PROVE H < e.height + ANTI_REORG_DELAY - 1
      BY DEF Waiting
    <2>1. e \in m.awaiting /\ e.height \in Nat /\ ~(H >= confirmation_threshold(e))
      BY <1>2, Zenon
    <2>2. confirmation_threshold(e) = e.height - 1 + ANTI_REORG_DELAY
      BY DEF confirmation_threshold
    <2> QED
      BY <2>1, <2>2, DelayAssumption
  <1>5. \A i, h : Waits(m.awaiting, i, h) => Waits(V, i, h) \/ <<h, "fail">> \in E
    <2> SUFFICES ASSUME NEW e \in m.awaiting, e.kind = "HTLCUpdate"
                 PROVE  e \in V \/ <<e.h, "fail">> \in E
      BY DEF Waits
    <2> QED
      OBVIOUS
  <1>6. ripe \subseteq m.awaiting
    OBVIOUS
  <1>7. \A tx \in C \cup S \cup {r[1] : r \in R} :
          \/ tx \in m.confirmed \cup m.spendable \cup {r[1] : r \in m.resolved}
          \/ \E e \in ripe : tx = e.tx
    OBVIOUS
  <1>8. \A h : <<h, "fail">> \in T \cup E =>
          <<h, "fail">> \in T \cup m.events \/ \E e \in ripe : e.kind = "HTLCUpdate" /\ h = e.h
    OBVIOUS
  <1>9. V \subseteq m.awaiting /\ m.events \subseteq E
    OBVIOUS
  <1>10. \A x \in E : x \in m.events \/ \E e \in ripe : e.kind = "HTLCUpdate" /\ x = <<e.h, "fail">>
    OBVIOUS
  <1> HIDE DEF ripe, V, E, S, R, C, k
  <1>11. /\ IsMon(k) /\ k.preimages = m.preimages /\ k.on_chain = m.on_chain /\ k.awaiting = V
         /\ k.events = E /\ k.spendable = S /\ k.resolved = R /\ k.confirmed = C
    BY <1>1 DEF IsMon, Fields
  <1>12. \A e \in ripe : Final(X, n, e.tx)
    BY <1>2, <1>3, <1>6, Zenon DEF Final
  <1>13. \A tx : Final(X, t, tx) => Final(X, n, tx)
    BY DelayAssumption DEF Final
  <1>14. Settled(deal, X, k, T, n)
    <2>1. \A tx \in C \cup S \cup {r[1] : r \in R} : Final(X, n, tx)
      BY <1>7, <1>12, <1>13 DEF Tracks, Settled
    <2>2. ASSUME NEW h, <<h, "fail">> \in T \cup E PROVE \E tx : Final(X, n, tx) /\ Excludes(deal, tx, h)
      <3>1. CASE <<h, "fail">> \in T \cup m.events
        BY <1>13, <3>1 DEF Tracks, Settled
      <3>2. CASE \E e \in ripe : e.kind = "HTLCUpdate" /\ h = e.h
        BY <1>2, <1>6, <1>12, <3>2, Zenon
      <3> QED
        BY <1>8, <2>2, <3>1, <3>2
    <2> QED
      BY <1>11, <2>1, <2>2 DEF Settled
  <1>15. Stands(deal, X, V)
    BY <1>9, Zenon DEF Tracks, Stands
  <1>16. Heard(X, T \cup E)
    BY <1>9, Zenon DEF Tracks, Heard
  <1>17. Noted(deal, X, V, T \cup E)
    BY <1>5, <1>9, Zenon DEF Tracks, Noted
  <1>18. E \subseteq Outbound \X {"claim", "fail"} /\ m.on_chain \subseteq Sides
    <2>1. ASSUME NEW x \in E PROVE x \in Outbound \X {"claim", "fail"}
      <3>1. CASE x \in m.events
        BY <3>1 DEF Tracks
      <3>2. CASE \E e \in ripe : e.kind = "HTLCUpdate" /\ x = <<e.h, "fail">>
        <4>1. PICK e \in ripe : e.kind = "HTLCUpdate" /\ x = <<e.h, "fail">>
          BY <3>2, Zenon
        <4>2. e.h \in Outbound
          BY <1>2, <1>6, <4>1, Zenon
        <4> QED
          BY <4>1, <4>2
      <3> QED
        BY <1>10, <2>1, <3>1, <3>2
    <2> QED
      BY <2>1 DEF Tracks
  <1>19. Tracks(deal, X, k, T, n)
    BY <1>11, <1>14, <1>15, <1>16, <1>17, <1>18, Zenon DEF Tracks
  <1> QED
    BY <1>4, <1>11, <1>19, Zenon DEF k

IsChain(C) == C \in Seq(Range(C))

LEMMA Heights ==
    ASSUME NEW C, IsChain(C)
    PROVE  /\ Len(C) \in Nat /\ DOMAIN C = 1 .. Len(C)
           /\ \A x \in Confirmed(C) : x[1] \in 1 .. Len(C)
  <1>1. Len(C) \in Nat /\ DOMAIN C = 1 .. Len(C)
    BY DEF IsChain
  <1>2. \A x \in Confirmed(C) : x[1] \in DOMAIN C
    BY DEF Confirmed
  <1> QED
    BY <1>1, <1>2

LEMMA Connected ==
    ASSUME NEW C, IsChain(C), NEW b, Len(b) \in Nat, DOMAIN b = 1 .. Len(b)
    PROVE  /\ IsChain(Append(C, b)) /\ Len(Append(C, b)) = Len(C) + 1
           /\ Confirmed(Append(C, b)) = Upto(Confirmed(C), Len(C) + 1, b, Len(b))
  <1> DEFINE S == Range(C) \cup {b}
             A == Append(C, b)
             n == Len(C)
  <1>1. n \in Nat /\ DOMAIN C = 1 .. n
    BY Heights, Zenon
  <1>2. C \in Seq(S)
    BY DEF IsChain
  <1>3. A \in Seq(S) /\ Len(A) = n + 1 /\ A[n + 1] = b /\ \A i \in 1 .. n : A[i] = C[i]
    BY <1>2
  <1>4. DOMAIN A = 1 .. n + 1
    BY <1>3
  <1> HIDE DEF A, n, S
  <1>5. IsChain(A)
    <2>1. A \in [1 .. n + 1 -> Range(A)]
      BY <1>3, <1>4 DEF Range
    <2> QED
      BY <1>1, <2>1 DEF IsChain
  <1>6. Confirmed(A) = Upto(Confirmed(C), n + 1, b, Len(b))
    <2>1. ASSUME NEW i \in DOMAIN A, NEW j \in DOMAIN A[i]
          PROVE  <<i, A[i][j]>> \in Upto(Confirmed(C), n + 1, b, Len(b))
      <3>1. CASE i = n + 1
        BY <1>3, <2>1, <3>1 DEF Upto
      <3>2. CASE i \in 1 .. n
        BY <1>1, <1>3, <2>1, <3>2 DEF Upto, Confirmed
      <3> QED
        BY <1>1, <1>4, <2>1, <3>1, <3>2
    <2>2. ASSUME NEW i \in DOMAIN C, NEW j \in DOMAIN C[i] PROVE <<i, C[i][j]>> \in Confirmed(A)
      <3>1. i \in DOMAIN A /\ A[i] = C[i]
        BY <1>1, <1>3, <1>4, <2>2
      <3> QED
        BY <2>2, <3>1 DEF Confirmed
    <2>3. ASSUME NEW j \in 1 .. Len(b) PROVE <<n + 1, b[j]>> \in Confirmed(A)
      <3>1. n + 1 \in DOMAIN A /\ A[n + 1] = b
        BY <1>1, <1>3, <1>4
      <3> QED
        BY <2>3, <3>1 DEF Confirmed
    <2>4. Confirmed(A) \subseteq Upto(Confirmed(C), n + 1, b, Len(b))
      BY <2>1 DEF Confirmed
    <2>5. Confirmed(C) \subseteq Confirmed(A)
      <3> SUFFICES ASSUME NEW x \in Confirmed(C) PROVE x \in Confirmed(A)
        OBVIOUS
      <3>1. PICK i \in DOMAIN C : \E j \in DOMAIN C[i] : x = <<i, C[i][j]>>
        BY DEF Confirmed
      <3> QED
        BY <2>2, <3>1
    <2> QED
      BY <2>3, <2>4, <2>5, Zenon DEF Upto
  <1> QED
    BY <1>3, <1>5, <1>6, Zenon DEF A, n

LEMMA Disconnected ==
    ASSUME NEW C, IsChain(C), Len(C) > 0
    PROVE  /\ IsChain(Front(C)) /\ Len(Front(C)) = Len(C) - 1
           /\ Confirmed(Front(C)) = {x \in Confirmed(C) : x[1] < Len(C)}
  <1> DEFINE A == Front(C)
             n == Len(C)
  <1>1. n \in Nat \ {0} /\ DOMAIN C = 1 .. n
    BY Heights
  <1>2. /\ Len(A) = n - 1 /\ DOMAIN A = 1 .. n - 1 /\ (\A i \in 1 .. n - 1 : A[i] = C[i])
        /\ A \in Seq(Range(C))
    BY <1>1 DEF Front, IsChain
  <1> HIDE DEF A, n
  <1>3. IsChain(A)
    <2>1. A \in [1 .. n - 1 -> Range(A)] /\ n - 1 \in Nat
      BY <1>1, <1>2 DEF Range
    <2> QED
      BY <2>1 DEF IsChain
  <1>4. Confirmed(A) = {x \in Confirmed(C) : x[1] < n}
    <2>1. ASSUME NEW i \in DOMAIN A, NEW j \in DOMAIN A[i]
          PROVE  <<i, A[i][j]>> \in {x \in Confirmed(C) : x[1] < n}
      <3>1. i \in DOMAIN C /\ A[i] = C[i] /\ i < n
        BY <1>1, <1>2, <2>1
      <3> QED
        BY <2>1, <3>1 DEF Confirmed
    <2>2. ASSUME NEW x \in Confirmed(C), x[1] < n PROVE x \in Confirmed(A)
      <3>1. PICK i \in DOMAIN C : \E j \in DOMAIN C[i] : x = <<i, C[i][j]>>
        BY <2>2, Zenon DEF Confirmed
      <3>2. i \in DOMAIN A /\ A[i] = C[i]
        BY <1>1, <1>2, <2>2, <3>1
      <3> QED
        BY <3>1, <3>2 DEF Confirmed
    <2>3. Confirmed(A) \subseteq {x \in Confirmed(C) : x[1] < n}
      <3> SUFFICES ASSUME NEW x \in Confirmed(A) PROVE x \in {y \in Confirmed(C) : y[1] < n}
        OBVIOUS
      <3>1. PICK i \in DOMAIN A : \E j \in DOMAIN A[i] : x = <<i, A[i][j]>>
        BY DEF Confirmed
      <3> QED
        BY <2>1, <3>1
    <2> QED
      BY <2>2, <2>3
  <1> QED
    BY <1>2, <1>3, <1>4 DEF A, n

-----------------------------------------------------------------------------
(* The inductive invariant: the chain is one that transactions allow, and   *)
(* the monitor keeps what it says.                                          *)

IInv ==
  /\ deal \in Deals /\ IsMon(mon) /\ IsChain(chain)
  /\ top \in Nat /\ Height <= top
  /\ mon.preimages \subseteq Htlcs \ Outbound
  /\ Sound(deal, Confirmed(chain))
  /\ Tracks(deal, Confirmed(chain), mon, told, top)
  /\ Waiting(mon.awaiting, Height)

LEMMA IInvInit == Init => IInv
  <1> SUFFICES ASSUME Init PROVE IInv
    OBVIOUS
  <1>1. IsMon(mon)
    BY DEF Init, IsMon, Fields, Ours
  <1>2. IsChain(chain) /\ Height = 0 /\ Confirmed(chain) = {}
    BY DEF Init, IsChain, Height, Confirmed
  <1>3. /\ mon.preimages = deal.preimages /\ mon.on_chain = {} /\ mon.awaiting = {} /\ mon.events = {}
        /\ mon.spendable = {} /\ mon.resolved = {} /\ mon.confirmed = {} /\ told = {}
    BY Zenon DEF Init
  <1>4. Sound(deal, {})
    BY DEF Sound
  <1>5. Tracks(deal, {}, mon, told, top)
    BY <1>3 DEF Tracks, Stands, Settled, Heard, Noted
  <1> QED
    <2>1. deal \in Deals /\ top = 0
      BY DEF Init
    <2>2. mon.preimages \subseteq Htlcs \ Outbound
      BY <1>3, <2>1, DealsAssumption, Zenon
    <2>3. Waiting(mon.awaiting, Height)
      BY <1>3 DEF Waiting
    <2> QED
      BY <1>1, <1>2, <1>4, <1>5, <2>1, <2>2, <2>3 DEF IInv

LEMMA Connects == IInv /\ block_connected => IInv'
  <1> SUFFICES ASSUME IInv, block_connected PROVE IInv'
    OBVIOUS
  <1> USE DEF Height
  <1> DEFINE X == Confirmed(chain)
             H == Len(chain) + 1
  <1>1. /\ deal \in Deals /\ IsMon(mon) /\ IsChain(chain) /\ top \in Nat /\ Len(chain) <= top
        /\ mon.preimages \subseteq Htlcs \ Outbound /\ Sound(deal, X)
        /\ Tracks(deal, X, mon, told, top)
    BY DEF IInv
  <1>2. PICK b \in Blocks : /\ chain' = Append(chain, b)
                            /\ mon' = block_confirmed(transactions_confirmed(mon, b, H), b, H)
    BY DEF block_connected
  <1>3. /\ top' = IF H > top THEN H ELSE top
        /\ deal' = deal /\ told' = told
    BY Zenon DEF block_connected
  <1>4. Len(chain) \in Nat /\ H \in Nat /\ \A x \in X : x[1] <= H
    BY <1>1, Heights
  <1>5. deal.unrevoked \subseteq Theirs
    BY <1>1, DealsAssumption, Zenon
  <1>6. Len(b) \in Nat /\ DOMAIN b = 1 .. Len(b)
    BY <1>1, <1>5, BlockTxs DEF IsMon
  <1> DEFINE Y == Upto(X, H, b, Len(b))
             k == transactions_confirmed(mon, b, H)
             m == events_mature(k, H)
  <1>7. IsMon(k) /\ k.preimages = mon.preimages /\ Sound(deal, Y) /\ Tracks(deal, Y, k, told, top)
    BY <1>1, <1>4, <1>5, TransactionsConfirmed
  <1>8. top' \in Nat /\ top <= top' /\ H <= top'
    BY <1>1, <1>3, <1>4
  <1>9. IsChain(chain') /\ Len(chain') = H /\ Confirmed(chain') = Y
    BY <1>1, <1>2, <1>6, Connected
  <1>10. Same(m, mon') \/ ~IsMon(m)
    BY <1>2, <1>6, UpdateSame DEF block_confirmed
  <1> HIDE DEF X, H, Y, k
  <1>11. /\ IsMon(m) /\ m.preimages = k.preimages
         /\ Tracks(deal, Y, m, told, top') /\ Waiting(m.awaiting, H)
    BY <1>1, <1>4, <1>7, <1>8, EventsMature, Zenon
  <1> HIDE DEF m
  <1>12. Tracks(deal, Y, mon', told, top')
    BY <1>10, <1>11, TracksSame
  <1>13. IsMon(mon') /\ mon'.preimages = mon.preimages /\ mon'.awaiting = m.awaiting
    BY <1>7, <1>10, <1>11 DEF Same
  <1> QED
    BY <1>1, <1>3, <1>7, <1>8, <1>9, <1>11, <1>12, <1>13 DEF IInv

LEMMA Disconnects == IInv /\ block_disconnected => IInv'
  <1> SUFFICES ASSUME IInv, block_disconnected PROVE IInv'
    OBVIOUS
  <1> USE DEF Height
  <1> DEFINE X == Confirmed(chain)
             H == Len(chain)
             Y == {x \in X : x[1] < H}
             W == {e \in mon.awaiting : e.height < H}
             m == [mon EXCEPT !.awaiting = W]
  <1>1. /\ deal \in Deals /\ IsMon(mon) /\ IsChain(chain) /\ top \in Nat /\ H <= top
        /\ mon.preimages \subseteq Htlcs \ Outbound /\ Sound(deal, X)
        /\ Tracks(deal, X, mon, told, top) /\ Waiting(mon.awaiting, H)
    BY DEF IInv
  <1>2. /\ H > 0 /\ top < H + ANTI_REORG_DELAY - 1
        /\ chain' = Front(chain) /\ mon' = claims_disconnected(m, H)
        /\ deal' = deal /\ top' = top /\ told' = told
    BY DEF block_disconnected
  <1>3. H \in Nat /\ \A x \in X : x[1] \in Nat
    BY <1>1, Heights DEF Sound
  <1>4. IsChain(chain') /\ Len(chain') = H - 1 /\ Confirmed(chain') = Y
    BY <1>1, <1>2, Disconnected
  <1>5. Sound(deal, Y)
    BY <1>1, <1>3, SoundLess
  <1>6. /\ IsMon(m) /\ m.preimages = mon.preimages /\ m.on_chain = mon.on_chain /\ m.awaiting = W
        /\ m.events = mon.events /\ m.spendable = mon.spendable /\ m.resolved = mon.resolved
        /\ m.confirmed = mon.confirmed
    BY <1>1 DEF IsMon, Fields
  <1>7. W \subseteq mon.awaiting /\ \A e \in W : e.height < H
    OBVIOUS
  <1>8. \A i, h : Waits(mon.awaiting, i, h) /\ i < H => Waits(W, i, h)
    BY DEF Waits
  <1>9. \A x \in X : x[1] < H => x \in Y
    OBVIOUS
  <1>10. Y \subseteq X /\ \A x \in Y : x[1] < H
    OBVIOUS
  <1> HIDE DEF X, H, Y, W, m
  <1>11. \A tx : Final(X, top, tx) => Final(Y, top, tx)
    BY <1>1, <1>2, <1>3, <1>9, DelayAssumption DEF Final
  <1>12. Settled(deal, Y, m, told, top)
    BY <1>1, <1>6, <1>11 DEF Tracks, Settled
  <1>13. Stands(deal, Y, W)
    BY <1>1, <1>7, <1>9 DEF Tracks, Stands
  <1>14. Heard(Y, told \cup mon.events) /\ Noted(deal, Y, W, told \cup mon.events)
    BY <1>1, <1>8, <1>10 DEF Tracks, Heard, Noted
  <1>15. Tracks(deal, Y, m, told, top)
    BY <1>1, <1>6, <1>12, <1>13, <1>14 DEF Tracks
  <1>16. Same(m, mon')
    BY <1>2, <1>6, DisconnectedSame
  <1>17. Tracks(deal, Y, mon', told, top)
    BY <1>15, <1>16, TracksSame, Zenon
  <1>18. \A e \in W : e.height \in Nat
    BY <1>1, <1>3, <1>7, Zenon DEF Tracks, Stands
  <1>19. Waiting(W, H - 1)
    BY <1>1, <1>3, <1>7, <1>18, DelayAssumption DEF Waiting
  <1>20. IsMon(mon') /\ mon'.preimages = mon.preimages /\ mon'.awaiting = W
    BY <1>6, <1>16 DEF Same
  <1>21. H - 1 <= top
    BY <1>1, <1>3
  <1> QED
    BY <1>1, <1>2, <1>4, <1>5, <1>17, <1>19, <1>20, <1>21 DEF IInv

LEMMA Learns == ASSUME NEW h PROVE IInv /\ provide_payment_preimage(h) => IInv'
  <1> SUFFICES ASSUME IInv, provide_payment_preimage(h) PROVE IInv'
    OBVIOUS
  <1> DEFINE m == [mon EXCEPT !.preimages = @ \cup {h}]
  <1>1. /\ IsMon(m) /\ m.preimages = mon.preimages \cup {h} /\ m.on_chain = mon.on_chain
        /\ m.awaiting = mon.awaiting /\ m.events = mon.events /\ m.spendable = mon.spendable
        /\ m.resolved = mon.resolved /\ m.confirmed = mon.confirmed
    BY DEF IInv, IsMon, Fields
  <1>2. h \in Htlcs \ Outbound
    BY DealsAssumption DEF IInv, provide_payment_preimage
  <1>3. PICK reqs : mon' = update_claims_view(m, <<>>, reqs, Height, Height)
    BY Zenon DEF provide_payment_preimage
  <1>4. UNCHANGED <<deal, chain, top, told>>
    BY DEF provide_payment_preimage
  <1> HIDE DEF m
  <1>5. Same(m, mon')
    BY <1>1, <1>3, UpdateSame
  <1>6. Tracks(deal, Confirmed(chain), m, told, top)
    BY <1>1 DEF IInv, Tracks, Settled
  <1>7. Tracks(deal, Confirmed(chain), mon', told, top)
    BY <1>5, <1>6, TracksSame
  <1>8. IsMon(mon') /\ mon'.preimages = mon.preimages \cup {h} /\ mon'.awaiting = mon.awaiting
    BY <1>1, <1>5 DEF Same
  <1> QED
    BY <1>2, <1>4, <1>7, <1>8 DEF IInv, Height

LEMMA Closes == IInv /\ ChannelForceClosed => IInv'
  <1> SUFFICES ASSUME IInv, ChannelForceClosed PROVE IInv'
    OBVIOUS
  <1> DEFINE O == {o \in Range(get_broadcasted_holder_claims(mon)) : package_timelock(o) <= Height + 1}
  <1>1. mon' = [mon EXCEPT !.sent = @ \cup {Commit("holder")} \cup {ClaimTx(<<o>>) : o \in O}]
    BY Zenon DEF ChannelForceClosed
  <1> HIDE DEF O
  <1>2. Ours(mon.sent \cup {Commit("holder")} \cup {ClaimTx(<<o>>) : o \in O})
    <2>1. Ours(mon.sent) /\ Ours({Commit("holder")})
      BY DEF IInv, IsMon, Ours
    <2>2. Ours({ClaimTx(<<o>>) : o \in O})
      <3> SUFFICES ASSUME NEW o \in O
                   PROVE  ClaimTx(<<o>>) = Commit("holder")
                            \/ (ClaimTx(<<o>>).as = "ours" /\ ClaimTx(<<o>>).spends # <<Funding>>)
        BY Zenon DEF Ours
      <3> QED
        BY ClaimTxOurs DEF Ours
    <2>3. \A S, R : Ours(S) /\ Ours(R) => Ours(S \cup R)
      BY DEF Ours
    <2> QED
      BY <2>1, <2>2, <2>3, Zenon
  <1>3. Same(mon, mon')
    BY <1>1, <1>2 DEF IInv, IsMon, Fields, Same
  <1>4. UNCHANGED <<deal, chain, top, told>>
    BY DEF ChannelForceClosed
  <1>5. Tracks(deal, Confirmed(chain), mon', told, top)
    BY <1>3, TracksSame, Zenon DEF IInv
  <1> QED
    BY <1>3, <1>4, <1>5, Zenon DEF IInv, Height, Same

LEMMA Collects == IInv /\ release_pending_monitor_events => IInv'
  <1> SUFFICES ASSUME IInv, release_pending_monitor_events PROVE IInv'
    OBVIOUS
  <1>1. mon' = [mon EXCEPT !.events = {}] /\ told' = told \cup mon.events
    BY DEF release_pending_monitor_events
  <1>2. UNCHANGED <<deal, chain, top>>
    BY DEF release_pending_monitor_events
  <1>3. /\ IsMon(mon') /\ mon'.preimages = mon.preimages /\ mon'.on_chain = mon.on_chain
        /\ mon'.awaiting = mon.awaiting /\ mon'.events = {} /\ mon'.spendable = mon.spendable
        /\ mon'.resolved = mon.resolved /\ mon'.confirmed = mon.confirmed
    BY <1>1 DEF IInv, IsMon, Fields
  <1>4. told' \cup mon'.events = told \cup mon.events
    BY <1>1, <1>3
  <1>5. Tracks(deal, Confirmed(chain), mon', told', top)
    BY <1>3, <1>4 DEF IInv, Tracks, Settled
  <1> QED
    BY <1>2, <1>3, <1>5, Zenon DEF IInv, Height

LEMMA IInvStep == IInv /\ [Next]_vars => IInv'
  <1> SUFFICES ASSUME IInv, [Next]_vars PROVE IInv'
    OBVIOUS
  <1>1. CASE UNCHANGED vars
    BY <1>1, Zenon DEF vars, IInv, Height
  <1> QED
    BY <1>1, Connects, Disconnects, Learns, Closes, Collects DEF Next

\* What the counterparty's claim of an HTLC looks like.
LEMMA TheirClaim ==
    ASSUME NEW c \in Sides, NEW h
    PROVE  Takes(Claim("theirs", <<<<c, h>>>>), h)
  <1> DEFINE tx == Claim("theirs", <<<<c, h>>>>)
  <1>1. tx.as = "theirs" /\ tx.spends = <<<<c, h>>>>
    BY DEF Claim
  <1>2. <<c, h>> \in Range(<<<<c, h>>>>)
    BY DEF Range
  <1>3. <<c, h>> # Funding
    BY DEF Sides, Theirs, Funding
  <1> QED
    BY <1>1, <1>2, <1>3 DEF Takes

\* The monitor's bookkeeping is well-formed: only inbound HTLCs have preimages,
\* only outbound ones have events, and no event is from above the chain's tip.
THEOREM MonitorTyped == Spec => []TypeOK
  <1>1. IInv => TypeOK
    <2> SUFFICES ASSUME IInv PROVE \A e \in mon.awaiting : e.height <= Height
      BY DEF IInv, Tracks, TypeOK
    <2>1. \A e \in mon.awaiting : <<e.height, e.tx>> \in Confirmed(chain)
      BY DEF IInv, Tracks, Stands
    <2>2. Len(chain) \in Nat /\ \A x \in Confirmed(chain) : x[1] \in 1 .. Len(chain)
      BY Heights DEF IInv
    <2>3. ASSUME NEW e \in mon.awaiting PROVE e.height <= Height
      <3>1. <<e.height, e.tx>>[1] \in 1 .. Len(chain)
        BY <2>1, <2>2, Zenon
      <3> QED
        BY <2>2, <3>1 DEF Height
    <2> QED
      BY <2>3
  <1> QED
    BY <1>1, IInvInit, IInvStep, PTL DEF Spec

\* What get_and_clear_pending_monitor_events and the spendable outputs report
\* as final stays so, for any reorganisation shorter than ANTI_REORG_DELAY: an
\* HTLC that was failed upstream is never claimed by the counterparty on chain,
\* and what was reported as confirmed stays in the chain.
THEOREM FinalAlwaysStays == Spec => []FinalStays
  <1>1. IInv => FinalStays
    <2> SUFFICES ASSUME IInv PROVE FinalStays
      OBVIOUS
    <2> DEFINE X == Confirmed(chain)
    <2>1. Sound(deal, X) /\ Settled(deal, X, mon, told, top)
      BY DEF IInv, Tracks
    <2>2. \A tx : Final(X, top, tx) => \E x \in X : x[2] = tx
      <3> SUFFICES ASSUME NEW tx, NEW i \in Nat, <<i, tx>> \in X PROVE \E x \in X : x[2] = tx
        BY DEF Final
      <3> QED
        BY <<i, tx>>[2] = tx
    <2>3. ASSUME NEW h \in Outbound, <<h, "fail">> \in Reported, NEW c \in Sides,
                 InChain(Claim("theirs", <<<<c, h>>>>))
          PROVE  FALSE
      <3>1. PICK tx : Final(X, top, tx) /\ Excludes(deal, tx, h)
        BY <2>1, <2>3, Zenon DEF Settled, Reported
      <3>2. PICK x \in X : x[2] = tx
        BY <2>2, <3>1, Zenon
      <3>3. PICK y \in X : y[2] = Claim("theirs", <<<<c, h>>>>)
        BY <2>3 DEF InChain
      <3>4. Takes(y[2], h)
        BY <3>3, TheirClaim
      <3> QED
        BY <2>1, <3>1, <3>2, <3>4, Conflict
    <2>4. \A tx \in mon.confirmed \cup mon.spendable \cup {r[1] : r \in mon.resolved} : InChain(tx)
      BY <2>1, <2>2, Zenon DEF Settled, InChain
    <2> QED
      BY <2>3, <2>4, Zenon DEF FinalStays
  <1> QED
    BY <1>1, IInvInit, IInvStep, PTL DEF Spec

\* Nothing that happens on chain to an HTLC we offered is lost between the
\* blocks, whichever of them are disconnected: the counterparty's claim has been
\* reported, and a loss with ANTI_REORG_DELAY confirmations has been failed.
THEOREM NothingEverForgotten == Spec => []NothingForgotten
  <1>1. IInv => NothingForgotten
    <2> SUFFICES ASSUME IInv PROVE NothingForgotten
      OBVIOUS
    <2> DEFINE X == Confirmed(chain)
    <2>1. /\ Heard(X, Reported) /\ Noted(deal, X, mon.awaiting, Reported)
          /\ Waiting(mon.awaiting, Height)
      BY DEF IInv, Tracks, Reported
    <2>2. Height \in Nat /\ \A x \in X : x[1] \in 1 .. Height
      BY Heights DEF IInv, Height
    <2>3. ASSUME NEW h \in Outbound, NEW c \in Sides, InChain(Claim("theirs", <<<<c, h>>>>))
          PROVE  <<h, "claim">> \in Reported
      <3>1. PICK y \in X : y[2] = Claim("theirs", <<<<c, h>>>>)
        BY <2>3 DEF InChain
      <3> QED
        BY <2>1, <3>1, TheirClaim, Zenon DEF Heard
    <2>4. ASSUME NEW h \in Outbound, NEW tx \in TxsUpTo(Height - ANTI_REORG_DELAY + 1),
                 \/ tx.as = "ours" /\ h \in {o[2] : o \in Range(tx.spends)}
                 \/ tx.spends = <<Funding>> /\ h \notin deal.outputs[tx.as]
                      /\ \E d \in deal.unrevoked : h \in deal.listed[d]
          PROVE  <<h, "fail">> \in Reported
      <3>1. PICK x \in X : x[2] = tx /\ x[1] <= Height - ANTI_REORG_DELAY + 1
        BY DEF TxsUpTo
      <3>2. h # Funding[2]
        BY DealsAssumption DEF Funding
      <3>3. Loses(deal, tx, h)
        BY <2>4, <3>2 DEF Loses
      <3>4. <<h, "fail">> \in Reported \/ Waits(mon.awaiting, x[1], h)
        BY <2>1, <3>1, <3>3 DEF Noted
      <3>5. ASSUME NEW e \in mon.awaiting, e.kind = "HTLCUpdate", e.height = x[1] PROVE FALSE
        <4>1. Height < x[1] + ANTI_REORG_DELAY - 1
          BY <2>1, <3>5 DEF Waiting
        <4> QED
          BY <2>2, <3>1, <4>1, DelayAssumption
      <3> QED
        BY <3>4, <3>5 DEF Waits
    <2> QED
      BY <2>3, <2>4, Zenon DEF NothingForgotten
  <1> QED
    BY <1>1, IInvInit, IInvStep, PTL DEF Spec
============================================================================
