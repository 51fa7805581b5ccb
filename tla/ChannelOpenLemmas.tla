-------------------------- MODULE ChannelOpenLemmas --------------------------
(***************************************************************************)
(* What the proofs about the opening of channels rest on: finite sets and  *)
(* sequences, what each handler does to a channel and to its node, the     *)
(* manager file, and the messages on their way.                            *)
(***************************************************************************)
EXTENDS ChannelOpen, WellFoundedInduction, TLAPS

-----------------------------------------------------------------------------
(* Finite sets and sequences.                                              *)

LEMMA Least ==
    ASSUME NEW T \in SUBSET Nat, T # {}
    PROVE  \E n \in T : \A k \in T : n <= k
  <1>1. \E x \in T : \A y \in T : ~(<<y, x>> \in OpToRel(<, Nat))
    BY NatLessThanWellFounded, WFMin, Zenon
  <1>2. \A x, y \in T : <<y, x>> \notin OpToRel(<, Nat) => x <= y
    BY DEF OpToRel
  <1> QED
    BY <1>1, <1>2, Zenon

\* S has at most n elements.
Covers(S, n) == \E f : \A y \in S : \E i \in 1 .. n : f[i] = y
Finite(S) == \E n \in Nat : Covers(S, n)

LEMMA FiniteIs == ASSUME NEW S, IsFiniteSet(S) PROVE Finite(S)
  <1>1. PICK q \in Seq(S) : \A y \in S : \E i \in 1 .. Len(q) : q[i] = y
    BY Zenon DEF IsFiniteSet
  <1>2. Covers(S, Len(q))
    BY <1>1, Zenon DEF Covers
  <1> QED
    BY <1>2 DEF Finite

LEMMA Fewer == ASSUME NEW S, Finite(S), NEW T, T \subseteq S PROVE Finite(T)
  BY Zenon DEF Finite, Covers

LEMMA CoversMore ==
    ASSUME NEW S, NEW n \in Nat, Covers(S, n)
    PROVE  (n = 0 => S = {}) /\ \A m \in Nat, T \in SUBSET S : n <= m => Covers(T, m)
  <1>1. PICK f : \A y \in S : \E i \in 1 .. n : f[i] = y
    BY Zenon DEF Covers
  <1>2. \A m \in Nat : n <= m => \A y \in S : \E i \in 1 .. m : f[i] = y
    BY <1>1
  <1> QED
    BY <1>1, <1>2 DEF Covers

LEMMA OneLess ==
    ASSUME NEW S, NEW n \in Nat, Covers(S, n), NEW x \in S
    PROVE  n - 1 \in Nat /\ Covers(S \ {x}, n - 1)
  <1>1. PICK f : \A y \in S : \E i \in 1 .. n : f[i] = y
    BY Zenon DEF Covers
  <1> DEFINE g == [i \in 1 .. n - 1 |-> IF f[i] = x THEN f[n] ELSE f[i]]
  <1>2. \A y \in S \ {x} : \E i \in 1 .. n - 1 : g[i] = y
    <2> SUFFICES ASSUME NEW y \in S \ {x} PROVE \E i \in 1 .. n - 1 : g[i] = y
      BY Zenon
    <2>1. PICK i \in 1 .. n : f[i] = y
      BY <1>1, Zenon
    <2>2. PICK j \in 1 .. n : f[j] = x
      BY <1>1, Zenon
    <2>3. CASE i = n
      <3>1. j \in 1 .. n - 1 /\ g[j] = y
        BY <2>1, <2>2, <2>3
      <3> QED
        BY <3>1, Zenon
    <2>4. CASE i # n
      <3>1. i \in 1 .. n - 1 /\ g[i] = y
        BY <2>1, <2>4
      <3> QED
        BY <3>1, Zenon
    <2> QED
      BY <2>3, <2>4, Zenon
  <1>3. n - 1 \in Nat
    BY <1>1
  <1> HIDE DEF g
  <1> QED
    BY <1>2, <1>3, Zenon DEF Covers

IsSeq(q) == q \in Seq(Range(q))

LEMMA SeqIs ==
    ASSUME NEW q, IsSeq(q)
    PROVE  Len(q) \in Nat /\ DOMAIN q = 1 .. Len(q) /\ \A i \in 1 .. Len(q) : q[i] \in Range(q)
  BY DEF IsSeq

LEMMA SeqOver ==
    ASSUME NEW S, NEW q \in Seq(S)
    PROVE  IsSeq(q) /\ Range(q) \subseteq S
  <1>1. Len(q) \in Nat /\ q \in [1 .. Len(q) -> S]
    OBVIOUS
  <1>2. q \in [1 .. Len(q) -> Range(q)] /\ Range(q) \subseteq S
    BY <1>1, Zenon DEF Range
  <1> QED
    BY <1>1, <1>2 DEF IsSeq

LEMMA Joined ==
    ASSUME NEW q, IsSeq(q), NEW r, IsSeq(r)
    PROVE  LET s == q \o r IN
           /\ IsSeq(s) /\ Range(s) \subseteq Range(q) \cup Range(r) /\ Len(s) = Len(q) + Len(r)
           /\ \A i \in 1 .. Len(q) : s[i] = q[i]
           /\ \A i \in Len(q) + 1 .. Len(q) + Len(r) : s[i] = r[i - Len(q)]
  <1> DEFINE S == Range(q) \cup Range(r)
  <1>1. q \in Seq(S) /\ r \in Seq(S)
    BY DEF IsSeq
  <1> HIDE DEF S
  <1>2. q \o r \in Seq(S)
    BY <1>1
  <1>3. IsSeq(q \o r) /\ Range(q \o r) \subseteq S
    BY <1>2, SeqOver, Zenon
  <1> QED
    BY <1>1, <1>3 DEF S

LEMMA TailOf ==
    ASSUME NEW q, IsSeq(q), q # <<>>
    PROVE  /\ Len(q) \in Nat \ {0} /\ Head(q) = q[1] /\ Head(q) \in Range(q)
           /\ IsSeq(Tail(q)) /\ Len(Tail(q)) = Len(q) - 1 /\ Range(Tail(q)) \subseteq Range(q)
           /\ \A i \in 1 .. Len(q) - 1 : Tail(q)[i] = q[i + 1]
  <1>1. q \in Seq(Range(q))
    BY Zenon DEF IsSeq
  <1>2. Tail(q) \in Seq(Range(q))
    BY <1>1
  <1>3. IsSeq(Tail(q)) /\ Range(Tail(q)) \subseteq Range(q)
    BY <1>2, SeqOver, Zenon
  <1> QED
    BY <1>1, <1>3

LEMMA OneOf == ASSUME NEW x PROVE IsSeq(<<x>>) /\ Range(<<x>>) = {x} /\ Len(<<x>>) = 1
  <1>1. <<x>> \in Seq({x})
    OBVIOUS
  <1>2. IsSeq(<<x>>) /\ Range(<<x>>) \subseteq {x} /\ Len(<<x>>) = 1
    BY <1>1, SeqOver, Zenon
  <1>3. x \in Range(<<x>>)
    BY DEF Range
  <1> QED
    BY <1>2, <1>3, Zenon

LEMMA NoneOf == IsSeq(<<>>) /\ Range(<<>>) = {}
  BY DEF IsSeq, Range

LEMMA AppendOf ==
    ASSUME NEW q, IsSeq(q), NEW x
    PROVE  LET s == Append(q, x) IN
           /\ IsSeq(s) /\ Range(s) = Range(q) \cup {x} /\ Len(s) = Len(q) + 1
           /\ s[Len(q) + 1] = x /\ \A i \in 1 .. Len(q) : s[i] = q[i]
  <1> DEFINE S == Range(q) \cup {x}
             s == Append(q, x)
  <1>1. q \in Seq(S)
    BY DEF IsSeq
  <1>2. s \in Seq(S) /\ Len(s) = Len(q) + 1 /\ s[Len(q) + 1] = x /\ \A i \in 1 .. Len(q) : s[i] = q[i]
    BY <1>1
  <1> HIDE DEF S, s
  <1>3. IsSeq(s) /\ Range(s) \subseteq S
    BY <1>2, SeqOver, Zenon
  <1>4. Len(q) \in Nat /\ DOMAIN q = 1 .. Len(q) /\ DOMAIN s = 1 .. Len(q) + 1
    BY <1>2, SeqIs
  <1>5. S \subseteq Range(s)
    BY <1>2, <1>4 DEF Range, S
  <1> QED
    BY <1>2, <1>3, <1>5, Zenon DEF S, s

LEMMA FirstOf ==
    ASSUME NEW q, IsSeq(q), NEW n \in 0 .. Len(q)
    PROVE  /\ IsSeq(SubSeq(q, 1, n)) /\ Len(SubSeq(q, 1, n)) = n
           /\ \A i \in 1 .. n : SubSeq(q, 1, n)[i] = q[i]
  <1> DEFINE R == Range(q)
             s == SubSeq(q, 1, n)
  <1>1. q \in Seq(R)
    BY Zenon DEF IsSeq
  <1> HIDE DEF R
  <1>2. s \in Seq(R) /\ Len(s) = n /\ \A i \in 1 .. n : s[i] = q[i]
    BY <1>1
  <1> HIDE DEF s
  <1>3. IsSeq(s)
    BY <1>2, SeqOver, Zenon
  <1> QED
    BY <1>2, <1>3, Zenon DEF s

\* The recursive function of FoldFunction in InTurn, for the sets in D.
Folded(f, o, D) ==
  f = [s \in D |-> IF s = {} THEN <<>> ELSE LET x == CHOOSE x \in s : TRUE IN o[x] \o f[s \ {x}]]

LEMMA Folding ==
    ASSUME NEW o, Finite(DOMAIN o) PROVE \E f : Folded(f, o, SUBSET DOMAIN o)
  <1> DEFINE S == DOMAIN o
             Small(k) == {s \in SUBSET S : Covers(s, k)}
             Ok(k) == \E f : Folded(f, o, Small(k))
             Bad == {k \in Nat : ~Ok(k)}
             C(s) == CHOOSE x \in s : TRUE
  <1>1. \A s \in SUBSET S, k \in Nat :
          Covers(s, k) => (k = 0 => s = {}) /\ \A m \in Nat : k <= m => Covers(s, m)
    BY CoversMore, Zenon
  <1>2. \A s \in SUBSET S : s # {} => C(s) \in s
    BY Zenon
  <1>3. Covers({}, 0)
    BY Zenon DEF Covers
  <1> SUFFICES \A k \in Nat : Ok(k)
    <2>1. PICK k \in Nat : Covers(S, k)
      BY Zenon DEF Finite
    <2>2. \A s \in SUBSET S : Covers(s, k)
      BY <2>1, CoversMore
    <2>3. Small(k) = SUBSET S
      BY <2>2, Zenon
    <2> QED
      BY <2>3, Zenon
  <1> SUFFICES ASSUME Bad # {} PROVE FALSE
    BY Zenon
  <1> HIDE DEF Ok
  <1>4. PICK k \in Bad : \A j \in Bad : k <= j
    BY Least, Zenon
  <1>5. Ok(0)
    <2> DEFINE f == [s \in Small(0) |-> <<>>]
    <2>1. \A s \in Small(0) : s = {}
      BY <1>1, <1>3, Zenon
    <2>2. Folded(f, o, Small(0))
      BY <2>1, Zenon DEF Folded
    <2> QED
      BY <2>2, Zenon DEF Ok
  <1>6. k \in Nat \ {0} /\ k - 1 \in Nat /\ k - 1 \notin Bad
    BY <1>4, <1>5
  <1>7. PICK f : Folded(f, o, Small(k - 1))
    BY <1>6, Zenon DEF Ok
  <1> DEFINE g == [s \in Small(k) |-> IF s = {} THEN <<>> ELSE o[C(s)] \o f[s \ {C(s)}]]
  <1>8. \A s \in Small(k - 1) : s \in Small(k) /\ f[s] = g[s]
    <2>1. \A s \in Small(k - 1) : f[s] = IF s = {} THEN <<>> ELSE o[C(s)] \o f[s \ {C(s)}]
      BY <1>7, Zenon DEF Folded
    <2>2. \A s \in Small(k - 1) : s \in Small(k)
      BY <1>1, <1>6
    <2> HIDE DEF Small, C
    <2> QED
      BY <2>1, <2>2, Zenon
  <1>9. \A s \in Small(k) : s # {} => f[s \ {C(s)}] = g[s \ {C(s)}]
    <2> SUFFICES ASSUME NEW s \in Small(k), s # {} PROVE s \ {C(s)} \in Small(k - 1)
      BY <1>8, Zenon
    <2>1. s \in SUBSET S /\ Covers(s, k) /\ C(s) \in s
      BY <1>2, Zenon
    <2> HIDE DEF C
    <2>2. Covers(s \ {C(s)}, k - 1)
      BY <1>6, <2>1, OneLess, Zenon
    <2> QED
      BY <2>1, <2>2, Zenon
  <1>10. Folded(g, o, Small(k))
    <2> DEFINE r == [s \in Small(k) |-> IF s = {} THEN <<>> ELSE o[C(s)] \o g[s \ {C(s)}]]
    <2>1. \A s \in Small(k) : g[s] = r[s]
      <3> SUFFICES ASSUME NEW s \in Small(k) PROVE g[s] = r[s]
        BY Zenon
      <3>1. g[s] = IF s = {} THEN <<>> ELSE o[C(s)] \o f[s \ {C(s)}]
        BY Zenon
      <3>2. r[s] = IF s = {} THEN <<>> ELSE o[C(s)] \o g[s \ {C(s)}]
        BY Zenon
      <3> HIDE DEF g, r, Small, C
      <3> QED
        BY <1>9, <3>1, <3>2, Zenon
    <2>2. g = r
      BY <2>1, Zenon
    <2> QED
      BY <2>2, Zenon DEF Folded
  <1> HIDE DEF g
  <1> QED
    BY <1>4, <1>10, Zenon DEF Ok

-----------------------------------------------------------------------------
(* A channel.                                                               *)

ChanFields ==
  {"st", "ready", "gone", "depth", "conf", "confIn", "scid", "sigs", "theirSigs", "since"}

\* What holds of a channel's own state: a channel without funding knows nothing of
\* a confirmation, and one that needs none is ready from the start.
Sane(c) ==
  /\ DOMAIN c = ChanFields
  /\ c.st \in States /\ c.ready \subseteq {"our", "their"} /\ c.confIn \in BOOLEAN
  /\ c.depth \in Nat /\ c.conf \in Nat /\ c.scid \in Nat
  /\ c.ready # {} => c.st = "FundingSent"
  /\ c.conf # 0 => c.conf = c.scid /\ c.confIn
  /\ ~is_funding_initiated(c) => c.conf = 0 /\ c.scid = 0 /\ ~c.confIn
  /\ is_funding_initiated(c) /\ c.depth = 0 => is_our_channel_ready(c)

\* What holds of it and the chain V that the node has seen.
Anchored(c, k, V) == c.conf # 0 => c.conf \in 1 .. Len(V) /\ Fund(k) \in V[c.conf].txs
ReadyOk(c) == is_our_channel_ready(c) /\ (c.depth > 0 \/ c.confIn) => c.conf # 0

ChanOk(c, k, V, h) == Sane(c) /\ Anchored(c, k, V) /\ ReadyOk(c) /\ c.scid <= h

\* d differs from c at most in what the peer knows of us.
Alike(c, d) ==
  /\ DOMAIN d = ChanFields
  /\ d.st = c.st /\ d.ready = c.ready /\ d.depth = c.depth /\ d.conf = c.conf
  /\ d.confIn = c.confIn /\ d.scid = c.scid

LEMMA AlikeOk ==
    ASSUME NEW c, NEW d, NEW k, NEW V, NEW h, ChanOk(c, k, V, h), Alike(c, d)
    PROVE  ChanOk(d, k, V, h) /\ (is_funding_initiated(d) <=> is_funding_initiated(c))
  BY Zenon DEF ChanOk, Sane, Anchored, ReadyOk, Alike, is_funding_initiated, is_our_channel_ready

LEMMA PausedAlike ==
    ASSUME NEW c, DOMAIN c = ChanFields PROVE Alike(c, remove_uncommitted_htlcs_and_mark_paused(c))
  BY Zenon DEF Alike, ChanFields, remove_uncommitted_htlcs_and_mark_paused

LEMMA SigsAlike ==
    ASSUME NEW c, DOMAIN c = ChanFields, NEW height PROVE Alike(c, get_announcement_sigs(c, height).c)
  <1>1. Alike(c, c) /\ Alike(c, [c EXCEPT !.sigs = TRUE])
    BY Zenon DEF Alike, ChanFields
  <1>2. \/ get_announcement_sigs(c, height) = [c |-> c, sigs |-> FALSE]
        \/ get_announcement_sigs(c, height) = [c |-> [c EXCEPT !.sigs = TRUE], sigs |-> TRUE]
    BY Zenon DEF get_announcement_sigs
  <1>3. get_announcement_sigs(c, height).c \in {c, [c EXCEPT !.sigs = TRUE]}
    BY <1>2
  <1> QED
    BY <1>1, <1>3, Zenon

LEMMA ReadyKeeps ==
    ASSUME NEW c, Sane(c), c.st = "FundingSent", NEW who \in {"our", "their"}, who \notin c.ready,
           who = "our" => c.conf # 0
    PROVE  LET d == Ready(c, who) IN
           /\ Sane(d) /\ d.conf = c.conf /\ d.scid = c.scid /\ d.depth = c.depth /\ d.confIn = c.confIn
           /\ is_funding_initiated(c) /\ is_funding_initiated(d)
           /\ is_our_channel_ready(d) => who = "our" \/ is_our_channel_ready(c)
  <1> DEFINE d == Ready(c, who)
  <1>1. CASE c.ready = {}
    <2>1. d = [c EXCEPT !.ready = {who}]
      BY <1>1, Zenon DEF Ready
    <2>2. /\ DOMAIN d = ChanFields /\ d.ready = {who} /\ d.st = c.st /\ d.depth = c.depth
          /\ d.conf = c.conf /\ d.confIn = c.confIn /\ d.scid = c.scid
      BY <2>1, Zenon DEF Sane, ChanFields
    <2>3. d.depth = 0 => is_our_channel_ready(c)
      BY <2>2, Zenon DEF Sane, is_funding_initiated
    <2>4. d.depth # 0
      BY <1>1, <2>3, Zenon DEF is_our_channel_ready
    <2> HIDE DEF d
    <2> QED
      BY <2>2, <2>4, Zenon DEF Sane, is_funding_initiated, is_our_channel_ready, d
  <1>2. CASE c.ready # {}
    <2>1. d = [c EXCEPT !.st = "ChannelFunded", !.ready = {}]
      BY <1>2, Zenon DEF Ready
    <2>2. /\ DOMAIN d = ChanFields /\ d.ready = {} /\ d.st = "ChannelFunded" /\ d.depth = c.depth
          /\ d.conf = c.conf /\ d.confIn = c.confIn /\ d.scid = c.scid
      BY <2>1, Zenon DEF Sane, ChanFields
    <2>3. who = "their" => "our" \in c.ready
      BY <1>2, Zenon DEF Sane
    <2> HIDE DEF d
    <2> QED
      BY <2>2, <2>3, Zenon DEF Sane, is_funding_initiated, is_our_channel_ready, States, d
  <1> QED
    BY <1>1, <1>2, Zenon

\* check_get_channel_ready, for a channel that may lose its confirmation at this height.
LEMMA CheckKeeps ==
    ASSUME NEW c, Sane(c), ReadyOk(c), NEW height \in Int
    PROVE  LET r == check_get_channel_ready(c, height) IN
           /\ Sane(r.c) /\ r.c.scid = c.scid /\ r.c.depth = c.depth /\ r.c.confIn = c.confIn
           /\ r.c.conf = c.conf \/ (r.c.conf = 0 /\ c.conf > height)
           /\ is_funding_initiated(r.c) <=> is_funding_initiated(c)
           /\ ~is_funding_initiated(c) => r.c.st = c.st
           /\ r.c.conf = 0 \/ r.c.conf <= height
           /\ r.err \in {"no", "panic"}
           /\ r.err = "panic" => ~is_funding_initiated(c)
           /\ ~is_our_channel_ready(c) /\ is_our_channel_ready(r.c) => r.c.conf # 0
           /\ r.ready => r.c.conf # 0
           /\ is_our_channel_ready(r.c) /\ r.c.depth > 0 => r.c.confIn
  <1> DEFINE r == check_get_channel_ready(c, height)
  <1>1. is_our_channel_ready(c) /\ c.depth > 0 => c.confIn
    BY Zenon DEF ReadyOk, Sane
  <1>2. is_our_channel_ready(c) => is_funding_initiated(c)
    BY Zenon DEF Sane, is_our_channel_ready, is_funding_initiated
  <1>3. CASE c.conf = 0 /\ c.depth # 0
    <2>1. r = Unready(c)
      BY <1>3, Zenon DEF check_get_channel_ready
    <2>2. r.c = c /\ r.ready = FALSE /\ r.err = "no"
      BY <2>1 DEF Unready
    <2> HIDE DEF r
    <2> QED
      BY <1>1, <1>3, <2>2, Zenon DEF r
  <1>4. CASE ~(c.conf = 0 /\ c.depth # 0)
    <2> DEFINE d == [c EXCEPT !.conf = IF @ > height THEN 0 ELSE @]
               confs == height - c.conf + 1
    <2>1. r = ReadyAt(d, confs)
      BY <1>4, Zenon DEF check_get_channel_ready
    <2>2. /\ DOMAIN d = ChanFields /\ d.st = c.st /\ d.ready = c.ready /\ d.depth = c.depth
          /\ d.confIn = c.confIn /\ d.scid = c.scid
          /\ d.conf = IF c.conf > height THEN 0 ELSE c.conf
      BY Zenon DEF Sane, ChanFields
    <2>3. /\ is_our_channel_ready(d) <=> is_our_channel_ready(c)
          /\ is_funding_initiated(d) <=> is_funding_initiated(c)
      BY <2>2, Zenon DEF is_our_channel_ready, is_funding_initiated
    <2>4. Sane(d)
      BY <2>2, <2>3 DEF Sane
    <2>5. /\ d.conf = c.conf \/ (d.conf = 0 /\ c.conf > height)
          /\ d.conf = 0 \/ d.conf <= height
      BY <2>2 DEF Sane
    <2> HIDE DEF d
    <2>6. CASE confs < d.depth \/ is_our_channel_ready(d)
      <3>1. r = Unready(d)
        BY <2>1, <2>6, Zenon DEF ReadyAt
      <3>2. r.c = d /\ r.ready = FALSE /\ r.err = "no"
        BY <3>1 DEF Unready
      <3> HIDE DEF r
      <3> QED
        BY <1>1, <2>2, <2>3, <2>4, <2>5, <3>2, Zenon DEF r
    <2>7. CASE ~(confs < d.depth \/ is_our_channel_ready(d)) /\ ~is_funding_initiated(d)
      <3>1. r = [Unready(d) EXCEPT !.err = "panic"]
        BY <2>1, <2>7, Zenon DEF ReadyAt
      <3>2. r.c = d /\ r.ready = FALSE /\ r.err = "panic"
        BY <3>1, Zenon DEF Unready
      <3> HIDE DEF r
      <3> QED
        BY <1>1, <2>2, <2>3, <2>4, <2>5, <2>7, <3>2, Zenon DEF r
    <2>8. CASE ~(confs < d.depth \/ is_our_channel_ready(d)) /\ is_funding_initiated(d)
      <3>1. r = [c |-> Ready(d, "our"), ready |-> ~d.gone, err |-> "no"]
        BY <2>1, <2>8, Zenon DEF ReadyAt
      <3>2. d.depth # 0
        BY <2>4, <2>8, Zenon DEF Sane
      <3>3. c.conf # 0 /\ c.conf \in Nat /\ d.depth \in Nat /\ ~(c.conf > height)
        BY <1>4, <2>2, <2>8, <3>2 DEF Sane
      <3>4. d.conf = c.conf /\ d.confIn
        BY <2>2, <2>4, <3>3, Zenon DEF Sane
      <3>5. d.st = "FundingSent" /\ "our" \notin d.ready
        BY <2>8, Zenon DEF is_our_channel_ready, is_funding_initiated
      <3> DEFINE e == Ready(d, "our")
      <3>6. /\ Sane(e) /\ e.conf = d.conf /\ e.scid = d.scid /\ e.depth = d.depth
            /\ e.confIn = d.confIn /\ is_funding_initiated(e)
        BY <2>4, <3>3, <3>4, <3>5, ReadyKeeps, Zenon
      <3>7. r.err = "no" /\ r.c = e
        BY <3>1
      <3> HIDE DEF r, e
      <3>8. /\ r.c.scid = c.scid /\ r.c.depth = c.depth /\ r.c.confIn = c.confIn /\ r.c.conf = c.conf
            /\ Sane(r.c) /\ is_funding_initiated(r.c)
        BY <2>2, <3>4, <3>6, <3>7, Zenon
      <3>9. r.c.confIn /\ r.c.conf # 0 /\ r.c.conf <= height
        <4>1. r.c.conf # 0 /\ r.c.conf <= height
          BY <3>3, <3>8
        <4> QED
          BY <3>8, <4>1, Zenon DEF Sane
      <3> QED
        BY <2>3, <2>8, <3>7, <3>8, <3>9, Zenon DEF r
    <2> QED
      BY <2>6, <2>7, <2>8, Zenon
  <1> QED
    BY <1>3, <1>4, Zenon

\* The chain W that a block or its end leaves keeps what V has up to its length.
Agrees(V, W) == \A i \in 1 .. Len(V) : i <= Len(W) => W[i] = V[i]

\* The transactions of a block: V is the chain before it, W with it.
LEMMA TxOutcome ==
    ASSUME NEW c, NEW k, NEW V, NEW W, NEW h, NEW height, NEW txs, ChanOk(c, k, V, h),
           Len(V) \in Nat, height = Len(V) + 1, Len(W) = height, Agrees(V, W), height <= h,
           h \in Nat, W[height].txs = txs, Fund(k) \in txs => is_funding_initiated(c)
    PROVE  LET o == transactions_confirmed(c, k, height, txs) IN
           /\ ChanOk(o.c, k, W, h) /\ (is_funding_initiated(o.c) <=> is_funding_initiated(c))
           /\ ~is_funding_initiated(c) => o.c.st = c.st
  <1> DEFINE o == transactions_confirmed(c, k, height, txs)
  <1>1. height \in Nat \ {0}
    OBVIOUS
  <1>2. ChanOk(c, k, W, h)
    BY DEF ChanOk, Anchored, Sane, Agrees
  <1>3. CASE c.st \in {"OurInitSent", "InitBoth"}
    <2>1. o.c = c
      BY <1>3, Zenon DEF transactions_confirmed, Outcome
    <2> HIDE DEF o
    <2> QED
      BY <1>2, <2>1, Zenon DEF o
  <1>4. CASE c.st \notin {"OurInitSent", "InitBoth"} /\ c.conf # 0
    <2>1. o.c = c
      BY <1>4, Zenon DEF transactions_confirmed, Confirmed, Unready, Outcome
    <2> HIDE DEF o
    <2> QED
      BY <1>2, <2>1, Zenon DEF o
  <1>5. CASE c.st \notin {"OurInitSent", "InitBoth"} /\ c.conf = 0
    <2> DEFINE d == IF Fund(k) \in txs
                    THEN [c EXCEPT !.conf = height, !.confIn = TRUE, !.scid = height] ELSE c
               r == check_get_channel_ready(d, height)
               s == get_announcement_sigs(r.c, height)
    <2>1. o = Confirmed(r, height, Spend(k) \in txs)
      BY <1>5, Zenon DEF transactions_confirmed
    <2>2. /\ ChanOk(d, k, W, h) /\ (is_funding_initiated(d) <=> is_funding_initiated(c))
          /\ d.conf \in {0, height} /\ d.st = c.st
      <3>1. CASE Fund(k) \in txs
        <4>1. /\ DOMAIN d = ChanFields /\ d.st = c.st /\ d.ready = c.ready /\ d.depth = c.depth
              /\ d.conf = height /\ d.confIn = TRUE /\ d.scid = height
          BY <3>1, Zenon DEF ChanOk, Sane, ChanFields
        <4> HIDE DEF d
        <4>2. is_funding_initiated(d) /\ is_funding_initiated(c) /\
              (is_our_channel_ready(d) <=> is_our_channel_ready(c))
          BY <3>1, <4>1, Zenon DEF is_funding_initiated, is_our_channel_ready
        <4>3. Sane(d)
          BY <1>1, <4>1, <4>2, Zenon DEF ChanOk, Sane
        <4> QED
          BY <1>1, <3>1, <4>1, <4>2, <4>3 DEF ChanOk, Anchored, ReadyOk
      <3>2. CASE Fund(k) \notin txs
        BY <1>2, <1>5, <3>2, Zenon
      <3> QED
        BY <3>1, <3>2, Zenon
    <2> HIDE DEF d
    <2>3. Sane(d) /\ ReadyOk(d) /\ Anchored(d, k, W) /\ d.scid <= h
      BY <2>2, Zenon DEF ChanOk
    <2>4. /\ Sane(r.c) /\ r.c.scid = d.scid /\ r.c.depth = d.depth /\ r.c.confIn = d.confIn
          /\ ~is_funding_initiated(d) => r.c.st = d.st
          /\ is_funding_initiated(r.c) <=> is_funding_initiated(d)
          /\ r.c.conf = d.conf \/ (r.c.conf = 0 /\ d.conf > height)
          /\ ~is_our_channel_ready(d) /\ is_our_channel_ready(r.c) => r.c.conf # 0
      BY <1>1, <2>3, CheckKeeps
    <2> HIDE DEF r
    <2>5. r.c.conf = d.conf
      BY <1>1, <2>2, <2>4
    <2>6. ReadyOk(r.c)
      BY <2>3, <2>4, <2>5, Zenon DEF ReadyOk
    <2>7. ChanOk(r.c, k, W, h)
      BY <2>3, <2>4, <2>5, <2>6, Zenon DEF ChanOk, Anchored
    <2>8. o.c = r.c \/ o.c = s.c
      BY <2>1 DEF Confirmed, Signed, Outcome
    <2>9. Alike(r.c, s.c)
      BY <2>4, SigsAlike, Zenon DEF Sane
    <2>10. /\ ChanOk(o.c, k, W, h) /\ (is_funding_initiated(o.c) <=> is_funding_initiated(r.c))
           /\ o.c.st = r.c.st
      <3>1. ChanOk(s.c, k, W, h) /\ (is_funding_initiated(s.c) <=> is_funding_initiated(r.c))
        BY <2>7, <2>9, AlikeOk, Zenon
      <3>2. s.c.st = r.c.st
        BY <2>9, Zenon DEF Alike
      <3> QED
        BY <2>7, <2>8, <3>1, <3>2, Zenon
    <2> HIDE DEF o
    <2> QED
      BY <2>2, <2>4, <2>10, Zenon DEF o
  <1> QED
    BY <1>3, <1>4, <1>5, Zenon

\* The new height, with a block or without it.
LEMMA HeightOutcome ==
    ASSUME NEW c, NEW k, NEW V, NEW W, NEW h, NEW p, NEW height, ChanOk(c, k, V, h),
           Len(V) \in Nat, height \in Nat, Len(W) = height, Agrees(V, W)
    PROVE  LET o == best_block_updated(c, p, height) IN
           /\ o.err # "close" => ChanOk(o.c, k, W, h)
           /\ is_funding_initiated(o.c) <=> is_funding_initiated(c)
           /\ ~is_funding_initiated(c) => o.c.st = c.st
  <1> DEFINE r == check_get_channel_ready(c, height)
             o == best_block_updated(c, p, height)
             s == get_announcement_sigs(r.c, height)
  <1>1. o = AtHeight(r, p, height)
    BY Zenon DEF best_block_updated
  <1>2. Sane(c) /\ ReadyOk(c) /\ Anchored(c, k, V) /\ c.scid <= h
    BY Zenon DEF ChanOk
  <1>3. /\ Sane(r.c) /\ r.c.scid = c.scid /\ r.c.depth = c.depth /\ r.c.confIn = c.confIn
        /\ r.c.conf = c.conf \/ (r.c.conf = 0 /\ c.conf > height)
        /\ is_funding_initiated(r.c) <=> is_funding_initiated(c)
        /\ ~is_funding_initiated(c) => r.c.st = c.st
        /\ r.c.conf = 0 \/ r.c.conf <= height
        /\ r.err \in {"no", "panic"}
        /\ r.err = "panic" => ~is_funding_initiated(c)
        /\ r.ready => r.c.conf # 0
        /\ is_our_channel_ready(r.c) /\ r.c.depth > 0 => r.c.confIn
    BY <1>2, CheckKeeps
  <1>4. Alike(r.c, s.c)
    BY <1>3, SigsAlike, Zenon DEF Sane
  <1>5. Anchored(r.c, k, W)
    BY <1>2, <1>3 DEF Anchored, Agrees
  <1>6. r.c.scid <= h
    BY <1>2, <1>3, Zenon
  <1> HIDE DEF r
  <1>7. CASE r.err # "no"
    <2>1. ~is_our_channel_ready(r.c)
      BY <1>3, <1>7, Zenon DEF Sane, is_our_channel_ready, is_funding_initiated
    <2>2. o.c = r.c
      BY <1>1, <1>7 DEF AtHeight, Outcome
    <2> HIDE DEF o
    <2> QED
      BY <1>3, <1>5, <1>6, <2>1, <2>2, Zenon DEF ChanOk, ReadyOk, o
  <1>8. CASE r.err = "no" /\ ~r.ready /\ (LostFunding(r.c) \/ FundingTimedOut(r.c, p, height))
    <2>1. o.c = r.c /\ o.err = "close"
      BY <1>1, <1>8 DEF AtHeight, Outcome
    <2> HIDE DEF o
    <2> QED
      BY <1>3, <2>1, Zenon DEF o
  <1>9. CASE r.err = "no" /\ ~(~r.ready /\ (LostFunding(r.c) \/ FundingTimedOut(r.c, p, height)))
    <2>1. o.c = s.c
      BY <1>1, <1>9 DEF AtHeight, Outcome, Signed
    <2>2. ReadyOk(r.c)
      BY <1>3, <1>9, Zenon DEF ReadyOk, LostFunding
    <2>3. ChanOk(r.c, k, W, h)
      BY <1>3, <1>5, <1>6, <2>2, Zenon DEF ChanOk
    <2> HIDE DEF o
    <2> QED
      <3>1. ChanOk(s.c, k, W, h) /\ (is_funding_initiated(s.c) <=> is_funding_initiated(r.c))
        BY <1>4, <2>3, AlikeOk, Zenon
      <3>2. s.c.st = r.c.st
        BY <1>4, Zenon DEF Alike
      <3> QED
        BY <1>3, <2>1, <3>1, <3>2, Zenon DEF o
  <1> QED
    BY <1>7, <1>8, <1>9, Zenon

-----------------------------------------------------------------------------
(* A node.                                                                  *)

NodeFields == {"chans", "ids", "mons", "mevents", "view", "later", "up", "known", "events",
               "hand", "tasks", "dead", "ann"}

Distinct(q) == \A i, j \in 1 .. Len(q) : q[i] = q[j] => i = j

\* Funding transactions that were asked for: their channels have none yet.
Pending(n, O) ==
  /\ IsSeq(n.events) /\ Range(n.events) \subseteq O /\ Distinct(n.events)
  /\ \A k \in DOMAIN n.chans : k \in Range(n.events) => n.chans[k].st = "InitBoth"
  /\ n.hand.pc = "signed" =>
       /\ n.hand.k \in O \ Range(n.events)
       /\ n.hand.k \in DOMAIN n.chans => n.chans[n.hand.k].st = "InitBoth"
  /\ n.hand.pc = "taken" =>
       /\ n.hand.k \in O \ (Range(n.events) \cup DOMAIN n.chans \cup DOMAIN n.mons)
       /\ Sane(n.hand.chan) /\ n.hand.chan.st = "FundingCreated"

\* The node, and its channels in the chain V: a channel has a monitor exactly if it
\* has a funding transaction.
NodeIn(n, V, O, h) ==
  /\ DOMAIN n = NodeFields
  /\ IsSeq(n.view) /\ Len(n.view) <= h /\ n.dead # "channel without monitor"
  /\ DOMAIN n.chans \subseteq O /\ DOMAIN n.mons \subseteq O
  /\ \A k \in DOMAIN n.chans : /\ ChanOk(n.chans[k], k, V, h)
                               /\ is_funding_initiated(n.chans[k]) <=> k \in DOMAIN n.mons
  /\ n.ids \subseteq O \X (1 .. h)
  /\ Pending(n, O)

NodeOk(n, O, h) == NodeIn(n, n.view, O, h)

\* From n to m no monitor is lost, no channel comes in, and no funding transaction
\* is about to be sent that was not.
Tame(n, m) ==
  /\ DOMAIN n.mons \subseteq DOMAIN m.mons
  /\ DOMAIN m.chans \cup DOMAIN m.mons \subseteq DOMAIN n.chans \cup DOMAIN n.mons
  /\ \A k : Fund(k) \in m.tasks => Fund(k) \in n.tasks

LEMMA SpendIsNot == ASSUME NEW j, NEW k PROVE Fund(k) # Spend(j)
  BY Zenon DEF Fund, Spend

LEMMA PutIs ==
    ASSUME NEW n, DOMAIN n = NodeFields, NEW k, NEW c, NEW m, m = Put(n, k, c)
    PROVE  /\ DOMAIN m = NodeFields /\ DOMAIN m.chans = DOMAIN n.chans \cup {k} /\ m.chans[k] = c
           /\ \A j \in DOMAIN n.chans \ {k} : m.chans[j] = n.chans[j]
           /\ m.ids = n.ids /\ m.mons = n.mons /\ m.mevents = n.mevents /\ m.view = n.view
           /\ m.later = n.later /\ m.up = n.up /\ m.known = n.known /\ m.events = n.events
           /\ m.hand = n.hand /\ m.tasks = n.tasks /\ m.dead = n.dead /\ m.ann = n.ann
  <1> DEFINE f == Insert(n.chans, {k}, c)
  <1>1. m = [n EXCEPT !.chans = f]
    BY Zenon DEF Put
  <1>2. DOMAIN f = DOMAIN n.chans \cup {k} /\ f[k] = c /\ \A j \in DOMAIN n.chans \ {k} : f[j] = n.chans[j]
    BY Zenon DEF Insert
  <1> HIDE DEF f
  <1>3. /\ DOMAIN m = NodeFields /\ m.chans = f
        /\ m.ids = n.ids /\ m.mons = n.mons /\ m.mevents = n.mevents /\ m.view = n.view
        /\ m.later = n.later /\ m.up = n.up /\ m.known = n.known /\ m.events = n.events
        /\ m.hand = n.hand /\ m.tasks = n.tasks /\ m.dead = n.dead /\ m.ann = n.ann
    BY <1>1, Zenon DEF NodeFields
  <1> QED
    BY <1>2, <1>3, Zenon

\* A channel of the node changes.
LEMMA PutKeeps ==
    ASSUME NEW n, NEW O, NEW h, NodeOk(n, O, h), NEW k \in DOMAIN n.chans, NEW c,
           NEW m, m = Put(n, k, c),
           ChanOk(c, k, n.view, h), is_funding_initiated(c) <=> is_funding_initiated(n.chans[k]),
           n.chans[k].st = "InitBoth" => c.st = "InitBoth"
    PROVE  NodeOk(m, O, h) /\ Tame(n, m)
  <1>1. /\ DOMAIN m = NodeFields /\ DOMAIN m.chans = DOMAIN n.chans /\ m.chans[k] = c
        /\ \A j \in DOMAIN n.chans \ {k} : m.chans[j] = n.chans[j]
        /\ m.ids = n.ids /\ m.mons = n.mons /\ m.view = n.view /\ m.events = n.events
        /\ m.hand = n.hand /\ m.tasks = n.tasks /\ m.dead = n.dead
    <2>1. DOMAIN n = NodeFields /\ DOMAIN n.chans \cup {k} = DOMAIN n.chans
      BY Zenon DEF NodeOk, NodeIn
    <2>2. DOMAIN m.chans = DOMAIN n.chans \cup {k} /\ DOMAIN m = NodeFields /\ m.chans[k] = c
      BY <2>1, PutIs
    <2>3. \A j \in DOMAIN n.chans \ {k} : m.chans[j] = n.chans[j]
      BY <2>1, PutIs
    <2>4. /\ m.ids = n.ids /\ m.mons = n.mons /\ m.view = n.view /\ m.events = n.events
          /\ m.hand = n.hand /\ m.tasks = n.tasks /\ m.dead = n.dead
      BY <2>1, PutIs
    <2> QED
      BY <2>1, <2>2, <2>3, <2>4, Zenon
  <1>2. \A j \in DOMAIN m.chans : /\ ChanOk(m.chans[j], j, m.view, h)
                                  /\ is_funding_initiated(m.chans[j]) <=> j \in DOMAIN m.mons
    <2> SUFFICES ASSUME NEW j \in DOMAIN m.chans
                 PROVE  /\ ChanOk(m.chans[j], j, m.view, h)
                        /\ is_funding_initiated(m.chans[j]) <=> j \in DOMAIN m.mons
      BY Zenon
    <2>1. CASE j = k
      BY <1>1, <2>1, Zenon DEF NodeOk, NodeIn
    <2>2. CASE j # k
      BY <1>1, <2>2, Zenon DEF NodeOk, NodeIn
    <2> QED
      BY <2>1, <2>2, Zenon
  <1>3. \A j \in DOMAIN m.chans : n.chans[j].st = "InitBoth" => m.chans[j].st = "InitBoth"
    BY <1>1, Zenon
  <1>4. Pending(m, O)
    BY <1>1, <1>3, Zenon DEF NodeOk, NodeIn, Pending
  <1>5. NodeOk(m, O, h)
    BY <1>1, <1>2, <1>4, Zenon DEF NodeOk, NodeIn
  <1>6. Tame(n, m)
    BY <1>1, Zenon DEF Tame
  <1> QED
    BY <1>5, <1>6, Zenon

\* Some channels are gone, the others stay.
LEMMA FewerPending ==
    ASSUME NEW n, NEW m, NEW O, Pending(n, O), m.events = n.events, m.hand = n.hand,
           DOMAIN m.chans \subseteq DOMAIN n.chans, DOMAIN m.mons = DOMAIN n.mons,
           \A k \in DOMAIN m.chans : n.chans[k].st = "InitBoth" => m.chans[k].st = "InitBoth"
    PROVE  Pending(m, O)
  BY Zenon DEF Pending

LEMMA RemovedIs ==
    ASSUME NEW n, DOMAIN n = NodeFields, NEW ks, NEW m, m = remove_channels(n, ks)
    PROVE  /\ DOMAIN m = NodeFields /\ DOMAIN m.chans = DOMAIN n.chans \ ks
           /\ \A k \in DOMAIN m.chans : m.chans[k] = n.chans[k]
           /\ m.ids \subseteq n.ids /\ m.mons = n.mons /\ m.mevents = n.mevents /\ m.view = n.view
           /\ m.later = n.later /\ m.up = n.up /\ m.known = n.known /\ m.events = n.events
           /\ m.hand = n.hand /\ m.tasks = n.tasks /\ m.dead = n.dead /\ m.ann = n.ann
  <1> DEFINE f == Drop(n.chans, ks)
             i == n.ids \ {<<k, n.chans[k].scid>> : k \in ks}
  <1>1. m = [n EXCEPT !.chans = f, !.ids = i]
    BY Zenon DEF remove_channels
  <1>2. DOMAIN f = DOMAIN n.chans \ ks /\ (\A k \in DOMAIN f : f[k] = n.chans[k]) /\ i \subseteq n.ids
    BY Zenon DEF Drop
  <1> HIDE DEF f, i
  <1>3. /\ DOMAIN m = NodeFields /\ m.chans = f /\ m.ids = i
        /\ m.mons = n.mons /\ m.mevents = n.mevents /\ m.view = n.view
        /\ m.later = n.later /\ m.up = n.up /\ m.known = n.known /\ m.events = n.events
        /\ m.hand = n.hand /\ m.tasks = n.tasks /\ m.dead = n.dead /\ m.ann = n.ann
    BY <1>1, Zenon DEF NodeFields
  <1> QED
    BY <1>2, <1>3, Zenon

LEMMA ShutdownKeeps ==
    ASSUME NEW n, NEW O, NEW h, NodeOk(n, O, h), NEW ks, ks \subseteq DOMAIN n.chans, NEW b,
           NEW m, m = Shutdown(n, ks, b)
    PROVE  NodeOk(m, O, h) /\ Tame(n, m) /\ m.events = n.events /\ m.hand = n.hand /\ m.up = n.up
  <1> DEFINE r == remove_channels(n, ks)
             M == Insert(r.mons, Funded(n, ks), TRUE)
             T == IF b THEN r.tasks \cup {Spend(k) : k \in Funded(n, ks)} ELSE r.tasks
  <1>1. m = [r EXCEPT !.mons = M, !.tasks = T]
    BY Zenon DEF Shutdown
  <1>2. /\ DOMAIN r = NodeFields /\ DOMAIN r.chans = DOMAIN n.chans \ ks
        /\ \A k \in DOMAIN r.chans : r.chans[k] = n.chans[k]
        /\ r.ids \subseteq n.ids /\ r.mons = n.mons /\ r.view = n.view
        /\ r.events = n.events /\ r.hand = n.hand /\ r.tasks = n.tasks /\ r.dead = n.dead /\ r.up = n.up
    <2>1. DOMAIN n = NodeFields
      BY Zenon DEF NodeOk, NodeIn
    <2> QED
      BY <2>1, RemovedIs
  <1>3. Funded(n, ks) \subseteq DOMAIN n.mons
    BY Zenon DEF Funded, NodeOk, NodeIn
  <1>4. DOMAIN M = DOMAIN n.mons
    BY <1>2, <1>3, Zenon DEF Insert
  <1>5. \A k : Fund(k) \in T => Fund(k) \in n.tasks
    BY <1>2, SpendIsNot, Zenon
  <1> HIDE DEF r, M, T
  <1>6. /\ DOMAIN m = NodeFields /\ m.chans = r.chans /\ m.ids = r.ids /\ m.mons = M /\ m.view = r.view
        /\ m.events = r.events /\ m.hand = r.hand /\ m.tasks = T /\ m.dead = r.dead /\ m.up = r.up
    BY <1>1, <1>2, ZenonT(40) DEF NodeFields
  <1>7. /\ DOMAIN m.chans \subseteq DOMAIN n.chans /\ DOMAIN m.mons = DOMAIN n.mons
        /\ \A k \in DOMAIN m.chans : m.chans[k] = n.chans[k]
        /\ m.ids \subseteq n.ids /\ m.view = n.view /\ m.events = n.events /\ m.hand = n.hand
        /\ m.dead = n.dead /\ m.up = n.up
    BY <1>2, <1>4, <1>6, Zenon
  <1>8. Pending(m, O)
    <2>1. \A k \in DOMAIN m.chans : n.chans[k].st = "InitBoth" => m.chans[k].st = "InitBoth"
      BY <1>7, Zenon
    <2>2. Pending(n, O)
      BY Zenon DEF NodeOk, NodeIn
    <2> QED
      BY <1>7, <2>1, <2>2, FewerPending, ZenonT(40)
  <1>9. NodeOk(m, O, h)
    BY <1>6, <1>7, <1>8, Zenon DEF NodeOk, NodeIn
  <1>10. Tame(n, m)
    BY <1>5, <1>6, <1>7, Zenon DEF Tame
  <1> QED
    BY <1>7, <1>9, <1>10, Zenon

\* A step on fields that the channels do not depend on.
LEMMA RestOk ==
    ASSUME NEW n, NEW m, NEW O, NEW h, NodeOk(n, O, h), DOMAIN m = NodeFields,
           m.chans = n.chans, DOMAIN m.mons = DOMAIN n.mons, m.view = n.view, m.events = n.events,
           m.hand = n.hand, m.ids \subseteq O \X (1 .. h), m.dead # "channel without monitor"
    PROVE  NodeOk(m, O, h)
  BY Zenon DEF NodeOk, NodeIn, Pending

LEMMA RestTame ==
    ASSUME NEW n, NEW m, m.chans = n.chans, DOMAIN m.mons = DOMAIN n.mons,
           \A k : Fund(k) \in m.tasks => Fund(k) \in n.tasks
    PROVE  Tame(n, m)
  BY Zenon DEF Tame

LEMMA ShortIds ==
    ASSUME NEW k, NEW V, NEW h \in Nat, NEW c, ChanOk(c, k, V, h), NEW O, k \in O
    PROVE  ShortId(k, c) \subseteq O \X (1 .. h)
  BY DEF ShortId, ChanOk, Sane

\* The messages of one outcome.
Plain(m) == m.type \notin {"open_channel", "accept_channel", "funding_signed"}
Simple(q) == IsSeq(q) /\ \A m \in Range(q) : Plain(m)

LEMMA SimpleNone == Simple(<<>>)
  BY NoneOf, Zenon DEF Simple

LEMMA SimpleOne == ASSUME NEW m, Plain(m) PROVE Simple(<<m>>)
  BY OneOf DEF Simple

LEMMA SimpleIf == ASSUME NEW m, Plain(m), NEW due PROVE Simple(If(due, m))
  BY SimpleOne, SimpleNone, Zenon DEF If

LEMMA SimpleJoin == ASSUME NEW q, Simple(q), NEW r, Simple(r) PROVE Simple(q \o r)
  <1>1. IsSeq(q \o r) /\ Range(q \o r) \subseteq Range(q) \cup Range(r)
    BY Joined, Zenon DEF Simple
  <1> QED
    BY <1>1, Zenon DEF Simple

LEMMA PlainMsgs ==
    ASSUME NEW k, NEW scid, NEW id
    PROVE  /\ Plain(Error(k, id)) /\ Plain(Msg("channel_ready", k)) /\ Plain(Sigs(k, scid))
           /\ Plain(Msg("channel_reestablish", k)) /\ Plain(Msg("funding_created", k))
  BY Zenon DEF Plain, Msg, Sigs, Error

LEMMA MessagesSimple == ASSUME NEW k, NEW o PROVE Simple(Messages(k, o))
  <1>1. /\ Simple(<<Error(k, channel_id(o.c))>>) /\ Simple(If(o.ready, Msg("channel_ready", k)))
        /\ Simple(If(o.sigs, Sigs(k, o.c.scid)))
    BY SimpleOne, SimpleIf, PlainMsgs, Zenon
  <1>2. Simple(If(o.ready, Msg("channel_ready", k)) \o If(o.sigs, Sigs(k, o.c.scid)))
    BY <1>1, SimpleJoin, Zenon
  <1> QED
    BY <1>1, <1>2, Zenon DEF Messages

\* What is sent for all of them, if what is sent for each is simple.
LEMMA InTurnSimple ==
    ASSUME NEW o, Finite(DOMAIN o), \A k \in DOMAIN o : Simple(o[k]) PROVE Simple(InTurn(o))
  <1> DEFINE S == DOMAIN o
             f[s \in SUBSET DOMAIN o] ==
               IF s = {} THEN <<>> ELSE LET x == CHOOSE x \in s : TRUE IN o[x] \o f[s \ {x}]
             Ok(n) == \A s \in SUBSET S : Covers(s, n) => Simple(f[s])
             Bad == {n \in Nat : ~Ok(n)}
  <1>1. InTurn(o) = f[DOMAIN o]
    BY Zenon DEF InTurn, FoldFunction, FoldFunctionOnSet, MapThenFoldSet
  <1>2. Folded(f, o, SUBSET DOMAIN o)
    BY Folding, Zenon DEF Folded
  <1> HIDE DEF f
  <1>3. \E n \in Nat : Covers(S, n)
    BY Zenon DEF Finite
  <1>4. f[{}] = <<>> /\ \A s \in SUBSET S :
          s # {} => \E x \in s : f[s] = o[x] \o f[s \ {x}]
    <2>1. \A s \in SUBSET S : f[s] = IF s = {} THEN <<>> ELSE LET x == CHOOSE x \in s : TRUE IN o[x] \o f[s \ {x}]
      BY <1>2, Zenon DEF Folded
    <2> QED
      BY <2>1, Zenon
  <1> SUFFICES ASSUME Bad # {} PROVE FALSE
    BY <1>1, <1>3, Zenon
  <1>5. PICK n \in Bad : \A j \in Bad : n <= j
    <2> HIDE DEF Ok
    <2> QED
      BY Least, Zenon
  <1>6. PICK s \in SUBSET S : Covers(s, n) /\ ~Simple(f[s])
    BY <1>5, Zenon
  <1>7. s # {}
    BY <1>4, <1>6, SimpleNone, Zenon
  <1>8. PICK x \in s : f[s] = o[x] \o f[s \ {x}]
    BY <1>4, <1>7, Zenon
  <1> DEFINE t == s \ {x}
  <1>9. t \in SUBSET S /\ Covers(t, n - 1) /\ n - 1 \in Nat
    BY <1>6, OneLess, Zenon
  <1> HIDE DEF t
  <1>10. Simple(f[t])
    <2>1. n - 1 \notin Bad
      BY <1>5, <1>9
    <2> QED
      BY <1>9, <2>1, Zenon
  <1>11. Simple(o[x] \o f[t])
    BY <1>10, SimpleJoin, Zenon
  <1> QED
    BY <1>6, <1>8, <1>11, Zenon DEF t

\* What do_chain_event sends.
EventMail(o) == InTurn([k \in DOMAIN o |-> Messages(k, o[k])])

LEMMA EventMessages ==
    ASSUME NEW o, Finite(DOMAIN o), NEW q, Simple(q)
    PROVE  Simple(q \o EventMail(o))
  <1> DEFINE f == [k \in DOMAIN o |-> Messages(k, o[k])]
  <1>1. Finite(DOMAIN f) /\ \A k \in DOMAIN f : Simple(f[k])
    BY MessagesSimple, Zenon
  <1>2. EventMail(o) = InTurn(f)
    BY Zenon DEF EventMail
  <1> HIDE DEF f
  <1>3. Simple(EventMail(o))
    BY <1>1, <1>2, InTurnSimple, Zenon
  <1> QED
    BY <1>3, SimpleJoin, Zenon

\* A channel_reestablish for each.
LEMMA EachSimple ==
    ASSUME NEW ks, Finite(ks)
    PROVE  Simple(Each("channel_reestablish", ks))
  <1> DEFINE f == [k \in ks |-> <<Msg("channel_reestablish", k)>>]
  <1>1. Finite(DOMAIN f) /\ \A k \in DOMAIN f : Simple(f[k])
    BY PlainMsgs, SimpleOne, Zenon
  <1>2. Each("channel_reestablish", ks) = InTurn(f)
    BY Zenon DEF Each
  <1> HIDE DEF f
  <1> QED
    BY <1>1, <1>2, InTurnSimple, Zenon

\* do_chain_event, in a node whose channels are those of the chain V.
LEMMA EventKeeps ==
    ASSUME NEW n, NEW V, NEW O, NEW h \in Nat, NodeIn(n, V, O, h), NEW q, NEW height, NEW o,
           DOMAIN o = DOMAIN n.chans,
           \A k \in DOMAIN o :
             /\ o[k].err # "close" => ChanOk(o[k].c, k, n.view, h)
             /\ is_funding_initiated(o[k].c) <=> is_funding_initiated(n.chans[k])
             /\ ~is_funding_initiated(n.chans[k]) => o[k].c.st = n.chans[k].st,
           NEW m, m = do_chain_event(Result(n, q), height, o).n
    PROVE  NodeOk(m, O, h) /\ Tame(n, m) /\ m.events = n.events /\ m.hand = n.hand
           /\ m.view = n.view
  <1> DEFINE closed == {k \in DOMAIN o : o[k].err = "close"}
             kept == DOMAIN o \ closed
             ready == {k \in kept : is_our_channel_ready(o[k].c)}
             x == remove_channels(n, closed)
             L == x.later \cup Funded(n, closed)
             C == [k \in kept |-> o[k].c]
             I == x.ids \cup UNION {ShortId(k, o[k].c) : k \in ready}
             N == x.ann \cup UNION {Announced(k, o[k].c, height) : k \in {j \in kept : o[j].sigs}}
             D == IF \E k \in kept : o[k].err = "panic"
                  THEN "confirming before FundingSent" ELSE x.dead
  <1>1. m = [x EXCEPT !.later = L, !.chans = C, !.ids = I, !.ann = N, !.dead = D]
    <2>1. Result(n, q).n = n
      BY Zenon DEF Result
    <2> QED
      BY <2>1, Zenon DEF do_chain_event, Result
  <1>2. /\ DOMAIN x = NodeFields /\ x.ids \subseteq n.ids /\ x.mons = n.mons /\ x.view = n.view
        /\ x.events = n.events /\ x.hand = n.hand /\ x.tasks = n.tasks /\ x.dead = n.dead
    <2>1. DOMAIN n = NodeFields
      BY Zenon DEF NodeIn
    <2> QED
      BY <2>1, RemovedIs
  <1>3. D # "channel without monitor"
    BY <1>2, Zenon DEF NodeIn
  <1>4. DOMAIN C \subseteq DOMAIN n.chans /\ \A k \in DOMAIN C : C[k] = o[k].c /\ o[k].err # "close"
    BY Zenon
  <1>5. I \subseteq O \X (1 .. h)
    <2>1. \A k \in ready : ShortId(k, o[k].c) \subseteq O \X (1 .. h)
      BY ShortIds, Zenon DEF NodeIn
    <2> QED
      BY <1>2, <2>1, ZenonT(40) DEF NodeIn
  <1> HIDE DEF x, L, C, I, N, D
  <1>6. /\ DOMAIN m = NodeFields /\ m.chans = C /\ m.ids = I /\ m.mons = x.mons /\ m.view = x.view
        /\ m.events = x.events /\ m.hand = x.hand /\ m.tasks = x.tasks /\ m.dead = D
    BY <1>1, <1>2, Zenon DEF NodeFields
  <1>7. \A k \in DOMAIN m.chans : /\ ChanOk(m.chans[k], k, m.view, h)
                                  /\ is_funding_initiated(m.chans[k]) <=> k \in DOMAIN m.mons
                                  /\ n.chans[k].st = "InitBoth" => m.chans[k].st = "InitBoth"
    <2> SUFFICES ASSUME NEW k \in DOMAIN m.chans
                 PROVE  /\ ChanOk(m.chans[k], k, m.view, h)
                        /\ is_funding_initiated(m.chans[k]) <=> k \in DOMAIN m.mons
                        /\ n.chans[k].st = "InitBoth" => m.chans[k].st = "InitBoth"
      BY Zenon
    <2>1. k \in DOMAIN o /\ k \in DOMAIN n.chans /\ m.chans[k] = o[k].c /\ o[k].err # "close"
      BY <1>4, <1>6, Zenon
    <2>2. is_funding_initiated(n.chans[k]) <=> k \in DOMAIN m.mons
      BY <1>2, <1>6, <2>1, Zenon DEF NodeIn
    <2>3. n.chans[k].st = "InitBoth" => ~is_funding_initiated(n.chans[k])
      BY Zenon DEF is_funding_initiated
    <2>4. ChanOk(o[k].c, k, m.view, h)
      BY <1>2, <1>6, <2>1, Zenon
    <2> QED
      BY <2>1, <2>2, <2>3, <2>4, Zenon
  <1>8. Pending(m, O)
    <2>1. Pending(n, O)
      BY Zenon DEF NodeIn
    <2>2. m.events = n.events /\ m.hand = n.hand /\ DOMAIN m.mons = DOMAIN n.mons
          /\ DOMAIN m.chans \subseteq DOMAIN n.chans
      BY <1>2, <1>4, <1>6, Zenon
    <2> QED
      BY <1>7, <2>1, <2>2, FewerPending
  <1>9. NodeOk(m, O, h)
    BY <1>2, <1>3, <1>4, <1>5, <1>6, <1>7, <1>8, Zenon DEF NodeOk, NodeIn
  <1>10. Tame(n, m)
    BY <1>2, <1>4, <1>6, Zenon DEF Tame
  <1> QED
    BY <1>2, <1>6, <1>9, <1>10, Zenon

-----------------------------------------------------------------------------
(* The handlers, as far as they concern one node.                          *)

LEMMA ResultIs ==
    ASSUME NEW n, NEW q PROVE Result(n, q).n = n /\ Result(n, q).msgs = q
  BY Zenon DEF Result

LEMMA EventResult ==
    ASSUME NEW r, NEW height, NEW o, NEW s, s = do_chain_event(r, height, o) PROVE s = Result(s.n, s.msgs)
  BY Zenon DEF do_chain_event, Result

LEMMA EventMsgs ==
    ASSUME NEW n, NEW q, NEW height, NEW o
    PROVE  do_chain_event(Result(n, q), height, o).msgs = q \o EventMail(o)
  BY Zenon DEF do_chain_event, Result, EventMail

\* The transactions of a new block.
LEMMA TransactionsKeep ==
    ASSUME NEW n, NEW V, NEW O, NEW h \in Nat, NodeIn(n, V, O, h), Finite(O), NEW height, NEW txs,
           Len(V) \in Nat, height = Len(V) + 1, height <= h, Len(n.view) = height, Agrees(V, n.view),
           n.view[height].txs = txs, \A k \in DOMAIN n.chans : Fund(k) \in txs => k \in DOMAIN n.mons,
           NEW r, r = SeeTransactions(Result(n, <<>>), height, txs)
    PROVE  /\ NodeOk(r.n, O, h) /\ Tame(n, r.n) /\ r.n.events = n.events /\ r.n.hand = n.hand
           /\ r.n.view = n.view /\ Simple(r.msgs) /\ r = Result(r.n, r.msgs)
  <1> DEFINE o == [k \in DOMAIN n.chans |-> transactions_confirmed(n.chans[k], k, height, txs)]
  <1>1. r = do_chain_event(Result(n, <<>>), height, o)
    BY ResultIs, Zenon DEF SeeTransactions
  <1>2. DOMAIN o = DOMAIN n.chans /\ Finite(DOMAIN o)
    BY Fewer, Zenon DEF NodeIn
  <1>3. \A k \in DOMAIN o : /\ ChanOk(o[k].c, k, n.view, h)
                            /\ is_funding_initiated(o[k].c) <=> is_funding_initiated(n.chans[k])
                            /\ ~is_funding_initiated(n.chans[k]) => o[k].c.st = n.chans[k].st
    <2> SUFFICES ASSUME NEW k \in DOMAIN n.chans
                 PROVE  LET p == transactions_confirmed(n.chans[k], k, height, txs) IN
                        /\ ChanOk(p.c, k, n.view, h)
                        /\ is_funding_initiated(p.c) <=> is_funding_initiated(n.chans[k])
                        /\ ~is_funding_initiated(n.chans[k]) => p.c.st = n.chans[k].st
      BY Zenon
    <2>1. ChanOk(n.chans[k], k, V, h) /\ (Fund(k) \in txs => is_funding_initiated(n.chans[k]))
      BY Zenon DEF NodeIn
    <2> QED
      BY <2>1, TxOutcome
  <1> HIDE DEF o
  <1>4. NodeOk(r.n, O, h) /\ Tame(n, r.n) /\ r.n.events = n.events /\ r.n.hand = n.hand /\ r.n.view = n.view
    BY <1>1, <1>2, <1>3, EventKeeps
  <1>5. Simple(r.msgs)
    <2>1. r.msgs = <<>> \o EventMail(o)
      BY <1>1, EventMsgs, ZenonT(40)
    <2>2. Simple(<<>> \o EventMail(o))
      BY <1>2, EventMessages, SimpleNone, Zenon
    <2> QED
      BY <2>1, <2>2, Zenon
  <1>6. r = Result(r.n, r.msgs)
    BY <1>1, EventResult, ZenonT(40)
  <1> QED
    BY <1>4, <1>5, <1>6, Zenon

\* The new height, of a chain that has grown or shrunk from V.
LEMMA HeightKeeps ==
    ASSUME NEW n, NEW V, NEW O, NEW h \in Nat, NodeIn(n, V, O, h), Finite(O), NEW p,
           NEW height \in Nat, Len(V) \in Nat, Len(n.view) = height, Agrees(V, n.view), NEW q, Simple(q),
           NEW r, r = SeeHeight(Result(n, q), p, height)
    PROVE  /\ NodeOk(r.n, O, h) /\ Tame(n, r.n) /\ r.n.events = n.events /\ r.n.hand = n.hand
           /\ Simple(r.msgs)
  <1> DEFINE o == [k \in DOMAIN n.chans |-> best_block_updated(n.chans[k], p, height)]
  <1>1. r = do_chain_event(Result(n, q), height, o)
    BY ResultIs, Zenon DEF SeeHeight
  <1>2. DOMAIN o = DOMAIN n.chans /\ Finite(DOMAIN o)
    BY Fewer, Zenon DEF NodeIn
  <1>3. \A k \in DOMAIN o : /\ o[k].err # "close" => ChanOk(o[k].c, k, n.view, h)
                            /\ is_funding_initiated(o[k].c) <=> is_funding_initiated(n.chans[k])
                            /\ ~is_funding_initiated(n.chans[k]) => o[k].c.st = n.chans[k].st
    <2> SUFFICES ASSUME NEW k \in DOMAIN n.chans
                 PROVE  LET b == best_block_updated(n.chans[k], p, height) IN
                        /\ b.err # "close" => ChanOk(b.c, k, n.view, h)
                        /\ is_funding_initiated(b.c) <=> is_funding_initiated(n.chans[k])
                        /\ ~is_funding_initiated(n.chans[k]) => b.c.st = n.chans[k].st
      BY Zenon
    <2>1. ChanOk(n.chans[k], k, V, h)
      BY Zenon DEF NodeIn
    <2> QED
      BY <2>1, HeightOutcome
  <1> HIDE DEF o
  <1>4. NodeOk(r.n, O, h) /\ Tame(n, r.n) /\ r.n.events = n.events /\ r.n.hand = n.hand
    BY <1>1, <1>2, <1>3, EventKeeps
  <1>5. Simple(r.msgs)
    <2>1. r.msgs = q \o EventMail(o)
      BY <1>1, EventMsgs, Zenon
    <2>2. Simple(q \o EventMail(o))
      BY <1>2, EventMessages, Zenon
    <2> QED
      BY <2>1, <2>2, Zenon
  <1> QED
    BY <1>4, <1>5, Zenon

LEMMA TameBoth ==
    ASSUME NEW n, NEW m, NEW r, Tame(n, m), Tame(m, r) PROVE Tame(n, r)
  BY Zenon DEF Tame

\* What a handler that only tells the peer plain things makes of the node.
Good(n, r, O, h) ==
  /\ NodeOk(r.n, O, h) /\ Tame(n, r.n) /\ r.n.events = n.events /\ r.n.hand = n.hand
  /\ Simple(r.msgs)

\* block_connected.
AfterBlock(n, block, p, height) ==
    SeeHeight(SeeTransactions(Result(BlockSeen(n, block), <<>>), height, block.txs), p, height)

LEMMA ConnectKeeps ==
    ASSUME NEW n, NEW O, NEW h \in Nat, NodeOk(n, O, h), Finite(O), NEW p, NEW block,
           NEW height, height = Len(n.view) + 1, height <= h,
           \A k \in DOMAIN n.chans : Fund(k) \in block.txs => k \in DOMAIN n.mons,
           NEW r, r = AfterBlock(n, block, p, height)
    PROVE  Good(n, r, O, h)
  <1> DEFINE V == n.view
             m == BlockSeen(n, block)
             s == SeeTransactions(Result(m, <<>>), height, block.txs)
  <1>1. DOMAIN n = NodeFields /\ IsSeq(V) /\ Len(V) \in Nat
    BY SeqIs, Zenon DEF NodeOk, NodeIn
  <1>2. /\ IsSeq(Append(V, block)) /\ Len(Append(V, block)) = height /\ Append(V, block)[height] = block
        /\ \A i \in 1 .. Len(V) : Append(V, block)[i] = V[i]
    BY <1>1, AppendOf
  <1>3. /\ DOMAIN m = NodeFields /\ m.view = Append(V, block) /\ m.chans = n.chans /\ m.mons = n.mons
        /\ m.ids = n.ids /\ m.events = n.events /\ m.hand = n.hand /\ m.tasks = n.tasks /\ m.dead = n.dead
    BY <1>1, Zenon DEF BlockSeen, NodeFields
  <1> HIDE DEF m
  <1>4. NodeIn(m, V, O, h) /\ Agrees(V, m.view) /\ Tame(n, m)
    <2>1. Pending(m, O)
      BY <1>3, Zenon DEF NodeOk, NodeIn, Pending
    <2>2. NodeIn(m, V, O, h)
      BY <1>2, <1>3, <2>1, Zenon DEF NodeOk, NodeIn
    <2> QED
      BY <1>2, <1>3, <2>2, Zenon DEF Agrees, Tame
  <1> HIDE DEF V
  <1>5. /\ NodeOk(s.n, O, h) /\ Tame(m, s.n) /\ s.n.events = m.events /\ s.n.hand = m.hand
        /\ s.n.view = m.view /\ Simple(s.msgs) /\ s = Result(s.n, s.msgs)
    <2>1. Len(m.view) = height /\ m.view[height].txs = block.txs /\ height = Len(V) + 1
      BY <1>2, <1>3, Zenon DEF V
    <2>2. \A k \in DOMAIN m.chans : Fund(k) \in block.txs => k \in DOMAIN m.mons
      BY <1>3, Zenon
    <2> QED
      BY <1>1, <1>4, <2>1, <2>2, TransactionsKeep
  <1> HIDE DEF s
  <1>6. /\ NodeOk(r.n, O, h) /\ Tame(s.n, r.n) /\ r.n.events = s.n.events /\ r.n.hand = s.n.hand
        /\ Simple(r.msgs)
    <2>1. r = SeeHeight(Result(s.n, s.msgs), p, height)
      BY <1>5, Zenon DEF s, m, AfterBlock
    <2>2. Len(s.n.view) = height /\ height \in Nat /\ Agrees(s.n.view, s.n.view)
      BY <1>1, <1>2, <1>3, <1>5 DEF Agrees, V
    <2>3. NodeIn(s.n, s.n.view, O, h)
      BY <1>5, Zenon DEF NodeOk
    <2> QED
      BY <1>5, <2>1, <2>2, <2>3, HeightKeeps
  <1>7. Tame(n, s.n)
    BY <1>4, <1>5, TameBoth, Zenon
  <1>8. Tame(n, r.n)
    BY <1>6, <1>7, TameBoth, Zenon
  <1> QED
    BY <1>3, <1>5, <1>6, <1>8, Zenon DEF Good

\* block_disconnected.
BeforeBlock(n, p, height) == SeeHeight(Result([n EXCEPT !.view = SubSeq(@, 1, height)], <<>>), p, height)

LEMMA DisconnectKeeps ==
    ASSUME NEW n, NEW O, NEW h \in Nat, NodeOk(n, O, h), Finite(O), NEW p, Len(n.view) # 0,
           NEW height, height = Len(n.view) - 1,
           NEW r, r = BeforeBlock(n, p, height)
    PROVE  Good(n, r, O, h)
  <1> DEFINE V == n.view
             W == SubSeq(V, 1, height)
             m == [n EXCEPT !.view = W]
  <1>1. DOMAIN n = NodeFields /\ IsSeq(V) /\ Len(V) \in Nat /\ Len(V) <= h /\ height \in Nat
    <2>1. DOMAIN n = NodeFields /\ IsSeq(V) /\ Len(V) <= h
      BY Zenon DEF NodeOk, NodeIn
    <2>2. Len(V) \in Nat
      BY <2>1, SeqIs, Zenon
    <2> QED
      BY <2>1, <2>2
  <1>2. IsSeq(W) /\ Len(W) = height /\ Agrees(V, W)
    <2>1. V \in Seq(Range(V)) /\ W = SubSeq(V, 1, Len(V) - 1)
      BY <1>1, Zenon DEF IsSeq
    <2> HIDE DEF V, W
    <2>2. W \in Seq(Range(V)) /\ Len(W) = Len(V) - 1 /\ \A i \in 1 .. Len(V) - 1 : W[i] = V[i]
      BY <1>1, <2>1 DEF V
    <2>3. IsSeq(W)
      BY <2>2, SeqOver, Zenon
    <2>4. Len(W) = height
      BY <2>2, Zenon DEF V
    <2> QED
      BY <1>1, <2>2, <2>3, <2>4 DEF Agrees
  <1>3. /\ DOMAIN m = NodeFields /\ m.view = W /\ m.chans = n.chans /\ m.mons = n.mons
        /\ m.ids = n.ids /\ m.events = n.events /\ m.hand = n.hand /\ m.tasks = n.tasks /\ m.dead = n.dead
    BY <1>1, Zenon DEF NodeFields
  <1>4. r = SeeHeight(Result(m, <<>>), p, height)
    BY Zenon DEF BeforeBlock
  <1> HIDE DEF W, m
  <1>5. NodeIn(m, V, O, h) /\ Tame(n, m)
    <2>1. Pending(m, O)
      BY <1>3, Zenon DEF NodeOk, NodeIn, Pending
    <2>2. IsSeq(m.view) /\ Len(m.view) <= h
      BY <1>1, <1>2, <1>3
    <2>3. NodeIn(m, V, O, h)
      BY <1>3, <2>1, <2>2, Zenon DEF NodeOk, NodeIn
    <2> QED
      BY <1>3, <2>3, Zenon DEF Tame
  <1> HIDE DEF V
  <1>6. /\ NodeOk(r.n, O, h) /\ Tame(m, r.n) /\ r.n.events = m.events /\ r.n.hand = m.hand
        /\ Simple(r.msgs)
    BY <1>1, <1>2, <1>3, <1>4, <1>5, SimpleNone, HeightKeeps
  <1>7. Tame(n, r.n)
    BY <1>5, <1>6, TameBoth, Zenon
  <1> QED
    BY <1>3, <1>6, <1>7, Zenon DEF Good

LEMMA DisconnectedKeeps ==
    ASSUME NEW n, NEW O, NEW h, NodeOk(n, O, h), NEW m, m = Disconnected(n)
    PROVE  NodeOk(m, O, h) /\ Tame(n, m) /\ m.events = n.events /\ m.hand = n.hand
  <1> DEFINE kept == {k \in DOMAIN n.chans : is_funding_initiated(n.chans[k])}
             C == [k \in kept |-> remove_uncommitted_htlcs_and_mark_paused(n.chans[k])]
             K == kept # {}
  <1>1. m = [n EXCEPT !.up = FALSE, !.known = K, !.chans = C]
    BY Zenon DEF Disconnected
  <1>2. DOMAIN C \subseteq DOMAIN n.chans
        /\ \A k \in DOMAIN C : C[k] = remove_uncommitted_htlcs_and_mark_paused(n.chans[k])
    BY Zenon
  <1>3. DOMAIN n = NodeFields
    BY Zenon DEF NodeOk, NodeIn
  <1> HIDE DEF kept, C, K
  <1>4. /\ DOMAIN m = NodeFields /\ m.chans = C /\ m.ids = n.ids /\ m.mons = n.mons /\ m.view = n.view
        /\ m.events = n.events /\ m.hand = n.hand /\ m.tasks = n.tasks /\ m.dead = n.dead
    BY <1>1, <1>3, Zenon DEF NodeFields
  <1>5. \A k \in DOMAIN m.chans : /\ ChanOk(m.chans[k], k, m.view, h)
                                  /\ is_funding_initiated(m.chans[k]) <=> k \in DOMAIN m.mons
                                  /\ m.chans[k].st = n.chans[k].st
    <2> SUFFICES ASSUME NEW k \in DOMAIN m.chans
                 PROVE  /\ ChanOk(m.chans[k], k, m.view, h)
                        /\ is_funding_initiated(m.chans[k]) <=> k \in DOMAIN m.mons
                        /\ m.chans[k].st = n.chans[k].st
      BY Zenon
    <2>1. k \in DOMAIN n.chans /\ m.chans[k] = remove_uncommitted_htlcs_and_mark_paused(n.chans[k])
      BY <1>2, <1>4, Zenon
    <2>2. ChanOk(n.chans[k], k, n.view, h) /\ (is_funding_initiated(n.chans[k]) <=> k \in DOMAIN n.mons)
      BY <2>1, Zenon DEF NodeOk, NodeIn
    <2>3. Alike(n.chans[k], m.chans[k])
      BY <2>1, <2>2, PausedAlike, Zenon DEF ChanOk, Sane
    <2>4. /\ ChanOk(m.chans[k], k, n.view, h)
          /\ is_funding_initiated(m.chans[k]) <=> is_funding_initiated(n.chans[k])
      BY <2>2, <2>3, AlikeOk, Zenon
    <2>5. m.chans[k].st = n.chans[k].st
      BY <2>3, Zenon DEF Alike
    <2> QED
      BY <1>4, <2>2, <2>4, <2>5, Zenon
  <1>6. Pending(m, O)
    <2>1. Pending(n, O)
      BY Zenon DEF NodeOk, NodeIn
    <2> QED
      BY <1>2, <1>4, <1>5, <2>1, FewerPending
  <1>7. NodeOk(m, O, h)
    BY <1>2, <1>4, <1>5, <1>6, Zenon DEF NodeOk, NodeIn
  <1> QED
    BY <1>2, <1>4, <1>7, Zenon DEF Tame

LEMMA ConnectedKeeps ==
    ASSUME NEW n, NEW O, NEW h, NodeOk(n, O, h), Finite(O), NEW r, r = Connected(n)
    PROVE  /\ NodeOk(r.n, O, h) /\ Tame(n, r.n) /\ r.n.events = n.events /\ r.n.hand = n.hand
           /\ Simple(r.msgs)
  <1> DEFINE kept == {k \in DOMAIN n.chans : n.chans[k].st # "OurInitSent"}
             C == [k \in kept |-> n.chans[k]]
             m == [n EXCEPT !.up = TRUE, !.known = TRUE, !.chans = C]
             d == [m EXCEPT !.up = FALSE, !.dead = "reestablish without a disconnect"]
             E == Each("channel_reestablish", kept)
  <1>1. r = Result(m, E) \/ r = Result(d, <<>>)
    BY Zenon DEF Connected
  <1>2. DOMAIN C \subseteq DOMAIN n.chans /\ \A k \in DOMAIN C : C[k] = n.chans[k]
    BY Zenon
  <1>3. DOMAIN n = NodeFields
    BY Zenon DEF NodeOk, NodeIn
  <1>4. Simple(E)
    <2>1. Finite(kept)
      BY Fewer, Zenon DEF NodeOk, NodeIn
    <2> QED
      BY <2>1, EachSimple, Zenon
  <1> HIDE DEF kept, C, E
  <1>5. /\ DOMAIN m = NodeFields /\ m.chans = C /\ m.ids = n.ids /\ m.mons = n.mons /\ m.view = n.view
        /\ m.events = n.events /\ m.hand = n.hand /\ m.tasks = n.tasks /\ m.dead = n.dead
    BY <1>3, Zenon DEF NodeFields
  <1> HIDE DEF m
  <1>6. /\ DOMAIN d = NodeFields /\ d.chans = C /\ d.ids = n.ids /\ d.mons = n.mons /\ d.view = n.view
        /\ d.events = n.events /\ d.hand = n.hand /\ d.tasks = n.tasks /\ d.dead # "channel without monitor"
    BY <1>5, Zenon DEF NodeFields
  <1> HIDE DEF d
  <1>7. ASSUME NEW x, DOMAIN x = NodeFields, x.chans = C, x.ids = n.ids, x.mons = n.mons,
               x.view = n.view, x.events = n.events, x.hand = n.hand, x.tasks = n.tasks,
               x.dead # "channel without monitor"
        PROVE  NodeOk(x, O, h) /\ Tame(n, x)
    <2>1. Pending(n, O)
      BY Zenon DEF NodeOk, NodeIn
    <2>2. /\ DOMAIN x.chans \subseteq DOMAIN n.chans /\ DOMAIN x.mons = DOMAIN n.mons
          /\ \A k \in DOMAIN x.chans : x.chans[k] = n.chans[k]
      BY <1>2, <1>7, Zenon
    <2>3. \A k \in DOMAIN x.chans : n.chans[k].st = "InitBoth" => x.chans[k].st = "InitBoth"
      BY <2>2, Zenon
    <2>4. Pending(x, O)
      BY <1>7, <2>1, <2>2, <2>3, FewerPending, Zenon
    <2>5. NodeOk(x, O, h)
      BY <1>7, <2>2, <2>4, Zenon DEF NodeOk, NodeIn
    <2> QED
      BY <1>7, <2>2, <2>5, Zenon DEF Tame
  <1>8. NodeOk(m, O, h) /\ Tame(n, m)
    <2>1. m.dead # "channel without monitor"
      BY <1>5, Zenon DEF NodeOk, NodeIn
    <2> QED
      BY <1>5, <1>7, <2>1, Zenon
  <1>9. NodeOk(d, O, h) /\ Tame(n, d)
    BY <1>6, <1>7, Zenon
  <1> QED
    <2>1. CASE r = Result(m, E)
      <3>1. r.n = m /\ r.msgs = E
        BY <2>1, ResultIs, ZenonT(40)
      <3> QED
        BY <1>4, <1>5, <1>8, <3>1, Zenon
    <2>2. CASE r = Result(d, <<>>)
      <3>1. r.n = d /\ r.msgs = <<>>
        BY <2>2, ResultIs, ZenonT(40)
      <3> QED
        BY <1>6, <1>9, <3>1, SimpleNone, Zenon
    <2> QED
      BY <1>1, <2>1, <2>2, Zenon

\* The channel of a funding transaction: what StartFunded makes of it.
LEMMA StartedChannel ==
    ASSUME NEW c, NEW k, NEW V, NEW h, ChanOk(c, k, V, h), ~is_funding_initiated(c),
           NEW r, r = check_get_channel_ready([c EXCEPT !.st = "FundingSent"], 0)
    PROVE  ChanOk(r.c, k, V, h) /\ is_funding_initiated(r.c)
  <1> DEFINE d == [c EXCEPT !.st = "FundingSent"]
             e == [d EXCEPT !.conf = IF @ > 0 THEN 0 ELSE @]
             f == [e EXCEPT !.ready = {"our"}]
  <1>1. Sane(c) /\ c.conf = 0 /\ c.scid = 0 /\ ~c.confIn /\ c.ready = {} /\ c.scid <= h
    BY Zenon DEF ChanOk, Sane, is_funding_initiated
  <1>2. /\ DOMAIN d = ChanFields /\ d.st = "FundingSent" /\ d.ready = {} /\ d.depth = c.depth
        /\ d.conf = 0 /\ d.confIn = c.confIn /\ d.scid = 0
    BY <1>1, Zenon DEF Sane, ChanFields
  <1> HIDE DEF d
  <1>3. /\ DOMAIN e = ChanFields /\ e.st = "FundingSent" /\ e.ready = {} /\ e.depth = c.depth
        /\ e.conf = 0 /\ e.confIn = c.confIn /\ e.scid = 0
    BY <1>2, Zenon DEF ChanFields
  <1> HIDE DEF e
  <1>4. /\ DOMAIN f = ChanFields /\ f.st = "FundingSent" /\ f.ready = {"our"} /\ f.depth = c.depth
        /\ f.conf = 0 /\ f.confIn = c.confIn /\ f.scid = 0
    BY <1>3, Zenon DEF ChanFields
  <1> HIDE DEF f
  <1>5. CASE c.depth # 0
    <2>1. r.c = d
      BY <1>2, <1>5, Zenon DEF check_get_channel_ready, Unready, d
    <2>2. Sane(d)
      <3>1. c.depth \in Nat /\ c.confIn \in BOOLEAN
        BY <1>1, Zenon DEF Sane
      <3> QED
        BY <1>1, <1>2, <1>5, <3>1, Zenon DEF Sane, States, is_funding_initiated, is_our_channel_ready
    <2> QED
      BY <1>1, <1>2, <2>1, <2>2, Zenon DEF ChanOk, Anchored, ReadyOk, is_funding_initiated, is_our_channel_ready
  <1>6. CASE c.depth = 0
    <2>1. r = ReadyAt(e, 0 - d.conf + 1)
      BY <1>2, <1>6, Zenon DEF check_get_channel_ready, d, e
    <2>2. ~(0 - d.conf + 1 < e.depth) /\ ~is_our_channel_ready(e) /\ is_funding_initiated(e)
      BY <1>2, <1>3, <1>6 DEF is_our_channel_ready, is_funding_initiated
    <2>3. r.c = Ready(e, "our")
      BY <2>1, <2>2 DEF ReadyAt
    <2>4. r.c = f
      BY <1>3, <2>3, Zenon DEF Ready, f
    <2>5. Sane(f)
      <3>1. c.confIn \in BOOLEAN
        BY <1>1, Zenon DEF Sane
      <3> QED
        BY <1>1, <1>4, <1>6, <3>1, Zenon DEF Sane, States, is_funding_initiated, is_our_channel_ready
    <2> QED
      BY <1>1, <1>4, <1>6, <2>4, <2>5 DEF ChanOk, Anchored, ReadyOk, is_funding_initiated
  <1> QED
    BY <1>5, <1>6, Zenon

\* A funded channel starts its monitor.
LEMMA StartKeeps ==
    ASSUME NEW n, NEW O, NEW h, NodeOk(n, O, h), NEW k \in DOMAIN n.chans, NEW c, c = n.chans[k],
           ~is_funding_initiated(c), c.st = "InitBoth" => n.events = <<>> /\ n.hand.pc \notin {"signed", "taken"},
           NEW q, IsSeq(q), NEW r, r = StartFunded(n, k, c, q)
    PROVE  /\ NodeOk(r.n, O, h) /\ DOMAIN r.n.mons = DOMAIN n.mons \cup {k}
           /\ DOMAIN r.n.chans = DOMAIN n.chans
           /\ r.n.events = n.events /\ r.n.hand = n.hand /\ r.n.tasks = n.tasks
           /\ r.msgs = q \/ r.msgs = q \o <<Msg("channel_ready", k)>>
  <1> DEFINE x == check_get_channel_ready([c EXCEPT !.st = "FundingSent"], 0)
             M == Insert(n.mons, {k}, FALSE)
             s == [n EXCEPT !.mons = M]
             m == Put(s, k, x.c)
             u == q \o If(x.ready, Msg("channel_ready", k))
  <1>1. r = Result(m, u)
    BY Zenon DEF StartFunded
  <1>2. ChanOk(x.c, k, n.view, h) /\ is_funding_initiated(x.c)
    <2>1. ChanOk(c, k, n.view, h)
      BY Zenon DEF NodeOk, NodeIn
    <2> QED
      BY <2>1, StartedChannel, Zenon
  <1>3. DOMAIN M = DOMAIN n.mons \cup {k}
    BY Zenon DEF Insert
  <1>4. DOMAIN n = NodeFields /\ DOMAIN n.chans \cup {k} = DOMAIN n.chans /\ k \in O
    BY Zenon DEF NodeOk, NodeIn
  <1>5. u = q \/ u = q \o <<Msg("channel_ready", k)>>
    <2>1. q \o <<>> = q
      BY DEF IsSeq
    <2> QED
      BY <2>1, Zenon DEF If
  <1> HIDE DEF x, M, u
  <1>6. /\ DOMAIN s = NodeFields /\ s.chans = n.chans /\ s.ids = n.ids /\ s.mons = M /\ s.view = n.view
        /\ s.events = n.events /\ s.hand = n.hand /\ s.tasks = n.tasks /\ s.dead = n.dead
    BY <1>4, Zenon DEF NodeFields
  <1> HIDE DEF s
  <1>7. DOMAIN m = NodeFields /\ DOMAIN m.chans = DOMAIN s.chans \cup {k} /\ m.chans[k] = x.c
    BY <1>6, PutIs
  <1>8. \A j \in DOMAIN s.chans \ {k} : m.chans[j] = s.chans[j]
    BY <1>6, PutIs
  <1>9. /\ m.ids = s.ids /\ m.mons = s.mons /\ m.view = s.view
        /\ m.events = s.events /\ m.hand = s.hand /\ m.tasks = s.tasks /\ m.dead = s.dead
    BY <1>6, PutIs
  <1> HIDE DEF m
  <1>10. /\ DOMAIN m.chans = DOMAIN n.chans /\ DOMAIN m.mons = DOMAIN n.mons \cup {k} /\ m.view = n.view
         /\ m.events = n.events /\ m.hand = n.hand /\ m.tasks = n.tasks /\ m.dead = n.dead /\ m.ids = n.ids
         /\ \A j \in DOMAIN n.chans \ {k} : m.chans[j] = n.chans[j]
    BY <1>3, <1>4, <1>6, <1>7, <1>8, <1>9, Zenon
  <1>11. \A j \in DOMAIN m.chans : /\ ChanOk(m.chans[j], j, m.view, h)
                                   /\ is_funding_initiated(m.chans[j]) <=> j \in DOMAIN m.mons
    <2> SUFFICES ASSUME NEW j \in DOMAIN m.chans
                 PROVE  /\ ChanOk(m.chans[j], j, m.view, h)
                        /\ is_funding_initiated(m.chans[j]) <=> j \in DOMAIN m.mons
      BY Zenon
    <2>1. CASE j = k
      BY <1>2, <1>7, <1>10, <2>1, Zenon
    <2>2. CASE j # k
      <3>1. j \in DOMAIN n.chans /\ m.chans[j] = n.chans[j] /\ (j \in DOMAIN m.mons <=> j \in DOMAIN n.mons)
        BY <1>10, <2>2, Zenon
      <3> QED
        BY <1>10, <3>1, Zenon DEF NodeOk, NodeIn
    <2> QED
      BY <2>1, <2>2, Zenon
  <1>12. Pending(m, O)
    <2>1. Pending(n, O)
      BY Zenon DEF NodeOk, NodeIn
    <2>2. k \notin Range(n.events)
      <3>1. CASE c.st = "InitBoth"
        BY <3>1, NoneOf, Zenon
      <3>2. CASE c.st # "InitBoth"
        BY <2>1, <3>2, Zenon DEF Pending
      <3> QED
        BY <3>1, <3>2, Zenon
    <2>3. n.hand.pc = "signed" => n.hand.k # k
      BY <2>1, Zenon DEF Pending
    <2>4. n.hand.pc = "taken" => n.hand.k # k
      BY <2>1, Zenon DEF Pending
    <2> QED
      BY <1>10, <2>1, <2>2, <2>3, <2>4, Zenon DEF Pending
  <1>13. NodeOk(m, O, h)
    BY <1>4, <1>7, <1>10, <1>11, <1>12, Zenon DEF NodeOk, NodeIn
  <1>14. r.n = m /\ r.msgs = u
    BY <1>1, ResultIs
  <1> QED
    BY <1>5, <1>10, <1>13, <1>14, Zenon

\* A channel comes in.
LEMMA PutNew ==
    ASSUME NEW n, NEW O, NEW h, NodeOk(n, O, h), NEW k \in O, k \notin DOMAIN n.chans, k \notin DOMAIN n.mons,
           k \notin Range(n.events), NEW c, ChanOk(c, k, n.view, h), ~is_funding_initiated(c),
           NEW m, DOMAIN m = NodeFields, DOMAIN m.chans = DOMAIN n.chans \cup {k}, m.chans[k] = c,
           \A j \in DOMAIN n.chans \ {k} : m.chans[j] = n.chans[j],
           m.ids = n.ids, m.mons = n.mons, m.view = n.view, m.events = n.events, m.dead = n.dead,
           m.hand = Idle \/ (m.hand = n.hand /\ (m.hand.pc \in {"signed", "taken"} => m.hand.k # k))
    PROVE  NodeOk(m, O, h)
  <1>1. \A j \in DOMAIN n.chans : m.chans[j] = n.chans[j]
    BY Zenon
  <1>2. \A j \in DOMAIN m.chans : /\ ChanOk(m.chans[j], j, m.view, h)
                                  /\ is_funding_initiated(m.chans[j]) <=> j \in DOMAIN m.mons
    <2> SUFFICES ASSUME NEW j \in DOMAIN m.chans
                 PROVE  /\ ChanOk(m.chans[j], j, m.view, h)
                        /\ is_funding_initiated(m.chans[j]) <=> j \in DOMAIN m.mons
      BY Zenon
    <2>1. CASE j = k
      BY <2>1, Zenon
    <2>2. CASE j # k
      <3>1. j \in DOMAIN n.chans /\ m.chans[j] = n.chans[j]
        BY <2>2, Zenon
      <3> QED
        BY <3>1, Zenon DEF NodeOk, NodeIn
    <2> QED
      BY <2>1, <2>2, Zenon
  <1>3. Pending(m, O)
    <2>1. Pending(n, O)
      BY Zenon DEF NodeOk, NodeIn
    <2>2. /\ IsSeq(m.events) /\ Range(m.events) \subseteq O /\ Distinct(m.events)
          /\ \A j \in DOMAIN m.chans : j \in Range(m.events) => m.chans[j].st = "InitBoth"
      BY <1>1, <2>1, ZenonT(40) DEF Pending
    <2>3. CASE m.hand = Idle
      <3>1. m.hand.pc = "idle"
        BY <2>3 DEF Idle
      <3> QED
        BY <2>2, <3>1, Zenon DEF Pending
    <2>4. CASE m.hand = n.hand /\ (m.hand.pc \in {"signed", "taken"} => m.hand.k # k)
      <3>1. m.hand.pc = "signed" =>
              /\ m.hand.k \in O \ Range(m.events)
              /\ m.hand.k \in DOMAIN m.chans => m.chans[m.hand.k].st = "InitBoth"
        BY <1>1, <2>1, <2>4, Zenon DEF Pending
      <3>2. m.hand.pc = "taken" =>
              /\ m.hand.k \in O \ (Range(m.events) \cup DOMAIN m.chans \cup DOMAIN m.mons)
              /\ Sane(m.hand.chan) /\ m.hand.chan.st = "FundingCreated"
        BY <2>1, <2>4, Zenon DEF Pending
      <3> QED
        BY <2>2, <3>1, <3>2, Zenon DEF Pending
    <2> QED
      BY <2>3, <2>4, Zenon
  <1> QED
    BY <1>2, <1>3, Zenon DEF NodeOk, NodeIn

\* One more channel has been opened.
LEMMA MoreOpened ==
    ASSUME NEW n, NEW O, NEW P, O \subseteq P, NEW h, NodeOk(n, O, h) PROVE NodeOk(n, P, h)
  <1>1. Pending(n, P)
    BY Zenon DEF NodeOk, NodeIn, Pending
  <1>2. n.ids \subseteq P \X (1 .. h)
    BY Zenon DEF NodeOk, NodeIn
  <1> QED
    BY <1>1, <1>2, Zenon DEF NodeOk, NodeIn

\* The channels new_outbound and new_from_req.
LEMMA NewKeeps ==
    ASSUME NEW k, NEW V, NEW h \in Nat, NEW st \in {"OurInitSent", "InitBoth"}, NEW depth \in Nat, NEW height,
           NEW c, c = NewChannel(st, depth, height)
    PROVE  ChanOk(c, k, V, h) /\ ~is_funding_initiated(c)
  <1>1. /\ DOMAIN c = ChanFields /\ c.st = st /\ c.ready = {} /\ c.depth = depth /\ c.conf = 0
        /\ ~c.confIn /\ c.confIn \in BOOLEAN /\ c.scid = 0
    BY Zenon DEF NewChannel, ChanFields
  <1>2. ~is_funding_initiated(c) /\ ~is_our_channel_ready(c)
    BY <1>1, Zenon DEF is_funding_initiated, is_our_channel_ready
  <1>3. Sane(c)
    BY <1>1, <1>2 DEF Sane, States
  <1> QED
    BY <1>1, <1>2, <1>3 DEF ChanOk, Anchored, ReadyOk

\* A takes the answer.
LEMMA AcceptKeeps ==
    ASSUME NEW n, NEW O, NEW h, NodeOk(n, O, h), NEW k \in DOMAIN n.chans, n.chans[k].st = "OurInitSent",
           NEW depth \in Nat,
           NEW m, m = [Put(n, k, accept_channel(n.chans[k], depth)) EXCEPT !.events = Append(@, k)]
    PROVE  NodeOk(m, O, h) /\ Tame(n, m)
  <1> DEFINE c == n.chans[k]
             d == accept_channel(c, depth)
             x == Put(n, k, d)
             E == Append(n.events, k)
  <1>1. DOMAIN n = NodeFields /\ DOMAIN n.chans \cup {k} = DOMAIN n.chans /\ k \in O /\ Pending(n, O)
        /\ ChanOk(c, k, n.view, h) /\ (is_funding_initiated(c) <=> k \in DOMAIN n.mons)
    BY Zenon DEF NodeOk, NodeIn
  <1>2. ChanOk(d, k, n.view, h) /\ ~is_funding_initiated(d) /\ ~is_funding_initiated(c) /\ d.st = "InitBoth"
    <2>1. Sane(c) /\ ~is_funding_initiated(c)
      BY <1>1, Zenon DEF ChanOk, is_funding_initiated
    <2>2. /\ DOMAIN d = ChanFields /\ d.st = "InitBoth" /\ d.ready = c.ready /\ d.depth = depth
          /\ d.conf = c.conf /\ d.confIn = c.confIn /\ d.scid = c.scid
      BY <2>1, Zenon DEF accept_channel, Sane, ChanFields
    <2> HIDE DEF d
    <2>3. c.conf = 0 /\ c.scid = 0 /\ ~c.confIn /\ c.ready = {}
      BY <2>1, Zenon DEF Sane
    <2>4. ~is_funding_initiated(d) /\ ~is_our_channel_ready(d)
      BY <2>2, <2>3, Zenon DEF is_funding_initiated, is_our_channel_ready
    <2>5. Sane(d)
      <3>1. d.confIn \in BOOLEAN
        BY <2>1, <2>2, Zenon DEF Sane
      <3> QED
        BY <2>2, <2>3, <2>4, <3>1 DEF Sane, States
    <2> QED
      BY <1>1, <2>1, <2>2, <2>3, <2>4, <2>5, Zenon DEF ChanOk, Anchored, ReadyOk
  <1> HIDE DEF d
  <1>3. DOMAIN x = NodeFields /\ DOMAIN x.chans = DOMAIN n.chans \cup {k} /\ x.chans[k] = d
    BY <1>1, PutIs
  <1>4. \A j \in DOMAIN n.chans \ {k} : x.chans[j] = n.chans[j]
    BY <1>1, PutIs
  <1>5. /\ x.ids = n.ids /\ x.mons = n.mons /\ x.view = n.view
        /\ x.events = n.events /\ x.hand = n.hand /\ x.tasks = n.tasks /\ x.dead = n.dead
    BY <1>1, PutIs
  <1>6. m = [x EXCEPT !.events = E]
    BY <1>5, Zenon DEF d
  <1> HIDE DEF x, E
  <1>7. /\ DOMAIN m = NodeFields /\ m.chans = x.chans /\ m.ids = n.ids /\ m.mons = n.mons /\ m.view = n.view
        /\ m.events = E /\ m.hand = n.hand /\ m.tasks = n.tasks /\ m.dead = n.dead
    BY <1>3, <1>5, <1>6, Zenon DEF NodeFields
  <1>8. /\ DOMAIN m.chans = DOMAIN n.chans /\ m.chans[k] = d
        /\ \A j \in DOMAIN n.chans \ {k} : m.chans[j] = n.chans[j]
    BY <1>1, <1>3, <1>4, <1>7, Zenon
  <1>9. \A j \in DOMAIN m.chans : /\ ChanOk(m.chans[j], j, m.view, h)
                                  /\ is_funding_initiated(m.chans[j]) <=> j \in DOMAIN m.mons
    <2> SUFFICES ASSUME NEW j \in DOMAIN m.chans
                 PROVE  /\ ChanOk(m.chans[j], j, m.view, h)
                        /\ is_funding_initiated(m.chans[j]) <=> j \in DOMAIN m.mons
      BY Zenon
    <2>1. CASE j = k
      BY <1>1, <1>2, <1>7, <1>8, <2>1, Zenon
    <2>2. CASE j # k
      <3>1. j \in DOMAIN n.chans /\ m.chans[j] = n.chans[j]
        BY <1>8, <2>2, Zenon
      <3> QED
        BY <1>7, <3>1, Zenon DEF NodeOk, NodeIn
    <2> QED
      BY <2>1, <2>2, Zenon
  <1>10. Pending(m, O)
    <2>1. k \notin Range(n.events) /\ IsSeq(n.events)
      BY <1>1, Zenon DEF Pending
    <2>2. /\ IsSeq(E) /\ Range(E) = Range(n.events) \cup {k} /\ Len(E) = Len(n.events) + 1
          /\ E[Len(n.events) + 1] = k /\ \A i \in 1 .. Len(n.events) : E[i] = n.events[i]
      BY <2>1, AppendOf DEF E
    <2>3. Len(n.events) \in Nat /\ \A i \in 1 .. Len(n.events) : n.events[i] \in Range(n.events)
      BY <2>1, SeqIs, Zenon
    <2>4. Distinct(E)
      <3> SUFFICES ASSUME NEW i \in 1 .. Len(E), NEW j \in 1 .. Len(E), E[i] = E[j] PROVE i = j
        BY Zenon DEF Distinct
      <3>1. CASE i \in 1 .. Len(n.events) /\ j \in 1 .. Len(n.events)
        BY <1>1, <2>2, <3>1, Zenon DEF Pending, Distinct
      <3>2. CASE i = Len(E) \/ j = Len(E)
        <4>1. \A l \in 1 .. Len(n.events) : E[l] # k
          BY <2>1, <2>2, <2>3, Zenon
        <4> QED
          BY <2>2, <2>3, <3>2, <4>1
      <3> QED
        BY <2>2, <2>3, <3>1, <3>2
    <2>9. Range(m.events) = Range(n.events) \cup {k}
      BY <1>7, <2>2, Zenon
    <2>5. \A j \in DOMAIN m.chans : j \in Range(m.events) => m.chans[j].st = "InitBoth"
      <3> SUFFICES ASSUME NEW j \in DOMAIN m.chans, j \in Range(m.events) PROVE m.chans[j].st = "InitBoth"
        BY Zenon
      <3>1. CASE j = k
        BY <1>2, <1>8, <3>1, Zenon
      <3>2. CASE j # k
        <4>1. j \in Range(n.events) /\ j \in DOMAIN n.chans /\ m.chans[j] = n.chans[j]
          BY <1>8, <2>9, <3>2, Zenon
        <4> QED
          BY <1>1, <4>1, Zenon DEF Pending
      <3> QED
        BY <3>1, <3>2, Zenon
    <2>6. m.hand.pc = "signed" =>
            /\ m.hand.k \in O \ Range(m.events)
            /\ m.hand.k \in DOMAIN m.chans => m.chans[m.hand.k].st = "InitBoth"
      <3> SUFFICES ASSUME n.hand.pc = "signed"
                   PROVE  /\ n.hand.k \in O \ Range(m.events)
                          /\ n.hand.k \in DOMAIN m.chans => m.chans[n.hand.k].st = "InitBoth"
        BY <1>7, Zenon
      <3>1. /\ n.hand.k \in O \ Range(n.events)
            /\ n.hand.k \in DOMAIN n.chans => n.chans[n.hand.k].st = "InitBoth"
        BY <1>1, Zenon DEF Pending
      <3>2. n.hand.k # k
        BY <3>1, Zenon
      <3> QED
        BY <1>8, <2>9, <3>1, <3>2, Zenon
    <2>7. m.hand.pc = "taken" =>
            /\ m.hand.k \in O \ (Range(m.events) \cup DOMAIN m.chans \cup DOMAIN m.mons)
            /\ Sane(m.hand.chan) /\ m.hand.chan.st = "FundingCreated"
      <3>1. n.hand.pc = "taken" => n.hand.k # k
        BY <1>1, Zenon DEF Pending
      <3> QED
        BY <1>1, <1>7, <1>8, <2>2, <3>1, Zenon DEF Pending
    <2>8. IsSeq(m.events) /\ Range(m.events) \subseteq O /\ Distinct(m.events)
      BY <1>1, <1>7, <2>2, <2>4, ZenonT(40) DEF Pending
    <2> QED
      BY <2>5, <2>6, <2>7, <2>8, Zenon DEF Pending
  <1>11. NodeOk(m, O, h)
    BY <1>7, <1>8, <1>9, <1>10, Zenon DEF NodeOk, NodeIn
  <1> QED
    BY <1>7, <1>8, <1>11, Zenon DEF Tame

\* The event handler takes an event: its channel is in none of the others.
LEMMA FundKeeps ==
    ASSUME NEW n, NEW O, NEW h, NodeOk(n, O, h), n.events # <<>>, NEW pc \in {"signed", "ended"},
           NEW m, m = [[n EXCEPT !.events = Tail(@)] EXCEPT !.hand = Handler(pc, Head(n.events))]
    PROVE  NodeOk(m, O, h) /\ Tame(n, m)
  <1> DEFINE q == n.events
             k == Head(q)
             T == Tail(q)
             H == Handler(pc, k)
  <1>1. DOMAIN n = NodeFields /\ Pending(n, O) /\ IsSeq(q)
    BY Zenon DEF NodeOk, NodeIn, Pending
  <1>2. /\ Len(q) \in Nat \ {0} /\ k = q[1] /\ k \in Range(q)
        /\ IsSeq(T) /\ Len(T) = Len(q) - 1 /\ Range(T) \subseteq Range(q)
        /\ \A i \in 1 .. Len(q) - 1 : T[i] = q[i + 1]
    BY <1>1, TailOf, Zenon
  <1>3. Distinct(q)
    BY <1>1, Zenon DEF Pending
  <1>4. H.pc = pc /\ H.k = k
    BY Zenon DEF Handler
  <1>5. m = [n EXCEPT !.events = T, !.hand = H]
    BY Zenon
  <1> HIDE DEF k, T, H
  <1>6. /\ DOMAIN m = NodeFields /\ m.chans = n.chans /\ m.ids = n.ids /\ m.mons = n.mons /\ m.view = n.view
        /\ m.events = T /\ m.hand = H /\ m.tasks = n.tasks /\ m.dead = n.dead
    BY <1>1, <1>5, Zenon DEF NodeFields
  <1> HIDE DEF q
  <1>7. Distinct(T)
    <2> SUFFICES ASSUME NEW i \in 1 .. Len(T), NEW j \in 1 .. Len(T), T[i] = T[j] PROVE i = j
      BY Zenon DEF Distinct
    <2>1. i + 1 \in 1 .. Len(q) /\ j + 1 \in 1 .. Len(q) /\ q[i + 1] = q[j + 1]
      BY <1>2
    <2>2. i + 1 = j + 1
      BY <1>3, <2>1, Zenon DEF Distinct
    <2> QED
      BY <2>2
  <1>8. k \notin Range(T)
    <2> SUFFICES ASSUME k \in Range(T) PROVE FALSE
      BY Zenon
    <2>1. PICK i \in DOMAIN T : T[i] = k
      BY Zenon DEF Range
    <2>2. DOMAIN T = 1 .. Len(T)
      BY <1>2, SeqIs, Zenon
    <2>3. i \in 1 .. Len(q) - 1 /\ i + 1 \in 1 .. Len(q) /\ 1 \in 1 .. Len(q) /\ i + 1 # 1
      BY <1>2, <2>2
    <2>4. q[i + 1] = q[1]
      BY <1>2, <2>1, <2>3, Zenon
    <2> QED
      BY <1>3, <2>3, <2>4, Zenon DEF Distinct
  <1>9. Pending(m, O)
    <2>1. /\ IsSeq(m.events) /\ Range(m.events) \subseteq O /\ Distinct(m.events)
          /\ \A j \in DOMAIN m.chans : j \in Range(m.events) => m.chans[j].st = "InitBoth"
      BY <1>1, <1>2, <1>6, <1>7, Zenon DEF Pending, q
    <2>2. /\ m.hand.k \in O \ Range(m.events)
          /\ m.hand.k \in DOMAIN m.chans => m.chans[m.hand.k].st = "InitBoth"
      <3>1. k \in O /\ (k \in DOMAIN n.chans => n.chans[k].st = "InitBoth")
        BY <1>1, <1>2, Zenon DEF Pending, q
      <3>2. m.hand.k = k /\ m.chans = n.chans /\ m.events = T
        BY <1>4, <1>6, Zenon
      <3> QED
        BY <1>8, <3>1, <3>2, Zenon
    <2>3. m.hand.pc # "taken"
      BY <1>4, <1>6, Zenon
    <2> QED
      BY <2>1, <2>2, <2>3, Zenon DEF Pending
  <1>10. NodeOk(m, O, h)
    BY <1>6, <1>9, Zenon DEF NodeOk, NodeIn
  <1> QED
    BY <1>6, <1>10, Zenon DEF Tame

\* A handler that is neither "signed" nor "taken" holds no channel.
LEMMA HandIdle ==
    ASSUME NEW n, NEW O, NEW h, NodeOk(n, O, h), NEW m, m = [n EXCEPT !.hand = Idle]
    PROVE  NodeOk(m, O, h) /\ Tame(n, m) /\ m.events = n.events /\ m.hand.pc = "idle"
  <1>1. DOMAIN n = NodeFields
    BY Zenon DEF NodeOk, NodeIn
  <1>2. /\ DOMAIN m = NodeFields /\ m.chans = n.chans /\ m.ids = n.ids /\ m.mons = n.mons /\ m.view = n.view
        /\ m.events = n.events /\ m.hand = Idle /\ m.tasks = n.tasks /\ m.dead = n.dead
    BY <1>1, Zenon DEF NodeFields
  <1>3. m.hand.pc = "idle"
    BY <1>2 DEF Idle
  <1>4. Pending(m, O)
    BY <1>2, <1>3, Zenon DEF Pending, NodeOk, NodeIn
  <1>5. NodeOk(m, O, h)
    BY <1>2, <1>4, Zenon DEF NodeOk, NodeIn
  <1> QED
    BY <1>2, <1>3, <1>5, Zenon DEF Tame

\* funding_transaction_generated takes the channel out.
LEMMA TakeKeeps ==
    ASSUME NEW n, NEW O, NEW h, NodeOk(n, O, h), n.hand.pc = "signed", NEW k, k = n.hand.k,
           k \in DOMAIN n.chans,
           NEW m, m = [n EXCEPT !.chans = Drop(@, {k}),
                                !.hand = [pc |-> "taken", k |-> k,
                                          chan |-> [n.chans[k] EXCEPT !.st = "FundingCreated"]]]
    PROVE  NodeOk(m, O, h) /\ Tame(n, m)
  <1> DEFINE c == n.chans[k]
             d == [c EXCEPT !.st = "FundingCreated"]
             C == Drop(n.chans, {k})
             H == [pc |-> "taken", k |-> k, chan |-> d]
  <1>1. DOMAIN n = NodeFields /\ Pending(n, O) /\ ChanOk(c, k, n.view, h)
        /\ (is_funding_initiated(c) <=> k \in DOMAIN n.mons)
    BY Zenon DEF NodeOk, NodeIn
  <1>2. c.st = "InitBoth" /\ k \in O \ Range(n.events) /\ k \notin DOMAIN n.mons /\ Sane(c)
    <2>1. c.st = "InitBoth" /\ k \in O \ Range(n.events)
      BY <1>1, Zenon DEF Pending
    <2> QED
      BY <1>1, <2>1, Zenon DEF is_funding_initiated, ChanOk
  <1>3. Sane(d) /\ d.st = "FundingCreated"
    <2>1. /\ DOMAIN d = ChanFields /\ d.st = "FundingCreated" /\ d.ready = c.ready /\ d.depth = c.depth
          /\ d.conf = c.conf /\ d.confIn = c.confIn /\ d.scid = c.scid
      BY <1>2, Zenon DEF Sane, ChanFields
    <2> HIDE DEF d
    <2>2. c.conf = 0 /\ c.scid = 0 /\ ~c.confIn /\ c.ready = {} /\ c.depth \in Nat /\ ~is_funding_initiated(d)
      BY <1>2, <2>1, Zenon DEF Sane, is_funding_initiated
    <2>3. d.confIn \in BOOLEAN
      BY <1>2, <2>1, Zenon DEF Sane
    <2> QED
      BY <2>1, <2>2, <2>3 DEF Sane, States
  <1>4. DOMAIN C = DOMAIN n.chans \ {k} /\ \A j \in DOMAIN C : C[j] = n.chans[j]
    BY Zenon DEF Drop
  <1>5. m = [n EXCEPT !.chans = C, !.hand = H]
    BY Zenon
  <1>6. H.pc = "taken" /\ H.k = k /\ H.chan = d
    BY Zenon
  <1> HIDE DEF d, C, H
  <1>7. /\ DOMAIN m = NodeFields /\ m.chans = C /\ m.ids = n.ids /\ m.mons = n.mons /\ m.view = n.view
        /\ m.events = n.events /\ m.hand = H /\ m.tasks = n.tasks /\ m.dead = n.dead
    BY <1>1, <1>5, Zenon DEF NodeFields
  <1>8. Pending(m, O)
    <2>1. /\ IsSeq(m.events) /\ Range(m.events) \subseteq O /\ Distinct(m.events)
          /\ \A j \in DOMAIN m.chans : j \in Range(m.events) => m.chans[j].st = "InitBoth"
      BY <1>1, <1>4, <1>7, Zenon DEF Pending
    <2>2. m.hand.pc = "taken" /\ m.hand.k = k /\ m.hand.chan = d
      BY <1>6, <1>7, Zenon
    <2>3. k \in O \ (Range(m.events) \cup DOMAIN m.chans \cup DOMAIN m.mons)
      BY <1>2, <1>4, <1>7, Zenon
    <2> QED
      BY <1>3, <2>1, <2>2, <2>3, Zenon DEF Pending
  <1>9. NodeOk(m, O, h)
    BY <1>4, <1>7, <1>8, Zenon DEF NodeOk, NodeIn
  <1> QED
    BY <1>4, <1>7, <1>9, Zenon DEF Tame

\* The manager file, and the monitors M that were stored when it was written.
FileOk(f, M, O, h) ==
  /\ IsSeq(f.view) /\ Len(f.view) <= h /\ DOMAIN f.chans \subseteq M
  /\ \A k \in DOMAIN f.chans : ChanOk(f.chans[k], k, f.view, h) /\ is_funding_initiated(f.chans[k])
  /\ IsSeq(f.events) /\ Range(f.events) \subseteq O \ DOMAIN f.chans /\ Distinct(f.events)

LEMMA FileLater ==
    ASSUME NEW f, NEW M, NEW O, NEW h, FileOk(f, M, O, h), NEW N, M \subseteq N, NEW P, O \subseteq P
    PROVE  FileOk(f, N, P, h)
  BY Zenon DEF FileOk

LEMMA SnapshotKeeps ==
    ASSUME NEW n, NEW O, NEW h, NodeOk(n, O, h), NEW f, f = Snapshot(n)
    PROVE  FileOk(f, DOMAIN n.mons, O, h) /\ f.events = n.events
  <1> DEFINE funded == {k \in DOMAIN n.chans : is_funding_initiated(n.chans[k])}
             C == [k \in funded |-> remove_uncommitted_htlcs_and_mark_paused(n.chans[k])]
  <1>1. f.chans = C /\ f.view = n.view /\ f.events = n.events
    BY Zenon DEF Snapshot
  <1>2. DOMAIN f.chans = funded
    BY <1>1, Zenon
  <1>3. \A k \in funded : ChanOk(f.chans[k], k, f.view, h) /\ is_funding_initiated(f.chans[k])
    <2> SUFFICES ASSUME NEW k \in funded
                 PROVE  ChanOk(f.chans[k], k, f.view, h) /\ is_funding_initiated(f.chans[k])
      BY Zenon
    <2>1. f.chans[k] = remove_uncommitted_htlcs_and_mark_paused(n.chans[k])
      BY <1>1, Zenon
    <2>2. ChanOk(n.chans[k], k, n.view, h) /\ is_funding_initiated(n.chans[k])
      BY Zenon DEF NodeOk, NodeIn
    <2>3. Alike(n.chans[k], f.chans[k])
      BY <2>1, <2>2, PausedAlike, Zenon DEF ChanOk, Sane
    <2> QED
      BY <1>1, <2>2, <2>3, AlikeOk, ZenonT(40)
  <1>4. funded \subseteq DOMAIN n.mons /\ \A k \in funded : n.chans[k].st # "InitBoth"
    BY Zenon DEF NodeOk, NodeIn, is_funding_initiated
  <1>5. /\ IsSeq(n.events) /\ Range(n.events) \subseteq O /\ Distinct(n.events)
        /\ \A k \in DOMAIN n.chans : k \in Range(n.events) => n.chans[k].st = "InitBoth"
        /\ IsSeq(n.view) /\ Len(n.view) <= h
    BY Zenon DEF NodeOk, NodeIn, Pending
  <1>6. funded \cap Range(n.events) = {}
    BY <1>4, <1>5, Zenon
  <1> HIDE DEF funded, C
  <1> QED
    BY <1>1, <1>2, <1>3, <1>4, <1>5, <1>6, Zenon DEF FileOk

\* A restart, with the monitors that are stored and a file that is older.
LEMMA LoadedKeeps ==
    ASSUME NEW n, NEW O, NEW h \in Nat, NodeOk(n, O, h), NEW f, FileOk(f, DOMAIN n.mons, O, h),
           NEW m, m = Loaded(n, f)
    PROVE  NodeOk(m, O, h) /\ Tame(n, m) /\ m.events = f.events /\ m.hand.pc = "starting"
  <1> DEFINE behind == {k \in DOMAIN f.chans \cap DOMAIN n.mons : n.mons[k]}
             kept == DOMAIN f.chans \ behind
             lone == DOMAIN n.mons \ kept
             C == [k \in kept |-> f.chans[k]]
             I == UNION {ShortId(k, f.chans[k]) : k \in kept}
             E == {k \in DOMAIN n.mons : Spend(k) \in InChain(n.view)}
             T == {Spend(k) : k \in lone}
             D == IF kept \subseteq DOMAIN n.mons THEN n.dead ELSE "channel without monitor"
             H == [pc |-> "starting"]
  <1>1. m = [n EXCEPT !.chans = C, !.ids = I, !.mevents = E, !.view = f.view, !.up = FALSE,
                      !.known = f.known, !.events = f.events, !.later = f.later, !.hand = H,
                      !.tasks = T, !.dead = D]
    BY Zenon DEF Loaded
  <1>2. kept \subseteq DOMAIN f.chans /\ kept \subseteq DOMAIN n.mons /\ kept \subseteq O
    BY Zenon DEF FileOk, NodeOk, NodeIn
  <1>3. D # "channel without monitor"
    BY <1>2, Zenon DEF NodeOk, NodeIn
  <1>4. I \subseteq O \X (1 .. h)
    <2>1. \A k \in kept : ShortId(k, f.chans[k]) \subseteq O \X (1 .. h)
      <3> SUFFICES ASSUME NEW k \in kept PROVE ShortId(k, f.chans[k]) \subseteq O \X (1 .. h)
        BY Zenon
      <3>1. ChanOk(f.chans[k], k, f.view, h) /\ k \in O
        BY <1>2, Zenon DEF FileOk
      <3> QED
        BY <3>1, ShortIds, Zenon
    <2> QED
      BY <2>1, Zenon
  <1>5. \A k : Fund(k) \notin T
    BY SpendIsNot, Zenon
  <1>6. DOMAIN C = kept /\ \A k \in kept : C[k] = f.chans[k]
    BY Zenon
  <1>7. H.pc = "starting"
    BY Zenon
  <1>8. DOMAIN n = NodeFields
    BY Zenon DEF NodeOk, NodeIn
  <1> HIDE DEF behind, kept, lone, C, I, E, T, D, H
  <1>9. /\ DOMAIN m = NodeFields /\ m.chans = C /\ m.ids = I /\ m.mons = n.mons /\ m.view = f.view
        /\ m.events = f.events /\ m.hand = H /\ m.tasks = T /\ m.dead = D
    BY <1>1, <1>8, Zenon DEF NodeFields
  <1>10. \A k \in DOMAIN m.chans : /\ ChanOk(m.chans[k], k, m.view, h)
                                   /\ is_funding_initiated(m.chans[k]) <=> k \in DOMAIN m.mons
    BY <1>2, <1>6, <1>9, Zenon DEF FileOk
  <1>11. Pending(m, O)
    <2>1. m.hand.pc = "starting"
      BY <1>7, <1>9, Zenon
    <2>2. /\ IsSeq(m.events) /\ Range(m.events) \subseteq O /\ Distinct(m.events)
          /\ \A k \in DOMAIN m.chans : k \notin Range(m.events)
      BY <1>2, <1>6, <1>9, Zenon DEF FileOk
    <2> QED
      BY <2>1, <2>2, Zenon DEF Pending
  <1>12. DOMAIN m.chans \subseteq O /\ DOMAIN m.mons \subseteq O /\ IsSeq(m.view) /\ Len(m.view) <= h
    BY <1>2, <1>6, <1>9, Zenon DEF NodeOk, NodeIn, FileOk
  <1>13. NodeOk(m, O, h)
    BY <1>3, <1>4, <1>9, <1>10, <1>11, <1>12, Zenon DEF NodeOk, NodeIn
  <1>14. Tame(n, m)
    BY <1>2, <1>5, <1>6, <1>9, Zenon DEF Tame
  <1> QED
    BY <1>7, <1>9, <1>13, <1>14, Zenon

LEMMA ShutdownGood ==
    ASSUME NEW n, NEW O, NEW h, NodeOk(n, O, h), NEW k \in DOMAIN n.chans, NEW q, Simple(q),
           NEW r, r = Result(Shutdown(n, {k}, TRUE), q)
    PROVE  Good(n, r, O, h)
  <1> DEFINE ks == {k}
             b == TRUE
             m == Shutdown(n, ks, b)
  <1>1. r.n = m /\ r.msgs = q
    BY ResultIs, Zenon
  <1>2. ks \subseteq DOMAIN n.chans
    BY Zenon
  <1> HIDE DEF ks, b
  <1>3. NodeOk(m, O, h) /\ Tame(n, m) /\ m.events = n.events /\ m.hand = n.hand
    BY <1>2, ShutdownKeeps
  <1> HIDE DEF m
  <1> QED
    BY <1>1, <1>3, Zenon DEF Good

LEMMA CloseGood ==
    ASSUME NEW n, NEW O, NEW h, NodeOk(n, O, h), NEW k \in DOMAIN n.chans PROVE Good(n, Close(n, k), O, h)
  <1>1. Simple(<<Error(k, channel_id(n.chans[k]))>>)
    BY SimpleOne, PlainMsgs, Zenon
  <1> QED
    BY <1>1, ShutdownGood, Zenon DEF Close

LEMMA TameSame == ASSUME NEW n PROVE Tame(n, n)
  BY Zenon DEF Tame

LEMMA SameGood ==
    ASSUME NEW n, NEW O, NEW h, NodeOk(n, O, h) PROVE Good(n, Result(n, <<>>), O, h)
  BY ResultIs, SimpleNone, TameSame, Zenon DEF Good

\* A node m that is n with the channel d for k, but for short ids, announcements.
LEMMA PutGood ==
    ASSUME NEW n, NEW O, NEW h, NodeOk(n, O, h), NEW k \in DOMAIN n.chans, NEW d,
           ChanOk(d, k, n.view, h), is_funding_initiated(d) <=> is_funding_initiated(n.chans[k]),
           n.chans[k].st = "InitBoth" => d.st = "InitBoth",
           NEW I, I \subseteq O \X (1 .. h), NEW N, NEW q, Simple(q),
           NEW m, m = Put(n, k, d) \/ m = [Put(n, k, d) EXCEPT !.ids = I] \/ m = [Put(n, k, d) EXCEPT !.ann = N]
    PROVE  Good(n, Result(m, q), O, h)
  <1> DEFINE p == Put(n, k, d)
  <1>1. NodeOk(p, O, h) /\ Tame(n, p)
    BY PutKeeps, Zenon
  <1>2. DOMAIN n = NodeFields
    BY Zenon DEF NodeOk, NodeIn
  <1>3. p.events = n.events /\ p.hand = n.hand /\ DOMAIN p = NodeFields
    BY <1>2, PutIs
  <1>4. p.ids \subseteq O \X (1 .. h) /\ p.dead # "channel without monitor"
    BY <1>1, Zenon DEF NodeOk, NodeIn
  <1> HIDE DEF p
  <1>5. /\ DOMAIN m = NodeFields /\ m.chans = p.chans /\ m.mons = p.mons /\ m.view = p.view
        /\ m.events = p.events /\ m.hand = p.hand /\ m.tasks = p.tasks /\ m.dead = p.dead
        /\ m.ids \subseteq O \X (1 .. h)
    <2>1. CASE m = p
      BY <1>3, <1>4, <2>1, Zenon
    <2>2. CASE m = [p EXCEPT !.ids = I]
      BY <1>3, <2>2, Zenon DEF NodeFields
    <2>3. CASE m = [p EXCEPT !.ann = N]
      BY <1>3, <1>4, <2>3, Zenon DEF NodeFields
    <2> QED
      BY <2>1, <2>2, <2>3, Zenon DEF p
  <1>6. NodeOk(m, O, h)
    BY <1>1, <1>4, <1>5, RestOk, Zenon
  <1>7. Tame(p, m)
    BY <1>5, RestTame, Zenon
  <1>8. Tame(n, m)
    BY <1>1, <1>7, TameBoth, Zenon
  <1> QED
    BY <1>3, <1>5, <1>6, <1>8, ResultIs DEF Good

LEMMA PutAnn ==
    ASSUME NEW n, NEW O, NEW h, NodeOk(n, O, h), NEW k \in DOMAIN n.chans, NEW d,
           ChanOk(d, k, n.view, h), is_funding_initiated(d) <=> is_funding_initiated(n.chans[k]),
           n.chans[k].st = "InitBoth" => d.st = "InitBoth", NEW N
    PROVE  Good(n, Result([Put(n, k, d) EXCEPT !.ann = N], <<>>), O, h)
  <1> DEFINE m == [Put(n, k, d) EXCEPT !.ann = N]
             I == n.ids
  <1>1. I \subseteq O \X (1 .. h)
    BY Zenon DEF NodeOk, NodeIn
  <1>2. m = Put(n, k, d) \/ m = [Put(n, k, d) EXCEPT !.ids = I] \/ m = [Put(n, k, d) EXCEPT !.ann = N]
    BY Zenon
  <1> HIDE DEF m, I
  <1>3. Good(n, Result(m, <<>>), O, h)
    BY <1>1, <1>2, SimpleNone, PutGood, Zenon
  <1> QED
    BY <1>3, Zenon DEF m

\* channel_ready.
LEMMA TheirsReady ==
    ASSUME NEW c, NEW k, NEW V, NEW h, ChanOk(c, k, V, h), is_funding_initiated(c),
           NEW d, d = channel_ready(c)
    PROVE  ChanOk(d, k, V, h) /\ is_funding_initiated(d)
  <1>1. CASE d = c
    BY <1>1, Zenon
  <1>2. CASE d # c
    <2>1. ~is_usable(c) /\ "their" \notin c.ready /\ d = Ready(c, "their")
      BY <1>2, Zenon DEF channel_ready
    <2>2. c.st = "FundingSent" /\ Sane(c)
      BY <2>1, Zenon DEF is_usable, is_funding_initiated, ChanOk
    <2>3. /\ Sane(d) /\ d.conf = c.conf /\ d.scid = c.scid /\ d.depth = c.depth /\ d.confIn = c.confIn
          /\ is_funding_initiated(d) /\ (is_our_channel_ready(d) => is_our_channel_ready(c))
      BY <2>1, <2>2, ReadyKeeps, Zenon
    <2>4. ReadyOk(d)
      BY <2>3, Zenon DEF ReadyOk, ChanOk
    <2> QED
      BY <2>3, <2>4, Zenon DEF ChanOk, Anchored
  <1> QED
    BY <1>1, <1>2, Zenon

LEMMA SignedKeeps ==
    ASSUME NEW c, NEW k, NEW V, NEW h, ChanOk(c, k, V, h), NEW height,
           NEW s, s = get_announcement_sigs(c, height)
    PROVE  /\ ChanOk(s.c, k, V, h) /\ (is_funding_initiated(s.c) <=> is_funding_initiated(c))
           /\ s.c.st = c.st
  <1>1. Alike(c, s.c)
    BY SigsAlike, Zenon DEF ChanOk, Sane
  <1> QED
    BY <1>1, AlikeOk, Zenon DEF Alike

ReadyResult(n, k, c) ==
  LET With(s) == Result(Put(n, k, s.c), If(s.sigs, Sigs(k, s.c.scid)))
  IN  IF c.gone THEN Result(n, <<>>)
      ELSE IF ~is_funding_initiated(c) THEN Close(n, k)
      ELSE With(get_announcement_sigs(channel_ready(c), Len(n.view)))

LEMMA ReadyGood ==
    ASSUME NEW n, NEW O, NEW h, NodeOk(n, O, h), NEW k \in DOMAIN n.chans
    PROVE  Good(n, ReadyResult(n, k, n.chans[k]), O, h)
  <1> DEFINE c == n.chans[k]
             d == channel_ready(c)
             s == get_announcement_sigs(d, Len(n.view))
             q == If(s.sigs, Sigs(k, s.c.scid))
             r == ReadyResult(n, k, c)
  <1>1. CASE c.gone
    BY <1>1, SameGood, Zenon DEF ReadyResult
  <1>2. CASE ~c.gone /\ ~is_funding_initiated(c)
    BY <1>2, CloseGood, Zenon DEF ReadyResult
  <1>3. CASE ~c.gone /\ is_funding_initiated(c)
    <2>1. r = Result(Put(n, k, s.c), q)
      BY <1>3, Zenon DEF ReadyResult
    <2>2. ChanOk(c, k, n.view, h)
      BY Zenon DEF NodeOk, NodeIn
    <2> HIDE DEF c
    <2>3. ChanOk(d, k, n.view, h) /\ is_funding_initiated(d)
      BY <1>3, <2>2, TheirsReady, Zenon
    <2> HIDE DEF d
    <2>4. ChanOk(s.c, k, n.view, h) /\ is_funding_initiated(s.c)
      BY <2>3, SignedKeeps, Zenon
    <2>5. Simple(q)
      BY SimpleIf, PlainMsgs, Zenon
    <2> HIDE DEF s, q, r
    <2>6. c.st # "InitBoth"
      BY <1>3, Zenon DEF is_funding_initiated
    <2>7. n.ids \subseteq O \X (1 .. h)
      BY Zenon DEF NodeOk, NodeIn
    <2>8. Good(n, Result(Put(n, k, s.c), q), O, h)
      BY <1>3, <2>4, <2>5, <2>6, <2>7, PutGood, Zenon DEF c
    <2> QED
      BY <2>1, <2>8, Zenon DEF c, r
  <1> QED
    BY <1>1, <1>2, <1>3, Zenon

SigsResult(n, k, c, scid) ==
  LET With(d) == Result([Put(n, k, d) EXCEPT !.ann = @ \cup Announced(k, d, Len(n.view))], <<>>)
  IN  IF ~is_usable(c) \/ ~Public THEN Result(n, <<>>)
      ELSE IF c.scid = 0
      THEN Result([n EXCEPT !.dead = "announcement without a short id"], <<>>)
      ELSE IF scid # c.scid THEN Close(n, k)
      ELSE With([c EXCEPT !.theirSigs = scid])

LEMMA SigsGood ==
    ASSUME NEW n, NEW O, NEW h, NodeOk(n, O, h), NEW k \in DOMAIN n.chans, NEW scid
    PROVE  Good(n, SigsResult(n, k, n.chans[k], scid), O, h)
  <1> DEFINE c == n.chans[k]
             d == [c EXCEPT !.theirSigs = scid]
             x == [n EXCEPT !.dead = "announcement without a short id"]
             r == SigsResult(n, k, c, scid)
             p == Put(n, k, d)
             N == p.ann \cup Announced(k, d, Len(n.view))
  <1>1. CASE r = Result(n, <<>>)
    BY <1>1, SameGood, Zenon
  <1>2. CASE r = Result(x, <<>>)
    <2>1. DOMAIN n = NodeFields
      BY Zenon DEF NodeOk, NodeIn
    <2>2. /\ DOMAIN x = NodeFields /\ x.chans = n.chans /\ x.mons = n.mons /\ x.view = n.view
          /\ x.events = n.events /\ x.hand = n.hand /\ x.tasks = n.tasks /\ x.ids = n.ids
          /\ x.dead # "channel without monitor"
      BY <2>1, Zenon DEF NodeFields
    <2>3. n.ids \subseteq O \X (1 .. h)
      BY Zenon DEF NodeOk, NodeIn
    <2> HIDE DEF x
    <2>4. NodeOk(x, O, h)
      BY <2>2, <2>3, RestOk, Zenon
    <2>5. Tame(n, x)
      BY <2>2, RestTame, Zenon
    <2>6. r.n = x /\ r.msgs = <<>>
      BY <1>2, ResultIs, ZenonT(40)
    <2> HIDE DEF r
    <2> QED
      BY <2>2, <2>4, <2>5, <2>6, SimpleNone, Zenon DEF Good, r
  <1>3. CASE r = Close(n, k)
    BY <1>3, CloseGood, Zenon
  <1>4. CASE r = Result([p EXCEPT !.ann = N], <<>>)
    <2>1. ChanOk(c, k, n.view, h) /\ n.ids \subseteq O \X (1 .. h)
      BY Zenon DEF NodeOk, NodeIn
    <2>2. Alike(c, d)
      BY <2>1, Zenon DEF ChanOk, Sane, Alike, ChanFields
    <2> HIDE DEF d
    <2>3. ChanOk(d, k, n.view, h) /\ (is_funding_initiated(d) <=> is_funding_initiated(c)) /\ d.st = c.st
      BY <2>1, <2>2, AlikeOk, Zenon DEF Alike
    <2> HIDE DEF N
    <2>5. n.chans[k].st = "InitBoth" => d.st = "InitBoth"
      BY <2>3, Zenon
    <2>6. is_funding_initiated(d) <=> is_funding_initiated(n.chans[k])
      BY <2>3, Zenon
    <2>7. Good(n, Result([Put(n, k, d) EXCEPT !.ann = N], <<>>), O, h)
      BY <2>3, <2>5, <2>6, PutAnn, Zenon
    <2> QED
      BY <1>4, <2>7, Zenon DEF p, r, c
  <1> QED
    BY <1>1, <1>2, <1>3, <1>4, Zenon DEF SigsResult

ReestablishResult(n, k, c) ==
  LET With(s) ==
        Result([Put(n, k, s.c) EXCEPT
                  !.ids = IF is_our_channel_ready(c) THEN @ \cup ShortId(k, c) ELSE @],
               If(is_our_channel_ready(c), Msg("channel_ready", k)) \o If(s.sigs, Sigs(k, s.c.scid)))
  IN  IF ~c.gone THEN Close(n, k)
      ELSE With(get_announcement_sigs([c EXCEPT !.gone = FALSE], Len(n.view)))

LEMMA ReestablishGood ==
    ASSUME NEW n, NEW O, NEW h \in Nat, NodeOk(n, O, h), NEW k \in DOMAIN n.chans
    PROVE  Good(n, ReestablishResult(n, k, n.chans[k]), O, h)
  <1> DEFINE c == n.chans[k]
             d == [c EXCEPT !.gone = FALSE]
             s == get_announcement_sigs(d, Len(n.view))
             p == Put(n, k, s.c)
             I == IF is_our_channel_ready(c) THEN p.ids \cup ShortId(k, c) ELSE p.ids
             q == If(is_our_channel_ready(c), Msg("channel_ready", k)) \o If(s.sigs, Sigs(k, s.c.scid))
             r == ReestablishResult(n, k, c)
  <1>1. CASE ~c.gone
    BY <1>1, CloseGood, Zenon DEF ReestablishResult
  <1>2. CASE c.gone
    <2>1. r = Result([p EXCEPT !.ids = I], q)
      BY <1>2, Zenon DEF ReestablishResult
    <2>2. ChanOk(c, k, n.view, h) /\ n.ids \subseteq O \X (1 .. h) /\ k \in O /\ DOMAIN n = NodeFields
      BY Zenon DEF NodeOk, NodeIn
    <2>3. Alike(c, d)
      BY <2>2, Zenon DEF ChanOk, Sane, Alike, ChanFields
    <2> HIDE DEF d
    <2>4. ChanOk(d, k, n.view, h) /\ (is_funding_initiated(d) <=> is_funding_initiated(c)) /\ d.st = c.st
      BY <2>2, <2>3, AlikeOk, Zenon DEF Alike
    <2>5. ChanOk(s.c, k, n.view, h) /\ (is_funding_initiated(s.c) <=> is_funding_initiated(c)) /\ s.c.st = c.st
      BY <2>4, SignedKeeps, ZenonT(40)
    <2>6. Simple(q)
      <3>1. Simple(If(is_our_channel_ready(c), Msg("channel_ready", k))) /\ Simple(If(s.sigs, Sigs(k, s.c.scid)))
        BY SimpleIf, PlainMsgs, Zenon
      <3> QED
        BY <3>1, SimpleJoin, Zenon
    <2> HIDE DEF s, q
    <2>7. I \subseteq O \X (1 .. h)
      <3>1. p.ids = n.ids
        BY <2>2, PutIs
      <3>2. ShortId(k, c) \subseteq O \X (1 .. h)
        BY <2>2, ShortIds, Zenon
      <3> QED
        BY <2>2, <3>1, <3>2, Zenon
    <2> HIDE DEF I, r
    <2>8. Good(n, Result([p EXCEPT !.ids = I], q), O, h)
      BY <2>5, <2>6, <2>7, PutGood, Zenon
    <2> QED
      BY <2>1, <2>8, Zenon DEF r
  <1> QED
    BY <1>1, <1>2, Zenon

-----------------------------------------------------------------------------
(* The messages on their way to a node: open_channel for the channels S, at *)
(* most once for each, and funding_signed for channels the other has stored  *)
(* a monitor of, M.                                                        *)

Tells(m, M) ==
  /\ m.type = "accept_channel" => m.depth \in Nat
  /\ m.type = "funding_signed" => m.k \in M

Mail(q, S, M) ==
  /\ IsSeq(q)
  /\ \A i \in 1 .. Len(q) : Tells(q[i], M) /\ (q[i].type = "open_channel" => q[i].k \in S)
  /\ \A i, j \in 1 .. Len(q) :
       q[i].type = "open_channel" /\ q[j].type = "open_channel" /\ q[i].k = q[j].k => i = j

Sendable(q, M) == IsSeq(q) /\ \A m \in Range(q) : Tells(m, M) /\ m.type # "open_channel"

LEMMA SimpleSent == ASSUME NEW q, Simple(q), NEW M PROVE Sendable(q, M)
  BY Zenon DEF Simple, Plain, Sendable, Tells

LEMMA MailLater ==
    ASSUME NEW q, NEW S, NEW M, Mail(q, S, M), NEW T, S \subseteq T, NEW N, M \subseteq N PROVE Mail(q, T, N)
  BY Zenon DEF Mail, Tells

LEMMA MailNone == ASSUME NEW S, NEW M PROVE Mail(<<>>, S, M)
  BY NoneOf DEF Mail

LEMMA MailTail ==
    ASSUME NEW q, NEW S, NEW M, Mail(q, S, M), q # <<>>
    PROVE  Mail(Tail(q), S, M) /\ (Head(q).type = "open_channel" => Mail(Tail(q), S \ {Head(q).k}, M))
           /\ Tells(Head(q), M) /\ (Head(q).type = "open_channel" => Head(q).k \in S)
  <1> DEFINE t == Tail(q)
  <1>1. /\ Len(q) \in Nat \ {0} /\ Head(q) = q[1] /\ IsSeq(t) /\ Len(t) = Len(q) - 1
        /\ \A i \in 1 .. Len(q) - 1 : t[i] = q[i + 1]
    BY TailOf, Zenon DEF Mail
  <1> HIDE DEF t
  <1>2. \A i \in 1 .. Len(t) : i + 1 \in 1 .. Len(q) /\ i + 1 # 1 /\ t[i] = q[i + 1]
    BY <1>1
  <1>3. 1 \in 1 .. Len(q)
    BY <1>1
  <1>4. \A i \in 1 .. Len(t) : Tells(t[i], M) /\ (t[i].type = "open_channel" => t[i].k \in S)
    BY <1>2, Zenon DEF Mail
  <1>5. \A i, j \in 1 .. Len(t) :
          t[i].type = "open_channel" /\ t[j].type = "open_channel" /\ t[i].k = t[j].k => i = j
    <2> SUFFICES ASSUME NEW i \in 1 .. Len(t), NEW j \in 1 .. Len(t), t[i].type = "open_channel",
                        t[j].type = "open_channel", t[i].k = t[j].k
                 PROVE  i = j
      BY Zenon
    <2>1. i + 1 = j + 1
      BY <1>2, Zenon DEF Mail
    <2> QED
      BY <1>1, <2>1
  <1>6. Mail(t, S, M)
    BY <1>1, <1>4, <1>5, Zenon DEF Mail
  <1>7. ASSUME Head(q).type = "open_channel" PROVE Mail(t, S \ {Head(q).k}, M)
    <2>1. \A i \in 1 .. Len(t) : t[i].type = "open_channel" => t[i].k # Head(q).k
      <3> SUFFICES ASSUME NEW i \in 1 .. Len(t), t[i].type = "open_channel", t[i].k = Head(q).k PROVE FALSE
        BY Zenon
      <3>1. q[i + 1].type = "open_channel" /\ q[1].type = "open_channel" /\ q[i + 1].k = q[1].k
        BY <1>1, <1>2, <1>7, Zenon
      <3> QED
        BY <1>2, <1>3, <3>1, Zenon DEF Mail
    <2> QED
      BY <1>1, <1>4, <1>5, <2>1, Zenon DEF Mail
  <1>8. Tells(Head(q), M) /\ (Head(q).type = "open_channel" => Head(q).k \in S)
    BY <1>1, <1>3, Zenon DEF Mail
  <1> QED
    BY <1>6, <1>7, <1>8, Zenon DEF t

LEMMA MailJoin ==
    ASSUME NEW q, NEW S, NEW M, Mail(q, S, M), NEW r, Sendable(r, M) PROVE Mail(q \o r, S, M)
  <1> DEFINE s == q \o r
  <1>1. IsSeq(q) /\ IsSeq(r)
    BY Zenon DEF Mail, Sendable
  <1>2. Len(q) \in Nat /\ Len(r) \in Nat /\ \A i \in 1 .. Len(r) : r[i] \in Range(r)
    BY <1>1, SeqIs, Zenon
  <1>3. /\ IsSeq(s) /\ Len(s) = Len(q) + Len(r)
        /\ \A i \in 1 .. Len(q) : s[i] = q[i]
        /\ \A i \in Len(q) + 1 .. Len(q) + Len(r) : s[i] = r[i - Len(q)]
    BY <1>1, Joined, Zenon
  <1> HIDE DEF s
  <1>4. \A i \in 1 .. Len(s) : i \in 1 .. Len(q)
          \/ (i \in Len(q) + 1 .. Len(q) + Len(r) /\ i - Len(q) \in 1 .. Len(r))
    BY <1>2, <1>3
  <1>5. \A i \in 1 .. Len(s) : \/ i \in 1 .. Len(q) /\ s[i] = q[i]
                               \/ s[i] \in Range(r)
    BY <1>2, <1>3, <1>4, Zenon
  <1>6. \A m \in Range(r) : Tells(m, M) /\ m.type # "open_channel"
    BY Zenon DEF Sendable
  <1>7. \A i \in 1 .. Len(s) : Tells(s[i], M) /\ (s[i].type = "open_channel" => s[i].k \in S)
    BY <1>5, <1>6, Zenon DEF Mail
  <1>8. \A i \in 1 .. Len(s) : s[i].type = "open_channel" => i \in 1 .. Len(q) /\ s[i] = q[i]
    BY <1>5, <1>6, Zenon
  <1>9. \A i, j \in 1 .. Len(s) :
          s[i].type = "open_channel" /\ s[j].type = "open_channel" /\ s[i].k = s[j].k => i = j
    <2> SUFFICES ASSUME NEW i \in 1 .. Len(s), NEW j \in 1 .. Len(s), s[i].type = "open_channel",
                        s[j].type = "open_channel", s[i].k = s[j].k
                 PROVE  i = j
      BY Zenon
    <2>1. i \in 1 .. Len(q) /\ s[i] = q[i] /\ j \in 1 .. Len(q) /\ s[j] = q[j]
      BY <1>8, Zenon
    <2> QED
      BY <2>1, Zenon DEF Mail
  <1> QED
    BY <1>3, <1>7, <1>9, Zenon DEF Mail, s

\* A asks for one more channel.
LEMMA MailOpen ==
    ASSUME NEW q, NEW S, NEW M, Mail(q, S, M), NEW k, k \notin S, NEW T, T = S \cup {k}
    PROVE  Mail(Append(q, Msg("open_channel", k)), T, M)
  <1> DEFINE m == Msg("open_channel", k)
             s == Append(q, m)
  <1>1. m.type = "open_channel" /\ m.k = k
    BY Zenon DEF Msg
  <1>2. IsSeq(q) /\ Len(q) \in Nat
    BY SeqIs, Zenon DEF Mail
  <1> HIDE DEF m
  <1>3. IsSeq(s) /\ Len(s) = Len(q) + 1 /\ s[Len(q) + 1] = m /\ \A i \in 1 .. Len(q) : s[i] = q[i]
    BY <1>2, AppendOf
  <1> HIDE DEF s
  <1>4. \A i \in 1 .. Len(s) : i = Len(q) + 1 \/ i \in 1 .. Len(q)
    BY <1>2, <1>3
  <1>5. \A i \in 1 .. Len(q) : s[i].type = "open_channel" => s[i].k # k
    BY <1>3, Zenon DEF Mail
  <1>6. \A i \in 1 .. Len(s) : Tells(s[i], M) /\ (s[i].type = "open_channel" => s[i].k \in T)
    <2> SUFFICES ASSUME NEW i \in 1 .. Len(s)
                 PROVE  Tells(s[i], M) /\ (s[i].type = "open_channel" => s[i].k \in T)
      BY Zenon
    <2>1. CASE i = Len(q) + 1
      BY <1>1, <1>3, <2>1, Zenon DEF Tells
    <2>2. CASE i \in 1 .. Len(q)
      BY <1>3, <2>2, Zenon DEF Mail
    <2> QED
      BY <1>4, <2>1, <2>2, Zenon
  <1>7. \A i, j \in 1 .. Len(s) :
          s[i].type = "open_channel" /\ s[j].type = "open_channel" /\ s[i].k = s[j].k => i = j
    <2> SUFFICES ASSUME NEW i \in 1 .. Len(s), NEW j \in 1 .. Len(s), s[i].type = "open_channel",
                        s[j].type = "open_channel", s[i].k = s[j].k
                 PROVE  i = j
      BY Zenon
    <2>1. CASE i \in 1 .. Len(q) /\ j \in 1 .. Len(q)
      BY <1>3, <2>1, Zenon DEF Mail
    <2>2. CASE i = Len(q) + 1 /\ j \in 1 .. Len(q)
      BY <1>1, <1>3, <1>5, <2>2, Zenon
    <2>3. CASE j = Len(q) + 1 /\ i \in 1 .. Len(q)
      BY <1>1, <1>3, <1>5, <2>3, Zenon
    <2> QED
      BY <1>4, <2>1, <2>2, <2>3, Zenon
  <1> QED
    BY <1>3, <1>6, <1>7, Zenon DEF Mail, s, m

LEMMA Peer ==
    /\ A # B /\ Other(A) = B /\ Other(B) = A
    /\ \A p \in Peers : Other(p) \in Peers /\ Other(p) # p /\ (p = A \/ p = B)
  BY OpenAssumption DEF Peers, Other

\* The answer to the first message.
LEMMA ReplyMail ==
    ASSUME DOMAIN net = Peers, NEW R, NEW S, NEW M, Mail(net[A], R, M), Mail(net[B], S, M),
           NEW p \in Peers, net[p] # <<>>, NEW q, Sendable(q, M), NEW nodes, NEW w, w = Reply(q, nodes, p)
    PROVE  DOMAIN w = Peers /\ Mail(w[A], R, M) /\ Mail(w[B], S, M)
  <1>1. DOMAIN w = Peers
    BY Zenon DEF Reply
  <1>2. w[p] = Tail(net[p]) /\ (w[Other(p)] = net[Other(p)] \/ w[Other(p)] = net[Other(p)] \o q)
    BY Peer, Zenon DEF Reply
  <1>3. CASE p = A
    <2>1. w[A] = Tail(net[A]) /\ (w[B] = net[B] \/ w[B] = net[B] \o q)
      BY <1>2, <1>3, Peer, Zenon
    <2>2. Mail(Tail(net[A]), R, M) /\ Mail(net[B] \o q, S, M)
      BY <1>3, MailTail, MailJoin, Zenon
    <2> QED
      BY <1>1, <2>1, <2>2, Zenon
  <1>4. CASE p = B
    <2>1. w[B] = Tail(net[B]) /\ (w[A] = net[A] \/ w[A] = net[A] \o q)
      BY <1>2, <1>4, Peer, Zenon
    <2>2. Mail(Tail(net[B]), S, M) /\ Mail(net[A] \o q, R, M)
      BY <1>4, MailTail, MailJoin, Zenon
    <2> QED
      BY <1>1, <2>1, <2>2, Zenon
  <1> QED
    BY <1>3, <1>4, Peer, Zenon

\* Something is sent.
Sent(p, q) == [net EXCEPT ![p] = IF node[A].up /\ node[B].up THEN @ \o q ELSE @]

LEMMA SentMail ==
    ASSUME DOMAIN net = Peers, NEW R, NEW S, NEW M, Mail(net[A], R, M), Mail(net[B], S, M),
           NEW p \in Peers, NEW q, Sendable(q, M), NEW w, w = Sent(p, q)
    PROVE  DOMAIN w = Peers /\ Mail(w[A], R, M) /\ Mail(w[B], S, M)
  <1>1. DOMAIN w = Peers
    BY Zenon DEF Sent
  <1>2. \A o \in Peers : w[o] = net[o] \/ w[o] = net[o] \o q
    BY Zenon DEF Sent
  <1>3. Mail(net[A] \o q, R, M) /\ Mail(net[B] \o q, S, M)
    BY MailJoin, Zenon
  <1>4. A \in Peers /\ B \in Peers
    BY Zenon DEF Peers
  <1> QED
    BY <1>1, <1>2, <1>3, <1>4, Zenon

\* What was on its way to p is lost.
LEMMA LostMail ==
    ASSUME DOMAIN net = Peers, NEW R, NEW S, NEW M, Mail(net[A], R, M), Mail(net[B], S, M),
           NEW p \in Peers, NEW w, w = [net EXCEPT ![p] = <<>>]
    PROVE  DOMAIN w = Peers /\ Mail(w[A], R, M) /\ Mail(w[B], S, M)
  <1>1. DOMAIN w = Peers
    BY Zenon
  <1>2. \A o \in Peers : w[o] = net[o] \/ w[o] = <<>>
    BY Zenon
  <1>3. A \in Peers /\ B \in Peers
    BY Zenon DEF Peers
  <1> QED
    BY <1>1, <1>2, <1>3, MailNone, Zenon
============================================================================
