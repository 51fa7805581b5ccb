----------------------------- MODULE MC_Onchain -----------------------------
(* The instances TLC checks of a channel on chain. *)
EXTENDS Onchain

CONSTANTS o1, o2, i1, i2

Order == <<o1, o2, i1, i2>>

\* A channel: what each commitment lists and has outputs for, and what may
\* happen to it.
Deal(listed, outputs, unrevoked, preimages, late, reorgs, close) ==
  [listed |-> listed, outputs |-> outputs, unrevoked |-> unrevoked,
   expiry |-> o1 :> 3 @@ o2 :> 3 @@ i1 :> 4 @@ i2 :> 4,
   preimages |-> preimages, late |-> late, reorgs |-> reorgs, close |-> close]

Each(holder, cur, prev) == [holder |-> holder, cur |-> cur, prev |-> prev]

\* An outbound HTLC in every commitment and one only in their newest.
Outgoing(reorgs, close) ==
  Deal(Each({o1}, {o1, o2}, {o1}), Each({o1}, {o1, o2}, {o1}), {"cur", "prev"}, {}, {}, reorgs, close)

\* Two inbound HTLCs, with the preimages of some.
Incoming(preimages, late, reorgs) ==
  Deal(Each({i1, i2}, {i1, i2}, {}), Each({i1, i2}, {i1, i2}, {}), {"cur"}, preimages, late, reorgs, FALSE)

\* One HTLC each way, and an outbound one that is dust.
Mixed(reorgs) ==
  Deal(Each({o1, i1}, {o1, o2, i1}, {}), Each({o1, i1}, {o1, i1}, {}), {"cur"}, {i1}, {}, reorgs, FALSE)

\* Reorganisations of one block and of two, a preimage that comes late, a close by our user.
SomeReorgs ==
  {Outgoing(1, TRUE), Incoming({i1, i2}, {}, 2), Incoming({i1}, {i2}, 1), Mixed(2)}

\* One block replaced.
OneReorg == {Outgoing(1, FALSE)}
=============================================================================
