---------------------------- MODULE MC_PeerManager ----------------------------
(* The instances TLC checks of two nodes and their connections. *)
EXTENDS PeerManager

\* A fault budget: the reconnect tasks, then how many broken connections, timer ticks, calls
\* of disconnect_all_peers and first writes that fail.
Budget(tasks, breaks, ticks, drops, stalls) ==
  [tasks |-> tasks, breaks |-> breaks, ticks |-> ticks, drops |-> drops, stalls |-> stalls]

SomeFaults ==
  {Budget({1}, 1, 1, 0, 0), Budget({1}, 0, 2, 0, 1), Budget({1}, 1, 0, 1, 0),
   Budget({1, 2}, 0, 1, 0, 0)}
=============================================================================
