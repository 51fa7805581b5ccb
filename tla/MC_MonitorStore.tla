-------------------------- MODULE MC_MonitorStore --------------------------
(* MonitorStore for TLC: how the funding outpoints relate to funding txids. *)
EXTENDS MonitorStore

\* Each channel has a funding transaction of its own.
OwnTxid == [c \in Channels |-> c]
=============================================================================
