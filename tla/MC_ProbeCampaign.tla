-------------------------- MODULE MC_ProbeCampaign --------------------------
(* ProbeCampaign for TLC: the peer and one node behind it, and a few        *)
(* transaction outputs.                                                     *)
EXTENDS ProbeCampaign

CONSTANTS hub, far, dest, s1, s2, pub

\* The peer itself and a node reached through it.
BothNodes == <<hub, far>>
FarNode == <<far>>

\* Two outputs to test and one that opened an announced channel.
TwoTxs == <<s1, s2>>
OneTx == <<s1>>
OneAndPublic == <<s1, pub>>

OneHidden == {<<far, s1>>}

\* A target that finds the fee too low, or forwards to a peer that cannot read
\* the onion.
FeeTooLow == {"0x100c"}
Unreadable == {"0xc005"}

\* A relay that only ever fails temporarily, and one that does not know the next
\* node either.
RelaysBusy == {"other"}
RelaysRefuse == {"0x400a"}
=============================================================================
