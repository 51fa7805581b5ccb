--------------------------- MODULE MC_ChannelPair ---------------------------
(* Small instances of ChannelPair: A opened the channel with B.             *)
EXTENDS ChannelPair

CONSTANTS A, B

BothOwnTwo == [p \in {A, B} |-> 2]
OneEach == [p \in {A, B} |-> 1]
TwoFromA == [p \in {A, B} |-> IF p = A THEN 2 ELSE 0]
Floors == [p \in {A, B} |-> IF p = A THEN 1 ELSE 2]
Ceils == [p \in {A, B} |-> IF p = A THEN 3 ELSE 5]
NoneBad == {}
BsBad == {<<B, 1>>}
=============================================================================
