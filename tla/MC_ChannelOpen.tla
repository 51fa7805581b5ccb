---------------------------- MODULE MC_ChannelOpen ----------------------------
EXTENDS ChannelOpen

Budget(depths, announce, height, reorgs, breaks, restarts) ==
    [depths |-> depths, announce |-> announce, height |-> height,
     reorgs |-> reorgs, breaks |-> breaks, restarts |-> restarts]

\* A reorganisation and a lost connection, or a reorganisation and a restart, with a
\* channel that is announced at once; the same with one that is trusted or has to wait
\* for its announcement; a lost connection and a restart.
TwoFaults == {Budget({1}, 0, 2, 1, 1, 0), Budget({1}, 0, 2, 1, 0, 1), Budget({0}, 1, 2, 1, 1, 0),
              Budget({1}, 1, 2, 1, 0, 1), Budget({0, 1}, 1, 1, 0, 1, 1)}
=============================================================================
