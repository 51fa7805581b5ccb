----------------------------- MODULE HtlcLedger -----------------------------
(***************************************************************************)
(* What a channel promises for the HTLCs that one of its ends offers to the  *)
(* other, whatever happens to messages, monitor updates and processes: each   *)
(* one is handed over at most once, is claimed or failed, and the end that    *)
(* offered it hears of that outcome and of no other.                          *)
(*                                                                         *)
(* An HTLC the receiver has not been given may be failed without it, by the   *)
(* channel itself; it is never handed over afterwards.                        *)
(***************************************************************************)
EXTENDS TLAPS

VARIABLES
    offered,      \* the HTLCs offered so far
    handed,       \* those the receiver may act on
    claimed,      \* those it has claimed
    failed,       \* those it has failed
    toldClaimed,  \* those the offering end has a preimage for
    toldFailed    \* those the offering end has failed back

offerer == <<offered, toldClaimed, toldFailed>>
receiver == <<handed, claimed, failed>>
vars == <<offered, handed, claimed, failed, toldClaimed, toldFailed>>

Init ==
    /\ offered = {} /\ handed = {} /\ claimed = {} /\ failed = {}
    /\ toldClaimed = {} /\ toldFailed = {}

\* f grows, by elements of S only.
Grows(f, g, S) == f \subseteq g /\ g \subseteq f \cup S

HandOver ==
    /\ Grows(handed, handed', offered \ toldFailed)
    /\ UNCHANGED <<claimed, failed, offerer>>

Claim ==
    /\ Grows(claimed, claimed', handed \ failed)
    /\ UNCHANGED <<handed, failed, offerer>>

Fail ==
    /\ Grows(failed, failed', handed \ claimed)
    /\ UNCHANGED <<handed, claimed, offerer>>

LearnClaim ==
    /\ Grows(toldClaimed, toldClaimed', claimed)
    /\ UNCHANGED <<offered, toldFailed, receiver>>

\* New HTLCs may go out in the step that completes the failure of others.
OfferOrLearnFailure ==
    /\ offered \subseteq offered'
    /\ Grows(toldFailed, toldFailed', failed \cup (offered \ handed))
    /\ UNCHANGED <<toldClaimed, receiver>>

Next == HandOver \/ Claim \/ Fail \/ LearnClaim \/ OfferOrLearnFailure

Spec == Init /\ [][Next]_vars

-----------------------------------------------------------------------------
\* Each HTLC has one outcome, and it is the one its offerer hears: a claim the
\* offerer pays for was made, and nothing that was failed back is claimed.
OneOutcome ==
    /\ toldClaimed \subseteq claimed
    /\ toldFailed \cap claimed = {}
    /\ claimed \cap failed = {}

\* The strengthening: only what was handed over is decided on, and what was
\* failed back was failed by the receiver or never given to it.
LedgerInv ==
    /\ OneOutcome
    /\ claimed \subseteq handed
    /\ toldFailed \cap handed \subseteq failed

\* Every state of the ledger has OneOutcome; by the refinement the runs of
\* ChannelPair check, so has every state of a channel (channel.rs) there.
THEOREM LedgerKeepsOutcomes == Spec => []OneOutcome
<1>1. Init => LedgerInv
  BY DEF Init, LedgerInv, OneOutcome
<1>2. LedgerInv /\ [Next]_vars => LedgerInv'
  <2> SUFFICES ASSUME LedgerInv, [Next]_vars PROVE LedgerInv'
    OBVIOUS
  <2>1. CASE HandOver
    BY <2>1 DEF HandOver, Grows, LedgerInv, OneOutcome, offerer
  <2>2. CASE Claim
    BY <2>2 DEF Claim, Grows, LedgerInv, OneOutcome, offerer
  <2>3. CASE Fail
    BY <2>3 DEF Fail, Grows, LedgerInv, OneOutcome, offerer
  <2>4. CASE LearnClaim
    BY <2>4 DEF LearnClaim, Grows, LedgerInv, OneOutcome, receiver
  <2>5. CASE OfferOrLearnFailure
    BY <2>5 DEF OfferOrLearnFailure, Grows, LedgerInv, OneOutcome, receiver
  <2>6. CASE UNCHANGED vars
    BY <2>6 DEF vars, LedgerInv, OneOutcome
  <2> QED
    BY <2>1, <2>2, <2>3, <2>4, <2>5, <2>6 DEF Next
<1>3. LedgerInv => OneOutcome
  BY DEF LedgerInv
<1> QED
  BY <1>1, <1>2, <1>3, PTL DEF Spec
=============================================================================
