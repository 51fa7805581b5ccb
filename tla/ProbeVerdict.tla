---------------------------- MODULE ProbeVerdict ----------------------------
(***************************************************************************)
(* What one probe can learn.  A probe is a payment with a made-up hash     *)
(* sent to a guessed node over a made-up last hop: the target node and the *)
(* short channel id under test (probe.rs).  It always fails, and the error *)
(* code of the failure is turned into a row of the table "attempt"         *)
(* (main.rs, Event::PaymentPathFailed), which the commands probeall and    *)
(* dump_results read back (cli.rs).                                        *)
(*                                                                         *)
(* Node keys and short channel ids are model values; a hop is the node it  *)
(* leads to and the channel that leads there.                              *)
(***************************************************************************)
EXTENDS Naturals, Sequences, Functions

CONSTANTS
    Hub,           \* our channel's peer: the first node of every path
    Guess,         \* pubkey_guess, the destination of every probe
    Hidden,        \* the unannounced channels there are: <<node, scid>>
    GuessChannels, \* the announced channels of Guess: <<node, scid>>
    TargetErrors,  \* codes that a target which has the channel answers with
    RelayErrors    \* codes that a node before the target may answer with

\* A failure without a code: the onion error could not be decrypted, or our
\* channel closed before the HTLC was committed.
NoCode == "none"

Codes == {"0x400f", "0x100c", "0xc005", "0x100d", "0x100b", "0x400a",
          "other", NoCode}

ASSUME CodesAssumption == TargetErrors \cup RelayErrors \subseteq Codes

hop(node, scid) == [node |-> node, scid |-> scid]

(***************************************************************************)
(* Routing, seen from find_routes: the only channel of Guess the router    *)
(* knows for sure is the hint, but the hint is one candidate among the     *)
(* announced channels of Guess and nothing makes the router take it.       *)
(***************************************************************************)
ToNode(n) == IF n = Hub THEN <<hop(Hub, "own")>>
                        ELSE <<hop(Hub, "own"), hop(n, "announced")>>

Routes(target, scid) ==
    {Append(ToNode(c[1]), hop(Guess, c[2])) :
        c \in {<<target, scid>>} \cup GuessChannels}

(***************************************************************************)
(* The network.  The node before the destination is asked to forward over  *)
(* the last hop.  If that is a hidden channel it finds the fee, the expiry *)
(* or the amount wrong, or forwards to a peer that cannot read the onion;  *)
(* if it is an announced channel the HTLC arrives and its receiver does    *)
(* not know the hash; otherwise there is no such channel.  Nodes further   *)
(* up the path may fail the HTLC for reasons of their own.                 *)
(***************************************************************************)
\* Only for paths of two hops or more.
LastHop(path) == <<path[Len(path) - 1].node, path[Len(path)].scid>>

\* The channels there are, hidden or announced.
Exists(c) == c \in Hidden \/ c \in GuessChannels \/ c[2] = "announced"

Replies(path) ==
    {"other", NoCode}
      \cup (IF Len(path) > 2 THEN RelayErrors ELSE {})
      \cup (IF Len(path) = 1 THEN {"0x400f"}
            ELSE IF LastHop(path) \in Hidden
            THEN TargetErrors
            ELSE IF Exists(LastHop(path))
            THEN {"0x400f"} ELSE {"0x400a"})

\* The match on error_code.
ResultSwapped(code) ==
    CASE code = "0x400f" -> "incorrect_or_unknown_payment_details"
      [] code = "0x100c" -> "fee_insufficient"
      [] code = "0xc005" -> "unknown_next_peer"
      [] code = "0x100d" -> "incorrect_cltv_expiry"
      [] code = "0x100b" -> "amount_below_minimum"
      [] code = "0x400a" -> "invalid_onion_hmac"
      [] OTHER -> "unknown"

Result(code) ==
    CASE code = "0x400f" -> "incorrect_or_unknown_payment_details"
      [] code = "0x100c" -> "fee_insufficient"
      [] code = "0xc005" -> "invalid_onion_hmac"
      [] code = "0x100d" -> "incorrect_cltv_expiry"
      [] code = "0x100b" -> "amount_below_minimum"
      [] code = "0x400a" -> "unknown_next_peer"
      [] OTHER -> "unknown"

\* No row for a path of one hop, nor for a failure without a code.
Recorded(path, code) == Len(path) > 1 /\ code # NoCode

\* The row inserted for probe p; p itself is not a column, it is kept to say
\* which probe a row came from.
Row(p, path, code) ==
    [probe  |-> p,
     target |-> LastHop(path)[1],
     scid   |-> LastHop(path)[2],
     result |-> Result(code)]

\* The table is a set of rows: it has no key, but a row inserted twice, when an
\* event is handled again after a crash, reads the same as one.

\* The keys "target:channel_id" that probeall does not try again.
get_attempts_str_found(rows) ==
    {<<r.target, r.scid>> :
        r \in {q \in rows : q.result \notin {"unknown", "unknown_next_peer"}}}

get_attempts_str(rows) ==
    {<<r.target, r.scid>> : r \in {q \in rows : q.result # "unknown"}}

\* The rows that dump_results reports as channels.
get_attempts_found(rows) ==
    {r \in rows : r.result \notin {"unknown", "unknown_next_peer"}}
=============================================================================
