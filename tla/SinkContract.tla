----------------------------- MODULE SinkContract -----------------------------
(***************************************************************************)
(* What everything that hands events on promises (docs/ADR/001 asks for    *)
(* at-least-once delivery).  A consumer of the normalized stream settles a *)
(* message, that is takes it off the stream for good, only when something   *)
(* durable holds it; the ingestion API calls an event accepted only when    *)
(* the stream does.                                                         *)
(***************************************************************************)
CONSTANT Messages

VARIABLES
    kept,     \* messages that are held: by the sink, the dead-letter queue, the stream
    settled   \* messages acknowledged for good, or called accepted

Init == kept = {} /\ settled = {}

(* Some messages are stored and some of the stored ones acknowledged. *)
Deliver ==
    \E K \in SUBSET Messages, A \in SUBSET Messages :
        /\ kept' = kept \cup K
        /\ settled' = settled \cup A
        /\ settled' \subseteq kept'

Spec == Init /\ [][Deliver]_<<kept, settled>>

(* No message is taken off the stream before it is kept. *)
SettledIsKept == settled \subseteq kept
===============================================================================
