-------------------------- MODULE CheckedDelivery --------------------------
(***************************************************************************)
(* What a checked stream promises, whatever the ports at its two ends and  *)
(* whatever the connection does: the consumer is handed a prefix of what   *)
(* was sent, in order and unaltered; it ends with "clean" only after all   *)
(* of a stream that completed, with "streamError" only after all that was  *)
(* sent of a stream whose producer failed; and it may always end with      *)
(* "aborted", a verdict that claims nothing (docs/FAILURE.md).             *)
(***************************************************************************)
EXTENDS Sequences, Naturals

CONSTANT Element

VARIABLES
    sent,       \* the values the producer has put on the wire
    status,     \* "sending", "completed" or "failed"
    delivered,  \* the values the consumer was handed
    verdict     \* "none", "clean", "streamError" or "aborted"

vars == <<sent, status, delivered, verdict>>

Init ==
    /\ sent = <<>> /\ status = "sending"
    /\ delivered = <<>> /\ verdict = "none"

Send ==
    /\ status = "sending"
    /\ \E e \in Element : sent' = Append(sent, e)
    /\ UNCHANGED <<status, delivered, verdict>>

Conclude ==
    /\ status = "sending"
    /\ status' \in {"completed", "failed"}
    /\ UNCHANGED <<sent, delivered, verdict>>

\* The next value, possibly together with the verdict "aborted" when the
\* consumer's own function stops on it.
Deliver ==
    /\ verdict = "none"
    /\ Len(delivered) < Len(sent)
    /\ delivered' = SubSeq(sent, 1, Len(delivered) + 1)
    /\ verdict' \in {"none", "aborted"}
    /\ UNCHANGED <<sent, status>>

Judge ==
    /\ verdict = "none"
    /\ \/ status = "completed" /\ delivered = sent /\ verdict' = "clean"
       \/ status = "failed" /\ delivered = sent /\ verdict' = "streamError"
       \/ verdict' = "aborted"
    /\ UNCHANGED <<sent, status, delivered>>

Next == Send \/ Conclude \/ Deliver \/ Judge
Spec == Init /\ [][Next]_vars
=============================================================================
