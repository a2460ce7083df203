--------------------------- MODULE ArrayDelivery ---------------------------
(***************************************************************************)
(* What a streamed collection without a trailer promises, in any format:   *)
(* every element that arrived is handed over once and in order, and none   *)
(* that did not; the iteration ends normally only where the format lets    *)
(* the collection end, with an error where it does not, and it ends.       *)
(* Elements are counted here; that they are the ones sent is stated by     *)
(* the modules that implement this one.                                    *)
(***************************************************************************)
EXTENDS Naturals

VARIABLES
    arrived,    \* elements all of whose text or bytes the reader can have
    whole,      \* whether the input may end after them
    handed,     \* elements handed to the caller
    verdict     \* "none", "complete", "failed" or "stopped"

vars == <<arrived, whole, handed, verdict>>

Init ==
    /\ arrived \in Nat /\ whole \in BOOLEAN
    /\ handed = 0 /\ verdict = "none"

Hand ==
    /\ handed < arrived
    /\ handed' = handed + 1

\* The last element may come with the end, and the caller may stop.
End ==
    \/ verdict' = "complete" /\ whole  /\ handed' = arrived
    \/ verdict' = "failed"   /\ ~whole /\ handed' = arrived
    \/ verdict' = "stopped"

Next ==
    /\ verdict = "none"
    /\ \/ Hand /\ UNCHANGED verdict
       \/ Hand /\ End
       \/ UNCHANGED handed /\ End
    /\ UNCHANGED <<arrived, whole>>

\* The caller goes on asking.
Spec == Init /\ [][Next]_vars /\ WF_vars(Next)
=============================================================================
