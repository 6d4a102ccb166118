----------------------------- MODULE LatestSlot -----------------------------
(***************************************************************************)
(* What every one-place mailbox of this repository promises: a place that   *)
(* holds at most the newest value offered to it.  Producers offer values    *)
(* named by increasing generations; an offer that is not newer than the     *)
(* newest one accepted so far has no effect; an accepted offer replaces the *)
(* value that waits.  The consumer takes the waiting value.                 *)
(*                                                                          *)
(* The relay's per-viewer channel implements this specification             *)
(* (ViewerMailbox).  The public relay producer's pending snapshot does not:  *)
(* after a reconnection it offers a value it has already sent once more.     *)
(***************************************************************************)
EXTENDS Naturals

VARIABLES
    accepted,   \* newest generation accepted so far, 0 before the first
    waiting,    \* generation that waits for the consumer, 0 when none does
    taken       \* newest generation the consumer took, 0 before the first

vars == <<accepted, waiting, taken>>

TypeOK == accepted \in Nat /\ waiting \in Nat /\ taken \in Nat

Init == accepted = 0 /\ waiting = 0 /\ taken = 0

Offer ==
    /\ accepted' \in Nat
    /\ accepted' > accepted
    /\ waiting' = accepted'
    /\ UNCHANGED taken

Take ==
    /\ waiting # 0
    /\ taken' = waiting
    /\ waiting' = 0
    /\ UNCHANGED accepted

Next == Offer \/ Take

Spec == Init /\ [][Next]_vars

(* The newest accepted value is never lost: it waits or was the last taken. *)
NewestKept == IF waiting = 0 THEN taken = accepted
                             ELSE waiting = accepted /\ taken < waiting

(* The consumer sees strictly increasing generations. *)
TakesIncrease == [][taken' # taken => taken' > taken]_vars
=============================================================================
