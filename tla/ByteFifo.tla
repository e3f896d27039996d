------------------------------- MODULE ByteFifo -------------------------------
(***************************************************************************)
(* What the foreground may assume of the USART2 transmitter: a bounded     *)
(* first-in first-out channel. Bytes are identified by the order in which  *)
(* they were accepted, so the channel's contents are the bytes after       *)
(* "sent" up to "accepted". A frame is taken whole or not at all, and      *)
(* bytes leave one at a time, in order.                                    *)
(***************************************************************************)
EXTENDS Naturals

CONSTANTS Size,       \* bytes the channel can hold
          MaxFrame    \* longest frame that is ever offered

VARIABLES accepted, sent

vars == <<accepted, sent>>

Init == accepted = 0 /\ sent = 0

Accept(n) == /\ accepted - sent + n <= Size
             /\ accepted' = accepted + n
             /\ UNCHANGED sent

Send == /\ sent < accepted
        /\ sent' = sent + 1
        /\ UNCHANGED accepted

Next == Send \/ \E n \in 1..MaxFrame : Accept(n)

Spec == Init /\ [][Next]_vars

=============================================================================
