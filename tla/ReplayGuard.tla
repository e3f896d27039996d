----------------------------- MODULE ReplayGuard -----------------------------
(***************************************************************************)
(* What persistent anti-replay promises to the layer above it, with flash, *)
(* anchor, slots and interrupted updates hidden.                           *)
(*                                                                         *)
(* floor is the highest sequence for which the layer was told "persisted"; *)
(* view is the sequence the RAM state accepts messages above, 0 when there *)
(* is no active session.  A view may be lost at any time, but one that is  *)
(* (re)established is never below the floor, and the floor never falls.    *)
(***************************************************************************)
EXTENDS Naturals

CONSTANT MaxSeq
VARIABLES floor, view

Init == floor = 0 /\ view = 0

(* recover or commit_continuation reports OK for sequence n.               *)
Establish(n) ==
  /\ n >= floor
  /\ floor' = n
  /\ view' = n

(* A fresh message is accepted in RAM.                                     *)
Observe(n) ==
  /\ view # 0
  /\ n > view
  /\ view' = n
  /\ UNCHANGED floor

(* A reset, or a recovery that does not succeed.                           *)
Forget ==
  /\ view' = 0
  /\ UNCHANGED floor

Next == Forget \/ \E n \in 1..MaxSeq : Establish(n) \/ Observe(n)

Spec == Init /\ [][Next]_<<floor, view>>
=============================================================================
