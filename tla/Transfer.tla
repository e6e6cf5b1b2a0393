----------------------------- MODULE Transfer -----------------------------
(***************************************************************************)
(* What a file transfer promises: the receiver gets the blocks of the file *)
(* one after the other, and the sender reports success only when the       *)
(* receiver has them all.                                                  *)
(***************************************************************************)
EXTENDS Naturals, Sequences

CONSTANT Blocks

VARIABLES delivered, outcome

vars == <<delivered, outcome>>

Init == delivered = << >> /\ outcome = "none"

Deliver ==
  /\ Len(delivered) < Blocks
  /\ delivered' = Append(delivered, Len(delivered) + 1)
  /\ UNCHANGED outcome

Succeed ==
  /\ outcome = "none" /\ Len(delivered) = Blocks
  /\ outcome' = "success"
  /\ UNCHANGED delivered

Fail ==
  /\ outcome = "none"
  /\ outcome' = "failure"
  /\ UNCHANGED delivered

Next == Deliver \/ Succeed \/ Fail

Spec == Init /\ [][Next]_vars
===========================================================================
