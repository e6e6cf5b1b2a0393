------------------------------ MODULE ByteFifo ------------------------------
(***************************************************************************)
(* What pan/xbee/xbee_cbuf.c promises a writer and a reader that share a   *)
(* buffer: a bounded queue that hands its bytes over in the order they     *)
(* were put, and loses one only when it is full or when it is flushed.     *)
(***************************************************************************)
EXTENDS Naturals, Sequences

CONSTANTS Byte, NoByte, Capacity

VARIABLES
  q,     \* the bytes held, oldest first
  out    \* the byte last handed over

vars == <<q, out>>

Init == q = << >> /\ out = NoByte

Put(b) ==
  /\ Len(q) < Capacity
  /\ q' = Append(q, b)
  /\ UNCHANGED out

Take ==
  /\ q # << >>
  /\ out' = Head(q)
  /\ q' = Tail(q)

Flush ==
  /\ q' = << >>
  /\ UNCHANGED out

Next == (\E b \in Byte : Put(b)) \/ Take \/ Flush

Spec == Init /\ [][Next]_vars
=============================================================================
