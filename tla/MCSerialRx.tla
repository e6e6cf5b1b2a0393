---------------------------- MODULE MCSerialRx ----------------------------
(***************************************************************************)
(* A ring of 8 slots, so the indices wrap within the 9 bytes the     *)
(* radio sends, with the margins of the 64-slot ring scaled down.          *)
(***************************************************************************)
EXTENDS SerialRx, Bitwise

(***************************************************************************)
(* The ring operators against the expressions of xbee_cbuf.c in the        *)
(* arithmetic the code uses: uint8_t subtraction and the bit mask.         *)
(***************************************************************************)
Uint8(i) == (i + 256) % 256

ASSUME \A m \in {3, 7, 15, 63} : \A h, t \in 0 .. m :
         m = Mask =>
           /\ Wrap(t) = (t + 1) & m
           /\ Used(h, t) = Uint8(t - h) & m
           /\ Free(h, t) = Uint8(h - t - 1) & m
===========================================================================
