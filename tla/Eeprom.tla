------------------------------ MODULE Eeprom ------------------------------
(***************************************************************************)
(* What an EEPROM promises its user: cells that keep their value until     *)
(* they are written, a write that may be cut short by a reset in its       *)
(* course, so that each of its cells holds the old or the new value, and   *)
(* that is complete once it returned.                                      *)
(***************************************************************************)
CONSTANTS Cell, Byte

VARIABLES content, pending

vars == <<content, pending>>

\* pending is the data of the write under way, a function on the cells it covers.
Write == UNION {[c -> Byte] : c \in SUBSET Cell}
NoWrite == [c \in {} |-> Byte]

TypeOK ==
  /\ content \in [Cell -> Byte]
  /\ pending \in Write

Init ==
  /\ content \in [Cell -> Byte]
  /\ pending = NoWrite

Begin ==
  /\ pending = NoWrite
  /\ pending' \in Write
  /\ UNCHANGED content

\* Any number of the cells under way take their new value.
Progress ==
  /\ content' \in [Cell -> Byte]
  /\ \A c \in Cell : content'[c] # content[c] => c \in DOMAIN pending /\ content'[c] = pending[c]
  /\ UNCHANGED pending

End ==
  /\ \A c \in DOMAIN pending : content[c] = pending[c]
  /\ pending' = NoWrite
  /\ UNCHANGED content

Reset ==
  /\ pending' = NoWrite
  /\ UNCHANGED content

Next == Begin \/ Progress \/ End \/ Reset

Spec == Init /\ [][Next]_vars
===========================================================================
