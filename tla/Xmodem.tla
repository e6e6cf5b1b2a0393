------------------------------ MODULE Xmodem ------------------------------
(***************************************************************************)
(* The XMODEM sender of xbee_xmodem.c, one action for each thing that a    *)
(* call of xbee_xmodem_tx_tick may do, and the target that takes the file, *)
(* a boot loader at the other end of a serial line or of a radio link.     *)
(* On the way packets and answers are lost or garbled, not reordered.      *)
(*                                                                         *)
(* A packet is its number and the block it holds; sizes, the short last    *)
(* block and the kind of checksum are left out.                            *)
(***************************************************************************)
EXTENDS Integers, Sequences

CONSTANTS
  Blocks,    \* blocks in the file
  Numbers,   \* values of a packet number on the line, a byte
  Tries,     \* times a packet is sent
  Room       \* bound: packets or answers under way in one direction

ASSUME XmodemAssumption ==
  /\ Blocks \in Nat /\ Numbers \in Nat /\ Numbers > 2
  /\ Tries \in Nat \ {0} /\ Room \in Nat \ {0}

VARIABLES
  tx,      \* xbee_xmodem_state_t, and how far the file is read
  line,    \* packets under way to the target
  back,    \* characters under way to the sender
  stored,  \* blocks the target has stored
  target,  \* what the target is doing
  punctual \* it speaks within the sender's time-outs, or not at all

xmodemVars == <<tx, line, back, stored, target, punctual>>

----------------------------------------------------------------------------
Running == {"START", "SEND", "RESEND", "SENDING", "WAIT_ACK", "EOF", "FINAL_ACK"}
Char == {"C", "ACK", "NAK", "CAN", "other"}
Packet == [num : 0 .. Numbers - 1, block : 1 .. Blocks]
EOT == [num |-> 0, block |-> 0]

\* num counts on as the 16 bits of packet_num do; block is the one in buffer.
XmodemTypeOK ==
  /\ tx \in [state : Running \cup {"SUCCESS", "FAILURE"}, num : 0 .. Blocks + 1,
             tries : 0 .. Tries, read : 0 .. Blocks, block : 0 .. Blocks]
  /\ line \in Seq(Packet \cup {EOT}) /\ back \in Seq(Char)
  /\ stored \in Seq(1 .. Blocks)
  /\ target \in {"asks", "takes", "done", "cancelled"}
  /\ punctual \in BOOLEAN

\* xbee_xmodem_tx_init with XBEE_XMODEM_FLAG_FORCE_CRC
XmodemInit ==
  /\ tx = [state |-> "START", num |-> 0, tries |-> 0, read |-> 0, block |-> 0]
  /\ line = << >> /\ back = << >>
  /\ stored = << >> /\ target = "asks"
  /\ punctual \in BOOLEAN

----------------------------------------------------------------------------
(* The sender *)

Header(t) == [num |-> t.num % Numbers, block |-> t.block]

\* stream.write takes a part of the packet, or the rest of it.
Write(t) ==
  \/ tx' = [t EXCEPT !.state = "SENDING"] /\ UNCHANGED line
  \/ /\ Len(line) < Room
     /\ tx' = [t EXCEPT !.state = "WAIT_ACK"]
     /\ line' = Append(line, Header(t))

\* XBEE_XMODEM_STATE_SEND and _assemble_packet; before a packet is sent the
\* characters that came in are flushed.
SendNext(t, chars) ==
  \/ /\ t.read = Blocks
     /\ tx' = [t EXCEPT !.state = "EOF", !.tries = Tries]
     /\ back' = chars
     /\ UNCHANGED line
  \/ /\ t.read < Blocks
     /\ Write([t EXCEPT !.read = @ + 1, !.block = t.read + 1, !.tries = Tries])
     /\ back' = << >>

Came(ch) == back # << >> /\ Head(back) = ch

StartTransfer ==
  /\ tx.state = "START" /\ Came("C")
  /\ SendNext([tx EXCEPT !.num = 1], Tail(back))
  /\ UNCHANGED <<stored, target>>

NoStartChar ==
  /\ tx.state = "START" /\ back # << >> /\ ~Came("C")
  /\ back' = Tail(back)
  /\ UNCHANGED <<tx, line, stored, target>>

SendPacket ==
  /\ tx.state = "SEND"
  /\ SendNext(tx, back)
  /\ UNCHANGED <<stored, target>>

ResendPacket ==
  /\ tx.state \in {"RESEND", "SENDING"}
  /\ Write(tx)
  /\ UNCHANGED <<back, stored, target>>

Acked == Came("ACK")

PacketAcked ==
  /\ tx.state = "WAIT_ACK" /\ Acked
  /\ tx' = [tx EXCEPT !.state = "SEND", !.num = @ + 1]
  /\ back' = Tail(back)
  /\ UNCHANGED <<line, stored, target>>

\* The result of _xbee_xmodem_putchar is ignored: EOT may not have been sent.
SendEot ==
  /\ tx.state = "EOF"
  /\ tx' = [tx EXCEPT !.state = "FINAL_ACK"]
  /\ UNCHANGED line \/ (Len(line) < Room /\ line' = Append(line, EOT))
  /\ UNCHANGED <<back, stored, target>>

FinalAck ==
  /\ tx.state = "FINAL_ACK" /\ Acked
  /\ tx' = [tx EXCEPT !.state = "SUCCESS"]
  /\ back' = Tail(back)
  /\ UNCHANGED <<line, stored, target>>

\* Another character came, or for 10 s (after EOT for 3 s) none.
NotAcked ==
  \/ back # << >> /\ ~Acked /\ back' = Tail(back)
  \/ back = << >> /\ (punctual => line = << >>) /\ UNCHANGED back

\* Faulty: the packet is not kept for the next try, which reads on.
NextTryReadsOn == IF tx.state = "WAIT_ACK" THEN "SEND" ELSE "EOF"

NextTry == IF tx.state = "WAIT_ACK" THEN "RESEND" ELSE "EOF"

\* Faulty: tries are not counted.
TriesLeftAll == tx.tries

TriesLeft == tx.tries - 1

TryAgain ==
  /\ tx.state \in {"WAIT_ACK", "FINAL_ACK"} /\ NotAcked
  /\ TriesLeft > 0
  /\ tx' = [tx EXCEPT !.state = NextTry, !.tries = TriesLeft]
  /\ UNCHANGED <<line, stored, target>>

\* CAN CAN ends a transfer that the target is in.
Cancel ==
  /\ tx' = [tx EXCEPT !.state = "FAILURE"]
  /\ target' = IF target = "done" THEN "done" ELSE "cancelled"
  /\ UNCHANGED <<line, stored>>

GiveUp ==
  /\ tx.state \in {"WAIT_ACK", "FINAL_ACK"} /\ NotAcked
  /\ TriesLeft = 0
  /\ Cancel

\* file.read or stream.write returns an error.
SendFails ==
  /\ tx.state \in {"SEND", "RESEND", "SENDING"} \/ (tx.state = "START" /\ Came("C"))
  /\ Cancel
  /\ UNCHANGED back

Tick ==
  \/ StartTransfer \/ NoStartChar \/ SendPacket \/ ResendPacket \/ SendFails \/ PacketAcked
  \/ SendEot \/ FinalAck \/ TryAgain \/ GiveUp

----------------------------------------------------------------------------
(* The target *)

\* An answer is lost, arrives, or arrives as another character.
TargetAnswers(ch) ==
  \/ UNCHANGED back
  \/ Len(back) < Room /\ \E c \in {ch, "other"} : back' = Append(back, c)

\* It asks for the first packet again and again.
Ask ==
  /\ target = "asks"
  /\ punctual => line = << >> /\ back = << >> /\ tx.state \in {"START", "WAIT_ACK", "FINAL_ACK"}
  /\ Len(back) < Room /\ back' = Append(back, "C")
  /\ UNCHANGED <<tx, line, stored, target>>

Arrives == line # << >> /\ line' = Tail(line) /\ UNCHANGED tx
Wanted == target \in {"asks", "takes"} /\ Head(line) # EOT

Lost == Arrives /\ UNCHANGED <<back, stored, target>>

TakePacket ==
  /\ Arrives /\ Wanted
  /\ Head(line).num = (Len(stored) + 1) % Numbers
  /\ stored' = Append(stored, Head(line).block)
  /\ target' = "takes"
  /\ TargetAnswers("ACK")

RefusePacket ==
  /\ Arrives /\ Wanted
  /\ \/ TargetAnswers("NAK")   \* its checksum is wrong
     \/ /\ Head(line).num # (Len(stored) + 1) % Numbers
        /\ TargetAnswers(IF Head(line).num = Len(stored) % Numbers THEN "ACK" ELSE "CAN")
  /\ UNCHANGED <<stored, target>>

TakeEot ==
  /\ Arrives /\ Head(line) = EOT /\ target # "cancelled"
  /\ TargetAnswers("ACK")
  /\ target' = "done"
  /\ UNCHANGED stored

Target == Ask \/ Lost \/ TakePacket \/ RefusePacket \/ TakeEot

----------------------------------------------------------------------------
XmodemNext == (Tick \/ Target) /\ UNCHANGED punctual

\* xbee_xmodem_tx_tick is called again and again, the serial port or the radio
\* sends what it is given, and what is under way arrives or is lost.
XmodemFairness ==
  /\ WF_xmodemVars(Tick /\ UNCHANGED punctual)
  /\ WF_xmodemVars(ResendPacket /\ tx'.state = "WAIT_ACK" /\ UNCHANGED punctual)
  /\ WF_xmodemVars((Lost \/ TakePacket \/ RefusePacket \/ TakeEot) /\ UNCHANGED punctual)

XmodemSpec == XmodemInit /\ [][XmodemNext]_xmodemVars /\ XmodemFairness

----------------------------------------------------------------------------
\* What the sender reports, as far as it can be relied on.
Outcome ==
  CASE tx.state = "SUCCESS" /\ punctual -> "success"
    [] tx.state = "FAILURE" \/ (tx.state = "SUCCESS" /\ ~punctual) -> "failure"
    [] OTHER -> "none"

T == INSTANCE Transfer WITH delivered <- stored, outcome <- Outcome

(***************************************************************************)
(* The sender implements a file transfer: the blocks are stored in order,  *)
(* none twice and none left out, however many packets and answers are lost *)
(* or garbled, and with a target that is punctual success means all of     *)
(* them.  (A late ACK for a packet that was sent again passes for the next *)
(* packet's, so that the sender may end before the target.)                *)
(***************************************************************************)
ImplementsTransfer == T!Spec

(***************************************************************************)
(* A transfer that started comes to an end.                                *)
(***************************************************************************)
TransferEnds == tx.state # "START" ~> tx.state \in {"SUCCESS", "FAILURE"}
=============================================================================
