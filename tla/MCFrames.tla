------------------------------ MODULE MCFrames ------------------------------
(***************************************************************************)
(* Two sets of streams.  Every byte sequence of MaxStream bytes: a frame,  *)
(* garbage and a frame cut short, lengths that are out of range, the SOF   *)
(* value as length, data and checksum.  And four whole frames, most of     *)
(* them with one byte lost: what an overrun of the receiver does while     *)
(* rtc_isr masks radio_uart_isr.  These frames hold no SOF byte after      *)
(* their first, so that each that begins MaxFrameLen + 3 bytes or more     *)
(* behind the loss is undisturbed.                                         *)
(***************************************************************************)
EXTENDS FrameLoad, TLC

CONSTANT MaxStream   \* bound: bytes in a stream that may be anything

AllStreams == [1 .. MaxStream -> Byte]

Bodies == {<<1, 2>>, <<2, 0>>}

Encode(body) ==
  <<SOF, Len(body) \div Base, Len(body) % Base>> \o body \o <<Checksum(body)>>

Whole(bodies) == FlattenSeq([k \in DOMAIN bodies |-> Encode(bodies[k])])

WholeStreams == {Whole(b) : b \in [1 .. 4 -> Bodies]}

LossyStreams == {RemoveAt(s, cut) : s \in WholeStreams, cut \in 1 .. 24}

ManyStreams == AllStreams \cup WholeStreams \cup LossyStreams

SmallTable == <<[type |-> 1, id |-> 0], [type |-> 2, id |-> 1], [type |-> 0, id |-> 0]>>
============================================================================
