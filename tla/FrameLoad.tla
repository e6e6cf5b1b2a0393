------------------------------ MODULE FrameLoad -----------------------------
(***************************************************************************)
(* Reception of API frames: xbee_dev_tick, _xbee_frame_load and            *)
(* _xbee_frame_dispatch (pan/xbee/xbee_device.c).                          *)
(*                                                                         *)
(* Bytes reach the port's buffer one at a time, between any two reads of   *)
(* the parser; the port itself is the FIFO that SerialRx implements.  A    *)
(* frame on the wire is SOF, a two-byte length, that many bytes and a      *)
(* checksum.  Bytes are the numbers below Base (256 in the code), and a    *)
(* length and a checksum are computed in that base.                        *)
(***************************************************************************)
EXTENDS Integers, Sequences, SequencesExt

CONSTANTS
  Base,          \* number of byte values
  SOF,           \* 0x7E
  MaxFrameLen,   \* XBEE_MAX_FRAME_LEN; frame_data has room for one byte more
  MaxDispatch,   \* XBEE_DEV_MAX_DISPATCH_PER_TICK
  Table,         \* xbee_frame_handlers: a sequence of [type, id] entries
  Streams        \* the byte sequences the radio may send

Byte == 0 .. Base - 1

ASSUME FrameLoadAssumption ==
  /\ Base \in Nat /\ Base > 1 /\ SOF \in Byte
  /\ MaxFrameLen \in Nat /\ MaxFrameLen >= 2
  /\ MaxDispatch \in Nat \ {0}
  /\ Table \in Seq([type : Byte, id : Byte])
  /\ Streams \subseteq Seq(Byte)

VARIABLES
  stream,      \* what the radio sends, whole
  wire,        \* what of it has not arrived yet
  input,       \* the bytes waiting in the serial port's buffer
  state,       \* rx.state
  inFrame,     \* rx.bytes_in_frame
  frame,       \* rx.frame_data[0 .. rx.bytes_read - 1]
  inTick,      \* XBEE_DEV_FLAG_IN_TICK
  pc,          \* "idle", "load" (in _xbee_frame_load) or "handler"
  dispatched,  \* its local counter
  callers,     \* counters of the _xbee_frame_loads this one is nested in
  heard        \* history: frames as the handlers found them when they ended

port == <<stream, wire, input>>
rx   == <<state, inFrame, frame>>
call == <<inTick, pc, dispatched, callers>>
vars == <<port, rx, call, heard>>
-----------------------------------------------------------------------------
\* _xbee_checksum takes the bytes one by one off 0xFF, in a byte; 0 means that
\* data and checksum agree.
Checksum(bytes) ==
  LET after[i \in 0 .. Len(bytes)] ==
        IF i = 0 THEN Base - 1 ELSE (after[i - 1] - bytes[i]) % Base
  IN after[Len(bytes)]

\* The entries _xbee_frame_dispatch calls for a frame; id 0 takes every id.
Handlers(f) ==
  {i \in DOMAIN Table : /\ Table[i].type = f[1]
                        /\ Table[i].id = 0 \/ Table[i].id = f[2]}

Init ==
  /\ stream \in Streams /\ wire = stream /\ input = << >>
  /\ state = "WAITSTART" /\ inFrame = 0 /\ frame = << >>
  /\ inTick = FALSE /\ pc = "idle" /\ dispatched = 0 /\ callers = << >>
  /\ heard = << >>

Arrive ==
  /\ wire # << >>
  /\ input' = Append(input, Head(wire)) /\ wire' = Tail(wire)
  /\ UNCHANGED <<stream, rx, call, heard>>
-----------------------------------------------------------------------------
\* xbee_dev_tick, from the main loop or from a frame handler; while the flag
\* is set it returns -EBUSY and changes nothing.
DevTick ==
  /\ pc \in {"idle", "handler"}
  /\ ~inTick
  /\ inTick' = TRUE
  /\ pc' = "load" /\ dispatched' = 0
  /\ callers' = IF pc = "handler" THEN Append(callers, dispatched) ELSE callers
  /\ UNCHANGED <<port, rx, heard>>

\* Faulty: an exit of xbee_dev_tick that leaves the flag set.
ReturnInTick ==
  /\ inTick' = inTick
  /\ IF callers = << >>
     THEN pc' = "idle" /\ dispatched' = 0 /\ callers' = callers
     ELSE pc' = "handler" /\ dispatched' = Last(callers) /\ callers' = Front(callers)

\* _xbee_frame_load returns, and xbee_dev_tick clears the flag.
Return ==
  /\ inTick' = FALSE
  /\ IF callers = << >>
     THEN pc' = "idle" /\ dispatched' = 0 /\ callers' = callers
     ELSE pc' = "handler" /\ dispatched' = Last(callers) /\ callers' = Front(callers)

Stay == UNCHANGED call

Loading(s) == pc = "load" /\ state = s

\* xbee_ser_read finds the buffer empty in any state but RXFRAME.
LoadEmpty ==
  /\ pc = "load" /\ state # "RXFRAME" /\ input = << >>
  /\ Return
  /\ UNCHANGED <<port, rx, heard>>

ReadByte == input # << >> /\ input' = Tail(input) /\ UNCHANGED <<stream, wire>>

LoadWaitStart ==
  /\ Loading("WAITSTART") /\ ReadByte
  /\ state' = IF Head(input) = SOF THEN "LENGTH_MSB" ELSE state
  /\ UNCHANGED <<inFrame, frame, heard>> /\ Stay

\* A second SOF is the start of the frame; look for its length again.
LoadLengthMsb ==
  /\ Loading("LENGTH_MSB") /\ ReadByte
  /\ IF Head(input) = SOF
     THEN UNCHANGED <<state, inFrame>>
     ELSE state' = "LENGTH_LSB" /\ inFrame' = Head(input) * Base
  /\ UNCHANGED <<frame, heard>> /\ Stay

\* Faulty: no upper limit; the checksum counted as data.
AnyLength(len)  == len >= 2
LongLength(len) == len \in 2 .. MaxFrameLen + 1

ValidLength(len) == len \in 2 .. MaxFrameLen

LoadLengthLsb ==
  /\ Loading("LENGTH_LSB") /\ ReadByte
  /\ inFrame' = inFrame + Head(input)
  /\ IF ValidLength(inFrame')
     THEN state' = "RXFRAME" /\ frame' = << >>
     ELSE /\ state' = IF Head(input) = SOF THEN "LENGTH_MSB" ELSE "WAITSTART"
          /\ UNCHANGED frame
  /\ UNCHANGED heard /\ Stay

BytesLeft == inFrame - Len(frame) + 1

\* Faulty: the next piece of a frame is read to the start of frame_data.
LoadPartialOver ==
  /\ Loading("RXFRAME") /\ Len(input) < BytesLeft
  /\ frame' = input /\ input' = << >>
  /\ Return
  /\ UNCHANGED <<stream, wire, state, inFrame, heard>>

\* Fewer bytes than the frame still needs: keep them and return.
LoadPartial ==
  /\ Loading("RXFRAME") /\ Len(input) < BytesLeft
  /\ frame' = frame \o input /\ input' = << >>
  /\ Return
  /\ UNCHANGED <<stream, wire, state, inFrame, heard>>

ReadFrame ==
  /\ Loading("RXFRAME") /\ Len(input) >= BytesLeft
  /\ frame' = frame \o SubSeq(input, 1, BytesLeft)
  /\ input' = SubSeq(input, BytesLeft + 1, Len(input))
  /\ state' = "WAITSTART"
  /\ UNCHANGED <<stream, wire, inFrame, heard>>

LoadBadChecksum ==
  /\ ReadFrame /\ Checksum(frame') # 0
  /\ Stay

\* The frame goes to its handlers, which work on frame_data in place.
LoadDispatch ==
  /\ ReadFrame /\ Checksum(frame') = 0
  /\ pc' = "handler" /\ dispatched' = dispatched + 1
  /\ UNCHANGED <<inTick, callers>>

\* Faulty: one frame more than the limit.
HandlersDoneLate ==
  /\ pc = "handler"
  /\ heard' = Append(heard, [frame |-> SubSeq(frame, 1, inFrame), by |-> Handlers(frame)])
  /\ IF dispatched > MaxDispatch
     THEN Return
     ELSE pc' = "load" /\ UNCHANGED <<inTick, dispatched, callers>>
  /\ UNCHANGED <<port, rx>>

HandlersDone ==
  /\ pc = "handler"
  /\ heard' = Append(heard, [frame |-> SubSeq(frame, 1, inFrame), by |-> Handlers(frame)])
  /\ IF dispatched = MaxDispatch
     THEN Return
     ELSE pc' = "load" /\ UNCHANGED <<inTick, dispatched, callers>>
  /\ UNCHANGED <<port, rx>>
-----------------------------------------------------------------------------
Load ==
  \/ LoadEmpty \/ LoadWaitStart \/ LoadLengthMsb \/ LoadLengthLsb
  \/ LoadPartial \/ LoadBadChecksum \/ LoadDispatch

Next == Arrive \/ DevTick \/ Load \/ HandlersDone

Spec == Init /\ [][Next]_vars

\* Bytes sent arrive, main calls xbee_dev_tick in its loop, and a call ends.
Fairness == WF_vars(Arrive) /\ WF_vars(DevTick) /\ WF_vars(Load) /\ WF_vars(HandlersDone)

FairSpec == Spec /\ Fairness
-----------------------------------------------------------------------------
TypeOK ==
  /\ stream \in Seq(Byte) /\ wire \in Seq(Byte) /\ input \in Seq(Byte)
  /\ state \in {"WAITSTART", "LENGTH_MSB", "LENGTH_LSB", "RXFRAME"}
  /\ inFrame \in 0 .. Base * Base - 1
  /\ frame \in Seq(Byte)
  /\ inTick \in BOOLEAN /\ pc \in {"idle", "load", "handler"}
  /\ dispatched \in 0 .. MaxDispatch /\ callers \in Seq(0 .. MaxDispatch)
  /\ heard \in Seq([frame : Seq(Byte), by : SUBSET DOMAIN Table])

(***************************************************************************)
(* xbee_ser_read is never asked to write past frame_data, which has        *)
(* MaxFrameLen + 1 bytes, and always for at least one byte.  The length it *)
(* is computed from was checked when it arrived, several calls of          *)
(* xbee_dev_tick ago.                                                      *)
(***************************************************************************)
ReadFits ==
  /\ Len(frame) <= MaxFrameLen + 1
  /\ state = "RXFRAME" => /\ BytesLeft >= 1
                          /\ Len(frame) + BytesLeft <= MaxFrameLen + 1

(***************************************************************************)
(* The frames in a byte sequence, read off it position by position without *)
(* regard to how it was cut up on arrival.  A frame's data and checksum    *)
(* add up to 0xFF modulo the number of byte values.                        *)
(***************************************************************************)
Sum(bytes) ==
  LET upTo[i \in 0 .. Len(bytes)] == IF i = 0 THEN 0 ELSE upTo[i - 1] + bytes[i]
  IN upTo[Len(bytes)]

\* Those that begin at p or later, given those that begin at each later position.
FramesFrom(s, from, p) ==
  LET len  == s[p + 1] * Base + s[p + 2]
      rest == p + 4 + len
  IN IF p + 2 > Len(s) THEN << >>
     ELSE IF s[p] # SOF \/ s[p + 1] = SOF THEN from[p + 1]
     ELSE IF ~ValidLength(len) THEN from[IF s[p + 2] = SOF THEN p + 2 ELSE p + 3]
     ELSE IF rest > Len(s) + 1 THEN << >>
     ELSE IF Sum(SubSeq(s, p + 3, p + 3 + len)) % Base = Base - 1
     THEN <<SubSeq(s, p + 3, p + 2 + len)>> \o from[rest]
     ELSE from[rest]

FramesAfter(s, p) ==
  LET from[q \in 1 .. Len(s) + 1] == FramesFrom(s, from, q)
  IN from[p]

FramesOf(s) == FramesAfter(s, 1)

HeardFrames == [i \in DOMAIN heard |-> heard[i].frame]

(***************************************************************************)
(* What the handlers see depends only on the bytes, not on how they were   *)
(* spread over calls of xbee_dev_tick, on the limit of frames per call, or *)
(* on a handler calling xbee_dev_tick while its frame is still in          *)
(* frame_data: the handlers hear the frames of the stream, in order.       *)
(***************************************************************************)
Drained == wire = << >> /\ input = << >> /\ pc = "idle"

HeardExactly == Drained => HeardFrames = FramesOf(stream)

\* The SOF at q begins a frame that ends before p.
FrameBetween(s, q, p) ==
  LET len == s[q + 1] * Base + s[q + 2]
  IN q + 2 < p /\ s[q + 1] # SOF /\ ValidLength(len) /\ q + 4 + len <= p

\* No byte before p begins a frame that reaches p.
Undisturbed(s, p) ==
  \A q \in 1 .. p - 1 : s[q] = SOF /\ q >= p - 3 - MaxFrameLen => FrameBetween(s, q, p)

(***************************************************************************)
(* The parser is back in step within one maximal frame of a lost byte,     *)
(* although it has no timeout between bytes and never looks back into a    *)
(* frame it threw away.  What is whole before any position is heard.  So   *)
(* is all from a position p on, as if reception began there, if in the     *)
(* bytes before it that a frame of the largest size takes SOF is only the  *)
(* first byte of frames that end before p.                                 *)
(***************************************************************************)
BackInStep ==
  Drained => \A p \in 1 .. Len(stream) + 1 :
    /\ IsPrefix(FramesOf(SubSeq(stream, 1, p - 1)), HeardFrames)
    /\ Undisturbed(stream, p) => IsSuffix(FramesAfter(stream, p), HeardFrames)

(***************************************************************************)
(* Every frame of the stream reaches its handlers in the end, also when    *)
(* more than MaxDispatch of them were waiting when xbee_dev_tick was       *)
(* called, or when that call returned in the middle of a frame.            *)
(***************************************************************************)
AllHeard == <>(HeardFrames = FramesOf(stream))
=============================================================================
