------------------------------ MODULE SerialRx ------------------------------
(***************************************************************************)
(* The receive side of the radio serial port: the ring buffer of           *)
(* pan/xbee/xbee_cbuf.c, filled one byte at a time by radio_uart_isr and   *)
(* emptied by xbee_ser_read, and the RTS handshake both of them drive      *)
(* through the port's bits of _flags (pan/hal/xbee_serial_hcs08.c).        *)
(*                                                                         *)
(* The main loop executes xbee_ser_read one shared access at a time; the   *)
(* interrupt handler is one step, and it can run between any two of those  *)
(* accesses unless rtc_isr is running, which masks it.                     *)
(*                                                                         *)
(* A byte is identified by its position on the wire: the radio sends       *)
(* 1, 2, ... MaxBytes.                                                     *)
(***************************************************************************)
EXTENDS Naturals, Sequences

CONSTANTS
  Mask,         \* cbuf->mask: the ring has Mask + 1 slots and holds Mask bytes
  AssertBytes,  \* RTS_ASSERT_BYTES
  Slack,        \* bytes the radio may still send once RTS is deasserted
  Burst,        \* bytes the port can receive while one driver call runs
  Reads,        \* the buffer sizes xbee_ser_read is called with
  MaxBytes      \* bound: bytes the radio ever sends

ASSUME SerialRxAssumption ==
  /\ Mask \in Nat /\ AssertBytes \in Nat /\ Slack \in Nat /\ Burst \in Nat
  /\ Reads \subseteq Nat \ {0}
  /\ MaxBytes \in Nat
  /\ AssertBytes > 0
  /\ Mask >= AssertBytes + Burst

(***************************************************************************)
(* The margin RTS_ASSERT_BYTES has to leave for the handshake to be        *)
(* lossless.                                                               *)
(***************************************************************************)
ASSUME MarginAssumption == Slack + Burst < AssertBytes

NoByte == 0
NoCopy == <<FALSE, FALSE>>    \* no read-modify-write under way
Slots  == 0 .. Mask
Byte   == 1 .. MaxBytes

VARIABLES
  sent,      \* bytes the radio has put on the wire
  credit,    \* bytes the radio may still send while RTS is deasserted
  sci,       \* SCI2D: the byte not yet taken by the interrupt handler, or NoByte
  masked,    \* rtc_isr is running, radio_uart_isr cannot
  data, head, tail,   \* ember_rxbuf
  flow, rts,          \* _FLAG_FLOW_EMBER and _FLAG_RTS_EMBER in _flags
  pin,       \* RTS is asserted (PTCD_PTCD1 = 0)
  pc,        \* where the main loop is in the driver
  copy,      \* xbee_cbuf_get: bytes still wanted
  got,       \* xbee_cbuf_get: bytes copied so far (its return value)
  arm,       \* argument of xbee_ser_set_rts
  flags,     \* the copy of _flags a read-modify-write holds: <<flow, rts>>
  arrived,   \* interrupts taken since the driver call began
  last,      \* the byte last stored into the caller's buffer
  dropped    \* history: bytes xbee_cbuf_putch refused

wire    == <<sent, credit>>
ring    == <<data, head, tail>>
rtsVars == <<flow, rts, pin>>
local   == <<pc, copy, got, arm, flags>>
hist    == <<last, dropped>>
vars    == <<wire, sci, masked, ring, rtsVars, local, arrived, hist>>
-----------------------------------------------------------------------------
(* xbee_cbuf: index arithmetic modulo Mask + 1 (a power of two in the code) *)

Wrap(i) == IF i = Mask THEN 0 ELSE i + 1

\* The slot k places after slot i, for k \in Slots.
Slot(i, k) == IF i + k > Mask THEN i + k - Mask - 1 ELSE i + k

Used(h, t) == IF t >= h THEN t - h ELSE t + Mask + 1 - h

Free(h, t) == Mask - Used(h, t)

\* Faulty: the index is advanced before the byte is stored.
PutchAhead(b) ==
  /\ data' = [data EXCEPT ![Wrap(tail)] = b]
  /\ IF Wrap(tail) = head
     THEN tail' = tail /\ dropped' = dropped \cup {b}
     ELSE tail' = Wrap(tail) /\ dropped' = dropped
  /\ UNCHANGED head

\* xbee_cbuf_putch: the store comes before the test for a full ring.
Putch(b) ==
  /\ data' = [data EXCEPT ![tail] = b]
  /\ IF Wrap(tail) = head
     THEN tail' = tail /\ dropped' = dropped \cup {b}
     ELSE tail' = Wrap(tail) /\ dropped' = dropped
  /\ UNCHANGED head
-----------------------------------------------------------------------------
(* radio_uart_config, then the start of xbee_dev_init: flow control is off *)

Init ==
  /\ sent = 0 /\ credit = 0
  /\ sci = NoByte /\ masked = FALSE
  /\ data = [i \in Slots |-> NoByte] /\ head = 0 /\ tail = 0
  /\ flow = FALSE /\ rts = FALSE /\ pin = TRUE
  /\ pc = "open" /\ copy = 0 /\ got = 0
  /\ arm = FALSE /\ flags = NoCopy
  /\ arrived = 0
  /\ last = NoByte /\ dropped = {}
-----------------------------------------------------------------------------
(* Environment: the radio and the mask                                     *)

\* The radio sends while RTS is asserted, and at most Slack bytes after.
\* A byte takes far longer than the handler, so only a masked handler can leave
\* a byte in the register until the next one comes; that next one is lost.
RadioSend ==
  /\ sent < MaxBytes
  /\ pin \/ credit > 0
  /\ sci = NoByte \/ masked
  /\ sent' = sent + 1
  /\ credit' = IF pin THEN credit ELSE credit - 1
  /\ sci' = IF sci = NoByte THEN sent + 1 ELSE sci
  /\ UNCHANGED <<masked, ring, rtsVars, local, arrived, hist>>

RtcIsrEnter ==
  /\ ~masked /\ masked' = TRUE
  /\ UNCHANGED <<wire, sci, ring, rtsVars, local, arrived, hist>>

RtcIsrLeave ==
  /\ masked /\ masked' = FALSE
  /\ UNCHANGED <<wire, sci, ring, rtsVars, local, arrived, hist>>
-----------------------------------------------------------------------------
(* radio_uart_isr: putch, then _ISR_RTS on the ring as putch left it       *)

RadioUartIsr ==
  /\ ~masked /\ sci # NoByte
  /\ pc # "idle" => arrived < Burst
  /\ arrived' = IF pc = "idle" THEN 0 ELSE arrived + 1
  /\ Putch(sci)
  /\ sci' = NoByte
  /\ IF flow /\ rts /\ Free(head', tail') < AssertBytes
     THEN rts' = FALSE /\ pin' = FALSE /\ credit' = Slack
     ELSE UNCHANGED <<rts, pin, credit>>
  /\ UNCHANGED <<sent, masked, flow, local, last>>
-----------------------------------------------------------------------------
(* The main loop.  No step of it runs while rtc_isr does.                  *)

Goto(from, to) == ~masked /\ pc = from /\ pc' = to

\* xbee_ser_flowcontrol( serial, 1), called once by xbee_dev_init.
OpenLoad ==
  /\ Goto("open", "open_store")
  /\ flags' = <<TRUE, rts>>
  /\ UNCHANGED <<wire, sci, masked, ring, rtsVars, copy, got, arm, arrived, hist>>

OpenStore ==
  /\ Goto("open_store", "open_free")
  /\ flow' = flags[1] /\ rts' = flags[2] /\ flags' = NoCopy
  /\ UNCHANGED <<wire, sci, masked, ring, pin, copy, got, arm, arrived, hist>>

OpenFree ==
  /\ Goto("open_free", "set_pin")
  /\ arm' = (Free(head, tail) >= AssertBytes)
  /\ UNCHANGED <<wire, sci, masked, ring, rtsVars, copy, got, flags, arrived, hist>>

\* xbee_ser_set_rts: the pin first, then a read-modify-write of _flags.
SetRtsPin ==
  /\ Goto("set_pin", "rts_load")
  /\ pin' = arm
  /\ credit' = IF arm THEN credit ELSE Slack
  /\ UNCHANGED <<sent, sci, masked, ring, flow, rts, copy, got, arm, flags, arrived, hist>>

SetRtsLoad ==
  /\ Goto("rts_load", "rts_store")
  /\ flags' = <<flow, arm>>
  /\ UNCHANGED <<wire, sci, masked, ring, rtsVars, copy, got, arm, arrived, hist>>

SetRtsStore ==
  /\ Goto("rts_store", "idle")
  /\ flow' = flags[1] /\ rts' = flags[2] /\ flags' = NoCopy
  /\ UNCHANGED <<wire, sci, masked, ring, pin, copy, got, arm, arrived, hist>>

\* xbee_ser_read( serial, buffer, n) with n > 0
Read(n) ==
  /\ Goto("idle", "get")
  /\ copy' = n /\ got' = 0 /\ arrived' = 0
  /\ UNCHANGED <<wire, sci, masked, ring, rtsVars, arm, flags, hist>>

\* Faulty: only the ring is tested, not the caller's count.
GetMoreUncounted ==
  /\ Goto("get", "copy")
  /\ head # tail
  /\ UNCHANGED <<wire, sci, masked, ring, rtsVars, copy, got, arm, flags, arrived, hist>>

\* xbee_cbuf_get: the loop test, the copy and the release of the slot
GetMore ==
  /\ Goto("get", "copy")
  /\ copy > 0 /\ head # tail
  /\ UNCHANGED <<wire, sci, masked, ring, rtsVars, copy, got, arm, flags, arrived, hist>>

\* Faulty: the byte behind the oldest one is copied.
GetCopyAhead ==
  /\ Goto("copy", "advance")
  /\ last' = data[Wrap(head)]
  /\ UNCHANGED <<wire, sci, masked, ring, rtsVars, copy, got, arm, flags, arrived, dropped>>

GetCopy ==
  /\ Goto("copy", "advance")
  /\ last' = data[head]
  /\ UNCHANGED <<wire, sci, masked, ring, rtsVars, copy, got, arm, flags, arrived, dropped>>

GetAdvance ==
  /\ Goto("advance", "get")
  /\ head' = Wrap(head)
  /\ copy' = copy - 1 /\ got' = got + 1
  /\ UNCHANGED <<wire, sci, masked, data, tail, rtsVars, arm, flags, arrived, hist>>

GetDone ==
  /\ Goto("get", "check")
  /\ copy = 0 \/ head = tail
  /\ UNCHANGED <<wire, sci, masked, ring, rtsVars, copy, got, arm, flags, arrived, hist>>

\* Faulty: RTS is asserted after any byte read.
CheckAny ==
  /\ Goto("check", "set_pin")
  /\ flow /\ ~rts /\ got > 0
  /\ arm' = TRUE
  /\ UNCHANGED <<wire, sci, masked, ring, rtsVars, copy, got, flags, arrived, hist>>

\* XBEE_SER_CHECK_RTS and the two reasons to assert RTS again
CheckEnough ==
  /\ Goto("check", "set_pin")
  /\ flow /\ ~rts /\ got >= AssertBytes
  /\ arm' = TRUE
  /\ UNCHANGED <<wire, sci, masked, ring, rtsVars, copy, got, flags, arrived, hist>>

\* Faulty: the free space is not looked at, only what this call read.
CheckShort ==
  /\ Goto("check", "idle")
  /\ flow /\ ~rts /\ got < AssertBytes
  /\ UNCHANGED <<wire, sci, masked, ring, rtsVars, copy, got, arm, flags, arrived, hist>>

CheckFree ==
  /\ Goto("check", "free")
  /\ flow /\ ~rts /\ got < AssertBytes
  /\ UNCHANGED <<wire, sci, masked, ring, rtsVars, copy, got, arm, flags, arrived, hist>>

CheckNone ==
  /\ Goto("check", "idle")
  /\ ~flow \/ rts
  /\ UNCHANGED <<wire, sci, masked, ring, rtsVars, copy, got, arm, flags, arrived, hist>>

FreeEnough ==
  /\ Goto("free", "set_pin")
  /\ Free(head, tail) >= AssertBytes
  /\ arm' = TRUE
  /\ UNCHANGED <<wire, sci, masked, ring, rtsVars, copy, got, flags, arrived, hist>>

FreeShort ==
  /\ Goto("free", "idle")
  /\ Free(head, tail) < AssertBytes
  /\ UNCHANGED <<wire, sci, masked, ring, rtsVars, copy, got, arm, flags, arrived, hist>>

\* xbee_ser_rx_flush; it leaves RTS to the next xbee_ser_read
Flush ==
  /\ Goto("idle", "idle")
  /\ head # tail
  /\ head' = tail
  /\ UNCHANGED <<wire, sci, masked, data, tail, rtsVars, copy, got, arm, flags, arrived, hist>>
-----------------------------------------------------------------------------
Driver ==
  \/ OpenLoad \/ OpenStore \/ OpenFree
  \/ SetRtsPin \/ SetRtsLoad \/ SetRtsStore
  \/ \E n \in Reads : Read(n)
  \/ GetMore \/ GetCopy \/ GetAdvance \/ GetDone
  \/ CheckEnough \/ CheckFree \/ CheckNone \/ FreeEnough \/ FreeShort

Next ==
  \/ RadioSend \/ RtcIsrEnter \/ RtcIsrLeave
  \/ RadioUartIsr
  \/ Driver
  \/ Flush

Spec == Init /\ [][Next]_vars

(***************************************************************************)
(* rtc_isr is short against its period, so the main loop runs between two  *)
(* of its runs and keeps calling xbee_ser_read; a pending interrupt is     *)
(* served, rtc_isr returns, and a radio allowed to send does.              *)
(***************************************************************************)
Fairness ==
  /\ SF_vars(Driver)
  /\ SF_vars(RadioUartIsr)
  /\ WF_vars(RtcIsrLeave)
  /\ WF_vars(RadioSend)

FairSpec == Spec /\ Fairness
-----------------------------------------------------------------------------
(***************************************************************************)
(* The bytes not yet handed over, oldest first.  Between the copy of a     *)
(* byte and the release of its slot the slot at head no longer counts.     *)
(***************************************************************************)
Front  == IF pc = "advance" THEN Wrap(head) ELSE head
Unread == [i \in 1 .. Used(Front, tail) |-> data[Slot(Front, i - 1)]]

TypeOK ==
  /\ sent \in 0 .. MaxBytes /\ credit \in 0 .. Slack
  /\ sci \in Byte \cup {NoByte} /\ masked \in BOOLEAN
  /\ data \in [Slots -> Byte \cup {NoByte}] /\ head \in Slots /\ tail \in Slots
  /\ flow \in BOOLEAN /\ rts \in BOOLEAN /\ pin \in BOOLEAN
  /\ pc \in {"open", "open_store", "open_free", "set_pin", "rts_load", "rts_store",
             "idle", "get", "copy", "advance", "check", "free"}
  /\ copy \in Nat /\ got \in Nat /\ arm \in BOOLEAN
  /\ flags \in BOOLEAN \X BOOLEAN
  /\ arrived \in 0 .. Burst
  /\ last \in Byte \cup {NoByte} /\ dropped \subseteq Byte \cup {NoByte}

(***************************************************************************)
(* RTS_ASSERT_BYTES is enough: as long as the radio stops within Slack     *)
(* bytes of RTS and a driver call is short enough for at most Burst        *)
(* interrupts, xbee_cbuf_putch never finds the ring full.  It fails if RTS *)
(* is asserted again on a stale free count, if a lost update of _flags     *)
(* leaves the handler thinking RTS is already off, or if the handler tests *)
(* the free space too late.                                                *)
(***************************************************************************)
NoDrop == dropped = {}

(***************************************************************************)
(* The caller sees the bytes in wire order and none of them twice, even    *)
(* though putch stores into the ring before it knows whether there is room *)
(* and may run between the copy of a byte and the release of its slot.     *)
(***************************************************************************)
InOrder ==
  /\ \A i \in DOMAIN Unread : last < Unread[i]
  /\ \A i, j \in DOMAIN Unread : i < j => Unread[i] < Unread[j]

(***************************************************************************)
(* xbee_cbuf between the handler and the main loop is a bounded FIFO: a    *)
(* byte leaves it only by being handed over, oldest first, or by a flush,  *)
(* and the handler never disturbs the bytes already there.                 *)
(***************************************************************************)
Fifo == INSTANCE ByteFifo WITH q <- Unread, out <- last, Capacity <- Mask
ImplementsFifo == Fifo!Spec

(***************************************************************************)
(* The radio is not held off for ever: whenever RTS is deasserted, the     *)
(* main loop's reads assert it again, although rx_flush empties the ring   *)
(* without touching RTS and a read may return before there is room.        *)
(***************************************************************************)
RtsReasserted == ~pin ~> pin
=============================================================================
