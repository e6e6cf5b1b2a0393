------------------------------ MODULE Reporter ------------------------------
(***************************************************************************)
(* The application of src/main.c: rtc_periodic_task, run by rtc_isr, which *)
(* mirrors the sensor on the LED and reports it, and main, which it        *)
(* interrupts.  Both send frames with xbee_next_frame_id and               *)
(* xbee_frame_write (pan/xbee/xbee_device.c) through the polled transmit   *)
(* register of xbee_ser_write (pan/hal/xbee_serial_hcs08.c).               *)
(*                                                                         *)
(* Main takes no step while the task runs; the sensor, CTS and the         *)
(* shift register change at any time.                                      *)
(***************************************************************************)
EXTENDS Naturals, Sequences

CONSTANTS
  FrameBytes,   \* bytes of a frame: one per xbee_ser_write of xbee_frame_write
  MaxId,        \* the largest frame ID, 255
  MaxFlips,     \* bound: changes of the sensor
  MaxFrames     \* bound: frames main sends

ASSUME ReporterAssumption ==
  /\ FrameBytes \in Nat /\ FrameBytes > 1
  /\ MaxId \in Nat \ {0}
  /\ MaxFlips \in Nat /\ MaxFrames \in Nat

Sender == {"main", "task"}
None   == <<"none", 0, 0>>         \* the empty transmit register

\* Numbers of a sender's frames: the task reports the state it starts in, each
\* change, and once more if main sets the LED by a reading from before a change.
FrameNumber == 1 .. MaxFlips + MaxFrames + 2
Byte        == Sender \X FrameNumber \X (1 .. FrameBytes)

VARIABLES
  sensor, led,   \* the two pins
  flips,         \* changes of the sensor so far
  cts,           \* the radio is ready to take bytes (PTDD_PTDD6 = 0)
  txd,           \* SCI2D: byte not yet moved to the shift register, or None
  wire,          \* the bytes that reached the radio
  lost,          \* history: bytes overwritten in the transmit register
  frameId,       \* xbee->frame_id
  bound,         \* xbee_wpan_init has run: wpan_dev.endpoint_send is set
  phase,         \* main: "boot", "set" (within line 80), "loop"
  pc,            \* pc[s]: where sender s is
  tmp,           \* tmp[s]: the byte ++xbee->frame_id works on
  value,         \* tx_buffer[4]
  count,         \* count[s]: frames s has begun
  stored,        \* stored[s]: bytes of the current frame written to SCI2D
  ids,           \* history: the frame IDs handed out, in order
  accepted,      \* history: frames whose xbee_frame_write returned 0
  report,        \* history: the values in the reports since main began its loop
  glitch         \* history: the sensor changed during the task's last run

pins  == <<sensor, led, flips>>
uart  == <<cts, txd, wire, lost>>
local == <<pc, tmp, value, count, stored>>
hist  == <<ids, accepted, report, glitch>>
vars  == <<pins, uart, frameId, bound, phase, local, hist>>
-----------------------------------------------------------------------------
(* rtc_set_periodic_task_period has run: the task is live during all of    *)
(* sys_xbee_init.                                                          *)

Init ==
  /\ sensor \in BOOLEAN /\ led = FALSE /\ flips = 0
  /\ cts \in BOOLEAN /\ txd = None /\ wire = << >> /\ lost = {}
  /\ frameId \in 0 .. MaxId
  /\ bound = FALSE /\ phase = "boot"
  /\ pc = [s \in Sender |-> "free"] /\ tmp = [s \in Sender |-> 0]
  /\ value = FALSE
  /\ count = [s \in Sender |-> 0] /\ stored = [s \in Sender |-> 0]
  /\ ids = << >> /\ accepted = {} /\ report = << >> /\ glitch = FALSE

Flip ==
  /\ flips < MaxFlips
  /\ sensor' = ~sensor /\ flips' = flips + 1
  /\ glitch' = (glitch \/ pc["task"] # "free")
  /\ UNCHANGED <<led, uart, frameId, bound, phase, local, ids, accepted, report>>

Cts ==
  /\ cts' = ~cts
  /\ UNCHANGED <<pins, txd, wire, lost, frameId, bound, phase, local, hist>>

Shift ==
  /\ txd # None
  /\ wire' = Append(wire, txd) /\ txd' = None
  /\ UNCHANGED <<pins, cts, lost, frameId, bound, phase, local, hist>>
-----------------------------------------------------------------------------
(* Sending a frame                                                         *)

\* Faulty: the task in a main loop of its own, interrupts enabled.
AtAnyTime(s, l) == pc[s] = l

\* Sender s is on the processor, at l.
At(s, l) == pc[s] = l /\ (s = "main" => pc["task"] = "free")

Goto(s, l) == pc' = [pc EXCEPT ![s] = l]

\* Faulty: a counter wider than the byte that is wrapped.
IdLoadWide(s) ==
  /\ At(s, "id") /\ Goto(s, "id_store")
  /\ tmp' = [tmp EXCEPT ![s] = frameId + 1]
  /\ UNCHANGED <<pins, uart, frameId, bound, phase, value, count, stored, hist>>

\* xbee_next_frame_id: ++xbee->frame_id, the wrap, and the value returned
IdLoad(s) ==
  /\ At(s, "id") /\ Goto(s, "id_store")
  /\ tmp' = [tmp EXCEPT ![s] = (frameId + 1) % (MaxId + 1)]
  /\ UNCHANGED <<pins, uart, frameId, bound, phase, value, count, stored, hist>>

\* Faulty: 0 is not skipped.
IdStoreZero(s) ==
  /\ At(s, "id_store") /\ Goto(s, "id_return")
  /\ frameId' = tmp[s]
  /\ UNCHANGED <<pins, uart, bound, phase, tmp, value, count, stored, hist>>

IdStore(s) ==
  /\ At(s, "id_store")
  /\ Goto(s, IF tmp[s] = 0 THEN "id_wrap" ELSE "id_return")
  /\ frameId' = tmp[s]
  /\ UNCHANGED <<pins, uart, bound, phase, tmp, value, count, stored, hist>>

IdWrap(s) ==
  /\ At(s, "id_wrap") /\ Goto(s, "id_return")
  /\ frameId' = 1
  /\ UNCHANGED <<pins, uart, bound, phase, tmp, value, count, stored, hist>>

IdReturn(s) ==
  /\ At(s, "id_return") /\ Goto(s, "wait")
  /\ ids' = Append(ids, frameId)
  /\ count' = [count EXCEPT ![s] = @ + 1] /\ stored' = [stored EXCEPT ![s] = 0]
  /\ UNCHANGED <<pins, uart, frameId, bound, phase, tmp, value, accepted, report, glitch>>

\* Faulty: CTS is waited for, the transmit register is not.
PortReadyCts(s) ==
  /\ At(s, "wait") /\ Goto(s, "store")
  /\ cts
  /\ UNCHANGED <<pins, uart, frameId, bound, phase, tmp, value, count, stored, hist>>

\* xbee_ser_write: leave the busy-wait, with no timeout configured
PortReady(s) ==
  /\ At(s, "wait") /\ Goto(s, "store")
  /\ txd = None /\ cts
  /\ UNCHANGED <<pins, uart, frameId, bound, phase, tmp, value, count, stored, hist>>

\* ... and store the byte, which replaces one still in the register.  After the
\* last one xbee_frame_write returns 0: flow control is off, so it never
\* returned -EBUSY.
PortStore(s) ==
  /\ At(s, "store")
  /\ txd' = <<s, count[s], stored[s] + 1>>
  /\ lost' = lost \cup ({txd} \ {None})
  /\ stored' = [stored EXCEPT ![s] = @ + 1]
  /\ IF stored'[s] < FrameBytes
     THEN Goto(s, "wait") /\ UNCHANGED <<accepted, report>>
     ELSE /\ Goto(s, "free")
          /\ accepted' = accepted \cup {<<s, count[s]>>}
          /\ report' = IF s = "task" /\ phase = "loop" THEN Append(report, value) ELSE report
  /\ UNCHANGED <<pins, cts, wire, frameId, bound, phase, tmp, value, count, ids, glitch>>

Send(s) ==
  IdLoad(s) \/ IdStore(s) \/ IdWrap(s) \/ IdReturn(s) \/ PortReady(s) \/ PortStore(s)
-----------------------------------------------------------------------------
(* rtc_periodic_task.  A run that finds LED and sensor different has no    *)
(* effect.                                                                 *)

\* Faulty: the test of line 37 the other way round.
TaskTestInverted ==
  /\ At("task", "free") /\ Goto("task", "led")
  /\ led # sensor
  /\ glitch' = FALSE
  /\ UNCHANGED <<pins, uart, frameId, bound, phase, tmp, value, count, stored,
                 ids, accepted, report>>

TaskTest ==
  /\ At("task", "free") /\ Goto("task", "led")
  /\ led = sensor
  /\ glitch' = FALSE
  /\ UNCHANGED <<pins, uart, frameId, bound, phase, tmp, value, count, stored,
                 ids, accepted, report>>

TaskLed ==
  /\ At("task", "led") /\ Goto("task", "value")
  /\ led' = ~sensor
  /\ UNCHANGED <<sensor, flips, uart, frameId, bound, phase, tmp, value, count, stored, hist>>

\* Faulty: the report carries the LED.
TaskValueLed ==
  /\ At("task", "value") /\ Goto("task", IF bound THEN "id" ELSE "free")
  /\ value' = led
  /\ UNCHANGED <<pins, uart, frameId, bound, phase, tmp, count, stored, hist>>

\* wpan_envelope_send returns -EINVAL before xbee_wpan_init; nobody looks.
TaskValue ==
  /\ At("task", "value") /\ Goto("task", IF bound THEN "id" ELSE "free")
  /\ value' = sensor
  /\ UNCHANGED <<pins, uart, frameId, bound, phase, tmp, count, stored, hist>>

Task == TaskTest \/ TaskLed \/ TaskValue \/ Send("task")
-----------------------------------------------------------------------------
(* main: sys_xbee_init sends AT commands and binds the WPAN layer, line 80 *)
(* sets the LED, and the loop answers commands and polls.                  *)

MainSend ==
  /\ At("main", "free") /\ Goto("main", "id")
  /\ phase \in {"boot", "loop"} /\ count["main"] < MaxFrames
  /\ UNCHANGED <<pins, uart, frameId, bound, phase, tmp, value, count, stored, hist>>

WpanInit ==
  /\ At("main", "free") /\ phase = "boot" /\ ~bound
  /\ bound' = TRUE
  /\ UNCHANGED <<pins, uart, frameId, phase, local, hist>>

\* gpio_set(LED, !gpio_get(SENSOR)): read, then write
MainReadSensor ==
  /\ At("main", "free") /\ phase = "boot" /\ bound
  /\ phase' = "set" /\ tmp' = [tmp EXCEPT !["main"] = IF sensor THEN 0 ELSE 1]
  /\ UNCHANGED <<pins, uart, frameId, bound, pc, value, count, stored, hist>>

MainSetLed ==
  /\ At("main", "free") /\ phase = "set"
  /\ phase' = "loop" /\ led' = (tmp["main"] = 1)
  /\ UNCHANGED <<sensor, flips, uart, frameId, bound, local, hist>>

Main == WpanInit \/ MainReadSensor \/ MainSetLed \/ Send("main")
-----------------------------------------------------------------------------
Next == Flip \/ Cts \/ Shift \/ Task \/ MainSend \/ Main

Spec == Init /\ [][Next]_vars

(***************************************************************************)
(* The RTC keeps ticking, main keeps running, the shift register empties,  *)
(* and a radio that holds CTS off takes it back time and again (strong     *)
(* fairness of PortReady).  Nothing makes main send.                       *)
(***************************************************************************)
Fairness ==
  /\ WF_vars(Shift) /\ WF_vars(Cts)
  /\ WF_vars(Task) /\ WF_vars(Main)
  /\ \A s \in Sender : SF_vars(PortReady(s))

FairSpec == Spec /\ Fairness
-----------------------------------------------------------------------------
TypeOK ==
  /\ sensor \in BOOLEAN /\ led \in BOOLEAN /\ flips \in 0 .. MaxFlips
  /\ cts \in BOOLEAN /\ txd \in Byte \cup {None}
  /\ wire \in Seq(Byte) /\ lost \subseteq Byte
  /\ frameId \in 0 .. MaxId
  /\ bound \in BOOLEAN /\ phase \in {"boot", "set", "loop"}
  /\ pc \in [Sender -> {"free", "led", "value", "id", "id_store", "id_wrap", "id_return",
                        "wait", "store"}]
  /\ tmp \in [Sender -> 0 .. MaxId] /\ value \in BOOLEAN
  /\ count \in [Sender -> FrameNumber \cup {0}]
  /\ stored \in [Sender -> 0 .. FrameBytes]
  /\ ids \in Seq(0 .. MaxId)
  /\ accepted \subseteq Sender \X FrameNumber
  /\ report \in Seq(BOOLEAN) /\ glitch \in BOOLEAN

(***************************************************************************)
(* xbee_next_frame_id never returns 0, the ID that asks the radio for no   *)
(* answer, although the task may take IDs between any two accesses of      *)
(* main to the counter, also while main wraps it.                          *)
(***************************************************************************)
IdInRange == \A i \in DOMAIN ids : ids[i] \in 1 .. MaxId

\* xbee_device.c: "Frame IDs go from 1 to 255 and then back to 1."
IdsCycle ==
  \A i \in 1 .. Len(ids) - 1 : ids[i + 1] = IF ids[i] = MaxId THEN 1 ELSE ids[i] + 1

\* The bytes on the wire and the one about to follow them.
Sent == IF txd = None THEN wire ELSE Append(wire, txd)

FrameIn(seq, f) ==
  \E i \in 0 .. Len(seq) - FrameBytes :
    \A k \in 1 .. FrameBytes : seq[i + k] = <<f[1], f[2], k>>

(***************************************************************************)
(* xbee_frame_write: "@retval 0 Successfully queued frame in transmit      *)
(* serial buffer."  The bytes of such a frame are on the wire, together.   *)
(***************************************************************************)
AcceptedIsWhole == \A f \in accepted : FrameIn(Sent, f)

(***************************************************************************)
(* What the race on the transmit register can cost: only the last byte of  *)
(* a report, when main tested the register before rtc_isr and stores into  *)
(* it after.  Every other byte of every frame reaches the radio.           *)
(***************************************************************************)
OnlyReportEndLost == \A b \in lost : b[1] = "task" /\ b[3] = FrameBytes

(***************************************************************************)
(* main's bytes never end up inside a report: between the first and the    *)
(* last of its bytes on the wire there is nothing else.                    *)
(***************************************************************************)
ReportUnbroken ==
  \A i, j \in DOMAIN Sent :
    Sent[i][1] = "task" /\ Sent[j][1] = "task" /\ Sent[i][2] = Sent[j][2]
      => Sent[j][3] - Sent[i][3] = j - i

(***************************************************************************)
(* Once main is in its loop, the last report and the LED show the same     *)
(* thing between runs of the task, as long as the sensor was still during  *)
(* the run: the task reads the pin three times, and a report made from     *)
(* two different readings can disagree with the LED for ever.              *)
(***************************************************************************)
ReportMatchesLed ==
  pc["task"] = "free" /\ ~glitch /\ report # << >> => report[Len(report)] = ~led

(***************************************************************************)
(* When the sensor settles, the LED ends up showing it, whatever main, CTS *)
(* and earlier runs of the task were doing.                                *)
(***************************************************************************)
LedSettles == <>[](led = ~sensor)
=============================================================================
