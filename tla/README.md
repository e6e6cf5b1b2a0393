# A verification of the PXBee contact-sensor firmware

The repository is the firmware of a programmable XBee: a radio module (EM250)
with a small 8-bit processor (HCS08) beside it, joined by a UART with RTS/CTS.
The program watches a contact on a pin, mirrors it on an LED, reports changes to
the ZigBee coordinator and answers the coordinator's requests. It is built on
Digi's SDK (`pxbee/`): a serial driver, the XBee API frame layer, AT commands,
WPAN endpoints, ZDO/ZCL and drivers.

These modules specify the part of it where order and timing decide what happens,
check it with TLC on small instances, and prove some of it with TLAPS for all
values of the constants. All paths below are relative to `src/`.

## 1. Inventory

There are three threads of control. **main** runs `sys_hw_init`, `sys_xbee_init`
and then for ever `read_console_commands; sys_watchdog_reset; sys_xbee_tick`.
**rtc_isr** runs every 4 ms and, every 125 ticks, calls the application's
`rtc_periodic_task` *inside the interrupt*, including a blocking radio
transmission. **radio_uart_isr** takes a received byte. Interrupts do not nest:
while `rtc_isr` runs no byte is taken and main stands still. The other party is
the **radio**, which answers AT commands, announces that it joined or left, and
delivers messages. No operating system, no allocation: every table is static.

| component | state | operations | talks to | what is hard | correct when |
|---|---|---|---|---|---|
| Radio serial receive (`xbee_cbuf.c`, `xbee_serial_hcs08.c`, `uart.c`) | ring of 64, two bits of `_flags`, the RTS pin | `putch`, `get`, `free`, `flush`, `radio_uart_isr`, `xbee_ser_read`, `xbee_ser_set_rts`, `xbee_ser_flowcontrol` | filled by the ISR, emptied by the frame parser | shared without a lock; read-modify-write of `_flags`; stale free counts | bytes in order, none refused, RTS comes back |
| Frame reception (`xbee_device.c`) | `rx.state`, length, `frame_data`, IN_TICK | `xbee_dev_tick`, `_xbee_frame_load`, `_xbee_frame_dispatch` | reads the port, calls handlers, which may call it | frames cut up over ticks; lost bytes; re-entry | every frame once and in order; back in step after damage |
| Frame transmission (`xbee_device.c`, `xbee_serial_hcs08.c`) | `frame_id`, `SCI2D` | `xbee_next_frame_id`, `xbee_frame_write`, `xbee_ser_write` | called by main and by `rtc_isr` | two senders, no lock | IDs 1..255 in turn, frames whole |
| Sensor application (`src/main.c`) | LED, `tx_buffer`, `envelope` | `rtc_periodic_task`, `main` line 80 | sends through WPAN | three readings of one pin; runs during start-up | LED and report agree with the contact |
| AT commands (`xbee_atcmd.c`) | request table (two slots), command list, query flags, address | `xbee_cmd_create/send/tick`, list execution, query, handlers of responses and modem status | console, start-up, frame handlers | handlers that nest; time-outs against late answers; a full table | answers reach their request; the address is current; start-up ends |
| Start-up and main loop (`pan_init.c`, `read_console_commands.c`) | – | `sys_xbee_init`, `sys_xbee_tick`, `xbee_params_init` | everything | a loop that waits for the radio | it ends |
| WPAN, endpoints (`wpan_aps.c`, `xbee_wpan.c`) | conversations (handler, 16-bit time-out, transaction ID) | register, expire, respond, dispatch, send | frame handlers, ZDO, ZCL | 8-bit IDs wrap; deletion after a callback | a response meets its own request |
| Application clusters (`rx_cluster_callback.c`, ...) | – | answers to read attributes and configure reporting | WPAN | run while the periodic task shares the LED and `envelope` | answer what was asked |
| XMODEM, firmware, OTA (`xbee_xmodem.c`, `xbee_firmware.c`, `xbee_ota_*.c`) | state, packet number, tries, timer | `xbee_xmodem_tx_tick`, `xbee_fw_install_*_tick` | the serial port, or the air | lost and late ACKs | the receiver gets a prefix, success means all |
| Radio start-up (`hwinit.c`, `xbee_atmode.c`) | baud rate, AT mode | search for the radio, reset, escape to command mode | the radio | time-outs | ends in API mode at a known rate |
| Clock, timers (`rtc.c`, `timer.c`) | `ticks`, `uptime`, `ms_uptime`, two countdowns, the periodic task's period and count | `rtc_isr`, `rtc_get_*`, `delay_ticks`, `rtc_set_timeout`, `rtc_set_periodic_task_period` | every time-out | 32-bit counts read on 8 bits beside an interrupt that advances them | readings are of now, waits last as long as asked |
| ZCL, ZDO (`zigbee_zcl.c`, `zigbee_zdo.c`, clusters) | attribute tables, commissioning, identify | one message in, one out | WPAN | undivided writes; answers to answers; flags of clusters in a shared envelope | undivided is undivided, encrypted stays encrypted, nodes fall silent |
| Persistent storage (`veeprom.c`, `flash.c`) | two flash blocks | read, write, erase | application | a reset between any two accesses to the flash | old data or new |
| Low power, voltage, other drivers, utilities, toolchain, examples | registers | – | – | – | – |

`PROJECT.json` lists each with its sources and its status, and under `hazards`
the places where the code is hard to test.

## 2. Modules

| module | what it is |
|---|---|
| `SerialRx` | the ring, `radio_uart_isr`, `xbee_ser_read` one shared access at a time, RTS |
| `ByteFifo` | what `xbee_cbuf` promises: a bounded FIFO; `SerialRx` is shown to implement it |
| `SerialRxProofs` | theorems about `SerialRx` |
| `FrameLoad` | `xbee_dev_tick` with every state of the parser, dispatch and nested ticks |
| `FrameLoadProofs` | theorems about `FrameLoad` |
| `Reporter` | `rtc_periodic_task` inside `rtc_isr` against main, down to the transmit register |
| `ReporterProofs` | theorems about `Reporter` |
| `AtCmd` | the request table, time-outs, the device query, start-up and the console |
| `AtCmdProofs` | theorems about `AtCmd` |
| `Veeprom` | `veeprom.c` on its two flash pages, one access at a time, with resets |
| `Eeprom` | what it promises: cells written one by one, a reset may cut a write short; `Veeprom` is shown to implement it |
| `VeepromProofs` | theorems about `Veeprom` |
| `Clock` | `rtc.c` with `rtc_isr` between any two reads of main |
| `ClockProofs` | theorems about `Clock` |
| `Conversations` | the conversation table of the ZDO endpoint and the requests that use it |
| `Zigbee` | several nodes: dispatch to endpoints and clusters, and all handlers that answer |
| `Xmodem` | the XMODEM sender, a bad line, and the target |
| `Transfer` | what a file transfer promises; `Xmodem` is shown to implement it |
| `XmodemProofs` | theorems about `Xmodem` |
| `ZclAttributes` | the three Write Attributes commands, limits, Identify |
| `ZigbeeProofs` | theorems about `Conversations`, `Zigbee` and `ZclAttributes` |
| `MCSerialRx`, `MCFrames`, `MCAtCmd`, `MCLibrary` | inputs for TLC; `Reporter` needs none |

The modules meet at narrow interfaces. `FrameLoad` reads its `input` as the FIFO
that `SerialRx` implements; what reaches it damaged is what `rtc_isr` costs
`SerialRx` in overruns (`RadioSend` with `masked`) and is given to `MCFrames` as
streams with a byte missing. `AtCmd` takes whole frames, as `FrameLoad` delivers
them, with a loss allowed; `Zigbee` takes whole messages, likewise.
`Conversations` is what decides, in `Zigbee`'s `ZdoHandler`, whether a response
finds its conversation, which is left open there. The seconds that `AtCmd` and
`Conversations` count are `Clock`'s `uptime`, whose readings `TimesAreNow` is
about. `Xmodem` sits on a serial port or on messages, both of which lose and
neither of which reorders. `Reporter` shares the frame ID with `AtCmd` and says
what becomes of frames both send. A model of all together would multiply their
states without a new interaction. `MCLibrary` puts six parts side by side, of
which a behaviour runs one (`part`): they share no state, in the code neither.

Operators marked *Faulty* are variants of the one that follows, each with a bug
the code could plausibly have; replacing the right one by it makes TLC find the
property listed under `mutants` violated.

### SerialRx

`data, head, tail` are `ember_rxbuf`; `flow, rts` the radio port's two bits of
`_flags`; `pin` is RTS; `sci` the receive register; `pc, copy, got, arm, flags,
last` the main loop's position and locals. `RadioUartIsr` is one action: main
cannot run inside it. `xbee_ser_read` is an action per access to what it shares:
the loop test of `xbee_cbuf_get`, the copy, the release, the test of `_flags`,
the free count, the pin, and the load and the store of the read-modify-write of
`_flags`. `Open...` is `xbee_ser_flowcontrol(1)` in `xbee_dev_init`, where the
handshake begins. Bytes are numbered as the radio sends them.

Two assumptions stand for timing that the code relies on and does not state: a
radio held off sends at most `Slack` bytes more, and one driver call lasts for at
most `Burst` received bytes. `MarginAssumption`, `Slack + Burst < AssertBytes`,
is how they must relate to `RTS_ASSERT_BYTES` (8).

### FrameLoad

`state, inFrame, frame` are `rx`; `inTick` is IN_TICK; `callers` the frames of
nested `_xbee_frame_load`s (a handler may call `xbee_dev_tick`; while IN_TICK is
set it returns `-EBUSY`, so `callers` stays empty: it is there so that a missing
flag would show). Bytes arrive between any two reads. A byte is a number below
`Base`, so length and checksum are real arithmetic in a smaller base; `Checksum`
subtracts byte by byte, as `_xbee_checksum` does. `Streams` is what the radio may
send. `FramesOf`, with which `HeardExactly` compares, reads the frames off the
whole stream and adds up their bytes instead (`Sum`). `BackInStep` is about damage:
a stream is as good as one that begins at position `p` when no SOF before `p` begins
a frame that reaches `p` (`Undisturbed`). A value of SOF that data or checksum holds
can take the parser past `p`, and a length that is out of range loses it two bytes.

### Reporter

The task and main each have a `pc`; `At` lets main move only while the task is
not running. Sending a frame is `xbee_next_frame_id` in four accesses (the
increment of a byte in memory, its store, the wrap, the return), then for each
byte the busy-wait and the store into `SCI2D`. `Cts` and `Shift` are the radio
and the shift register. A byte carries sender, frame and position. `bound` is
`wpan_dev.endpoint_send`, which a report sent before `xbee_wpan_init` misses.

### AtCmd

Everything runs in main, so a handler is one step; but handlers call each other
in ways that are easy to get wrong: a response ends the query, whose end handler
starts the next, whose `xbee_cmd_create` finds the table full and calls
`xbee_cmd_tick`, which expires a request, whose callback ends the query... The
driver is one record `drv` and each function an operator on it, so that nesting
is composition; A query begun inside `xbee_cmd_tick` differs: `xbee_cmd_create` may call
`xbee_cmd_tick` only at depth one (the static `initialized`; `CreateNoTick`, `QueryNoTick`).

Abstractions: the clock does not advance inside a handler; of a free slot only
the sequence byte is kept; a radio that is behind by more than `MaxPending`
commands forgets the oldest; it answers with success; all frames that arrived
are dispatched in one tick; the console does not bring 255 frame IDs round
within one time-out (`IdsAhead`); `xbee_frame_write` does not fail, since
`hwinit.c:973-977` turns off the flow control that could make it. The query's
registers are cut to three: association, one number, the address, of which the
refresh asks the last two. Queries really begin in `xbee_params_init`, whose
commands have no callback and leave the table when sent; the model begins where
the first query does.

### Veeprom

`flash` is the two pages; `pc, blk, ret, act, idx` the place of the code and its
locals; `req` the call's arguments. A byte is the set of its bits that are one,
so an erase is the full set and programming an intersection. Each action is one
access to the flash or one turn of a loop, and `Reset` may come between any two;
it clears all but the flash and starts `veeprom_init`. `veeprom_read` changes
nothing and is `Content`.

`Careful` names an assumption. `veeprom_write` copies into the other block
without erasing it first, which is fine as long as the write before did (it
erases the old block last). A reset in the middle of a copy leaves the other
block half programmed and marked as a block, not active: nothing erases it, and
a later write programs on top of it. With `Careful` TRUE an application begins
no write once a reset cut one short; with FALSE both properties fail.

### Clock

`cnt` is `RTCCNT >> 5`; `Advance` moves it, and sets RTIF at the end of a tick.
`RtcIsr` is the handler up to the periodic task and `RtcIsrEnd` its last
statement, which clears RTIF: a tick that ends within a long task is lost, as in
the code. main reads a 32-bit number in two halves in either order, since the
compiler chooses. `at` is where main is; `from, asked, age, since` are what the
properties compare with. Two bounds stand for speed: a reading takes less than a
quarter of a tick apart from interrupts (`spent`), and a wait that is over is
noticed before the next quarter.

### Conversations

`table` and `last` are `wpan_ep_state_t`; a cell of `cell` is the variable that a
request's handler reports to; `air` has the requests that a peer saw and may
answer, more than once. Time is 16 bits as in the code (`Secs`), and so is the
comparison by sign. Assumed, and stated in `ConversationsAssumption` or in a
guard: time-outs are below half the range; a response is not older than `Ids`
requests (256 really); a caller whose cell is pending waits for its outcome and
does not ask again, even if `wpan_envelope_send` failed (`zigbee_zdo.c:1069`
reports the error but leaves the conversation registered and the cell pending).

### Zigbee

`net` is the messages under way. `Receive` is the whole dispatch of one:
`wpan_envelope_dispatch` finds the endpoints, `EndpointDispatch` the cluster or
the refusal, `Handle` the handler, and `AnswersOf` what it may send. For the
broadcast endpoint the code passes one envelope through its loop, so that what a
call leaves in its options (`LoopOptions`) is there in the next. `heard` keeps
the calls, by position in the table, with the envelope each saw. A body is what
decides about an answer: frame type, direction, manufacturer code, whether default
responses are wanted, the command. Where a handler's choice depends on data (is the
list well-formed, is the address known), either happens. `MatchingEndpoints` is the
loop of `_zdo_match_desc_respond` over the table, and `ClientOf` the endpoint that
`zcl_time_find_servers` looks up before it asks.

### Xmodem

`tx` is `xbee_xmodem_state_t` with how far the file is read; `line` and `back`
the two directions, in which packets and characters are lost or garbled and not
reordered. Each action is what one call of `xbee_xmodem_tx_tick` may do. The
target (a boot loader, not in this repository) is modelled from what the sender
expects of it. `punctual` says whether it answers within the sender's time-outs
or not at all. If it does not, a late ACK for a packet sent again passes for the
next packet's ACK, and a transfer may end in SUCCESS with its last packet
missing; `Outcome` counts only a punctual success. That a late target still
stores the blocks in order needs more packet numbers than the line holds packets
(section 4); in the code there are 256.

### ZclAttributes

`value` is what the attribute table points to; `Attributes` the table. One
action writes a whole request, in one pass or two as the command says;
`Accepts` is `zcl_parse_attribute_record` with and without assignment.
`SignExtended` is the code's extension of the sign, which shifts by bytes
instead of bits.

## 3. Runs

| run | bounds | shows |
|---|---|---|
| `serial_rx` | ring of 8, margins 3 / 1 / 1, 9 bytes | no byte refused, none out of order, a FIFO, RTS comes back |
| `frames` | all 4^7 streams of 7 bytes; 4 frames with any one byte lost | the handlers hear exactly the stream's frames; no read past `frame_data`; what comes before a loss, and from one maximal frame behind it, is heard |
| `reporter` | frames of 3 bytes, IDs 1..3, 2 flips, 1 frame of main | what survives the races; how many reports there can be |
| `at_cmd` | 3 slots, 2 network changes, 1 loss, 1 console request | answers and query are consistent, the address is current, the next frame ID is free |
| `at_cmd_live` | 2 slots, no network change | requests end, start-up ends |
| `library`, EEPROM | 2 cells of 2 bits, 3 writes, 2 resets | the two pages are an EEPROM, and a write that returned is what is read |
| `library`, clock | 2 ticks a second, 4-bit counts of 3 + 1 bits, waits of 1 and 3, a task of up to 2 quarters | readings of the uptime and of milliseconds, waits and the periodic task are right |
| `library`, conversations | 2 slots, 2 IDs, 8 values of the second, 3 requests | one outcome each, the right one, not early and not never |
| `library`, messages | 3 nodes, all requests of `AllStarts` | nodes fall silent, encrypted stays encrypted, dispatch to all is dispatch to each, what is advertised is served |
| `library`, transfer | 4 blocks, 4 packet numbers, 3 tries, 2 under way | a prefix is stored, success means all, it ends |
| `library`, attributes | 4 attributes, 8 records, up to 2 in a request | undivided writes are undivided |

Why the bounds are enough. `serial_rx`: with 9 bytes the ring of 8 wraps and RTS
goes off, on and off; the margins are the tightest the assumptions allow, so one
byte too many is found. `frames`: base 4 with frames of 2 or 3 bytes has
every kind of header in 7 bytes (doubled SOF, SOF as low byte of a bad length, as
data, as checksum), a whole frame followed by the next one's header, and every
way of cutting them; four frames leave a damaged one, one that it
swallows and intact ones on both sides. `reporter`: three bytes have a first, a
middle and a last; two flips give two reports; IDs to 3 wrap. `at_cmd`: three
slots hold a query, a console request and one more; ids and sequence bytes wrap;
time-outs of one and two seconds order as 2 s, 2 s and 3 s do. The ring
operators are compared with the bit masks of `xbee_cbuf.c` by an ASSUME of
`MCSerialRx`.

`library`: with two cells a write covers none, one or both, with two bits a byte
can need an erase or not, three writes go into one block, the other and back, and
the second reset falls into the recovery from the first. All counts of the clock
wrap, the low half of `ms_uptime` within a reading too; a wait of 3 ticks spans a
second and a periodic task. Two IDs wrap at the third request, so that a late
response meets a younger conversation; the 8 seconds wrap through 0, and the
second starts anywhere. The messages come one at a time, but each is followed by
all that it leads to; the three tables have a cluster of every kind of flag and
handler, on a node that asks and on two that answer. Four blocks and four packet
numbers wrap once; three tries let one packet be lost, be garbled and get through.
Two records in a request are enough for an error before or behind a good one, and
for one attribute written twice; the signed attribute has limits on both sides.

Six runs end in a violation of something the repository says about itself:

| run | what TLC shows |
|---|---|
| `reporter_ids` | main and the task take the same frame ID, or skip one |
| `reporter_whole` | a frame reported as queued is broken up by a report sent from `rtc_isr` |
| `at_cmd_one_query` | a refresh on a full table begins two queries on one list |
| `at_cmd_query_alive` | the query's request is released by the answer to the one before it; the flag stays set and the device never queries again |
| `at_cmd_init` | the radio joins during start-up and falls silent: the query restarts for ever and `sys_xbee_init` never returns |
| `attribute_limits` | a negative value far below the minimum is written: `zcl_check_minmax` extends the sign by `0xFFFFFFFF << sizeof_type` |

`at_cmd` has one slot more than the firmware to show what the layer guarantees
when its table is not full; the runs above show what two slots cost. One more
cost has no run of its own: with `TableSize = 2` in `MCAtCmd.cfg`,
`RefreshRestarts` fails, because the request of the pass that ends still holds
its slot when the end handler asks for one for the refresh; the refresh then
waits until a slot expires.

Other things met while modelling, without a run: `device.h:284` says frame type 0
matches all frames, and `xbee_device.c:919` compares for equality; an undivided
write that names an attribute whose value pointer is NULL is partial, since only
the second pass finds out (`Ghostly` leaves it out of `AllOrNothing`, the code
warns of it at `zigbee_zcl.c:873`); two nodes that both have the OTA server answer
each other's error texts for ever; `rtc_get_uptime` can be torn when its low half
overflows, which `rtc_get_ms_uptime` guards against and it does not
(`TimesAreNow` makes the exception); `xmodem.h:264` has `-ETIMEDOUT` for a target
that never begins, for which the sender waits without end.

### Fairness

`SerialRx`: `rtc_isr` ends, a pending receive interrupt is served, the radio
sends when it may (weak); main and the handler get to run again and again between
two runs of `rtc_isr`, which is short against its period (strong, as `masked`
comes and goes). `FrameLoad`: bytes arrive, main's loop calls `xbee_dev_tick`,
handlers end (weak). `Reporter`: the register shifts, the interrupt comes, main
runs (weak); CTS, which may change all the time, does not avoid a sender for ever
(strong on leaving the wait). The busy-wait has no time-out in this configuration
and resets the watchdog, so without that last assumption the firmware stops, by
its own design. `AtCmd`: main runs and seconds pass (weak), and an arrived frame
is dispatched before long (strong, as it is enabled only in `xbee_dev_tick`). The
radio owes no answer in any of them. `Zigbee`: a message under way is received or
lost (weak). `Xmodem`: `xbee_xmodem_tx_tick` is called again and again, a packet
that `stream.write` takes in parts is whole in the end, what is under way arrives
or is lost (weak); the target owes nothing.

## 4. Proofs

`SerialRxProofs`, for every ring size, margin, set of read sizes and number of
bytes that `SerialRxAssumption` and `MarginAssumption` allow:

* `TypeCorrect`: `Spec => []TypeOK`.
* `Lossless`: `Spec => []NoDrop`.
* `BytesInOrder`: `Spec => []InOrder`.
* `FifoImplemented`: `Spec => ImplementsFifo`, the refinement of `ByteFifo`.

`NoDrop` is not inductive: nothing in it says why there is room. The invariant
`IInv` adds `Control`, what pin and flag bits may be at each place of the driver
(between reads, pin and bit agree; while RTS is being asserted the bit is still
clear, so the handler does not act on it), and `Margin`, how much room is left
seen from there: RTS off, what the radio may still send; RTS on, `AssertBytes -
Burst`; while it is being asserted, what the test saw less what arrived since;
during a read, what was taken less what arrived; before flow control, the empty
ring less what arrived. Each step moves one of these to the next. The lemmas
`RingType`, `RoomPut` and their like say what the index arithmetic does to the
room.

The other two look at what the ring holds. `ContentPut` and `ContentTake` say that
a store at the tail appends to it and an advance of the head takes from its front;
with them every step of the receiver is a put, a take, a flush or nothing to the
queue (`UnreadIsr` to `UnreadQuiet`). That a put finds room comes from `IInv`.
`Sequenced`, the strengthening of `InOrder`, adds the byte in the register and the
last one sent.

`ReporterProofs`, for every frame length, ID range, number of flips and frames:

* `IdsInRange`: `Spec => []IdInRange`. The counter can be 0 when main returns
  it only while the task is about to wrap it, and then main cannot run.
* `LossIsBounded`: `Spec => []OnlyReportEndLost`. Whoever is about to store saw
  the register empty; for main, only a whole report can have come in between,
  whose last byte is then in the register.
* `ReportsUnbroken`: `Spec => []ReportUnbroken`. While a report is being sent its
  last byte on the wire is the last of all (`Progress`), so the next one follows
  it; and a byte of main that replaces the register's leaves what is before it.
* `ReportsMatchLed`: `Spec => []ReportMatchesLed`. A run that saw a still sensor
  has set LED and value from equal readings, and there is no report of main's
  loop before main has set the LED for the last time.
* `TypeCorrect`: `Spec => []TypeOK`. The type of `count` bounds the reports: one
  for the state it starts in, one for each change of the pin, and one more if
  main sets the LED by a reading from before a change. `CountInv` counts what
  was begun and what is due against these. (Without the last one the bound is
  false, as TLC shows with no frame of main and one change.)

`FrameLoadProofs`, for every maximal length, range of byte values, handler table
and set of streams:

* `ReadsFit`: `Spec => []ReadFits`. `FrameInv` says that from the moment a length
  passed its check until the frame is whole, the length is still valid and no
  more bytes than it are in `frame_data`.
* `TypeCorrect`: `Spec => []TypeOK`. It rests on `Calls`: `xbee_dev_tick` is never
  nested, since a handler runs with `XBEE_DEV_FLAG_IN_TICK` set, so its frame is
  whole in `frame_data` until it ends.
* `FramesHeard`: `Spec => []HeardExactly`. `ParseInv` says that what was heard,
  the frame in the handlers' hands and the frames of the stream from `Start`, where
  the parser began its present search, are together the frames of the stream;
  that the bytes read, buffered and on the wire are the stream; and what each
  state of the parser knows of the bytes since `Start` (`Parsed`). One lemma per
  kind of step moves `Start` on by one turn of the recursion in `FramesOf`.
* `BackInStepAgain`: `Spec => []BackInStep`: the frames of every first part of the
  stream are heard, and so are those behind every undisturbed position. `Begins`
  and `Reaches` go through the stream from behind, one turn of the recursion at a
  time (`Jump`, `Gives`): the turns in a first part are those in the whole, and no
  turn leads past an undisturbed position.

`FramesOf`, `Checksum` and `Sum` are recursive functions. That they satisfy their
equations at every position (`FromFrame`, `ChecksumSteps`, `SumSteps`) is proved
from `WFMin`, the least position at which they would not: the induction theorems
with an operator as parameter cannot be used. `ChecksumRight` then says that
the subtractions from 0xFF modulo the base end in 0 exactly for the frames whose
bytes add up to 0xFF.

`AtCmdProofs`, for every table, list of registers, range of IDs and sequence
bytes, time-outs and bounds:

* `TypeCorrect`: `Spec => []TypeOK`.
* `FlagHasRequest`: `Room => (Spec => []QueryHasRequest)`.
* `RefreshIsBegun`: `Room => (Spec => RefreshRestarts)`.
* `AddressFollows`: `Room => (Spec => []AddressIsCurrent)`.
* `AnswersGoHome`: `Room => (Spec /\ []IdFree => []RightRequest)`.

`Room` is `MaxUsers + 2 <= TableSize`: beside the console's requests there is a
slot for the query's and one for the next query's, which `_xbee_cmd_execute_list`
asks for before the slot of the one that ended is free. It is no convenience:
with less room `xbee_cmd_create` expires requests inside handlers, and the runs
`at_cmd_one_query` and `at_cmd_query_alive` violate what `Good` says. The firmware's
two slots (`atcmd.h:30`) meet it as long as nothing of the console's is waiting.
`TypeCorrect` needs none of it and covers the nested expiry.

The handlers call one another, so there is a lemma for each function of the code
on the driver's record, from `xbee_cmd_send` up to `xbee_cmd_tick`, which is
taken slot by slot. They carry `Good`: the query's flag is set exactly if the list
has one request in the table, for the command at the list's index, and without
it none is waiting and no refresh is wanted. `QueryHasRequest` alone is not
inductive, since an answer advances the list and must find the request for the
command it got to. For the address, `AInv` adds that the last status frame under
way, and every answer behind it, tells the radio's address now (`Truthful`), and that
without one the driver has that address or is unsure and going to ask (`Known`,
`Unsure`). For the answers, `IdsInv` says that a command or an answer under way
belongs to every request that waits under its ID (`Belongs`). This holds as long
as `xbee_next_frame_id` does not come round to an ID in use. `IdFree` says so; it
is a hypothesis of the theorem and a property of the run `at_cmd`, since it rests on
the ratio of IDs to time-outs and not on the code of the table.

`VeepromProofs`, for every size of block and of byte and any number of writes and
resets, under `Careful`:

* `TypesHold`: `Spec => []TypeOK`.
* `Implements`: `Spec => ImplementsEeprom`, the refinement of `Eeprom`.
* `ReturnedIsWritten`: `Spec => WrittenIsRead`.

All follow from `InvariantHolds`, an inductive invariant that says at every place
of the code what the two pages hold: which one is active, that the other is
erased up to the cells already copied, what has been programmed of the write, and
what a reset leaves for `veeprom_init` and `veeprom_get_actblock` to find: one
active block, two with the same data, or one and an erased one.

`ZigbeeProofs`, about `Conversations`, for every number of entries, IDs and contexts, every width
of the clock and time-outs below half its range:

* `AnswersAreRight`: `ConvSpec => []RightAnswer`.
* `NoneForgotten`: `ConvSpec => []NeverForgotten`.
* `TimeoutsInTime`: `ConvSpec => NoEarlyTimeout`.
* `OutcomesAreFinal`: `ConvSpec => OneOutcome`.

`IInv` (`Invariance`) says of each conversation that its ID is congruent to its
request's serial number (`IdInv`), that the difference of clock and time-out is
congruent to its age less its wait, or less one, and that it was not over at the
last `wpan_tick` (`TimeInv`), and that pending contexts and conversations
correspond one to one (`CellInv`). Congruence is carried as the existence of a
quotient, which `%` hides from the provers.

`ZigbeeProofs`, about `Zigbee`, for all tables of endpoints and all messages within
`ZigbeeAssumption`, which says what a table must be: an endpoint of a profile is in
it once, its handlers are those modelled, and only an endpoint of the ZDO's profile
has `zdo_handler`:

* `EncryptionStays`: `ZigbeeSpec => []StaysEncrypted`. `Follows` adds that what
  follows from a message of another profile never gets into the ZDO's, whose
  requests of its own are sent by other rules.
* `HeardAlone`: `ZigbeeSpec => []EachAlone`. `FreshTurn` is the point: whatever the
  calls before have left in the envelope, clearing the cluster flags gives the
  options the message came with; and the mark of the broadcast endpoint, which
  stays, changes neither the cluster found nor its refusal (`SameCall`).
* `AdvertisedServed`: `TablesAgree => (ZigbeeSpec => []AdvertisedIsServed)`. It is not
  true of all tables: `_zdo_match_desc_respond` looks for the server flag only, and a
  node may offer a cluster that has no handler, or whose flags make
  `_wpan_endpoint_dispatch` refuse a client that does not encrypt. `TablesAgree` rules
  that out, and asks that the client has a client cluster (without one
  `zcl_time_find_servers` sends nothing) and asks for one cluster. `MatchInv` says what
  may follow from a request: the request, a response whose first endpoint is one of
  the table of the node it came from that matches (`MatchingServe`, `FirstServes`), a
  read for an endpoint that serves it, and answers, which are no reads
  (`HandlersReply`). TLC evaluates `TablesAgree` for the tables of `MCLibrary`.

and about `ZclAttributes`, for every table of attributes and requests of any length:

* `UndividedIsOne`: `ZclSpec => AllOrNothing`. What the pass that checks accepts the
  pass that assigns accepts too (`PassesAgree`); a record behind a malformed one is
  not seen, but the malformed one is an error itself (`AllSeen`); and each
  attribute has the last value for it (`LastAssigned`).

The loops over the table and over the records are recursive functions; that they
satisfy their equations (`StepsExist`) is proved like those of `FrameLoad`, and what
is true after each step by `UpTo`, from the least step after which it is not.

`XmodemProofs`, for every length of the file, number of tries and modulus above 2:

* `LockStep`: `XmodemSpec /\ punctual => []IInv`: one packet or one answer is under
  way, the packet is the one in the buffer, the target has stored all before it
  or it too, and an ACK says that it has.
* `TransferImplemented`: `XmodemSpec /\ punctual => ImplementsTransfer`.
* `LateTransferImplemented`: `Room + 1 < Numbers => (XmodemSpec => ImplementsTransfer)`,
  for late targets too. A late ACK lets the sender go on to a block that the target
  has not asked for, and what it is ahead by must stay below the modulus, or the
  target takes a packet for another with the same number. What bounds it is neither
  the tries nor the file but the packets under way: each may give one more ACK, and
  the sender throws away what has come back whenever it begins a packet, so one ACK
  at most carries over. `LateInv` counts this: for each block after the last one
  stored, up to the one before the sender's, the blocks from there to the sender's
  and the packets under way up to that block, and an ACK under way, are together at
  most `Room` (`Ahead`, `AheadInv`); `Sorted` says that blocks are under way in order.
  The condition is exact: with 3 numbers and room for 2 packets, or 4 and 3, TLC finds a
  behaviour that stores the wrong block. In the code it allows 254 packets under way.
* `TypeCorrect`: `XmodemSpec => []XmodemTypeOK`, without `punctual`. `Numbered` adds
  what the packet number is in each state of the sender: that of the last block read,
  or the one after it.

`ClockProofs`, for every rate, wait and period:

* `TaskRunsOnTime`: `ClockSpec => TaskOnTime`.
* `WaitsEndInTime`: `ClockSpec => DelaysInTime`, if the periodic task takes less than
  a tick. With a longer one `rtc_isr` misses ticks, and the bound depends on how
  often the task runs. `Before`, the part of a tick that was over when the wait
  began, stays what it was, whatever is counted late.
* `ReadingsAreNow`: `ClockSpec => TimesAreNow`, if the periodic task takes at most
  half a tick. `rtc_get_ms_uptime` takes its two reads of `RTCCNT >> 5` to be equal
  only if no interrupt came in between; `MsInv` says that once it may have come the
  counter is past the first reading. After a task of three quarters of a tick it
  can be back there, and TLC shows the wrong time. A task that sends, as a report
  does, can wait that long for the radio.
* `TypeCorrect`: `ClockSpec => []ClockTypeOK`, however long the task takes.

Only model-checked: liveness, which is out of the prover's reach, and `IdFree`,
which is a matter of the bounds.

## 5. Not modelled, and the plan

* `hwinit.c`'s search for the radio's baud rate and its way into API mode: one loop
  of AT commands with a delay after each, and nothing else runs beside it but the
  receive interrupt. Whether it ends in step with the radio depends on what the
  repository does not say: when a `BD` sent in an API frame takes effect, and what
  the radio makes of an `ATAC` whose last bytes are still being shifted out when
  `radio_uart_config` changes the rate. A model would have to assume its result.
* The dialogue with the boot loader's menu (`xbee_firmware.c`), which leads up to
  the transfer that `Xmodem` models, and `xbee_ota_client.c`, which hands bytes on.
  The retry of `xbee_firmware.c` does not rewind the firmware source.
* The commissioning cluster: what it changes is the radio's parameters.
* `xbee_params_init`, `xbee_dev_reset`, the console's UART (interrupt-driven, with
  its RTS/CTS bits in the same `_flags`).
* Data: the encoding of values, descriptors, the records of read and discover
  responses.
* Parts that this configuration does not compile: the calendar and the slow clock
  of `rtc.c`, power management. `veeprom.c` is modelled although
  `ENABLE_VIRTUAL_EEPROM` is off: it is what an application
  of this SDK would store its settings in.
* Register-level drivers (ADC, PWM, I2C, SPI, keyboard), low power, byte swapping
  and dumps, the vendored compiler, the examples: no order of events to get wrong
  beyond what a data sheet says.

Left to prove: nothing that a run checks, but for what section 4 lists as only
model-checked.
