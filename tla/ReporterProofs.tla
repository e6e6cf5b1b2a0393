--------------------------- MODULE ReporterProofs ---------------------------
(***************************************************************************)
(* What the races between main and rtc_periodic_task in Reporter cannot do *)
(* to frame IDs, to the bytes of a frame and to what a report says, for    *)
(* every frame length, range of IDs and number of frames.                  *)
(***************************************************************************)
EXTENDS Reporter, SequenceTheorems, TLAPS

Place == {"free", "led", "value", "id", "id_store", "id_wrap", "id_return", "wait",
    "store"}

(***************************************************************************)
(* xbee_next_frame_id: the counter is 0 when somebody returns it only if   *)
(* the task is about to wrap it, and then main has to wait for the task.   *)
(***************************************************************************)
IdType ==
  /\ frameId \in 0 .. MaxId
  /\ pc \in [Sender -> Place]
  /\ tmp \in [Sender -> 0 .. MaxId]

IdNotZero ==
  /\ pc["task"] = "id_return" => frameId # 0
  /\ pc["main"] = "id_return" => frameId # 0 \/ pc["task"] = "id_wrap"

IdInv == IdType /\ IdNotZero /\ ids \in Seq(1 .. MaxId)

(***************************************************************************)
(* xbee_ser_write: whoever is about to store found the register empty, and *)
(* only a report can have filled it since.  While that report still waits  *)
(* to store more, main does not run.                                       *)
(***************************************************************************)
Unfinished ==
  \A s \in Sender : pc[s] \in {"wait", "store"} => stored[s] \in 0 .. FrameBytes - 1

Register ==
  /\ pc["task"] = "store" => txd = None
  /\ pc["main"] = "store" =>
       \/ txd = None
       \/ txd[1] = "task" /\ (pc["task"] # "wait" => txd[3] = FrameBytes)

PortInv ==
  /\ pc \in [Sender -> Place] /\ stored \in [Sender -> Nat]
  /\ Unfinished /\ Register /\ OnlyReportEndLost
-----------------------------------------------------------------------------
(* Frame IDs *)

LEMMA IdInit == Init => IdInv
BY ReporterAssumption DEF Init, IdInv, IdType, IdNotZero, Sender, Place

\* Steps of anybody that leave the counter, the places in xbee_next_frame_id
\* and the IDs handed out as they are.
LEMMA IdSame ==
  ASSUME IdInv, UNCHANGED <<frameId, tmp, ids>>,
         pc' \in [Sender -> Place],
         \A s \in Sender : pc'[s] # pc[s] => pc[s] # "id_wrap" /\ pc'[s] # "id_return"
  PROVE  IdInv'
<1>1. pc'["task"] = "id_return" => pc["task"] = "id_return"
  BY DEF Sender
<1>2. pc'["main"] = "id_return" => pc["main"] = "id_return"
  BY DEF Sender
<1>3. pc["task"] = "id_wrap" => pc'["task"] = "id_wrap"
  BY DEF Sender
<1> QED
  BY <1>1, <1>2, <1>3 DEF IdInv, IdType, IdNotZero

LEMMA IdStep ==
  ASSUME NEW s \in Sender, IdInv, IdLoad(s) \/ IdStore(s) \/ IdWrap(s) \/ IdReturn(s)
  PROVE  IdInv'
<1> USE ReporterAssumption DEF IdInv, IdType, Goto, At
<1>1. CASE IdLoad(s)
  <2>1. tmp' \in [Sender -> 0 .. MaxId]
    BY <1>1 DEF IdLoad
  <2>2. pc' = [pc EXCEPT ![s] = "id_store"] /\ UNCHANGED <<frameId, ids>>
    BY <1>1 DEF IdLoad, hist
  <2> QED
    BY <1>1, <2>1, <2>2 DEF IdNotZero, Sender, Place, IdLoad
<1>2. CASE IdStore(s)
  <2>1. UNCHANGED <<tmp, ids>> /\ frameId' = tmp[s] /\ pc[s] = "id_store"
    BY <1>2 DEF IdStore, hist
  <2>2. CASE tmp[s] = 0
    BY <1>2, <2>1, <2>2 DEF IdStore, IdNotZero, Sender, Place
  <2>3. CASE tmp[s] # 0
    BY <1>2, <2>1, <2>3 DEF IdStore, IdNotZero, Sender, Place
  <2> QED
    BY <2>2, <2>3
<1>3. CASE IdWrap(s)
  <2>1. UNCHANGED <<tmp, ids>> /\ frameId' = 1
    BY <1>3 DEF IdWrap, hist
  <2> QED
    BY <1>3, <2>1 DEF IdWrap, IdNotZero, Sender, Place
<1>4. CASE IdReturn(s)
  <2>1. frameId # 0
    BY <1>4 DEF IdReturn, IdNotZero, Sender
  <2>2. ids' \in Seq(1 .. MaxId)
    BY <1>4, <2>1 DEF IdReturn
  <2>3. pc' = [pc EXCEPT ![s] = "wait"] /\ UNCHANGED <<frameId,
      tmp>> /\ pc[s] = "id_return"
    BY <1>4 DEF IdReturn
  <2> QED
    BY <2>2, <2>3 DEF IdNotZero, Sender, Place
<1> QED
  BY <1>1, <1>2, <1>3, <1>4

LEMMA IdOther ==
  ASSUME IdInv,
         \/ Flip \/ Cts \/ Shift \/ TaskTest \/ TaskLed \/ TaskValue
         \/ MainSend \/ WpanInit \/ MainSetLed
         \/ \E s \in Sender : PortReady(s) \/ PortStore(s)
  PROVE  IdInv'
<1> USE DEF IdInv, IdType
<1>1. CASE Flip \/ Cts \/ Shift \/ WpanInit \/ MainSetLed
  BY <1>1, IdSame DEF Flip, Cts, Shift, WpanInit, MainSetLed, local, hist
<1>2. CASE TaskTest \/ TaskLed \/ TaskValue \/ MainSend
  <2>1. UNCHANGED <<frameId, tmp, ids>>
    BY <1>2 DEF TaskTest, TaskLed, TaskValue, MainSend, hist
  <2>2. \E s \in Sender, l \in {"led", "value", "id", "free"} :
          pc[s] # "id_wrap" /\ pc' = [pc EXCEPT ![s] = l]
    BY <1>2 DEF TaskTest, TaskLed, TaskValue, MainSend, At, Goto, Sender
  <2> QED
    <3>1. PICK s \in Sender, l \in {"led", "value", "id", "free"} :
            pc[s] # "id_wrap" /\ pc' = [pc EXCEPT ![s] = l]
      BY <2>2
    <3>2. pc' \in [Sender -> Place]
      BY <3>1 DEF Place
    <3>3. \A r \in Sender : pc'[r] # pc[r] => pc[r] # "id_wrap" /\ pc'[r] # "id_return"
      BY <3>1
    <3> QED
      BY <2>1, <3>2, <3>3, IdSame
<1>3. CASE \E s \in Sender : PortReady(s) \/ PortStore(s)
  <2>1. UNCHANGED <<frameId, tmp, ids>>
    BY <1>3 DEF PortReady, PortStore, hist
  <2>2. \E s \in Sender, l \in {"store", "wait", "free"} :
          pc[s] # "id_wrap" /\ pc' = [pc EXCEPT ![s] = l]
    BY <1>3 DEF PortReady, PortStore, At, Goto
  <2> QED
    BY <2>1, <2>2, IdSame DEF Sender, Place
<1> QED
  BY <1>1, <1>2, <1>3

LEMMA IdReadSensor == IdInv /\ MainReadSensor => IdInv'
<1> SUFFICES ASSUME IdInv, MainReadSensor PROVE IdInv'
  OBVIOUS
<1>1. tmp' \in [Sender -> 0 .. MaxId]
  <2>1. 0 \in 0 .. MaxId /\ 1 \in 0 .. MaxId
    BY ReporterAssumption
  <2>2. PICK v \in 0 .. MaxId : tmp' = [tmp EXCEPT !["main"] = v]
    BY <2>1 DEF MainReadSensor
  <2> QED
    BY <2>2 DEF IdInv, IdType
<1>2. UNCHANGED <<frameId, pc, ids>>
  BY DEF MainReadSensor, hist
<1>3. IdNotZero'
  BY <1>2 DEF IdInv, IdNotZero
<1> QED
  BY <1>1, <1>2, <1>3 DEF IdInv, IdType

LEMMA IdAlways == Spec => []IdInv
<1>1. IdInv /\ [Next]_vars => IdInv'
  <2>1. ASSUME IdInv, Next PROVE IdInv'
    BY <2>1, IdStep, IdOther, IdReadSensor DEF Next, Task, Main, Send, Sender
  <2>2. ASSUME IdInv, UNCHANGED vars PROVE IdInv'
    BY <2>2 DEF IdInv, IdType, IdNotZero, vars, local, hist
  <2> QED
    BY <2>1, <2>2
<1> QED
  BY IdInit, <1>1, PTL DEF Spec

(***************************************************************************)
(* xbee_next_frame_id never hands out 0, the ID that asks the radio for no *)
(* answer, wherever rtc_isr interrupts main and for every range of IDs.    *)
(***************************************************************************)
THEOREM IdsInRange == Spec => []IdInRange
<1>1. IdInv => IdInRange
  <2> SUFFICES ASSUME IdInv, NEW i \in DOMAIN ids PROVE ids[i] \in 1 .. MaxId
    BY DEF IdInRange
  <2>1. ids \in Seq(1 .. MaxId)
    BY DEF IdInv
  <2>2. i \in 1 .. Len(ids)
    BY <2>1
  <2> QED
    BY <2>1, <2>2, ElementOfSeq
<1> QED
  BY IdAlways, <1>1, PTL
-----------------------------------------------------------------------------
(* The transmit register *)

LEMMA PortInit == Init => PortInv
BY DEF Init, PortInv, Unfinished, Register, OnlyReportEndLost, Sender, Place

\* Steps that take nobody to or from the busy-wait: the register at most empties.
LEMMA PortSame ==
  ASSUME PortInv, UNCHANGED <<stored, lost>>, txd' \in {txd, None},
         pc' \in [Sender -> Place],
         \A s \in Sender : pc'[s] # pc[s] => pc[s] # "wait" /\ pc'[s] \notin {"wait",
            "store"}
  PROVE  PortInv'
<1>1. Unfinished'
  BY DEF PortInv, Unfinished
<1>2. Register'
  <2>1. /\ pc'["task"] = "store" => pc["task"] = "store"
        /\ pc'["main"] = "store" => pc["main"] = "store"
        /\ pc'["task"] # "wait" => pc["task"] # "wait"
    BY DEF Sender
  <2> QED
    BY <2>1 DEF PortInv, Register
<1> QED
  BY <1>1, <1>2 DEF PortInv, OnlyReportEndLost

LEMMA PortElsewhere ==
  ASSUME PortInv,
         \/ Flip \/ Cts \/ Shift \/ TaskTest \/ TaskLed \/ TaskValue
         \/ MainSend \/ WpanInit \/ MainReadSensor \/ MainSetLed
         \/ \E s \in Sender : IdLoad(s) \/ IdStore(s) \/ IdWrap(s)
  PROVE  PortInv'
<1>1. CASE Flip \/ Cts \/ Shift \/ WpanInit \/ MainReadSensor \/ MainSetLed
  <2>1. UNCHANGED <<stored, lost, pc>> /\ txd' \in {txd, None}
    BY <1>1 DEF Flip, Cts, Shift, WpanInit, MainReadSensor, MainSetLed, local, uart
  <2> QED
    BY <2>1, PortSame DEF PortInv
<1>2. CASE \/ TaskTest \/ TaskLed \/ TaskValue \/ MainSend
           \/ \E s \in Sender : IdLoad(s) \/ IdStore(s) \/ IdWrap(s)
  <2>1. UNCHANGED <<stored, lost, txd>>
    BY <1>2 DEF TaskTest, TaskLed, TaskValue, MainSend, IdLoad, IdStore, IdWrap, uart
  <2>2. PICK s \in Sender, l \in Place \ {"wait", "store"} :
          pc[s] # "wait" /\ pc' = [pc EXCEPT ![s] = l]
    <3>1. CASE TaskTest \/ TaskLed \/ TaskValue \/ MainSend
      BY <3>1 DEF TaskTest, TaskLed, TaskValue, MainSend, At, Goto, Sender, Place
    <3>2. CASE \E s \in Sender : IdLoad(s) \/ IdStore(s) \/ IdWrap(s)
      BY <3>2 DEF IdLoad, IdStore, IdWrap, At, Goto, Place
    <3> QED
      BY <1>2, <3>1, <3>2
  <2>3. pc' \in [Sender -> Place]
    BY <2>2 DEF PortInv
  <2>4. \A r \in Sender : pc'[r] # pc[r] => pc[r] # "wait" /\ pc'[r] \notin {"wait",
      "store"}
    BY <2>2 DEF PortInv
  <2> QED
    BY <2>1, <2>3, <2>4, PortSame
<1> QED
  BY <1>1, <1>2

\* Into the busy-wait with a new frame, and out of it with an empty register.
LEMMA PortWait ==
  ASSUME NEW s \in Sender, PortInv, IdReturn(s) \/ PortReady(s)
  PROVE  PortInv'
<1> USE ReporterAssumption DEF PortInv
<1>1. CASE IdReturn(s)
  <2>1. /\ pc' = [pc EXCEPT ![s] = "wait"] /\ stored' = [stored EXCEPT ![s] = 0]
        /\ UNCHANGED <<txd, lost>> /\ pc[s] = "id_return"
    BY <1>1 DEF IdReturn, At, Goto, uart
  <2>2. Unfinished'
    BY <2>1 DEF Unfinished, Sender, Place
  <2>3. Register'
    BY <2>1 DEF Register, Sender, Place
  <2> QED
    BY <2>1, <2>2, <2>3 DEF OnlyReportEndLost, Place
<1>2. CASE PortReady(s)
  <2>1. /\ pc' = [pc EXCEPT ![s] = "store"] /\ stored' = stored
        /\ UNCHANGED <<txd, lost>> /\ pc[s] = "wait" /\ txd = None
    BY <1>2 DEF PortReady, At, Goto, uart
  <2>2. Unfinished'
    BY <2>1 DEF Unfinished, Sender, Place
  <2>3. Register'
    BY <2>1 DEF Register, Sender, Place
  <2> QED
    BY <2>1, <2>2, <2>3 DEF OnlyReportEndLost, Place
<1> QED
  BY <1>1, <1>2

\* The task stores into an empty register; main stores into an empty one or
\* over the end of a report.
LEMMA PortStored ==
  ASSUME NEW s \in Sender, PortInv, PortStore(s)
  PROVE  PortInv'
<1> USE ReporterAssumption DEF PortInv
<1> DEFINE l == IF stored[s] + 1 < FrameBytes THEN "wait" ELSE "free"
<1>1. /\ pc[s] = "store" /\ (s = "main" => pc["task"] = "free")
      /\ stored' = [stored EXCEPT ![s] = @ + 1]
      /\ txd' = <<s, count[s], stored[s] + 1>>
      /\ lost' = lost \cup ({txd} \ {None})
  BY DEF PortStore, At
<1>2. pc' = [pc EXCEPT ![s] = l]
  BY <1>1 DEF PortStore, Goto
<1>3. stored[s] \in 0 .. FrameBytes - 1
  BY <1>1 DEF Unfinished
<1>4. txd # None => txd[1] = "task" /\ txd[3] = FrameBytes
  BY <1>1 DEF Register, Sender
<1>5. OnlyReportEndLost'
  BY <1>1, <1>4 DEF OnlyReportEndLost
<1>6. pc' \in [Sender -> Place] /\ stored' \in [Sender -> Nat]
  BY <1>1, <1>2 DEF Place
<1>7. Unfinished'
  BY <1>1, <1>2, <1>3 DEF Unfinished
<1>8. Register'
  <2>1. CASE s = "task"
    <3>1. txd'[1] = "task" /\ (l # "wait" => txd'[3] = FrameBytes)
      BY <1>1, <1>3, <2>1
    <3> QED
      BY <1>2, <2>1, <3>1 DEF Register, Sender
  <2>2. CASE s = "main"
    BY <1>1, <1>2, <2>2 DEF Register, Sender
  <2> QED
    BY <2>1, <2>2 DEF Sender
<1> QED
  BY <1>5, <1>6, <1>7, <1>8

LEMMA PortAlways == Spec => []PortInv
<1>1. PortInv /\ [Next]_vars => PortInv'
  <2>1. ASSUME PortInv, Next PROVE PortInv'
    BY <2>1, PortElsewhere, PortWait, PortStored DEF Next, Task, Main, Send, Sender
  <2>2. ASSUME PortInv, UNCHANGED vars PROVE PortInv'
    BY <2>2 DEF PortInv, Unfinished, Register, OnlyReportEndLost, vars, uart, local
  <2> QED
    BY <2>1, <2>2
<1> QED
  BY PortInit, <1>1, PTL DEF Spec

(***************************************************************************)
(* The race of main and rtc_isr on SCI2D costs nothing but last bytes of   *)
(* reports: a report's other bytes and all of main's reach the radio,      *)
(* however long the frames are and however often main is interrupted.      *)
(***************************************************************************)
THEOREM LossIsBounded == Spec => []OnlyReportEndLost
<1>1. PortInv => OnlyReportEndLost
  BY DEF PortInv
<1> QED
  BY PortAlways, <1>1, PTL
-----------------------------------------------------------------------------
(* The bytes of a report *)

Bytes == Sender \X Nat \X Nat

InFrame == pc["task"] \in {"wait", "store"}

\* The bytes of one report in seq have nothing between them.
Unbroken(seq) ==
  \A i, j \in DOMAIN seq :
    seq[i][1] = "task" /\ seq[j][1] = "task" /\ seq[i][2] = seq[j][2]
      => seq[j][3] - seq[i][3] = j - i

\* The reports in seq have numbers up to n.
NumbersTo(seq, n) == \A i \in DOMAIN seq : seq[i][1] = "task" => seq[i][2] <= n

EndsWith(seq, b) == seq # << >> /\ seq[Len(seq)] = b

(***************************************************************************)
(* While a report is being sent, its last byte on the wire is the last of  *)
(* all, since main does not run; before its first byte its number is new.  *)
(***************************************************************************)
WholeType ==
  /\ wire \in Seq(Bytes) /\ txd \in Bytes \cup {None}
  /\ count \in [Sender -> Nat] /\ stored \in [Sender -> Nat]
  /\ pc \in [Sender -> Place]

Progress ==
  /\ NumbersTo(Sent, count["task"])
  /\ InFrame /\ stored["task"] = 0 => NumbersTo(Sent, count["task"] - 1)
  /\ InFrame /\ stored["task"] > 0 => EndsWith(Sent, <<"task", count["task"], stored["task"]>>)

WholeInv == WholeType /\ Unbroken(Sent) /\ Progress

LEMMA ByteType ==
  ASSUME NEW b \in Bytes
  PROVE  b[1] \in Sender /\ b[2] \in Nat /\ b[3] \in Nat /\ b # None
BY DEF Bytes, None, Sender

LEMMA SentType ==
  ASSUME WholeType
  PROVE  Sent \in Seq(Bytes) /\ DOMAIN Sent = 1 .. Len(Sent) /\ Len(Sent) \in Nat
<1>1. Sent \in Seq(Bytes)
  BY AppendProperties DEF WholeType, Sent
<1> QED
  BY <1>1, LenProperties

LEMMA AppendElements ==
  ASSUME NEW seq \in Seq(Bytes), NEW b \in Bytes
  PROVE  /\ Append(seq, b) \in Seq(Bytes) /\ Len(seq) \in Nat
         /\ DOMAIN seq = 1 .. Len(seq)
         /\ DOMAIN Append(seq, b) = 1 .. Len(seq) + 1
         /\ \A i \in 1 .. Len(seq) : Append(seq, b)[i] = seq[i] /\ seq[i] \in Bytes
         /\ Append(seq, b)[Len(seq) + 1] = b
<1>1. /\ Append(seq, b) \in Seq(Bytes) /\ Len(Append(seq, b)) = Len(seq) + 1
      /\ \A i \in 1 .. Len(seq) : Append(seq, b)[i] = seq[i]
      /\ Append(seq, b)[Len(seq) + 1] = b
  BY AppendProperties
<1>2. DOMAIN Append(seq, b) = 1 .. Len(Append(seq, b))
  BY <1>1, LenProperties
<1>3. Len(seq) \in Nat /\ DOMAIN seq = 1 .. Len(seq) /\ \A i \in 1 .. Len(seq) : seq[i] \in Bytes
  BY LenProperties, ElementOfSeq
<1> QED
  BY <1>1, <1>2, <1>3

\* What may follow: a byte of main, the first of a new report, or the next one.
LEMMA AppendUnbroken ==
  ASSUME NEW seq \in Seq(Bytes), NEW b \in Bytes, Unbroken(seq),
         \/ b[1] # "task"
         \/ \A i \in DOMAIN seq : seq[i][1] = "task" => seq[i][2] # b[2]
         \/ EndsWith(seq, <<"task", b[2], b[3] - 1>>)
  PROVE  Unbroken(Append(seq, b))
<1> DEFINE new == Append(seq, b)  n == Len(seq)
<1>1. /\ n \in Nat /\ DOMAIN seq = 1 .. n /\ DOMAIN new = 1 .. n + 1
      /\ \A i \in 1 .. n : new[i] = seq[i] /\ seq[i] \in Bytes
      /\ new[n + 1] = b
  BY AppendElements
<1>2. b[2] \in Nat /\ b[3] \in Nat
  BY ByteType
<1>3. ASSUME NEW i \in 1 .. n, seq[i][1] = "task", b[1] = "task", seq[i][2] = b[2]
      PROVE  b[3] - seq[i][3] = (n + 1) - i
  <2>1. EndsWith(seq, <<"task", b[2], b[3] - 1>>)
    BY <1>1, <1>3
  <2>2. n \in 1 .. n /\ seq[n] = <<"task", b[2], b[3] - 1>>
    BY <1>1, <2>1 DEF EndsWith
  <2>3. seq[n][1] = "task" /\ seq[n][2] = b[2] /\ seq[n][3] = b[3] - 1
    BY <2>2
  <2>4. seq[n][3] - seq[i][3] = n - i
    BY <1>1, <1>3, <2>2, <2>3 DEF Unbroken
  <2>5. seq[i][3] \in Nat /\ n \in Nat /\ i \in Nat
    BY <1>1, ByteType
  <2> DEFINE x == seq[n][3]  y == seq[i][3]  z == b[3]  k == n
  <2>6. x = z - 1 /\ x - y = k - i /\ y \in Nat /\ z \in Nat /\ k \in Nat /\ i \in Nat
    BY <1>2, <2>3, <2>4, <2>5
  <2> HIDE DEF x, y, z, k
  <2>7. z - y = (k + 1) - i
    BY ONLY <2>6
  <2> QED
    BY <2>7 DEF y, z, k
<1> HIDE DEF new, n
<1>4. ASSUME NEW i \in DOMAIN new, NEW j \in DOMAIN new,
             new[i][1] = "task", new[j][1] = "task", new[i][2] = new[j][2]
      PROVE  new[j][3] - new[i][3] = j - i
  <2>1. CASE i \in 1 .. n /\ j \in 1 .. n
    BY <1>1, <1>4, <2>1 DEF Unbroken
  <2>2. CASE i \in 1 .. n /\ j = n + 1
    BY <1>1, <1>3, <1>4, <2>2
  <2>3. CASE i = n + 1 /\ j \in 1 .. n
    <3>0. new[j] = seq[j] /\ new[i] = b
      BY <1>1, <2>3
    <3>1. b[3] - seq[j][3] = (n + 1) - j
      BY ONLY <1>3, <1>4, <2>3, <3>0
    <3>2. seq[j][3] \in Nat
      BY <1>1, <2>3, ByteType
    <3>3. n \in Nat /\ j \in Nat /\ i = n + 1
      BY <1>1, <2>3
    <3> DEFINE x == seq[j][3]  y == b[3]
    <3>4. y - x = (n + 1) - j /\ y \in Nat /\ x \in Nat /\ new[j][3] = x /\ new[i][3] = y
      BY <1>2, <3>0, <3>1, <3>2
    <3> HIDE DEF x, y
    <3>5. x - y = j - i
      BY ONLY <3>3, <3>4
    <3> QED
      BY ONLY <3>4, <3>5
  <2>4. CASE i = n + 1 /\ j = n + 1
    BY <1>1, <1>2, <2>4
  <2> QED
    BY <1>1, <2>1, <2>2, <2>3, <2>4
<1>5. Unbroken(new)
  BY <1>4 DEF Unbroken
<1> QED
  BY <1>5 DEF new

\* A byte lost from the end breaks nothing.
LEMMA FrontUnbroken ==
  ASSUME NEW seq \in Seq(Bytes), NEW b \in Bytes, Unbroken(Append(seq, b))
  PROVE  Unbroken(seq)
<1> DEFINE new == Append(seq, b)  n == Len(seq)
<1>1. /\ n \in Nat /\ DOMAIN seq = 1 .. n /\ DOMAIN new = 1 .. n + 1
      /\ \A i \in 1 .. n : new[i] = seq[i]
  BY AppendElements
<1> HIDE DEF n
<1> QED
  BY <1>1 DEF Unbroken

LEMMA NumbersAppend ==
  ASSUME NEW seq \in Seq(Bytes), NEW b \in Bytes, NEW n \in Nat
  PROVE  /\ NumbersTo(Append(seq, b), n) => NumbersTo(seq, n)
         /\ NumbersTo(seq, n) /\ (b[1] = "task" => b[2] <= n) => NumbersTo(Append(seq, b), n)
<1>1. /\ Len(seq) \in Nat /\ DOMAIN seq = 1 .. Len(seq)
      /\ DOMAIN Append(seq, b) = 1 .. Len(seq) + 1
      /\ \A i \in 1 .. Len(seq) : Append(seq, b)[i] = seq[i]
      /\ Append(seq, b)[Len(seq) + 1] = b
  BY AppendElements
<1> QED
  BY <1>1 DEF NumbersTo


LEMMA WholeInit == Init => WholeInv
<1> SUFFICES ASSUME Init PROVE WholeInv
  OBVIOUS
<1>1. Sent = << >> /\ ~InFrame
  BY DEF Init, Sent, InFrame, Sender
<1>2. WholeType
  BY EmptySeq DEF Init, WholeType, Place
<1> QED
  BY <1>1, <1>2 DEF WholeInv, Unbroken, Progress, NumbersTo

\* Steps that put nothing on the wire and take the task to no frame.
LEMMA WholeSame ==
  ASSUME WholeInv, UNCHANGED <<wire, txd, count, stored>>, pc' \in [Sender -> Place],
         InFrame' => InFrame
  PROVE  WholeInv'
<1>1. Sent' = Sent
  BY DEF Sent
<1> QED
  BY <1>1 DEF WholeInv, WholeType, Unbroken, Progress, NumbersTo, EndsWith

LEMMA WholeElsewhere ==
  ASSUME WholeInv,
         \/ Flip \/ Cts \/ TaskTest \/ TaskLed \/ TaskValue
         \/ MainSend \/ WpanInit \/ MainReadSensor \/ MainSetLed
         \/ \E s \in Sender : IdLoad(s) \/ IdStore(s) \/ IdWrap(s) \/ PortReady(s)
  PROVE  WholeInv'
<1> USE DEF WholeInv, WholeType
<1>1. CASE Flip \/ Cts \/ WpanInit \/ MainReadSensor \/ MainSetLed
  <2>1. UNCHANGED <<wire, txd, count, stored, pc>>
    BY <1>1 DEF Flip, Cts, WpanInit, MainReadSensor, MainSetLed, local, uart
  <2> QED
    BY <2>1, WholeSame DEF InFrame
<1>2. CASE \/ TaskTest \/ TaskLed \/ TaskValue \/ MainSend
           \/ \E s \in Sender : IdLoad(s) \/ IdStore(s) \/ IdWrap(s) \/ PortReady(s)
  <2>1. UNCHANGED <<wire, txd, count, stored>>
    BY <1>2 DEF TaskTest, TaskLed, TaskValue, MainSend, IdLoad, IdStore, IdWrap, PortReady, uart
  <2>2. PICK s \in Sender, l \in Place :
          (l \in {"wait", "store"} => pc[s] = "wait") /\ pc' = [pc EXCEPT ![s] = l]
    <3>1. CASE TaskTest \/ TaskLed \/ TaskValue \/ MainSend
      BY <3>1 DEF TaskTest, TaskLed, TaskValue, MainSend, At, Goto, Sender, Place
    <3>2. CASE \E s \in Sender : IdLoad(s) \/ IdStore(s) \/ IdWrap(s) \/ PortReady(s)
      BY <3>2 DEF IdLoad, IdStore, IdWrap, PortReady, At, Goto, Place
    <3> QED
      BY <1>2, <3>1, <3>2
  <2>3. pc' \in [Sender -> Place]
    BY <2>2
  <2>4. InFrame' => InFrame
    BY <2>2 DEF InFrame, Sender
  <2> QED
    BY <2>1, <2>3, <2>4, WholeSame
<1> QED
  BY <1>1, <1>2

LEMMA WholeShift == WholeInv /\ Shift => WholeInv'
<1> SUFFICES ASSUME WholeInv, Shift PROVE WholeInv'
  OBVIOUS
<1>1. txd # None /\ wire' = Append(wire, txd) /\ txd' = None /\ UNCHANGED <<count, stored, pc>>
  BY DEF Shift, local
<1>2. Sent' = Sent
  BY <1>1 DEF Sent
<1>3. WholeType'
  <2>1. txd \in Bytes /\ wire \in Seq(Bytes)
    BY <1>1 DEF WholeInv, WholeType
  <2> QED
    BY <1>1, <2>1, AppendProperties DEF WholeInv, WholeType
<1> QED
  BY <1>1, <1>2, <1>3 DEF WholeInv, Unbroken, Progress, NumbersTo, EndsWith, InFrame

LEMMA WholeReturn ==
  ASSUME NEW s \in Sender, WholeInv, IdReturn(s)
  PROVE  WholeInv'
<1> USE DEF WholeInv, WholeType
<1>1. /\ UNCHANGED <<wire, txd>> /\ pc' = [pc EXCEPT ![s] = "wait"]
      /\ count' = [count EXCEPT ![s] = @ + 1] /\ stored' = [stored EXCEPT ![s] = 0]
      /\ (s = "main" => pc["task"] = "free")
  BY DEF IdReturn, At, Goto, uart
<1>2. Sent' = Sent
  BY <1>1 DEF Sent
<1>3. WholeType'
  BY <1>1 DEF Place
<1>4. CASE s = "main"
  <2>1. count'["task"] = count["task"] /\ ~InFrame'
    BY <1>1, <1>4 DEF InFrame, Sender
  <2> QED
    BY <1>2, <1>3, <2>1 DEF Unbroken, Progress, NumbersTo
<1>5. CASE s = "task"
  <2>1. /\ count'["task"] = count["task"] + 1 /\ stored'["task"] = 0
        /\ count["task"] \in Nat
    BY <1>1, <1>5 DEF Sender
  <2>2. ASSUME NEW i \in DOMAIN Sent, Sent[i][1] = "task"
        PROVE  Sent[i][2] <= count["task"] + 1 /\ Sent[i][2] <= (count["task"] + 1) - 1
    <3>1. Sent[i] \in Bytes
      BY SentType, ElementOfSeq
    <3>2. Sent[i][2] \in Nat
      BY <3>1, ByteType
    <3>3. Sent[i][2] <= count["task"]
      BY <2>2 DEF Progress, NumbersTo
    <3> QED
      BY ONLY <2>1, <3>2, <3>3
  <2>3. NumbersTo(Sent, count["task"] + 1) /\ NumbersTo(Sent, (count["task"] + 1) - 1)
    BY <2>2 DEF NumbersTo
  <2> QED
    BY ONLY <1>2, <1>3, <2>1, <2>3, WholeInv DEF WholeInv, Unbroken, Progress
<1> QED
  BY <1>4, <1>5 DEF Sender

(***************************************************************************)
(* The task stores behind all that is on the wire; main stores behind it   *)
(* too, or in the place of the last byte.                                  *)
(***************************************************************************)
LEMMA WholeStored ==
  ASSUME NEW s \in Sender, PortInv, WholeInv, PortStore(s)
  PROVE  WholeInv'
<1> USE DEF WholeInv, WholeType
<1> DEFINE b == <<s, count[s], stored[s] + 1>>
           l == IF stored[s] + 1 < FrameBytes THEN "wait" ELSE "free"
<1>1. /\ txd' = b /\ wire' = wire /\ count' = count
      /\ stored' = [stored EXCEPT ![s] = @ + 1] /\ pc[s] = "store"
      /\ (s = "main" => pc["task"] = "free")
  BY DEF PortStore, At
<1>2. pc' = [pc EXCEPT ![s] = l]
  BY <1>1 DEF PortStore, Goto
<1>3. b \in Bytes /\ b # None /\ b[1] = s /\ b[2] = count[s] /\ b[3] = stored[s] + 1
  BY DEF Bytes, None, Sender
<1>4. WholeType'
  BY <1>1, <1>2, <1>3 DEF Place
<1>5. Sent' = Append(wire, b) /\ wire \in Seq(Bytes)
  BY <1>1, <1>3 DEF Sent
<1>6. count["task"] \in Nat /\ stored["task"] \in Nat
  BY DEF Sender
<1>7. Unbroken(wire) /\ NumbersTo(wire, count["task"])
  <2>1. CASE txd = None
    BY <2>1 DEF Sent, Progress
  <2>2. CASE txd # None
    <3>1. txd \in Bytes /\ Sent = Append(wire, txd)
      BY <2>2 DEF Sent
    <3> QED
      BY <1>6, <3>1, FrontUnbroken, NumbersAppend DEF Progress
  <2> QED
    BY <2>1, <2>2
<1>8. CASE s = "main"
  <2>1. b[1] # "task" /\ ~InFrame' /\ count'["task"] = count["task"]
    BY <1>1, <1>2, <1>3, <1>8 DEF InFrame, Sender
  <2>2. Unbroken(Append(wire, b)) /\ NumbersTo(Append(wire, b), count["task"])
    BY <1>3, <1>5, <1>6, <1>7, <2>1, AppendUnbroken, NumbersAppend
  <2> QED
    BY <1>4, <1>5, <2>1, <2>2 DEF Progress
<1>9. CASE s = "task"
  <2>1. txd = None /\ Sent = wire /\ InFrame
    BY <1>1, <1>9 DEF PortInv, Register, Sent, InFrame
  <2>2. \/ \A i \in DOMAIN wire : wire[i][1] = "task" => wire[i][2] # b[2]
        \/ EndsWith(wire, <<"task", b[2], b[3] - 1>>)
    <3>1. CASE stored["task"] = 0
      <4>1. NumbersTo(wire, count["task"] - 1)
        BY <2>1, <3>1 DEF Progress
      <4> QED
        BY <1>3, <1>6, <1>9, <4>1 DEF NumbersTo
    <3>2. CASE stored["task"] > 0
      <4>1. EndsWith(wire, <<"task", count["task"], stored["task"]>>)
        BY <2>1, <3>2 DEF Progress
      <4>2. b[2] = count["task"] /\ b[3] - 1 = stored["task"]
        BY <1>3, <1>6, <1>9
      <4> QED
        BY <4>1, <4>2
    <3> QED
      BY <1>6, <3>1, <3>2
  <2>3. Unbroken(Append(wire, b))
    BY <1>3, <1>5, <1>7, <2>2, AppendUnbroken
  <2>4. NumbersTo(Append(wire, b), count["task"])
    BY <1>3, <1>5, <1>6, <1>7, <1>9, NumbersAppend
  <2>5. count'["task"] = count["task"] /\ stored'["task"] = stored["task"] + 1
    BY <1>1, <1>9
  <2>6. EndsWith(Append(wire, b), <<"task", count["task"], stored["task"] + 1>>)
    BY <1>3, <1>5, <1>9, AppendProperties DEF EndsWith
  <2>7. stored'["task"] # 0
    BY <1>6, <2>5
  <2> QED
    BY <1>4, <1>5, <2>3, <2>4, <2>5, <2>6, <2>7 DEF Progress
<1> QED
  BY <1>8, <1>9 DEF Sender

(***************************************************************************)
(* main's bytes never end up inside a report, for every frame length and   *)
(* number of frames, although main may overwrite a report's last byte.     *)
(***************************************************************************)
THEOREM ReportsUnbroken == Spec => []ReportUnbroken
<1>1. PortInv /\ WholeInv /\ [Next]_vars => WholeInv'
  <2>1. ASSUME PortInv, WholeInv, Next PROVE WholeInv'
    BY <2>1, WholeElsewhere, WholeShift, WholeReturn, WholeStored
    DEF Next, Task, Main, Send, Sender
  <2>2. ASSUME WholeInv, UNCHANGED vars PROVE WholeInv'
    <3>1. UNCHANGED <<wire, txd, count, stored, pc>>
      BY <2>2 DEF vars, uart, local
    <3> QED
      BY <2>2, <3>1, WholeSame DEF WholeInv, WholeType, InFrame
  <2> QED
    BY <2>1, <2>2
<1>2. WholeInv => ReportUnbroken
  BY DEF WholeInv, Unbroken, ReportUnbroken
<1> QED
  BY WholeInit, PortAlways, <1>1, <1>2, PTL DEF Spec
-----------------------------------------------------------------------------
(* The report and the LED *)

(***************************************************************************)
(* A run of the task that saw a still sensor has set the LED, and then the *)
(* value it sends, by one and the same reading.  main sets the LED only    *)
(* before there is a report in its loop.                                   *)
(***************************************************************************)
MatchType ==
  /\ pc \in [Sender -> Place] /\ report \in Seq(BOOLEAN)
  /\ sensor \in BOOLEAN /\ led \in BOOLEAN /\ value \in BOOLEAN /\ bound \in BOOLEAN
  /\ glitch \in BOOLEAN

Loops ==
  /\ phase # "loop" => report = << >>
  /\ phase # "boot" => bound

Readings ==
  /\ ~glitch /\ pc["task"] \notin {"free", "led"} => led = ~sensor
  /\ ~glitch /\ pc["task"] \notin {"free", "led", "value"} => value = sensor

MatchInv == MatchType /\ Loops /\ Readings /\ ReportMatchesLed


LEMMA MatchInit == Init => MatchInv
<1> SUFFICES ASSUME Init PROVE MatchInv
  OBVIOUS
<1>1. MatchType
  BY EmptySeq DEF Init, MatchType, Place
<1> QED
  BY <1>1 DEF Init, MatchInv, Loops, Readings, ReportMatchesLed, Sender

\* Steps that leave what the task read and reported as it is.
LEMMA MatchSame ==
  ASSUME MatchInv, UNCHANGED <<sensor, led, value, report, glitch, phase>>,
         bound' \in BOOLEAN, bound => bound', pc' \in [Sender -> Place],
         \A l \in {"free", "led", "value"} : pc'["task"] = l <=> pc["task"] = l
  PROVE  MatchInv'
<1>1. MatchType'
  BY DEF MatchInv, MatchType
<1>2. Loops'
  BY DEF MatchInv, Loops
<1>3. Readings'
  BY DEF MatchInv, Readings
<1>4. ReportMatchesLed'
  BY DEF MatchInv, ReportMatchesLed
<1> QED
  BY <1>1, <1>2, <1>3, <1>4 DEF MatchInv

LEMMA MatchElsewhere ==
  ASSUME MatchInv,
         \/ Cts \/ Shift \/ MainSend \/ WpanInit
         \/ \E s \in Sender : IdLoad(s) \/ IdStore(s) \/ IdWrap(s) \/ IdReturn(s) \/ PortReady(s)
  PROVE  MatchInv'
<1> USE DEF MatchInv, MatchType
<1>1. CASE Cts \/ Shift \/ WpanInit
  <2>1. /\ UNCHANGED <<sensor, led, value, report, glitch, phase, pc>>
        /\ bound' \in BOOLEAN /\ (bound => bound')
    BY <1>1 DEF Cts, Shift, WpanInit, pins, hist, local
  <2> QED
    BY <2>1, MatchSame
<1>2. CASE \/ MainSend
           \/ \E s \in Sender : IdLoad(s) \/ IdStore(s) \/ IdWrap(s) \/ IdReturn(s) \/ PortReady(s)
  <2>1. UNCHANGED <<sensor, led, value, report, glitch, phase, bound>>
    BY <1>2 DEF MainSend, IdLoad, IdStore, IdWrap, IdReturn, PortReady, pins, hist
  <2>2. PICK s \in Sender, l \in Place :
          /\ pc' = [pc EXCEPT ![s] = l]
          /\ s = "task" => pc[s] \notin {"free", "led", "value"} /\ l \notin {"free", "led", "value"}
    <3>1. CASE MainSend
      BY <3>1 DEF MainSend, Goto, Sender, Place
    <3>2. CASE \E s \in Sender : IdLoad(s) \/ IdStore(s) \/ IdWrap(s) \/ IdReturn(s) \/ PortReady(s)
      BY <3>2 DEF IdLoad, IdStore, IdWrap, IdReturn, PortReady, At, Goto, Place
    <3> QED
      BY <1>2, <3>1, <3>2
  <2>3. pc' \in [Sender -> Place]
    BY <2>2
  <2>4. \A k \in {"free", "led", "value"} : pc'["task"] = k <=> pc["task"] = k
    BY <2>2 DEF Sender
  <2> QED
    BY <2>1, <2>3, <2>4, MatchSame
<1> QED
  BY <1>1, <1>2

LEMMA MatchFlip == MatchInv /\ Flip => MatchInv'
<1> SUFFICES ASSUME MatchInv, Flip PROVE MatchInv'
  OBVIOUS
<1>1. /\ sensor' \in BOOLEAN /\ glitch' \in BOOLEAN
      /\ glitch' <=> (glitch \/ pc["task"] # "free")
      /\ UNCHANGED <<led, bound, phase, pc, value, report>>
  BY DEF Flip, local, MatchInv, MatchType
<1>2. MatchType' /\ Loops'
  BY <1>1 DEF MatchInv, MatchType, Loops
<1>3. Readings'
  BY <1>1 DEF Readings
<1>4. ReportMatchesLed'
  BY <1>1 DEF MatchInv, ReportMatchesLed
<1> QED
  BY <1>2, <1>3, <1>4 DEF MatchInv

LEMMA MatchTask == MatchInv /\ (TaskTest \/ TaskLed \/ TaskValue) => MatchInv'
<1> SUFFICES ASSUME MatchInv, TaskTest \/ TaskLed \/ TaskValue PROVE MatchInv'
  OBVIOUS
<1> USE DEF MatchInv, MatchType, Goto, At
<1>1. CASE TaskTest
  <2>1. /\ pc' = [pc EXCEPT !["task"] = "led"] /\ glitch' = FALSE
        /\ UNCHANGED <<sensor, led, bound, phase, value, report>>
    BY <1>1 DEF TaskTest, pins
  <2>2. pc' \in [Sender -> Place] /\ pc'["task"] = "led"
    BY <2>1 DEF Place, Sender
  <2> QED
    BY <2>1, <2>2 DEF Loops, Readings, ReportMatchesLed
<1>2. CASE TaskLed
  <2>1. /\ pc' = [pc EXCEPT !["task"] = "value"] /\ led' = ~sensor
        /\ UNCHANGED <<sensor, bound, phase, value, report, glitch>>
    BY <1>2 DEF TaskLed, hist
  <2>2. pc' \in [Sender -> Place] /\ pc'["task"] = "value" /\ led' \in BOOLEAN
    BY <2>1 DEF Place, Sender
  <2> QED
    BY <2>1, <2>2 DEF Loops, Readings, ReportMatchesLed
<1>3. CASE TaskValue
  <2>1. /\ pc' = [pc EXCEPT !["task"] = IF bound THEN "id" ELSE "free"] /\ value' = sensor
        /\ pc["task"] = "value"
        /\ UNCHANGED <<sensor, led, bound, phase, report, glitch>>
    BY <1>3 DEF TaskValue, hist, pins
  <2>2. pc' \in [Sender -> Place] /\ pc'["task"] = IF bound THEN "id" ELSE "free"
    BY <2>1 DEF Place, Sender
  <2>3. ~bound => report = << >>
    BY DEF Loops
  <2>4. MatchType' /\ Loops'
    BY <2>1, <2>2 DEF Loops
  <2>5. Readings'
    BY <2>1, <2>2 DEF Readings
  <2>6. ReportMatchesLed'
    BY <2>1, <2>2, <2>3 DEF ReportMatchesLed
  <2> QED
    BY <2>4, <2>5, <2>6
<1> QED
  BY <1>1, <1>2, <1>3

LEMMA MatchBoot == MatchInv /\ (MainReadSensor \/ MainSetLed) => MatchInv'
<1> SUFFICES ASSUME MatchInv, MainReadSensor \/ MainSetLed PROVE MatchInv'
  OBVIOUS
<1> USE DEF MatchInv, MatchType, At
<1>1. CASE MainReadSensor
  <2>1. phase = "boot" /\ phase' = "set" /\ bound
        /\ UNCHANGED <<sensor, led, bound, pc, value, report, glitch>>
    BY <1>1 DEF MainReadSensor, pins, hist
  <2> QED
    BY <2>1 DEF Loops, Readings, ReportMatchesLed
<1>2. CASE MainSetLed
  <2>1. phase = "set" /\ phase' = "loop" /\ pc["task"] = "free" /\ led' \in BOOLEAN
        /\ UNCHANGED <<sensor, bound, pc, value, report, glitch>>
    BY <1>2 DEF MainSetLed, local, hist
  <2>2. report = << >> /\ bound
    BY <2>1 DEF Loops
  <2> QED
    BY <2>1, <2>2 DEF Loops, Readings, ReportMatchesLed
<1> QED
  BY <1>1, <1>2

\* The last byte of a report ends the task's run.
LEMMA MatchStored ==
  ASSUME NEW s \in Sender, MatchInv, PortStore(s)
  PROVE  MatchInv'
<1> USE DEF MatchInv, MatchType
<1>1. /\ pc[s] = "store" /\ \E l \in {"wait", "free"} : pc' = [pc EXCEPT ![s] = l]
      /\ UNCHANGED <<sensor, led, bound, phase, value, glitch>>
  BY DEF PortStore, At, Goto, pins
<1>2. pc' \in [Sender -> Place]
  BY <1>1 DEF Place
<1>3. CASE report' = report /\ (s = "task" => pc'["task"] = "wait" \/ phase # "loop")
  <2>1. MatchType' /\ Loops'
    BY <1>1, <1>2, <1>3 DEF Loops
  <2>2. Readings'
    BY <1>1, <1>3 DEF Readings, Sender
  <2>3. ReportMatchesLed'
    BY <1>1, <1>3 DEF ReportMatchesLed, Loops, Sender
  <2> QED
    BY <2>1, <2>2, <2>3
<1>4. CASE s = "task" /\ phase = "loop" /\ pc'["task"] = "free" /\ report' = Append(report, value)
  <2>1. MatchType' /\ Loops'
    BY <1>1, <1>2, <1>4, AppendProperties DEF Loops
  <2>2. Readings'
    BY <1>4 DEF Readings
  <2>3. report'[Len(report')] = value
    BY <1>4, AppendProperties
  <2>4. ~glitch => led = ~sensor /\ value = sensor
    BY <1>1, <1>4 DEF Readings
  <2>5. ~glitch => value = ~led
    BY <2>4, Zenon
  <2>6. ReportMatchesLed'
    BY <1>1, <2>3, <2>5 DEF ReportMatchesLed
  <2> QED
    BY <2>1, <2>2, <2>6
<1>5. \/ report' = report /\ (s = "task" => pc'["task"] = "wait" \/ phase # "loop")
      \/ s = "task" /\ phase = "loop" /\ pc'["task"] = "free" /\ report' = Append(report, value)
  BY <1>1 DEF PortStore, Goto
<1> QED
  BY <1>3, <1>4, <1>5

LEMMA MatchAlways == Spec => []MatchInv
<1>1. MatchInv /\ [Next]_vars => MatchInv'
  <2>1. ASSUME MatchInv, Next PROVE MatchInv'
    BY <2>1, MatchElsewhere, MatchFlip, MatchTask, MatchBoot, MatchStored
    DEF Next, Task, Main, Send, Sender
  <2>2. ASSUME MatchInv, UNCHANGED vars PROVE MatchInv'
    <3>1. UNCHANGED <<sensor, led, value, report, glitch, phase, bound, pc>>
      BY <2>2 DEF vars, pins, local, hist
    <3> QED
      BY <2>2, <3>1, MatchSame DEF MatchInv, MatchType
  <2> QED
    BY <2>1, <2>2
<1> QED
  BY MatchInit, <1>1, PTL DEF Spec

(***************************************************************************)
(* In main's loop the last report and the LED show the same thing, if the  *)
(* sensor was still while the task ran: for every number of changes, also  *)
(* those between runs, and of frames.                                      *)
(***************************************************************************)
THEOREM ReportsMatchLed == Spec => []ReportMatchesLed
<1>1. MatchInv => ReportMatchesLed
  BY DEF MatchInv
<1> QED
  BY MatchAlways, <1>1, PTL
-----------------------------------------------------------------------------
(* Types *)

FramePlace == {"id", "id_store", "id_wrap", "id_return"}

One(p) == IF p THEN 1 ELSE 0

\* Reports made or certain, and whether the task's next run will make one.
Begun == count["task"] + One(pc["task"] \in FramePlace \cup {"led", "value"})
Due   == One(led = sensor /\ pc["task"] # "led")
ByMain == One(phase = "loop")

(***************************************************************************)
(* The task has a run to make in the beginning, after a change of the      *)
(* sensor, and after main has set the LED by a reading from before one:    *)
(* no run of it makes another one due.                                     *)
(***************************************************************************)
ReportsCounted == Begun + Due <= flips + 1 + ByMain
FramesCounted  == count["main"] + One(pc["main"] \in FramePlace) <= MaxFrames

CountType ==
  /\ flips \in 0 .. MaxFlips /\ sensor \in BOOLEAN /\ led \in BOOLEAN
  /\ count \in [Sender -> Nat] /\ pc \in [Sender -> Place]

CountInv ==
  /\ CountType /\ ReportsCounted /\ FramesCounted
  /\ \A s \in Sender : pc[s] \in {"wait", "store"} => count[s] > 0

LEMMA CountBound == ASSUME CountInv PROVE count \in [Sender -> FrameNumber \cup {0}]
<1>1. /\ count["task"] \in Nat /\ count["main"] \in Nat
      /\ count["task"] <= MaxFlips + 2 /\ count["main"] <= MaxFrames
  BY ReporterAssumption
  DEF CountInv, CountType, ReportsCounted, FramesCounted, Begun, Due, ByMain, One, Sender
<1>2. \A s \in Sender : count[s] \in FrameNumber \cup {0}
  BY <1>1, ReporterAssumption DEF FrameNumber, Sender
<1> QED
  BY <1>2 DEF CountInv, CountType

LEMMA FlipsType == CountInv => flips \in Nat
BY ReporterAssumption DEF CountInv, CountType

\* What one step may do to the two sides of ReportsCounted.
LEMMA Balance ==
  ASSUME NEW b \in Nat, NEW d \in Nat, NEW f \in Nat, NEW m \in Nat, b + d <= f + 1 + m,
         NEW bb \in Nat, NEW dd \in Nat, NEW ff \in Nat, NEW mm \in Nat,
         \/ bb = b /\ dd = d /\ ff = f /\ mm = m
         \/ bb + dd <= b + d /\ ff = f /\ mm = m
         \/ bb = b /\ dd <= d + 1 /\ ff = f + 1 /\ mm = m
         \/ bb = b /\ dd <= d + 1 /\ ff = f /\ mm = m + 1
         \/ bb = b /\ dd = d /\ ff = f /\ mm >= m
         \/ bb + 1 = b /\ dd = d /\ ff = f /\ mm = m
  PROVE  bb + dd <= ff + 1 + mm
OBVIOUS

LEMMA CountInit == Init => CountInv
<1> SUFFICES ASSUME Init PROVE CountInv
  OBVIOUS
<1>1. CountType
  <2>1. pc = [s \in Sender |-> "free"] /\ count = [s \in Sender |-> 0]
    BY DEF Init
  <2>2. pc \in [Sender -> Place] /\ count \in [Sender -> Nat]
    BY <2>1 DEF Place
  <2>3. flips = 0 /\ sensor \in BOOLEAN /\ led = FALSE
    BY DEF Init
  <2>4. flips \in 0 .. MaxFlips
    BY <2>3, ReporterAssumption
  <2>5. led \in BOOLEAN
    BY <2>3
  <2> QED
    BY <2>2, <2>3, <2>4, <2>5 DEF CountType
<1>2. ReportsCounted /\ FramesCounted
  BY ReporterAssumption
  DEF Init, ReportsCounted, FramesCounted, Begun, Due, ByMain, One, Sender, FramePlace
<1> QED
  BY <1>1, <1>2 DEF Init, CountInv

\* The sensor and main's setting of the LED may make a run due, and are counted.
LEMMA CountPins ==
  ASSUME CountInv, Flip \/ Cts \/ Shift \/ WpanInit \/ MainReadSensor \/ MainSetLed
  PROVE  CountInv'
<1> USE DEF CountInv, CountType
<1>1. UNCHANGED <<count, pc>>
  BY DEF Flip, Cts, Shift, WpanInit, MainReadSensor, MainSetLed, local
<1>2. /\ flips' \in 0 .. MaxFlips /\ sensor' \in BOOLEAN /\ led' \in BOOLEAN
      /\ \/ flips' = flips + 1 /\ phase' = phase
         \/ UNCHANGED <<flips, sensor, led>> /\ phase # "loop"
         \/ UNCHANGED <<flips, sensor, led, phase>>
         \/ flips' = flips /\ phase = "set" /\ phase' = "loop"
  <2>1. CASE Flip
    BY <2>1, ReporterAssumption DEF Flip
  <2>2. CASE Cts \/ Shift \/ WpanInit
    BY <2>2 DEF Cts, Shift, WpanInit, pins
  <2>3. CASE MainReadSensor
    BY <2>3 DEF MainReadSensor, pins
  <2>4. CASE MainSetLed
    BY <2>4 DEF MainSetLed
  <2> QED
    BY <2>1, <2>2, <2>3, <2>4
<1>3. Begun' = Begun /\ Begun \in Nat /\ FramesCounted'
  BY <1>1 DEF Begun, FramesCounted, One, Sender
<1>4. Due' \in {0, 1} /\ (UNCHANGED <<sensor, led>> => Due' = Due)
  BY <1>1 DEF Due, One
<1>5. ReportsCounted'
  <2>1. /\ ByMain \in {0, 1} /\ ByMain' \in {0, 1} /\ Due \in {0, 1}
        /\ phase' = phase => ByMain' = ByMain
        /\ phase # "loop" => ByMain = 0
        /\ phase' = "loop" => ByMain' = 1
    BY DEF ByMain, Due, One
  <2>2. \/ Due' <= Due + 1 /\ flips' = flips + 1 /\ ByMain' = ByMain
        \/ Due' = Due /\ flips' = flips /\ ByMain' >= ByMain
        \/ Due' <= Due + 1 /\ flips' = flips /\ ByMain' = ByMain + 1
    BY <1>2, <1>4, <2>1
  <2>3. Begun' \in Nat /\ Due' \in Nat /\ Due \in Nat /\ ByMain \in Nat /\ ByMain' \in Nat
        /\ flips' \in Nat /\ flips \in Nat
    BY <1>2, <1>3, <1>4, <2>1, FlipsType, ReporterAssumption
  <2> DEFINE b == Begun  bb == Begun'  d == Due  dd == Due'  f == flips  ff == flips'
             m == ByMain  mm == ByMain'
  <2>4. bb + dd <= ff + 1 + mm
    <3>1. b \in Nat /\ d \in Nat /\ f \in Nat /\ m \in Nat /\ b + d <= f + 1 + m
      BY <1>3, <2>3 DEF ReportsCounted
    <3>2. /\ bb \in Nat /\ dd \in Nat /\ ff \in Nat /\ mm \in Nat /\ bb = b
          /\ \/ dd <= d + 1 /\ ff = f + 1 /\ mm = m
             \/ dd = d /\ ff = f /\ mm >= m
             \/ dd <= d + 1 /\ ff = f /\ mm = m + 1
      BY <1>3, <2>2, <2>3
    <3> HIDE DEF b, bb, d, dd, f, ff, m, mm
    <3> QED
      BY ONLY <3>1, <3>2, Balance
  <2> QED
    BY <2>4 DEF ReportsCounted
<1> QED
  BY <1>1, <1>2, <1>3, <1>5

\* The task's own steps: a run that begins was due, and its end leaves none due.
LEMMA CountTask ==
  ASSUME CountInv, TaskTest \/ TaskLed \/ TaskValue
  PROVE  CountInv'
<1> USE DEF CountInv, CountType
<1>1. UNCHANGED <<sensor, flips, count, phase>> /\ led' \in BOOLEAN
  BY DEF TaskTest, TaskLed, TaskValue, pins
<1>2. PICK l \in Place \ {"wait", "store"} : pc' = [pc EXCEPT !["task"] = l]
  BY DEF TaskTest, TaskLed, TaskValue, Goto, Place
<1>3. CountType' /\ (\A s \in Sender : pc'[s] \in {"wait", "store"} => count'[s] > 0)
  BY <1>1, <1>2
<1>4. FramesCounted'
  BY <1>1, <1>2 DEF FramesCounted, Sender
<1>5. Begun' + Due' <= Begun + Due /\ ByMain' = ByMain
  BY <1>1
  DEF ByMain, TaskTest, TaskLed, TaskValue, At, Goto, pins, Begun, Due, One, Sender, FramePlace
<1>6. Begun \in Nat /\ Begun' \in Nat /\ Due \in Nat /\ Due' \in Nat
      /\ ByMain \in Nat
  BY <1>3 DEF ByMain, Begun, Due, One, Sender
<1>7. ReportsCounted'
  <2> DEFINE b == Begun  bb == Begun'  d == Due  dd == Due'  f == flips  ff == flips'
             m == ByMain  mm == ByMain'
  <2>1. bb + dd <= ff + 1 + mm
    <3>1. b \in Nat /\ d \in Nat /\ f \in Nat /\ m \in Nat /\ b + d <= f + 1 + m
      BY <1>6, FlipsType DEF ReportsCounted
    <3>2. /\ bb \in Nat /\ dd \in Nat /\ ff \in Nat /\ mm \in Nat
          /\ bb + dd <= b + d /\ ff = f /\ mm = m
      BY <1>1, <1>5, <1>6, FlipsType
    <3> HIDE DEF b, bb, d, dd, f, ff, m, mm
    <3> QED
      BY ONLY <3>1, <3>2, Balance
  <2> QED
    BY <2>1 DEF ReportsCounted
<1> QED
  BY <1>3, <1>4, <1>7

\* On the way through xbee_next_frame_id and xbee_ser_write a frame is counted once.
LEMMA CountSend ==
  ASSUME CountInv, MainSend \/ \E s \in Sender : Send(s)
  PROVE  CountInv'
<1> USE DEF CountInv, CountType
<1>1. UNCHANGED <<sensor, flips, led, phase>>
  BY DEF MainSend, Send, IdLoad, IdStore, IdWrap, IdReturn, PortReady, PortStore, pins
<1> DEFINE Moves(s, l, n) ==
  /\ pc' = [pc EXCEPT ![s] = l] /\ count' = [count EXCEPT ![s] = @ + n]
  /\ \/ s = "main" /\ n = 0 /\ l = "id" /\ count["main"] < MaxFrames /\ pc[s] = "free"
     \/ n = 0 /\ l \in FramePlace /\ pc[s] \in FramePlace
     \/ n = 1 /\ l = "wait" /\ pc[s] \in FramePlace
     \/ n = 0 /\ l \in {"wait", "store", "free"} /\ pc[s] \in {"wait", "store"}
<1>2. PICK s \in Sender, l \in Place, n \in {0, 1} : Moves(s, l, n)
  <2>1. CASE MainSend
    <3>1. /\ pc' = [pc EXCEPT !["main"] = "id"] /\ count' = [count EXCEPT !["main"] = @ + 0]
          /\ count["main"] < MaxFrames /\ pc["main"] = "free"
      BY <2>1 DEF MainSend, At, Goto, Sender
    <3> QED
      BY <3>1 DEF Place, Sender
  <2>2. ASSUME NEW s \in Sender, IdLoad(s) \/ IdStore(s) \/ IdWrap(s)
        PROVE  \E l \in FramePlace :
                 /\ pc' = [pc EXCEPT ![s] = l] /\ count' = [count EXCEPT ![s] = @ + 0]
                 /\ pc[s] \in FramePlace
    BY <2>2 DEF IdLoad, IdStore, IdWrap, At, Goto, FramePlace
  <2>3. ASSUME NEW s \in Sender, IdReturn(s)
        PROVE  /\ pc' = [pc EXCEPT ![s] = "wait"] /\ count' = [count EXCEPT ![s] = @ + 1]
               /\ pc[s] \in FramePlace
    BY <2>3 DEF IdReturn, At, Goto, FramePlace
  <2>4. ASSUME NEW s \in Sender, PortReady(s) \/ PortStore(s)
        PROVE  \E l \in {"wait", "store", "free"} :
                 /\ pc' = [pc EXCEPT ![s] = l] /\ count' = [count EXCEPT ![s] = @ + 0]
                 /\ pc[s] \in {"wait", "store"}
    BY <2>4 DEF PortReady, PortStore, At, Goto
  <2>5. ASSUME NEW s \in Sender, Send(s)
        PROVE  \E l \in Place, n \in {0, 1} : Moves(s, l, n)
    <3>1. CASE IdLoad(s) \/ IdStore(s) \/ IdWrap(s)
      BY <2>2, <3>1 DEF Place, FramePlace
    <3>2. CASE IdReturn(s)
      BY <2>3, <3>2 DEF Place, FramePlace
    <3>3. CASE PortReady(s) \/ PortStore(s)
      BY <2>4, <3>3 DEF Place, FramePlace
    <3> QED
      BY <2>5, <3>1, <3>2, <3>3 DEF Send
  <2> QED
    BY <2>1, <2>5
<1>3. CountType'
  BY <1>1, <1>2
<1>4. \A r \in Sender : pc'[r] \in {"wait", "store"} => count'[r] > 0
  BY <1>2 DEF FramePlace
<1>5. FramesCounted'
  BY <1>2, ReporterAssumption DEF FramesCounted, One, Sender, FramePlace
<1>6. Begun' = Begun \/ Begun' + 1 = Begun
  BY <1>2 DEF Begun, One, Sender, FramePlace
<1>7. Due' = Due /\ ByMain' = ByMain
  BY <1>1, <1>2 DEF Due, ByMain, One, Sender, FramePlace
<1>9. Begun \in Nat /\ Begun' \in Nat /\ Due \in Nat /\ ByMain \in Nat
  BY <1>3 DEF Begun, Due, ByMain, One, Sender
<1>8. ReportsCounted'
  <2> DEFINE b == Begun  bb == Begun'  d == Due  dd == Due'  f == flips  ff == flips'
             m == ByMain  mm == ByMain'
  <2>1. bb + dd <= ff + 1 + mm
    <3>1. b \in Nat /\ d \in Nat /\ f \in Nat /\ m \in Nat /\ b + d <= f + 1 + m
      BY <1>9, FlipsType DEF ReportsCounted
    <3>2. /\ bb \in Nat /\ dd \in Nat /\ ff \in Nat /\ mm \in Nat
          /\ (bb = b \/ bb + 1 = b) /\ dd = d /\ ff = f /\ mm = m
      BY <1>1, <1>6, <1>7, <1>9, FlipsType
    <3> HIDE DEF b, bb, d, dd, f, ff, m, mm
    <3> QED
      BY ONLY <3>1, <3>2, Balance
  <2> QED
    BY <2>1 DEF ReportsCounted
<1> QED
  BY <1>3, <1>4, <1>5, <1>8

LEMMA CountAlways == Spec => []CountInv
<1>1. CountInv /\ [Next]_vars => CountInv'
  <2>1. ASSUME CountInv, Next PROVE CountInv'
    BY <2>1, CountPins, CountTask, CountSend DEF Next, Task, Main, Send, Sender
  <2>2. ASSUME CountInv, UNCHANGED vars PROVE CountInv'
    <3>1. UNCHANGED <<sensor, led, flips, phase, count, pc>>
      BY <2>2 DEF vars, pins, local
    <3> QED
      BY <2>2, <3>1
      DEF CountInv, CountType, ReportsCounted, FramesCounted, Begun, Due, ByMain, One
  <2> QED
    BY <2>1, <2>2
<1> QED
  BY CountInit, <1>1, PTL DEF Spec

\* What the other invariants do not type.
OtherType ==
  /\ cts \in BOOLEAN /\ txd \in Byte \cup {None} /\ wire \in Seq(Byte) /\ lost \subseteq Byte
  /\ stored \in [Sender -> 0 .. FrameBytes]
  /\ phase \in {"boot", "set", "loop"} /\ accepted \subseteq Sender \X FrameNumber

LEMMA OtherStored ==
  ASSUME NEW s \in Sender, PortInv, CountInv, OtherType, PortStore(s)
  PROVE  OtherType'
<1> USE DEF OtherType
<1>1. /\ pc[s] = "store" /\ txd' = <<s, count[s], stored[s] + 1>>
      /\ stored' = [stored EXCEPT ![s] = @ + 1] /\ lost' = lost \cup ({txd} \ {None})
      /\ accepted' \in {accepted, accepted \cup {<<s, count[s]>>}}
      /\ UNCHANGED <<cts, wire, phase>>
  BY DEF PortStore, At
<1>2. count[s] \in FrameNumber
  BY <1>1, CountBound DEF CountInv, CountType
<1>3. stored[s] \in 0 .. FrameBytes - 1
  BY <1>1 DEF PortInv, Unfinished
<1>4. stored[s] + 1 \in 1 .. FrameBytes
  BY <1>3, ReporterAssumption
<1>5. txd' \in Byte
  BY <1>1, <1>2, <1>4 DEF Byte
<1>6. accepted' \subseteq Sender \X FrameNumber
  BY <1>1, <1>2
<1>7. lost' \subseteq Byte
  BY <1>1
<1>8. stored' \in [Sender -> 0 .. FrameBytes]
  BY <1>1, <1>4
<1> QED
  BY <1>1, <1>5, <1>6, <1>7, <1>8

LEMMA OtherStep ==
  ASSUME PortInv, CountInv, OtherType, Next
  PROVE  OtherType'
<1> USE DEF OtherType
<1>1. CASE Shift
  <2>1. txd \in Byte /\ wire' = Append(wire, txd) /\ txd' = None
        /\ UNCHANGED <<cts, lost, stored, phase, accepted>>
    BY <1>1 DEF Shift, local, hist
  <2> QED
    BY <2>1, AppendProperties
<1>2. ASSUME NEW s \in Sender, PortStore(s) PROVE OtherType'
  BY <1>2, OtherStored
<1>3. ASSUME NEW s \in Sender, IdReturn(s) PROVE OtherType'
  <2>1. stored' = [stored EXCEPT ![s] = 0]
        /\ UNCHANGED <<cts, txd, wire, lost, phase, accepted>>
    BY <1>3 DEF IdReturn, uart
  <2>2. 0 \in 0 .. FrameBytes
    BY ReporterAssumption
  <2> QED
    BY <2>1, <2>2
<1>4. CASE \/ Flip \/ Cts \/ TaskTest \/ TaskLed \/ TaskValue
           \/ MainSend \/ WpanInit \/ MainReadSensor \/ MainSetLed
           \/ \E s \in Sender : IdLoad(s) \/ IdStore(s) \/ IdWrap(s) \/ PortReady(s)
  <2>1. /\ UNCHANGED <<txd, wire, lost, stored, accepted>>
        /\ cts' \in BOOLEAN /\ phase' \in {"boot", "set", "loop"}
    BY <1>4 DEF Flip, Cts, TaskTest, TaskLed, TaskValue, MainSend, WpanInit,
      MainReadSensor, MainSetLed, IdLoad, IdStore, IdWrap, PortReady, uart, local, hist
  <2> QED
    BY <2>1
<1> QED
  BY <1>1, <1>2, <1>3, <1>4 DEF Next, Task, Main, Send, Sender

LEMMA SeqMember == ASSUME NEW S, NEW T, S \subseteq T PROVE Seq(S) \subseteq Seq(T)
OBVIOUS

(***************************************************************************)
(* Pins, register, counters and frames keep their ranges; above all, the   *)
(* task sends at most one report more than the changes of the sensor and   *)
(* the two settings of the LED that are not its own.                       *)
(***************************************************************************)
THEOREM TypeCorrect == Spec => []TypeOK
<1>1. Init => OtherType
  BY ReporterAssumption, EmptySeq DEF Init, OtherType
<1>2. PortInv /\ CountInv /\ OtherType /\ [Next]_vars => OtherType'
  <2>1. ASSUME OtherType, UNCHANGED vars PROVE OtherType'
    BY <2>1 DEF OtherType, vars, uart, local, hist
  <2> QED
    BY <2>1, OtherStep
<1>3. IdInv /\ MatchInv /\ CountInv /\ OtherType => TypeOK
  <2> SUFFICES ASSUME IdInv, MatchInv, CountInv, OtherType PROVE TypeOK
    OBVIOUS
  <2>1. ids \in Seq(0 .. MaxId)
    BY ReporterAssumption, SeqMember DEF IdInv
  <2>2. count \in [Sender -> FrameNumber \cup {0}]
    BY CountBound
  <2>3. /\ frameId \in 0 .. MaxId /\ tmp \in [Sender -> 0 .. MaxId] /\ pc \in [Sender -> Place]
        /\ sensor \in BOOLEAN /\ led \in BOOLEAN /\ value \in BOOLEAN /\ bound \in BOOLEAN
        /\ glitch \in BOOLEAN /\ report \in Seq(BOOLEAN) /\ flips \in 0 .. MaxFlips
    BY DEF IdInv, IdType, MatchInv, MatchType, CountInv, CountType
  <2> QED
    BY <2>1, <2>2, <2>3 DEF TypeOK, OtherType, Place
<1> QED
  BY IdAlways, PortAlways, MatchAlways, CountAlways, <1>1, <1>2, <1>3, PTL DEF Spec
=============================================================================
