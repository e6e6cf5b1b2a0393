-------------------------- MODULE FrameLoadProofs --------------------------
(***************************************************************************)
(* What FrameLoad writes into frame_data stays inside it, a handler finds  *)
(* a whole frame there, the handlers hear the frames of the stream, and    *)
(* the parser is back in step after a lost byte, for every range of byte   *)
(* values, maximal length, handler table and set of streams.               *)
(***************************************************************************)
EXTENDS FrameLoad, SequenceTheorems, WellFoundedInduction, TLAPS

(***************************************************************************)
(* The length was checked when its low byte arrived, and nothing changes   *)
(* it or shortens the rest of the frame until the frame is whole.          *)
(***************************************************************************)
Bytes ==
  /\ wire \in Seq(Byte) /\ input \in Seq(Byte) /\ frame \in Seq(Byte)
  /\ inFrame \in Nat

Length ==
  /\ Len(frame) <= MaxFrameLen + 1
  /\ state = "RXFRAME" => ValidLength(inFrame) /\ Len(frame) <= inFrame

FrameInv == Bytes /\ Length
-----------------------------------------------------------------------------
LEMMA ByteIsNat == Byte \subseteq Nat
BY FrameLoadAssumption DEF Byte

LEMMA FrameInit == Init => FrameInv
<1> SUFFICES ASSUME Init PROVE FrameInv
  OBVIOUS
<1>1. stream \in Seq(Byte)
  BY FrameLoadAssumption DEF Init
<1>2. Bytes
  BY <1>1 DEF Init, Bytes
<1>3. Length
  BY FrameLoadAssumption DEF Init, Length
<1> QED
  BY <1>2, <1>3 DEF FrameInv

LEMMA ReadByteType ==
  ASSUME FrameInv, ReadByte
  PROVE  wire' \in Seq(Byte) /\ input' \in Seq(Byte) /\ Head(input) \in Nat
BY ByteIsNat, HeadTailProperties DEF FrameInv, Bytes, ReadByte

\* The three states that read one byte.
LEMMA HeaderInv ==
  ASSUME FrameInv, LoadWaitStart \/ LoadLengthMsb \/ LoadLengthLsb
  PROVE  FrameInv'
<1>1. wire' \in Seq(Byte) /\ input' \in Seq(Byte) /\ Head(input) \in Nat
  BY ReadByteType DEF LoadWaitStart, LoadLengthMsb, LoadLengthLsb
<1>2. CASE LoadWaitStart
  BY <1>1, <1>2 DEF LoadWaitStart, Loading, FrameInv, Bytes, Length
<1>3. CASE LoadLengthMsb
  <2>1. inFrame' \in Nat /\ frame' = frame /\ state' # "RXFRAME"
    BY <1>1, <1>3, FrameLoadAssumption DEF LoadLengthMsb, Loading, FrameInv, Bytes
  <2> QED
    BY <1>1, <2>1 DEF FrameInv, Bytes, Length
<1>4. CASE LoadLengthLsb
  <2>1. inFrame' \in Nat
    BY <1>1, <1>4 DEF LoadLengthLsb, FrameInv, Bytes
  <2>2. CASE ValidLength(inFrame')
    <3>1. frame' = << >>
      BY <1>4, <2>2 DEF LoadLengthLsb
    <3> QED
      BY <1>1, <2>1, <2>2, <3>1, FrameLoadAssumption DEF FrameInv, Bytes, Length, ValidLength
  <2>3. CASE ~ValidLength(inFrame')
    <3>1. frame' = frame /\ state' # "RXFRAME"
      BY <1>4, <2>3 DEF LoadLengthLsb
    <3> QED
      BY <1>1, <2>1, <3>1 DEF FrameInv, Bytes, Length
  <2> QED
    BY <2>2, <2>3
<1> QED
  BY <1>2, <1>3, <1>4

\* The frame's data and checksum: part of them, or the rest.
LEMMA DataInv ==
  ASSUME FrameInv, LoadPartial \/ ReadFrame
  PROVE  FrameInv'
<1> USE FrameLoadAssumption DEF Loading, BytesLeft, ValidLength
<1>1. /\ frame \in Seq(Byte) /\ input \in Seq(Byte) /\ wire' \in Seq(Byte)
      /\ inFrame' = inFrame /\ inFrame \in 2 .. MaxFrameLen /\ Len(frame) <= inFrame
  BY DEF FrameInv, Bytes, Length, LoadPartial, ReadFrame
<1>2. CASE LoadPartial
  <2>1. frame' = frame \o input /\ Len(input) < inFrame - Len(frame) + 1
    BY <1>2 DEF LoadPartial
  <2>2. Len(frame') = Len(frame) + Len(input) /\ frame' \in Seq(Byte)
    BY <1>1, <2>1
  <2>3. input' \in Seq(Byte) /\ state' = state
    BY <1>2 DEF LoadPartial
  <2> QED
    BY <1>1, <2>1, <2>2, <2>3 DEF FrameInv, Bytes, Length
<1>3. CASE ReadFrame
  <2> DEFINE n == inFrame - Len(frame) + 1
  <2>1. n \in 1 .. Len(input)
    BY <1>1, <1>3 DEF ReadFrame
  <2>2. frame' = frame \o SubSeq(input, 1, n) /\ input' = SubSeq(input, n + 1, Len(input))
    BY <1>3 DEF ReadFrame
  <2>3. SubSeq(input, 1, n) \in Seq(Byte) /\ Len(SubSeq(input, 1, n)) = n
    BY <1>1, <2>1
  <2>4. SubSeq(input, n + 1, Len(input)) \in Seq(Byte)
    BY <1>1, <2>1
  <2>5. frame' \in Seq(Byte) /\ Len(frame') = Len(frame) + n
    <3> HIDE DEF n
    <3> QED BY <1>1, <2>2, <2>3
  <2>6. state' = "WAITSTART"
    BY <1>3 DEF ReadFrame
  <2> QED
    BY <1>1, <2>2, <2>4, <2>5, <2>6 DEF FrameInv, Bytes, Length
<1> QED
  BY <1>2, <1>3

LEMMA FrameStep == FrameInv /\ [Next]_vars => FrameInv'
<1> SUFFICES ASSUME FrameInv, [Next]_vars PROVE FrameInv'
  OBVIOUS
<1>1. CASE Arrive
  BY <1>1, HeadTailProperties DEF Arrive, rx, FrameInv, Bytes, Length
<1>2. CASE DevTick \/ LoadEmpty \/ HandlersDone \/ UNCHANGED vars
  BY <1>2 DEF DevTick, LoadEmpty, HandlersDone, vars, port, rx, FrameInv, Bytes, Length
<1>3. CASE LoadWaitStart \/ LoadLengthMsb \/ LoadLengthLsb
  BY <1>3, HeaderInv
<1>4. CASE LoadPartial
  BY <1>4, DataInv
<1>5. CASE LoadBadChecksum \/ LoadDispatch
  BY <1>5, DataInv DEF LoadBadChecksum, LoadDispatch
<1> QED
  BY <1>1, <1>2, <1>3, <1>4, <1>5 DEF Next, Load

(***************************************************************************)
(* xbee_ser_read is never asked to write behind frame_data, nor for less   *)
(* than one byte, however long ago the length was checked.                 *)
(***************************************************************************)
THEOREM ReadsFit == Spec => []ReadFits
<1>1. FrameInv => ReadFits
  BY FrameLoadAssumption DEF FrameInv, Bytes, Length, ReadFits, BytesLeft, ValidLength
<1> QED
  BY FrameInit, FrameStep, <1>1, PTL DEF Spec

-----------------------------------------------------------------------------
(***************************************************************************)
(* XBEE_DEV_FLAG_IN_TICK keeps xbee_dev_tick from being nested: a handler  *)
(* always runs with the flag set, so its frame is still the one in         *)
(* frame_data when it ends.                                                *)
(***************************************************************************)
Places == {"idle", "load", "handler"}
States == {"WAITSTART", "LENGTH_MSB", "LENGTH_LSB", "RXFRAME"}

Calls ==
  /\ inTick \in BOOLEAN /\ pc \in Places /\ (inTick <=> pc # "idle")
  /\ callers = << >>
  /\ dispatched \in 0 .. MaxDispatch
  /\ pc = "load" => dispatched < MaxDispatch

Header ==
  /\ state \in States
  /\ inFrame \in 0 .. Base * Base - 1
  /\ state = "LENGTH_LSB" => \E b \in Byte : inFrame = b * Base

Held == pc = "handler" => inFrame <= Len(frame)

Heard == [frame : Seq(Byte), by : SUBSET DOMAIN Table]

CallInv == Calls /\ Header /\ Held /\ stream \in Seq(Byte) /\ heard \in Seq(Heard)

\* Two bytes make a number below Base squared.
LEMMA TwoBytes ==
  ASSUME NEW h \in Byte, NEW l \in Byte
  PROVE  h * Base \in 0 .. Base * Base - 1 /\ h * Base + l \in 0 .. Base * Base - 1
<1>1. h \in Nat /\ l \in Nat /\ Base \in Nat /\ h + 1 <= Base /\ l < Base
  BY FrameLoadAssumption DEF Byte
<1>2. (h + 1) * Base <= Base * Base
  BY <1>1
<1>3. (h + 1) * Base = h * Base + Base
  BY <1>1
<1>4. h * Base \in Nat /\ Base * Base \in Nat
  BY <1>1
<1> QED
  BY <1>1, <1>2, <1>3, <1>4

LEMMA LimitType == MaxDispatch \in Nat /\ 0 < MaxDispatch
BY FrameLoadAssumption

LEMMA CallInit == Init => CallInv
<1> SUFFICES ASSUME Init PROVE CallInv
  OBVIOUS
<1>1. Calls /\ Held /\ stream \in Seq(Byte) /\ heard \in Seq(Heard)
  <2>1. inTick = FALSE /\ pc = "idle" /\ callers = << >> /\ dispatched = 0
    BY DEF Init
  <2>2. Calls /\ Held
    <3>1. 0 \in 0 .. MaxDispatch
      BY LimitType
    <3> QED
      BY <2>1, <3>1, Zenon DEF Calls, Held, Places
  <2>3. stream \in Seq(Byte) /\ heard = << >>
    BY FrameLoadAssumption DEF Init
  <2> QED
    BY <2>2, <2>3
<1>2. 0 \in 0 .. Base * Base - 1
  <2>1. 0 \in Byte
    BY FrameLoadAssumption DEF Byte
  <2>2. 0 * Base + 0 \in 0 .. Base * Base - 1
    BY <2>1, TwoBytes
  <2> QED
    BY <2>2, FrameLoadAssumption
<1> QED
  BY <1>1, <1>2 DEF Init, CallInv, Header, States

LEMMA ReturnCalls == Calls /\ pc # "idle" /\ Return => Calls' /\ pc' = "idle"
<1> SUFFICES ASSUME Calls, Return PROVE Calls' /\ pc' = "idle"
  OBVIOUS
<1>1. inTick' = FALSE /\ pc' = "idle" /\ callers' = << >> /\ dispatched' = 0
  BY DEF Calls, Return
<1> QED
  <2>1. 0 \in 0 .. MaxDispatch
    BY LimitType
  <2> QED
    BY <1>1, <2>1, Zenon DEF Calls, Places

LEMMA CallHeader ==
  ASSUME FrameInv, CallInv, LoadWaitStart \/ LoadLengthMsb \/ LoadLengthLsb
  PROVE  CallInv'
<1> DEFINE b == Head(input)
<1>1. b \in Byte /\ UNCHANGED <<call, stream, heard>> /\ pc = "load"
  <2>1. ReadByte /\ UNCHANGED <<call, heard>> /\ pc = "load"
    BY DEF LoadWaitStart, LoadLengthMsb, LoadLengthLsb, Stay, Loading
  <2> QED
    BY <2>1, HeadTailProperties DEF FrameInv, Bytes, ReadByte
<1>2. Calls' /\ Held' /\ stream' \in Seq(Byte) /\ heard' \in Seq(Heard)
  BY <1>1 DEF CallInv, Calls, Held, call
<1>3. Header'
  <2>1. CASE LoadWaitStart
    <3>1. inFrame' = inFrame /\ state' \in {"WAITSTART", "LENGTH_MSB"}
      BY <2>1 DEF LoadWaitStart, Loading
    <3> QED
      BY <3>1 DEF CallInv, Header, States
  <2>2. CASE LoadLengthMsb
    <3>1. \/ inFrame' = inFrame /\ state' = "LENGTH_MSB"
          \/ inFrame' = b * Base /\ state' = "LENGTH_LSB"
      BY <2>2 DEF LoadLengthMsb, Loading
    <3>2. b * Base \in 0 .. Base * Base - 1
      BY <1>1, TwoBytes
    <3> QED
      BY <1>1, <3>1, <3>2 DEF CallInv, Header, States
  <2>3. CASE LoadLengthLsb
    <3>1. inFrame' = inFrame + b /\ state' \in {"RXFRAME", "LENGTH_MSB", "WAITSTART"}
          /\ state = "LENGTH_LSB"
      BY <2>3 DEF LoadLengthLsb, Loading
    <3>2. PICK h \in Byte : inFrame = h * Base
      BY <3>1 DEF CallInv, Header
    <3>3. h * Base + b \in 0 .. Base * Base - 1
      BY <1>1, TwoBytes
    <3>4. inFrame' \in 0 .. Base * Base - 1
      BY <3>1, <3>2, <3>3
    <3> QED
      BY <3>1, <3>4 DEF Header, States
  <2> QED
    BY <2>1, <2>2, <2>3
<1> QED
  BY <1>2, <1>3 DEF CallInv

LEMMA CallFrame ==
  ASSUME FrameInv, CallInv, LoadEmpty \/ LoadPartial \/ LoadBadChecksum \/ LoadDispatch
  PROVE  CallInv'
<1> USE DEF CallInv
<1>1. /\ stream' = stream /\ heard' = heard /\ inFrame' = inFrame /\ pc = "load"
      /\ state' = state \/ state' = "WAITSTART"
  BY DEF LoadEmpty, LoadPartial, LoadBadChecksum, LoadDispatch, ReadFrame, Loading, port, rx
<1>2. Header'
  BY <1>1 DEF Header, States
<1>3. CASE LoadEmpty \/ LoadPartial
  <2>1. Calls' /\ pc' = "idle"
    BY <1>1, <1>3, ReturnCalls DEF LoadEmpty, LoadPartial
  <2> QED
    BY <1>1, <1>2, <2>1 DEF Held
<1>4. CASE LoadBadChecksum
  BY <1>1, <1>2, <1>4 DEF LoadBadChecksum, Stay, call, Calls, Held
<1>5. CASE LoadDispatch
  <2>1. Calls'
    BY <1>1, <1>5, FrameLoadAssumption DEF LoadDispatch, Calls, Places
  <2>2. inFrame <= Len(frame')
    <3> DEFINE n == BytesLeft
    <3>1. frame' = frame \o SubSeq(input, 1, n) /\ state = "RXFRAME" /\ Len(input) >= n
      BY <1>5 DEF LoadDispatch, ReadFrame, Loading
    <3>2. frame \in Seq(Byte) /\ input \in Seq(Byte) /\ inFrame \in Nat /\ Len(frame) <= inFrame
      BY <3>1 DEF FrameInv, Bytes, Length
    <3>3. n \in 1 .. Len(input) /\ Len(frame) + n = inFrame + 1
      BY <3>1, <3>2 DEF BytesLeft
    <3> HIDE DEF n
    <3>4. SubSeq(input, 1, n) \in Seq(Byte) /\ Len(SubSeq(input, 1, n)) = n
      BY <3>2, <3>3
    <3>5. Len(frame') = Len(frame) + n
      BY <3>1, <3>2, <3>4
    <3> QED
      BY <3>2, <3>3, <3>5
  <2> QED
    BY <1>1, <1>2, <2>1, <2>2 DEF Held
<1> QED
  BY <1>3, <1>4, <1>5

LEMMA CallHandler == FrameInv /\ CallInv /\ HandlersDone => CallInv'
<1> SUFFICES ASSUME FrameInv, CallInv, HandlersDone PROVE CallInv'
  OBVIOUS
<1> USE DEF CallInv
<1>1. pc = "handler" /\ UNCHANGED <<stream, state, inFrame, frame>>
  BY DEF HandlersDone, port, rx
<1>2. Calls' /\ pc' # "handler"
  <2>1. CASE dispatched = MaxDispatch
    BY <1>1, <2>1, ReturnCalls DEF HandlersDone
  <2>2. CASE dispatched # MaxDispatch
    BY <1>1, <2>2, FrameLoadAssumption DEF HandlersDone, Calls, Places
  <2> QED
    BY <2>1, <2>2
<1>3. heard' \in Seq(Heard)
  <2>1. frame \in Seq(Byte) /\ inFrame \in Nat /\ inFrame <= Len(frame)
    BY <1>1 DEF FrameInv, Bytes, Held
  <2>2. SubSeq(frame, 1, inFrame) \in Seq(Byte)
    BY <2>1
  <2>3. Handlers(frame) \in SUBSET DOMAIN Table
    BY DEF Handlers
  <2>4. [frame |-> SubSeq(frame, 1, inFrame), by |-> Handlers(frame)] \in Heard
    BY <2>2, <2>3 DEF Heard
  <2> QED
    BY <2>4, AppendProperties DEF HandlersDone
<1> QED
  BY <1>1, <1>2, <1>3 DEF Header, Held

LEMMA CallStep == FrameInv /\ CallInv /\ [Next]_vars => CallInv'
<1> SUFFICES ASSUME FrameInv, CallInv, [Next]_vars PROVE CallInv'
  OBVIOUS
<1>1. CASE Arrive \/ UNCHANGED vars
  BY <1>1 DEF Arrive, vars, port, rx, call, CallInv, Calls, Header, Held
<1>2. CASE DevTick
  <2>1. pc = "idle"
    BY <1>2 DEF DevTick, CallInv, Calls
  <2>2. UNCHANGED <<stream, state, inFrame, frame, heard>> /\ pc' = "load"
    BY <1>2 DEF DevTick, port, rx
  <2>3. Calls'
    BY <1>2, <2>1, FrameLoadAssumption DEF DevTick, CallInv, Calls, Places
  <2> QED
    BY <2>2, <2>3 DEF CallInv, Header, Held
<1> QED
  BY <1>1, <1>2, CallHeader, CallFrame, CallHandler DEF Next, Load

(***************************************************************************)
(* Types: the count of frames dispatched in one call of xbee_dev_tick ends *)
(* at the limit, a length is at most two bytes, and a handler finds a      *)
(* whole frame.                                                            *)
(***************************************************************************)
THEOREM TypeCorrect == Spec => []TypeOK
<1>1. FrameInv /\ CallInv => TypeOK
  BY EmptySeq DEF FrameInv, Bytes, CallInv, Calls, Header, Places, States, Heard, TypeOK
<1> QED
  BY FrameInit, FrameStep, CallInit, CallStep, <1>1, PTL DEF Spec

-----------------------------------------------------------------------------
(* Checksums: the bytes of data and checksum are taken off 0xFF modulo     *)
(* Base one at a time, and nothing is left exactly if they add up to it.   *)

LEMMA UpTo ==
  ASSUME NEW n \in Nat, NEW S, 0 \in S, \A k \in 1 .. n : k - 1 \in S => k \in S
  PROVE  \A k \in 0 .. n : k \in S
<1> DEFINE Less == OpToRel(<, Nat)  T == {k \in 0 .. n : k \notin S}
<1> SUFFICES ASSUME T # {} PROVE FALSE
  OBVIOUS
<1>1. T \subseteq Nat /\ \A k \in T : k \in 1 .. n /\ k - 1 \in 0 .. n
  OBVIOUS
<1>2. IsWellFoundedOn(Less, Nat) /\ Less = {e \in Nat \X Nat : e[1] < e[2]}
  BY NatLessThanWellFounded DEF OpToRel
<1> HIDE DEF Less
<1>3. PICK k \in T : \A j \in T : <<j, k>> \notin Less
  BY <1>1, <1>2, WFMin
<1>4. <<k - 1, k>> \in Less
  <2>1. k - 1 \in Nat /\ k \in Nat /\ k - 1 < k
    BY <1>1
  <2>2. <<k - 1, k>> \in Nat \X Nat /\ <<k - 1, k>>[1] = k - 1 /\ <<k - 1, k>>[2] = k
    BY <2>1
  <2> QED
    BY <1>2, <2>1, <2>2
<1> QED
  BY <1>1, <1>3, <1>4

\* t is a recursive function over the positions of a sequence.
Stepped(t, n, a, step) == \A k \in 0 .. n : t[k] = IF k = 0 THEN a ELSE step[<<k, t[k - 1]>>]

LEMMA StepsExist ==
  ASSUME NEW n \in Nat, NEW D, NEW a \in D, NEW step \in [(1 .. n) \X D -> D]
  PROVE  \E t \in [0 .. n -> D] : Stepped(t, n, a, step)
<1> DEFINE Fits(t, m) == \A k \in 0 .. m : t[k] = IF k = 0 THEN a ELSE step[<<k, t[k - 1]>>]
           S == {m \in 0 .. n : \E t \in [0 .. n -> D] : Fits(t, m)}
<1>1. 0 \in S
  <2> DEFINE t == [k \in 0 .. n |-> a]
  <2>1. t \in [0 .. n -> D] /\ Fits(t, 0) /\ 0 \in 0 .. n
    OBVIOUS
  <2> HIDE DEF t, Fits
  <2> QED
    BY <2>1
<1>2. ASSUME NEW m \in 1 .. n, m - 1 \in S PROVE m \in S
  <2>1. PICK t \in [0 .. n -> D] : Fits(t, m - 1)
    BY <1>2
  <2>2. m - 1 \in 0 .. n /\ <<m, t[m - 1]>> \in (1 .. n) \X D
    OBVIOUS
  <2> DEFINE u == [t EXCEPT ![m] = step[<<m, t[m - 1]>>]]
  <2>3. u \in [0 .. n -> D]
    BY <2>2
  <2>4. ASSUME NEW k \in 0 .. m PROVE u[k] = IF k = 0 THEN a ELSE step[<<k, u[k - 1]>>]
    <3>1. CASE k = m
      <4>1. k # 0 /\ k \in 0 .. n /\ k - 1 \in 0 .. n /\ k - 1 # m
        BY <3>1
      <4>2. u[k] = step[<<k, t[k - 1]>>] /\ u[k - 1] = t[k - 1]
        BY <3>1, <4>1
      <4> QED
        BY <4>1, <4>2
    <3>2. CASE k # m
      <4>1. k \in 0 .. m - 1 /\ k \in 0 .. n
            /\ (k # 0 => k - 1 \in 0 .. n /\ k - 1 # m)
        BY <3>2
      <4>2. t[k] = IF k = 0 THEN a ELSE step[<<k, t[k - 1]>>]
        BY <2>1, <4>1
      <4>3. u[k] = t[k] /\ (k # 0 => u[k - 1] = t[k - 1])
        BY <3>2, <4>1
      <4> QED
        BY <4>2, <4>3
    <3> QED
      BY <3>1, <3>2
  <2> HIDE DEF u
  <2> QED
    BY <2>3, <2>4
<1>3. n \in S
  <2> HIDE DEF S
  <2>1. \A m \in 0 .. n : m \in S
    BY <1>1, <1>2, UpTo
  <2> QED
    BY <2>1
<1> QED
  BY <1>3 DEF Stepped

LEMMA Taken ==
  ASSUME NEW x \in Byte, NEW b \in Byte
  PROVE  /\ (x - b) % Base \in Byte
         /\ \E d \in {0, 1} : (x - b) % Base = x - b + d * Base
<1>1. x \in Int /\ b \in Int /\ 0 <= x /\ x < Base /\ 0 <= b /\ b < Base /\ Base \in Nat \ {0}
  BY FrameLoadAssumption DEF Byte
<1>2. CASE x >= b
  <2>1. (x - b) % Base = x - b
    BY <1>1, <1>2
  <2> QED
    BY <1>1, <1>2, <2>1 DEF Byte
<1>3. CASE x < b
  <2>1. x - b = (-1) * Base + (x - b + Base) /\ x - b + Base \in 0 .. Base - 1
    BY <1>1, <1>3
  <2>2. (x - b) % Base = x - b + Base
    BY <1>1, <2>1
  <2> QED
    BY <1>1, <2>1, <2>2 DEF Byte
<1> QED
  BY <1>1, <1>2, <1>3

LEMMA ChecksumSteps ==
  ASSUME NEW bytes \in Seq(Byte)
  PROVE  \E t \in [0 .. Len(bytes) -> Byte] :
           /\ Checksum(bytes) = t[Len(bytes)] /\ t[0] = Base - 1
           /\ \A k \in 1 .. Len(bytes) : t[k] = (t[k - 1] - bytes[k]) % Base
<1> DEFINE n == Len(bytes)
           step == [e \in (1 .. n) \X Byte |-> (e[2] - bytes[e[1]]) % Base]
           Is(t) == t = [i \in 0 .. n |-> IF i = 0 THEN Base - 1
                                          ELSE (t[i - 1] - bytes[i]) % Base]
           f == CHOOSE t : Is(t)
<1>1. n \in Nat /\ \A k \in 1 .. n : bytes[k] \in Byte
  OBVIOUS
<1>2. step \in [(1 .. n) \X Byte -> Byte]
  BY <1>1, Taken
<1>3. Base - 1 \in Byte
  BY FrameLoadAssumption DEF Byte
<1>4. PICK t \in [0 .. n -> Byte] : Stepped(t, n, Base - 1, step)
  <2> HIDE DEF step, n
  <2> QED
    BY ONLY <1>1, <1>2, <1>3, StepsExist
<1>5. ASSUME NEW k \in 1 .. n PROVE t[k] = (t[k - 1] - bytes[k]) % Base
  <2>1. <<k, t[k - 1]>> \in (1 .. n) \X Byte /\ k \in 0 .. n /\ k # 0
    OBVIOUS
  <2> QED
    BY <1>4, <2>1 DEF Stepped
<1>6. Is(t)
  BY <1>4, <1>5 DEF Stepped
<1>7. Is(f)
  BY <1>6
<1>8. Checksum(bytes) = f[n]
  BY DEF Checksum
<1> HIDE DEF f
<1>9. f[0] = Base - 1 /\ \A k \in 1 .. n : f[k] = (f[k - 1] - bytes[k]) % Base
  BY <1>1, <1>7
<1>10. \A k \in 0 .. n : f[k] \in Byte
  <2> DEFINE S == {k \in 0 .. n : f[k] \in Byte}
  <2>1. 0 \in S
    BY <1>1, <1>3, <1>9
  <2>2. ASSUME NEW k \in 1 .. n, k - 1 \in S PROVE k \in S
    BY <1>1, <1>9, <2>2, Taken
  <2> HIDE DEF S
  <2>3. \A k \in 0 .. n : k \in S
    BY <1>1, <2>1, <2>2, UpTo
  <2> QED
    BY <2>3 DEF S
<1>11. f \in [0 .. n -> Byte]
  BY <1>7, <1>10
<1> QED
  BY <1>8, <1>9, <1>11

LEMMA SumSteps ==
  ASSUME NEW bytes \in Seq(Byte)
  PROVE  \E t \in [0 .. Len(bytes) -> Nat] :
           /\ Sum(bytes) = t[Len(bytes)] /\ t[0] = 0
           /\ \A k \in 1 .. Len(bytes) : t[k] = t[k - 1] + bytes[k]
<1> DEFINE n == Len(bytes)
           step == [e \in (1 .. n) \X Nat |-> e[2] + bytes[e[1]]]
           Is(t) == t = [i \in 0 .. n |-> IF i = 0 THEN 0 ELSE t[i - 1] + bytes[i]]
           f == CHOOSE t : Is(t)
<1>1. n \in Nat /\ \A k \in 1 .. n : bytes[k] \in Nat
  <2>1. ASSUME NEW k \in 1 .. n PROVE bytes[k] \in Nat
    <3>1. bytes[k] \in Byte
      OBVIOUS
    <3> QED
      BY ONLY <3>1, ByteIsNat
  <2> QED
    BY <2>1
<1>2. step \in [(1 .. n) \X Nat -> Nat]
  BY <1>1
<1>3. PICK t \in [0 .. n -> Nat] : Stepped(t, n, 0, step)
  <2> HIDE DEF step, n
  <2> QED
    BY ONLY <1>1, <1>2, StepsExist
<1>4. ASSUME NEW k \in 1 .. n PROVE t[k] = t[k - 1] + bytes[k]
  <2>1. <<k, t[k - 1]>> \in (1 .. n) \X Nat /\ k \in 0 .. n /\ k # 0
    OBVIOUS
  <2> QED
    BY <1>3, <2>1 DEF Stepped
<1>5. Is(t)
  <2>1. t = [i \in 0 .. n |-> t[i]]
    OBVIOUS
  <2>2. ASSUME NEW i \in 0 .. n PROVE t[i] = IF i = 0 THEN 0 ELSE t[i - 1] + bytes[i]
    <3>1. i # 0 => i \in 1 .. n
      OBVIOUS
    <3>2. i = 0 => t[i] = 0
      BY <1>3 DEF Stepped
    <3> QED
      BY <1>4, <3>1, <3>2
  <2> QED
    BY <2>1, <2>2
<1>6. Is(f)
  BY <1>5
<1>7. Sum(bytes) = f[n]
  BY DEF Sum
<1> HIDE DEF f
<1>8. f[0] = 0 /\ \A k \in 1 .. n : f[k] = f[k - 1] + bytes[k]
  BY <1>1, <1>6
<1>9. \A k \in 0 .. n : f[k] \in Nat
  <2> DEFINE S == {k \in 0 .. n : f[k] \in Nat}
  <2>1. 0 \in S
    BY <1>1, <1>8
  <2>2. ASSUME NEW k \in 1 .. n, k - 1 \in S PROVE k \in S
    BY <1>1, <1>8, <2>2
  <2> HIDE DEF S
  <2>3. \A k \in 0 .. n : k \in S
    BY <1>1, <2>1, <2>2, UpTo
  <2> QED
    BY <2>3 DEF S
<1>10. f \in [0 .. n -> Nat]
  BY <1>6, <1>9
<1> QED
  BY <1>7, <1>8, <1>10

LEMMA RemainderIs ==
  ASSUME NEW a \in Int, NEW q \in Int, NEW b \in Byte, a = q * Base + b
  PROVE  a % Base = b
BY FrameLoadAssumption DEF Byte

(***************************************************************************)
(* _xbee_checksum over data and checksum is 0 exactly for the frames whose *)
(* bytes add up to 0xFF.                                                   *)
(***************************************************************************)
LEMMA ChecksumRight ==
  ASSUME NEW bytes \in Seq(Byte)
  PROVE  Checksum(bytes) = 0 <=> Sum(bytes) % Base = Base - 1
<1> DEFINE n == Len(bytes)
<1>0. n \in Nat /\ n \in 0 .. n /\ Base \in Nat /\ Base > 1
  BY FrameLoadAssumption
<1>1. PICK c \in [0 .. n -> Byte] :
        /\ Checksum(bytes) = c[n] /\ c[0] = Base - 1
        /\ \A k \in 1 .. n : c[k] = (c[k - 1] - bytes[k]) % Base
  BY ChecksumSteps
<1>2. PICK s \in [0 .. n -> Nat] :
        /\ Sum(bytes) = s[n] /\ s[0] = 0
        /\ \A k \in 1 .. n : s[k] = s[k - 1] + bytes[k]
  BY SumSteps
<1> DEFINE S == {k \in 0 .. n : \E q \in Int : s[k] = q * Base + (Base - 1 - c[k])}
<1>3. 0 \in S
  <2>1. s[0] = 0 * Base + (Base - 1 - c[0])
    BY <1>0, <1>1, <1>2
  <2>2. 0 \in 0 .. n /\ 0 \in Int
    BY <1>0
  <2> QED
    BY ONLY <2>1, <2>2
<1>4. ASSUME NEW k \in 1 .. n, k - 1 \in S PROVE k \in S
  <2>1. PICK q \in Int : s[k - 1] = q * Base + (Base - 1 - c[k - 1])
    BY <1>4
  <2> DEFINE x == c[k - 1]  y == c[k]  b == bytes[k]
  <2>2. x \in Byte /\ b \in Byte /\ y = (x - b) % Base /\ y \in Byte
    <3>1. k - 1 \in 0 .. n /\ k \in 0 .. n /\ k \in 1 .. Len(bytes)
      BY <1>0
    <3>2. x \in Byte /\ y \in Byte
      BY ONLY <1>1, <3>1
    <3>3. b \in Byte
      BY ONLY <3>1, bytes \in Seq(Byte)
    <3> QED
      BY <1>1, <3>2, <3>3
  <2>3. PICK d \in {0, 1} : y = x - b + d * Base
    <3> HIDE DEF x, y, b
    <3> QED
      BY <2>2, Taken
  <2>4. x \in Int /\ b \in Int /\ y \in Int
    BY <2>2, ByteIsNat
  <2>5. s[k] = q * Base + (Base - 1 - x) + b
    BY <1>2, <2>1
  <2>6. (q + d) * Base = q * Base + d * Base
    BY <1>0
  <2>7. q * Base \in Int /\ d * Base \in Int
    BY <1>0
  <2>8. s[k] = (q + d) * Base + (Base - 1 - y)
    <3> DEFINE u == q * Base  v == d * Base
    <3> HIDE DEF x, y, b, u, v
    <3>1. u + (Base - 1 - x) + b = u + v + (Base - 1 - y)
      BY ONLY <1>0, <2>3, <2>4, <2>7 DEF u, v
    <3> QED
      BY ONLY <2>5, <2>6, <3>1 DEF u, v
  <2>9. q + d \in Int
    OBVIOUS
  <2> QED
    BY <2>8, <2>9
<1>5. n \in S
  <2> HIDE DEF S
  <2>1. \A k \in 0 .. n : k \in S
    BY <1>0, <1>3, <1>4, UpTo
  <2> QED
    BY <1>0, <2>1
<1>6. PICK q \in Int : s[n] = q * Base + (Base - 1 - c[n])
  BY <1>5
<1>7. c[n] \in Byte /\ Base - 1 - c[n] \in Byte /\ s[n] \in Int
  BY <1>0 DEF Byte
<1>8. s[n] % Base = Base - 1 - c[n]
  BY ONLY <1>6, <1>7, RemainderIs
<1> QED
  BY <1>0, <1>1, <1>2, <1>7, <1>8 DEF Byte

-----------------------------------------------------------------------------
(* The frames of a stream: FramesOf's recursive function exists, and what  *)
(* it says at each position.                                               *)

Position(s) == 1 .. Len(s) + 1

LengthAt(s, p) == s[p + 1] * Base + s[p + 2]

Frames == Seq(Seq(Byte))

LEMMA LengthType ==
  ASSUME NEW s \in Seq(Byte), NEW p \in 1 .. Len(s), p + 2 <= Len(s)
  PROVE  LengthAt(s, p) \in Nat
<1>1. s[p + 1] \in Byte /\ s[p + 2] \in Byte
  <2>1. p + 1 \in 1 .. Len(s) /\ p + 2 \in 1 .. Len(s)
    OBVIOUS
  <2> QED
    BY <2>1
<1>2. s[p + 1] \in Nat /\ s[p + 2] \in Nat
  BY ONLY <1>1, ByteIsNat
<1>3. s[p + 1] * Base \in Nat
  BY <1>2, FrameLoadAssumption
<1> QED
  BY <1>2, <1>3 DEF LengthAt

\* What FramesFrom looks at lies behind p.
LEMMA FramesLater ==
  ASSUME NEW s \in Seq(Byte), NEW p \in Position(s), NEW f, NEW g,
         \A q \in Position(s) : q > p => f[q] = g[q]
  PROVE  FramesFrom(s, f, p) = FramesFrom(s, g, p)
<1>1. CASE p + 2 > Len(s)
  BY <1>1 DEF FramesFrom
<1>2. CASE p + 2 <= Len(s)
  <2> DEFINE len == LengthAt(s, p)
  <2>1. len \in Nat
    BY <1>2, LengthType DEF Position
  <2>2. p \in Nat /\ Len(s) \in Nat
    BY DEF Position
  <2>3. f[p + 1] = g[p + 1] /\ f[p + 2] = g[p + 2] /\ f[p + 3] = g[p + 3]
    BY <1>2, <2>2 DEF Position
  <2>4. p + 4 + len <= Len(s) + 1 => f[p + 4 + len] = g[p + 4 + len]
    <3> HIDE DEF len
    <3> QED
      BY <2>1, <2>2 DEF Position
  <2>5. ~ (p + 4 + len > Len(s) + 1) => p + 4 + len <= Len(s) + 1
    <3> HIDE DEF len
    <3> QED
      BY <2>1, <2>2
  <2> QED
    BY <2>3, <2>4, <2>5 DEF FramesFrom, LengthAt
<1> QED
  BY <1>1, <1>2 DEF Position

LEMMA FramesType ==
  ASSUME NEW s \in Seq(Byte), NEW p \in Position(s), NEW f,
         \A q \in Position(s) : q > p => f[q] \in Frames
  PROVE  FramesFrom(s, f, p) \in Frames
<1>1. << >> \in Frames
  BY DEF Frames
<1>2. CASE p + 2 > Len(s)
  BY <1>1, <1>2 DEF FramesFrom
<1>3. CASE p + 2 <= Len(s)
  <2> DEFINE len == LengthAt(s, p)  rest == p + 4 + len
  <2>1. len \in Nat /\ p \in Nat /\ Len(s) \in Nat /\ p >= 1
    BY <1>3, LengthType DEF Position
  <2>2. f[p + 1] \in Frames /\ f[p + 2] \in Frames /\ f[p + 3] \in Frames
    BY <1>3, <2>1 DEF Position
  <2>3. rest <= Len(s) + 1 =>
          f[rest] \in Frames /\ <<SubSeq(s, p + 3, p + 2 + len)>> \o f[rest] \in Frames
    <3> SUFFICES ASSUME rest <= Len(s) + 1
                 PROVE  f[rest] \in Frames
                        /\ <<SubSeq(s, p + 3, p + 2 + len)>> \o f[rest] \in Frames
      OBVIOUS
    <3> HIDE DEF len
    <3>1. f[rest] \in Frames
      BY <2>1 DEF Position
    <3>2. \A i \in p + 3 .. p + 2 + len : s[i] \in Byte
      BY <2>1
    <3>3. SubSeq(s, p + 3, p + 2 + len) \in Seq(Byte)
      BY <2>1, <3>2
    <3> QED
      BY <3>1, <3>3 DEF Frames
  <2>4. ~ (rest > Len(s) + 1) => rest <= Len(s) + 1
    <3> HIDE DEF len
    <3> QED
      BY <2>1
  <2> QED
    BY <1>1, <2>2, <2>3, <2>4 DEF FramesFrom, LengthAt
<1> QED
  BY <1>2, <1>3 DEF Position

IsFrom(s, f) == f = [p \in Position(s) |-> FramesFrom(s, f, p)]

LEMMA FromExists ==
  ASSUME NEW s \in Seq(Byte)
  PROVE  \E f : IsFrom(s, f)
<1> DEFINE n == Len(s) + 1
           From(f, k) == \A p \in Position(s) : p > n - k => f[p] = FramesFrom(s, f, p)
           S == {k \in 0 .. n : \E f : DOMAIN f = Position(s) /\ f = [p \in DOMAIN f |-> f[p]]
                                       /\ From(f, k)}
<1>0. n \in Nat /\ Position(s) = 1 .. n
  BY DEF Position
<1>1. 0 \in S
  <2> DEFINE f == [p \in Position(s) |-> << >>]
  <2>1. DOMAIN f = Position(s) /\ f = [p \in DOMAIN f |-> f[p]] /\ From(f, 0) /\ 0 \in 0 .. n
    BY <1>0
  <2> HIDE DEF f, From
  <2> QED
    BY <2>1
<1>2. ASSUME NEW k \in 1 .. n, k - 1 \in S PROVE k \in S
  <2>1. PICK f : DOMAIN f = Position(s) /\ f = [p \in DOMAIN f |-> f[p]] /\ From(f, k - 1)
    BY <1>2
  <2> DEFINE q == n - k + 1  g == [f EXCEPT ![q] = FramesFrom(s, f, q)]
  <2>2. q \in Position(s)
    BY <1>0
  <2>3. DOMAIN g = Position(s) /\ g = [p \in DOMAIN g |-> g[p]]
    BY <2>1
  <2>4. ASSUME NEW p \in Position(s), p > n - k PROVE g[p] = FramesFrom(s, g, p)
    <3>1. p \in Nat /\ p >= q /\ q \in Nat
      BY <1>0, <2>4
    <3>2. \A r \in Position(s) : r > p => f[r] = g[r]
      BY <1>0, <2>1, <3>1
    <3>3. FramesFrom(s, f, p) = FramesFrom(s, g, p)
      <4> HIDE DEF g
      <4> QED
        BY <3>2, FramesLater
    <3>4. CASE p = q
      BY <2>1, <2>2, <3>3, <3>4
    <3>5. CASE p # q
      <4>1. p > n - (k - 1)
        BY <1>0, <3>1, <3>5
      <4>2. f[p] = FramesFrom(s, f, p)
        BY <2>1, <4>1
      <4>3. g[p] = f[p]
        BY <2>1, <3>5
      <4> QED
        BY <3>3, <4>2, <4>3
    <3> QED
      BY <3>4, <3>5
  <2>5. From(g, k)
    <3> HIDE DEF g
    <3> QED
      BY <2>4
  <2> HIDE DEF g, From
  <2>6. k \in 0 .. n
    BY <1>0
  <2> QED
    BY <2>3, <2>5, <2>6
<1>3. n \in S
  <2> HIDE DEF S, n
  <2>1. \A k \in 0 .. n : k \in S
    BY <1>0, <1>1, <1>2, UpTo
  <2> QED
    BY <1>0, <2>1
<1>4. PICK f : DOMAIN f = Position(s) /\ f = [p \in DOMAIN f |-> f[p]] /\ From(f, n)
  BY <1>3
<1>5. \A p \in Position(s) : f[p] = FramesFrom(s, f, p)
  BY <1>0, <1>4
<1> QED
  BY <1>4, <1>5 DEF IsFrom

From(s) == CHOOSE f : IsFrom(s, f)

LEMMA FromIs ==
  ASSUME NEW s \in Seq(Byte)
  PROVE  /\ FramesOf(s) = From(s)[1] /\ \A p \in Position(s) : FramesAfter(s, p) = From(s)[p]
         /\ \A p \in Position(s) : /\ From(s)[p] = FramesFrom(s, From(s), p)
                                   /\ From(s)[p] \in Frames
<1> DEFINE f == From(s)  n == Len(s) + 1
<1>0. n \in Nat /\ Position(s) = 1 .. n
  BY DEF Position
<1>1. FramesOf(s) = f[1] /\ \A p \in Position(s) : FramesAfter(s, p) = f[p]
  BY DEF FramesOf, FramesAfter, From, IsFrom, Position
<1>2. IsFrom(s, f)
  BY FromExists DEF From
<1> HIDE DEF f
<1>3. \A p \in Position(s) : f[p] = FramesFrom(s, f, p)
  BY <1>2 DEF IsFrom
<1> DEFINE S == {k \in 0 .. n : \A p \in Position(s) : p > n - k => f[p] \in Frames}
<1>4. 0 \in S
  BY <1>0
<1>5. ASSUME NEW k \in 1 .. n, k - 1 \in S PROVE k \in S
  <2>1. \A p \in Position(s) : p > n - (k - 1) => f[p] \in Frames
    BY <1>5
  <2>2. ASSUME NEW p \in Position(s), p > n - k PROVE f[p] \in Frames
    <3>1. \A r \in Position(s) : r > p => f[r] \in Frames
      BY <1>0, <2>1, <2>2
    <3> QED
      BY <1>3, <3>1, FramesType
  <2> QED
    BY <1>0, <2>2
<1>6. n \in S
  <2> HIDE DEF S, n
  <2>1. \A k \in 0 .. n : k \in S
    BY <1>0, <1>4, <1>5, UpTo
  <2> QED
    BY <1>0, <2>1
<1>7. \A p \in Position(s) : f[p] \in Frames
  BY <1>0, <1>6
<1> QED
  BY <1>1, <1>3, <1>7 DEF f

\* Too few bytes for a header, a byte that begins no frame, a length out of range.
LEMMA FromHeader ==
  ASSUME NEW s \in Seq(Byte), NEW p \in Position(s)
  PROVE  /\ p + 2 > Len(s) => From(s)[p] = << >>
         /\ p <= Len(s) /\ s[p] # SOF => From(s)[p] = From(s)[p + 1]
         /\ p + 1 <= Len(s) /\ s[p + 1] = SOF => From(s)[p] = From(s)[p + 1]
         /\ p + 2 <= Len(s) /\ s[p] = SOF /\ s[p + 1] # SOF /\ ~ValidLength(LengthAt(s, p))
              => From(s)[p] = From(s)[IF s[p + 2] = SOF THEN p + 2 ELSE p + 3]
<1> DEFINE f == From(s)
<1>1. p \in Nat /\ Len(s) \in Nat /\ p <= Len(s) + 1 /\ 1 <= p
  BY DEF Position
<1>2. f[p] = FramesFrom(s, f, p)
  BY FromIs
<1>3. p + 2 > Len(s) => f[p] = << >>
  BY <1>2 DEF FramesFrom
<1>4. p + 2 > Len(s) /\ p <= Len(s) => f[p + 1] = << >>
  <2> SUFFICES ASSUME p + 2 > Len(s), p <= Len(s) PROVE f[p + 1] = << >>
    OBVIOUS
  <2>1. p + 1 \in Position(s) /\ (p + 1) + 2 > Len(s)
    BY <1>1 DEF Position
  <2>2. f[p + 1] = FramesFrom(s, f, p + 1)
    BY <2>1, FromIs
  <2> QED
    BY <2>1, <2>2 DEF FramesFrom
<1>5. p + 2 <= Len(s) /\ (s[p] # SOF \/ s[p + 1] = SOF) => f[p] = f[p + 1]
  BY <1>1, <1>2 DEF FramesFrom
<1>6. p + 2 <= Len(s) /\ s[p] = SOF /\ s[p + 1] # SOF /\ ~ValidLength(LengthAt(s, p))
        => f[p] = f[IF s[p + 2] = SOF THEN p + 2 ELSE p + 3]
  BY <1>1, <1>2 DEF FramesFrom, LengthAt
<1> HIDE DEF f
<1>7. /\ p <= Len(s) /\ s[p] # SOF => f[p] = f[p + 1]
      /\ p + 1 <= Len(s) /\ s[p + 1] = SOF => f[p] = f[p + 1]
  BY <1>1, <1>3, <1>4, <1>5
<1> QED
  BY <1>3, <1>6, <1>7 DEF f

\* A frame cut short, and a whole one.
LEMMA FromFrame ==
  ASSUME NEW s \in Seq(Byte), NEW p \in Position(s), NEW len \in Nat, len = LengthAt(s, p),
         p + 2 <= Len(s), s[p] = SOF, s[p + 1] # SOF, ValidLength(len)
  PROVE  /\ p + 3 + len > Len(s) => From(s)[p] = << >>
         /\ p + 3 + len <= Len(s) =>
              From(s)[p] = (IF Checksum(SubSeq(s, p + 3, p + 3 + len)) = 0
                            THEN <<SubSeq(s, p + 3, p + 2 + len)>> ELSE << >>)
                           \o From(s)[p + 4 + len]
<1> DEFINE f == From(s)
<1>1. p \in Nat /\ Len(s) \in Nat /\ 1 <= p
  BY DEF Position
<1>2. f[p] = FramesFrom(s, f, p)
  BY FromIs
<1>3. ~ (p + 2 > Len(s))
  BY <1>1
<1>4. CASE p + 3 + len > Len(s)
  <2>1. p + 4 + len > Len(s) + 1
    BY <1>1, <1>4
  <2>2. f[p] = << >>
    BY <1>2, <1>3, <2>1 DEF FramesFrom, LengthAt
  <2>3. ~ (p + 3 + len <= Len(s))
    BY <1>1, <1>4
  <2> QED
    BY <2>2, <2>3, Zenon
<1>5. CASE p + 3 + len <= Len(s)
  <2> DEFINE b == SubSeq(s, p + 3, p + 3 + len)
  <2>1. ~ (p + 4 + len > Len(s) + 1) /\ p + 4 + len \in Position(s)
    BY <1>1, <1>5 DEF Position
  <2>2. b \in Seq(Byte)
    <3>1. \A i \in p + 3 .. p + 3 + len : s[i] \in Byte
      BY <1>1, <1>5
    <3> QED
      BY <1>1, <1>5, <3>1
  <2>3. Checksum(b) = 0 <=> Sum(b) % Base = Base - 1
    BY <2>2, ChecksumRight
  <2>4. f[p] = IF Sum(b) % Base = Base - 1
               THEN <<SubSeq(s, p + 3, p + 2 + len)>> \o f[p + 4 + len]
               ELSE f[p + 4 + len]
    BY <1>2, <1>3, <2>1 DEF FramesFrom, LengthAt
  <2>5. f[p + 4 + len] \in Frames
    BY <2>1, FromIs
  <2>6. << >> \o f[p + 4 + len] = f[p + 4 + len]
    <3> HIDE DEF f
    <3> QED
      BY <2>5 DEF Frames
  <2> HIDE DEF f, b
  <2>7. f[p] = (IF Checksum(b) = 0 THEN <<SubSeq(s, p + 3, p + 2 + len)>> ELSE << >>)
               \o f[p + 4 + len]
    BY <2>3, <2>4, <2>6
  <2> QED
    BY <1>1, <1>5, <2>7 DEF f, b
<1> QED
  BY <1>1, <1>4, <1>5

-----------------------------------------------------------------------------
(* The parser and the stream *)

\* How many bytes of the stream _xbee_frame_load has read.
Read == Len(stream) - Len(input) - Len(wire)

\* Where the frame begins whose header or data is being read.
Start ==
  CASE state = "WAITSTART"  -> Read + 1
    [] state = "LENGTH_MSB" -> Read
    [] state = "LENGTH_LSB" -> Read - 1
    [] state = "RXFRAME"    -> Read - Len(frame) - 2

\* The bytes that were not read yet are the last ones of the stream.
Unread ==
  /\ Read \in 0 .. Len(stream)
  /\ \A i \in 1 .. Len(input) : input[i] = stream[Read + i]
  /\ \A i \in 1 .. Len(wire) : wire[i] = stream[Read + Len(input) + i]

(***************************************************************************)
(* What the state of the parser says of the bytes it has read: they are a  *)
(* header, and the bytes of data so far lie behind it.                     *)
(***************************************************************************)
Parsed ==
  /\ pc = "handler" => state = "WAITSTART"
  /\ Start \in Position(stream)
  /\ state \in {"LENGTH_MSB", "LENGTH_LSB", "RXFRAME"} => stream[Start] = SOF
  /\ state \in {"LENGTH_LSB", "RXFRAME"} => stream[Start + 1] # SOF
  /\ state = "LENGTH_LSB" => inFrame = stream[Start + 1] * Base
  /\ state = "RXFRAME" => /\ inFrame = LengthAt(stream, Start)
                          /\ \A i \in 1 .. Len(frame) : frame[i] = stream[Start + 2 + i]

InHand == IF pc = "handler" THEN <<SubSeq(frame, 1, inFrame)>> ELSE << >>

(***************************************************************************)
(* What was heard, the frame in the hands of the handlers, and the frames  *)
(* from where the parser is on are together the frames of the stream.      *)
(***************************************************************************)
HeardSoFar == HeardFrames \o InHand \o From(stream)[Start] = From(stream)[1]

ParseInv == Unread /\ Parsed /\ HeardSoFar

LEMMA ReadTypes ==
  ASSUME FrameInv, CallInv, Unread
  PROVE  /\ stream \in Seq(Byte) /\ input \in Seq(Byte) /\ wire \in Seq(Byte)
         /\ Len(stream) \in Nat /\ Len(input) \in Nat /\ Len(wire) \in Nat /\ Read \in Nat
         /\ Read + Len(input) + Len(wire) = Len(stream)
BY DEF FrameInv, Bytes, CallInv, Unread, Read

LEMMA ReadOne ==
  ASSUME FrameInv, CallInv, Unread, ReadByte
  PROVE  /\ Read' = Read + 1 /\ Read + 1 \in 1 .. Len(stream)
         /\ Head(input) = stream[Read + 1] /\ Unread'
<1> USE ReadTypes
<1>1. /\ input' = Tail(input) /\ UNCHANGED <<stream, wire>> /\ Len(input') = Len(input) - 1
      /\ Len(input) >= 1 /\ Head(input) = input[1]
      /\ \A i \in 1 .. Len(input') : input'[i] = input[i + 1]
  BY HeadTailProperties DEF ReadByte
<1>2. Read' = Read + 1 /\ Read + 1 \in 1 .. Len(stream)
  <2> DEFINE s == Len(stream)  i == Len(input)  w == Len(wire)  k == Len(input')
  <2>1. s \in Nat /\ i \in Nat /\ w \in Nat /\ k = i - 1 /\ i >= 1 /\ s - i - w \in Nat
    BY <1>1 DEF Read
  <2> HIDE DEF s, i, w, k
  <2>2. s - k - w = s - i - w + 1 /\ s - i - w + 1 \in 1 .. s
    BY ONLY <2>1
  <2>3. Read = s - i - w /\ Read' = s - k - w
    BY <1>1 DEF Read, s, i, w, k
  <2> QED
    BY <2>2, <2>3 DEF s
<1>3. Head(input) = stream[Read + 1]
  BY <1>1 DEF Unread
<1>4. \A i \in 1 .. Len(input') : input'[i] = stream'[Read' + i]
  <2> SUFFICES ASSUME NEW i \in 1 .. Len(input') PROVE input'[i] = stream'[Read' + i]
    OBVIOUS
  <2>1. i + 1 \in 1 .. Len(input) /\ Read + (i + 1) = (Read + 1) + i
    BY <1>1
  <2> QED
    BY <1>1, <1>2, <2>1 DEF Unread
<1>5. \A i \in 1 .. Len(wire') : wire'[i] = stream'[Read' + Len(input') + i]
  <2>1. Read' + Len(input') = Read + Len(input)
    BY <1>1, <1>2
  <2> QED
    BY <1>1, <2>1 DEF Unread
<1>6. Read' \in 0 .. Len(stream')
  BY <1>1, <1>2
<1> QED
  BY <1>2, <1>3, <1>4, <1>5, <1>6 DEF Unread

LEMMA HeardFramesType == CallInv => HeardFrames \in Frames /\ Len(HeardFrames) = Len(heard)
<1> SUFFICES ASSUME CallInv PROVE HeardFrames \in Frames /\ Len(HeardFrames) = Len(heard)
  OBVIOUS
<1>1. heard \in Seq(Heard) /\ Len(heard) \in Nat /\ DOMAIN heard = 1 .. Len(heard)
  BY DEF CallInv
<1>2. ASSUME NEW i \in 1 .. Len(heard) PROVE heard[i].frame \in Seq(Byte)
  <2>1. heard[i] \in Heard
    BY <1>1
  <2> QED
    BY <2>1 DEF Heard
<1>3. HeardFrames = [i \in 1 .. Len(heard) |-> heard[i].frame]
  BY <1>1 DEF HeardFrames
<1> QED
  BY <1>1, <1>2, <1>3 DEF Frames

\* A step of the parser that moves from one place without frames to another.
LEMMA NothingHeard ==
  ASSUME HeardSoFar, UNCHANGED <<stream, heard>>, pc # "handler", pc' # "handler",
         From(stream)[Start'] = From(stream)[Start]
  PROVE  HeardSoFar'
<1>1. HeardFrames' = HeardFrames /\ InHand' = InHand
  BY DEF HeardFrames, InHand
<1> QED
  BY <1>1 DEF HeardSoFar

LEMMA ParseHeader ==
  ASSUME FrameInv, CallInv, ParseInv, LoadWaitStart \/ LoadLengthMsb \/ LoadLengthLsb
  PROVE  ParseInv'
<1> DEFINE b == Head(input)  r == Read + 1
<1> USE DEF ParseInv
<1>1. /\ ReadByte /\ pc = "load" /\ pc' = "load" /\ UNCHANGED <<stream, heard>>
  BY DEF LoadWaitStart, LoadLengthMsb, LoadLengthLsb, Stay, call, Loading, ReadByte
<1>2. Read' = r /\ r \in 1 .. Len(stream) /\ b = stream[r] /\ Unread' /\ Read \in Nat
  BY <1>1, ReadOne, ReadTypes
<1>3. stream \in Seq(Byte) /\ Len(stream) \in Nat
  BY ReadTypes
<1>4. SUFFICES Parsed' /\ From(stream)[Start'] = From(stream)[Start]
  BY <1>1, <1>2, NothingHeard
<1>5. CASE LoadWaitStart
  <2>1. state = "WAITSTART" /\ state' = (IF b = SOF THEN "LENGTH_MSB" ELSE "WAITSTART")
    BY <1>5 DEF LoadWaitStart, Loading
  <2>2. Start = r /\ r \in Position(stream)
    BY <1>2, <2>1 DEF Start, Position
  <2>3. CASE b = SOF
    <3>1. Start' = r /\ state' = "LENGTH_MSB"
      BY <1>2, <2>1, <2>3 DEF Start
    <3> QED
      BY <1>1, <1>2, <2>2, <2>3, <3>1 DEF Parsed
  <2>4. CASE b # SOF
    <3>1. Start' = r + 1 /\ state' = "WAITSTART"
      BY <1>2, <2>1, <2>4 DEF Start
    <3>2. r + 1 \in Position(stream)
      BY <1>2, <1>3 DEF Position
    <3>3. From(stream)[r] = From(stream)[r + 1]
      BY <1>2, <1>3, <2>2, <2>4, FromHeader
    <3> QED
      BY <1>1, <2>2, <3>1, <3>2, <3>3 DEF Parsed
  <2> QED
    BY <2>3, <2>4
<1>6. CASE LoadLengthMsb
  <2>1. state = "LENGTH_MSB" /\ Start = Read /\ Read \in Position(stream)
        /\ stream[Read] = SOF
    BY <1>6 DEF LoadLengthMsb, Loading, Start, Parsed
  <2>2. CASE b = SOF
    <3>1. state' = "LENGTH_MSB" /\ Start' = r
      BY <1>2, <1>6, <2>1, <2>2 DEF LoadLengthMsb, Start
    <3>2. r \in Position(stream) /\ Read + 1 <= Len(stream)
      BY <1>2, <1>3 DEF Position
    <3>3. From(stream)[Read] = From(stream)[r]
      BY <1>2, <1>3, <2>1, <2>2, <3>2, FromHeader
    <3> QED
      BY <1>1, <1>2, <2>1, <2>2, <3>1, <3>2, <3>3 DEF Parsed
  <2>3. CASE b # SOF
    <3>1. state' = "LENGTH_LSB" /\ inFrame' = b * Base
      BY <1>6, <2>3 DEF LoadLengthMsb
    <3>2. Start' = Read
      BY <1>2, <3>1 DEF Start
    <3> QED
      BY <1>1, <1>2, <2>1, <2>3, <3>1, <3>2 DEF Parsed
  <2> QED
    BY <2>2, <2>3
<1>7. CASE LoadLengthLsb
  <2> DEFINE p == Read - 1
  <2>1. /\ state = "LENGTH_LSB" /\ Start = p /\ p \in Position(stream)
        /\ stream[p] = SOF /\ stream[p + 1] # SOF /\ inFrame = stream[p + 1] * Base
    BY <1>7 DEF LoadLengthLsb, Loading, Start, Parsed
  <2>2. p + 2 = r /\ p + 2 <= Len(stream) /\ p + 1 = Read /\ p \in Nat
    BY <1>2, <1>3, <2>1 DEF Position
  <2>3. inFrame' = LengthAt(stream, p)
    BY <1>2, <1>7, <2>1, <2>2 DEF LoadLengthLsb, LengthAt
  <2>4. CASE ValidLength(inFrame')
    <3>1. state' = "RXFRAME" /\ frame' = << >>
      BY <1>7, <2>4 DEF LoadLengthLsb
    <3>2. Start' = p
      BY <1>2, <2>2, <3>1 DEF Start
    <3> QED
      BY <1>1, <2>1, <2>3, <3>1, <3>2 DEF Parsed
  <2>5. CASE ~ValidLength(inFrame')
    <3>1. state' = IF b = SOF THEN "LENGTH_MSB" ELSE "WAITSTART"
      BY <1>7, <2>5 DEF LoadLengthLsb
    <3>2. From(stream)[p] = From(stream)[IF stream[p + 2] = SOF THEN p + 2 ELSE p + 3]
      BY <1>3, <2>1, <2>2, <2>3, <2>5, FromHeader
    <3>3. CASE b = SOF
      <4>1. Start' = r /\ state' = "LENGTH_MSB"
        BY <1>2, <3>1, <3>3 DEF Start
      <4>2. r \in Position(stream)
        BY <1>2, <1>3 DEF Position
      <4> QED
        BY <1>1, <1>2, <2>1, <2>2, <3>2, <3>3, <4>1, <4>2 DEF Parsed
    <3>4. CASE b # SOF
      <4>1. Start' = r + 1 /\ state' = "WAITSTART" /\ p + 3 = r + 1
        BY <1>2, <2>2, <3>1, <3>4 DEF Start
      <4>2. r + 1 \in Position(stream)
        BY <1>2, <1>3 DEF Position
      <4> QED
        BY <1>1, <1>2, <2>1, <2>2, <3>2, <3>4, <4>1, <4>2 DEF Parsed
    <3> QED
      BY <3>3, <3>4
  <2> QED
    BY <2>4, <2>5
<1> QED
  BY <1>5, <1>6, <1>7

\* Several bytes are read, and join what is in frame_data.
LEMMA ReadMany ==
  ASSUME FrameInv, CallInv, ParseInv, state = "RXFRAME",
         NEW k \in 0 .. Len(input),
         frame' = frame \o SubSeq(input, 1, k), input' = SubSeq(input, k + 1, Len(input)),
         UNCHANGED <<stream, wire>>
  PROVE  /\ Read' = Read + k /\ Unread'
         /\ Start = Read - Len(frame) - 2 /\ Start \in Position(stream)
         /\ Len(frame') = Len(frame) + k /\ frame' \in Seq(Byte)
         /\ \A i \in 1 .. Len(frame') : frame'[i] = stream[Start + 2 + i]
<1> USE DEF ParseInv
<1>1. /\ stream \in Seq(Byte) /\ input \in Seq(Byte) /\ wire \in Seq(Byte)
      /\ Len(stream) \in Nat /\ Len(input) \in Nat /\ Len(wire) \in Nat /\ Read \in Nat
      /\ Read + Len(input) + Len(wire) = Len(stream)
      /\ frame \in Seq(Byte) /\ Len(frame) \in Nat
  BY ReadTypes DEF FrameInv, Bytes
<1>2. /\ SubSeq(input, 1, k) \in Seq(Byte) /\ Len(SubSeq(input, 1, k)) = k
      /\ \A i \in 1 .. k : SubSeq(input, 1, k)[i] = input[i]
  BY <1>1
<1>3. /\ input' \in Seq(Byte) /\ Len(input') = Len(input) - k
      /\ \A i \in 1 .. Len(input) - k : input'[i] = input[k + i]
  BY <1>1
<1>4. Start = Read - Len(frame) - 2 /\ Start \in Position(stream)
  BY DEF Start, Parsed
<1>5. Read' = Read + k
  <2> DEFINE s == Len(stream)  i == Len(input)  w == Len(wire)  j == Len(input')
  <2>1. s \in Nat /\ i \in Nat /\ w \in Nat /\ k \in Nat /\ j = i - k
    BY <1>1, <1>3
  <2> HIDE DEF s, i, w, j
  <2>2. s - j - w = s - i - w + k
    BY ONLY <2>1
  <2> QED
    BY <2>2 DEF Read, s, i, w, j
<1>6. Unread'
  <2>1. Read' \in 0 .. Len(stream') /\ Read' + Len(input') = Read + Len(input)
    <3> DEFINE x == Read  xx == Read'  s == Len(stream)  i == Len(input)  j == Len(input')
               w == Len(wire)
    <3>1. /\ x \in Nat /\ i \in Nat /\ w \in Nat /\ x + i + w = s /\ j = i - k /\ xx = x + k
          /\ k \in 0 .. i
      BY <1>1, <1>3, <1>5
    <3> HIDE DEF x, xx, s, i, j, w
    <3>2. xx \in 0 .. s /\ xx + j = x + i
      BY ONLY <3>1
    <3>3. Len(stream') = s
      BY DEF s
    <3> QED
      BY ONLY <3>2, <3>3 DEF x, xx, i, j
  <2>2. ASSUME NEW i \in 1 .. Len(input') PROVE input'[i] = stream'[Read' + i]
    <3>1. k + i \in 1 .. Len(input) /\ Read + (k + i) = (Read + k) + i
          /\ i \in 1 .. Len(input) - k
      BY <1>1, <1>3
    <3>2. input'[i] = input[k + i] /\ input[k + i] = stream[Read + (k + i)]
      BY <1>3, <3>1 DEF Unread
    <3> QED
      BY <1>5, <3>1, <3>2
  <2>3. \A i \in 1 .. Len(wire') : wire'[i] = stream'[Read' + Len(input') + i]
    BY <2>1 DEF Unread
  <2> QED
    BY <2>1, <2>2, <2>3 DEF Unread
<1>7. Len(frame') = Len(frame) + k /\ frame' \in Seq(Byte)
  BY <1>1, <1>2
<1>8. ASSUME NEW i \in 1 .. Len(frame') PROVE frame'[i] = stream[Start + 2 + i]
  <2>1. i \in Nat /\ i >= 1 /\ i <= Len(frame) + k
    BY <1>7
  <2>2. CASE i <= Len(frame)
    <3>1. frame'[i] = frame[i] /\ i \in 1 .. Len(frame)
      BY <1>1, <1>2, <2>1, <2>2
    <3> QED
      BY <3>1 DEF Parsed
  <2>3. CASE i > Len(frame)
    <3> DEFINE j == i - Len(frame)
    <3>1. j \in 1 .. k /\ j \in 1 .. Len(input)
      BY <1>1, <2>1, <2>3
    <3>2. frame'[i] = SubSeq(input, 1, k)[j]
      BY <1>1, <1>2, <2>1, <2>3
    <3>3. SubSeq(input, 1, k)[j] = input[j] /\ input[j] = stream[Read + j]
      BY <1>2, <3>1 DEF Unread
    <3>4. Read + j = Start + 2 + i
      BY <1>1, <1>4, <2>1
    <3> QED
      BY <3>2, <3>3, <3>4
  <2> QED
    BY <1>1, <2>1, <2>2, <2>3
<1> QED
  BY <1>4, <1>5, <1>6, <1>7, <1>8

LEMMA SameBytes ==
  ASSUME NEW s \in Seq(Byte), NEW f \in Seq(Byte), NEW a \in Nat, NEW b \in Nat,
         1 <= a, a <= b + 1, b <= Len(s), Len(f) = b - a + 1,
         \A i \in 1 .. Len(f) : f[i] = s[a - 1 + i]
  PROVE  f = SubSeq(s, a, b)
<1> DEFINE g == SubSeq(s, a, b)
<1>1. /\ g \in Seq(Byte) /\ Len(g) = b - a + 1
      /\ \A i \in 1 .. b - a + 1 : g[i] = s[a + i - 1]
  BY SubSeqProperties
<1>2. \A i \in 1 .. Len(f) : f[i] = g[i]
  BY <1>1
<1> HIDE DEF g
<1>3. f = g
  BY <1>1, <1>2, SeqEqual
<1> QED
  BY <1>3 DEF g

LEMMA ParsePartial == FrameInv /\ CallInv /\ ParseInv /\ LoadPartial => ParseInv'
<1> SUFFICES ASSUME FrameInv, CallInv, ParseInv, LoadPartial PROVE ParseInv'
  OBVIOUS
<1> DEFINE k == Len(input)
<1>1. /\ state = "RXFRAME" /\ frame' = frame \o input /\ input' = << >>
      /\ UNCHANGED <<stream, wire, state, inFrame, heard>> /\ pc = "load" /\ Return
  BY DEF LoadPartial, Loading
<1>2. input \in Seq(Byte) /\ k \in 0 .. Len(input)
  BY DEF FrameInv, Bytes
<1>3. SubSeq(input, 1, k) = input /\ SubSeq(input, k + 1, Len(input)) = << >>
  BY <1>2
<1>4. /\ Read' = Read + k /\ Unread'
      /\ Start = Read - Len(frame) - 2 /\ Start \in Position(stream)
      /\ Len(frame') = Len(frame) + k
      /\ \A i \in 1 .. Len(frame') : frame'[i] = stream[Start + 2 + i]
  <2> HIDE DEF k
  <2> QED
    BY <1>1, <1>2, <1>3, ReadMany
<1>5. Start' = Start
  <2>1. Start' = Read' - Len(frame') - 2
    BY <1>1 DEF Start
  <2>2. Read \in Nat /\ Len(frame) \in Nat /\ k \in Nat
    BY <1>2, ReadTypes DEF ParseInv, FrameInv, Bytes
  <2> QED
    BY <1>4, <2>1, <2>2
<1>6. pc' = "idle"
  BY <1>1, ReturnCalls DEF CallInv
<1>7. Parsed'
  BY <1>1, <1>4, <1>5, <1>6 DEF Parsed, ParseInv, LengthAt
<1>8. HeardSoFar'
  BY <1>1, <1>5, <1>6, NothingHeard DEF ParseInv
<1> QED
  BY <1>4, <1>7, <1>8 DEF ParseInv

\* The last byte of a frame: its data go to the handlers if the checksum is right.
LEMMA ParseFrame ==
  ASSUME FrameInv, CallInv, ParseInv, LoadBadChecksum \/ LoadDispatch
  PROVE  ParseInv'
<1> DEFINE k == BytesLeft  p == Start  len == inFrame  s == stream
           body == SubSeq(s, p + 3, p + 2 + len)
<1>1. /\ state = "RXFRAME" /\ Len(input) >= k /\ pc = "load" /\ state' = "WAITSTART"
      /\ frame' = frame \o SubSeq(input, 1, k) /\ input' = SubSeq(input, k + 1, Len(input))
      /\ UNCHANGED <<stream, wire, inFrame, heard>>
  BY DEF LoadBadChecksum, LoadDispatch, ReadFrame, Loading
<1>2. /\ len \in Nat /\ ValidLength(len) /\ Len(frame) \in Nat /\ Len(frame) <= len
      /\ k = len - Len(frame) + 1 /\ input \in Seq(Byte) /\ Len(input) \in Nat
  BY <1>1, FrameLoadAssumption DEF FrameInv, Bytes, Length, BytesLeft
<1>3. k \in 0 .. Len(input)
  BY <1>1, <1>2
<1>4. /\ Read' = Read + k /\ Unread' /\ p = Read - Len(frame) - 2
      /\ p \in Position(s) /\ Len(frame') = Len(frame) + k /\ frame' \in Seq(Byte)
      /\ \A i \in 1 .. Len(frame') : frame'[i] = s[p + 2 + i]
  <2> HIDE DEF k, p
  <2>1. /\ Read' = Read + k /\ Unread' /\ Start = Read - Len(frame) - 2
        /\ Start \in Position(s) /\ Len(frame') = Len(frame) + k /\ frame' \in Seq(Byte)
        /\ \A i \in 1 .. Len(frame') : frame'[i] = s[Start + 2 + i]
    BY <1>1, <1>3, ReadMany
  <2> QED
    BY <2>1 DEF p
<1>5. /\ s \in Seq(Byte) /\ Len(s) \in Nat /\ Read \in Nat /\ Read' <= Len(s)
      /\ p \in Nat /\ 1 <= p
  BY <1>1, <1>4, ReadTypes DEF ParseInv, Unread, Position
<1>6. s[p] = SOF /\ s[p + 1] # SOF /\ len = LengthAt(s, p)
  BY <1>1 DEF ParseInv, Parsed
<1> HIDE DEF p, k
<1>7. Read' = p + 3 + len /\ Len(frame') = len + 1 /\ p + 2 <= Len(s) /\ p + 3 + len <= Len(s)
  BY ONLY <1>2, <1>4, <1>5
<1>8. frame' = SubSeq(s, p + 3, p + 3 + len)
  <2> DEFINE a == p + 3  b == p + 3 + len
  <2>1. a \in Nat /\ b \in Nat /\ 1 <= a /\ a <= b + 1 /\ b <= Len(s)
        /\ Len(frame') = b - a + 1
    BY ONLY <1>2, <1>5, <1>7
  <2>2. \A i \in 1 .. Len(frame') : frame'[i] = s[a - 1 + i]
    <3>1. a - 1 = p + 2
      BY <1>5
    <3> QED
      BY <1>4, <3>1
  <2> HIDE DEF a, b
  <2>3. frame' = SubSeq(s, a, b)
    BY ONLY <1>4, <1>5, <2>1, <2>2, SameBytes
  <2> QED
    BY <2>3 DEF a, b
<1>9. SubSeq(frame', 1, len) = body /\ body \in Seq(Byte)
  <2> DEFINE f == SubSeq(frame', 1, len)  a == p + 3  b == p + 2 + len
  <2>1. /\ f \in Seq(Byte) /\ Len(f) = len
        /\ \A i \in 1 .. len : f[i] = frame'[i]
    <3>1. frame' \in Seq(Byte) /\ len \in Nat /\ len <= Len(frame')
      BY <1>2, <1>4, <1>7
    <3> DEFINE g == frame'  m == len
    <3> HIDE DEF g, m
    <3>2. /\ SubSeq(g, 1, m) \in Seq(Byte) /\ Len(SubSeq(g, 1, m)) = m
          /\ \A i \in 1 .. m : SubSeq(g, 1, m)[i] = g[i]
      <4>1. g \in Seq(Byte) /\ m \in Nat /\ m <= Len(g)
        BY <3>1 DEF g, m
      <4> QED
        BY ONLY <4>1
    <3> QED
      BY <3>2 DEF g, m
  <2>2. a \in Nat /\ b \in Nat /\ 1 <= a /\ a <= b + 1 /\ b <= Len(s) /\ len = b - a + 1
    BY ONLY <1>2, <1>5, <1>7
  <2>3. \A i \in 1 .. Len(f) : f[i] = s[a - 1 + i]
    <3>1. a - 1 = p + 2
      BY <1>5
    <3>2. \A i \in 1 .. len : i \in 1 .. Len(frame')
      BY <1>2, <1>7
    <3> QED
      BY <1>4, <2>1, <3>1, <3>2
  <2> HIDE DEF f, a, b
  <2>4. f = SubSeq(s, a, b)
    BY ONLY <1>5, <2>1, <2>2, <2>3, SameBytes
  <2> QED
    BY <2>1, <2>4 DEF f, a, b
<1>10. Start' = p + 4 + len
  <2>1. Start' = Read' + 1
    BY <1>1 DEF Start
  <2> QED
    BY <1>2, <1>5, <1>7, <2>1
<1>11. From(s)[p] = (IF Checksum(frame') = 0 THEN <<body>> ELSE << >>) \o From(s)[Start']
  <2>1. From(s)[p] = (IF Checksum(SubSeq(s, p + 3, p + 3 + len)) = 0
                      THEN <<SubSeq(s, p + 3, p + 2 + len)>> ELSE << >>)
                     \o From(s)[p + 4 + len]
    <3> HIDE DEF s, len
    <3> QED
      BY ONLY <1>2, <1>4, <1>5, <1>6, <1>7, FromFrame
  <2> QED
    BY <1>8, <1>10, <2>1
<1>12. Start' \in Position(stream)
  BY <1>2, <1>5, <1>7, <1>10 DEF Position
<1>13. Parsed'
  BY <1>1, <1>12 DEF Parsed
<1>14. InHand' = (IF Checksum(frame') = 0 THEN <<body>> ELSE << >>) /\ InHand = << >>
  <2>1. CASE LoadBadChecksum
    <3>1. Checksum(frame') # 0 /\ pc' = "load"
      BY <1>1, <2>1 DEF LoadBadChecksum, Stay, call
    <3> QED
      BY <1>1, <3>1 DEF InHand
  <2>2. CASE LoadDispatch
    <3>1. Checksum(frame') = 0 /\ pc' = "handler"
      BY <2>2 DEF LoadDispatch
    <3> QED
      BY <1>1, <1>9, <3>1 DEF InHand
  <2> QED
    BY <2>1, <2>2
<1>15. From(s)[p] = InHand' \o From(s)[Start']
  BY <1>11, <1>14
<1>16. HeardFrames \in Frames /\ InHand' \in Frames /\ From(s)[Start'] \in Frames
  <2>1. HeardFrames \in Frames
    BY HeardFramesType
  <2>3. InHand' \in Frames
    BY <1>9, <1>14 DEF Frames
  <2>4. From(s)[Start'] \in Frames
    BY <1>5, <1>12, FromIs
  <2> QED
    BY <2>1, <2>3, <2>4
<1>17. HeardSoFar'
  <2>1. HeardFrames \o << >> \o (InHand' \o From(s)[Start']) = From(s)[1]
    BY <1>14, <1>15 DEF ParseInv, HeardSoFar, p
  <2>2. HeardFrames \o << >> = HeardFrames
    BY <1>16 DEF Frames
  <2> DEFINE a == HeardFrames  b == InHand'  c == From(s)[Start']
  <2>3. a \o (b \o c) = a \o b \o c
    <3>1. a \in Seq(Seq(Byte)) /\ b \in Seq(Seq(Byte)) /\ c \in Seq(Seq(Byte))
      BY <1>16 DEF Frames
    <3> HIDE DEF a, b, c
    <3>2. (a \o b) \o c = a \o (b \o c)
      BY ONLY <3>1, ConcatAssociative, SMTT(30)
    <3> QED
      BY ONLY <3>2
  <2>4. HeardFrames' = HeardFrames /\ stream' = s
    <3>1. heard' = heard /\ stream' = stream
      BY <1>1
    <3> QED
      BY ONLY <3>1 DEF HeardFrames
  <2> QED
    BY <2>1, <2>2, <2>3, <2>4 DEF HeardSoFar
<1> QED
  BY <1>4, <1>13, <1>17 DEF ParseInv

\* The handlers are done with the frame in hand.
LEMMA ParseDone == FrameInv /\ CallInv /\ ParseInv /\ HandlersDone => ParseInv'
<1> SUFFICES ASSUME FrameInv, CallInv, ParseInv, HandlersDone PROVE ParseInv'
  OBVIOUS
<1> DEFINE body == SubSeq(frame, 1, inFrame)
           call1 == [frame |-> body, by |-> Handlers(frame)]
<1>1. /\ pc = "handler" /\ heard' = Append(heard, call1)
      /\ UNCHANGED <<stream, wire, input, state, inFrame, frame>>
  BY DEF HandlersDone, port, rx
<1>2. pc' # "handler"
  <2>1. CASE dispatched = MaxDispatch
    BY <1>1, <2>1, ReturnCalls DEF HandlersDone, CallInv
  <2>2. CASE dispatched # MaxDispatch
    BY <2>2 DEF HandlersDone
  <2> QED
    BY <2>1, <2>2
<1>3. Unread' /\ Start' = Start /\ state = "WAITSTART"
  BY <1>1 DEF ParseInv, Parsed, Unread, Read, Start
<1>4. Parsed'
  BY <1>1, <1>2, <1>3 DEF ParseInv, Parsed
<1>5. heard \in Seq(Heard) /\ heard' \in Seq(Heard)
  BY CallHandler DEF CallInv
<1>6. HeardFrames' = Append(HeardFrames, body)
  <2> DEFINE h == HeardFrames  n == Len(heard)
  <2>1. /\ n \in Nat /\ DOMAIN heard = 1 .. n /\ Len(heard') = n + 1
        /\ DOMAIN heard' = 1 .. n + 1
        /\ \A i \in 1 .. n : heard'[i] = heard[i]
        /\ heard'[n + 1] = call1
    BY <1>1, <1>5
  <2>2. h \in Frames /\ Len(h) = n /\ h = [i \in 1 .. n |-> heard[i].frame]
    BY <2>1, HeardFramesType DEF HeardFrames
  <2>3. HeardFrames' = [i \in 1 .. n + 1 |-> heard'[i].frame]
    BY <2>1 DEF HeardFrames
  <2>4. Append(h, body) = [i \in 1 .. n + 1 |-> IF i = n + 1 THEN body ELSE h[i]]
    <3> HIDE DEF h, n, body
    <3> QED
      BY <2>1, <2>2 DEF Frames
  <2>5. ASSUME NEW i \in 1 .. n + 1
        PROVE  heard'[i].frame = IF i = n + 1 THEN body ELSE h[i]
    <3>1. CASE i = n + 1
      <4>1. call1.frame = body
        OBVIOUS
      <4> HIDE DEF call1, n, body, h
      <4> QED
        BY <2>1, <3>1, <4>1
    <3>2. CASE i # n + 1
      <4> HIDE DEF call1, n, body, h
      <4>1. i \in 1 .. n
        BY <2>1, <3>2
      <4> QED
        BY <2>1, <2>2, <3>2, <4>1
    <3> QED
      BY <3>1, <3>2
  <2> HIDE DEF h, n, body
  <2>6. HeardFrames' = Append(h, body)
    BY <2>3, <2>4, <2>5
  <2> QED
    BY <2>6 DEF h
<1>7. HeardSoFar'
  <2>1. HeardFrames \o <<body>> \o From(stream)[Start] = From(stream)[1]
    BY <1>1 DEF ParseInv, HeardSoFar, InHand
  <2>2. InHand' = << >>
    BY <1>2 DEF InHand
  <2>3. body \in Seq(Byte)
    <3>1. frame \in Seq(Byte) /\ inFrame \in Nat /\ inFrame <= Len(frame)
      BY <1>1 DEF FrameInv, Bytes, CallInv, Held
    <3> QED
      BY <3>1
  <2>4. HeardFrames' \in Frames /\ HeardFrames \in Frames
    <3>1. HeardFrames \in Frames
      BY HeardFramesType
    <3> HIDE DEF body
    <3>2. Append(HeardFrames, body) \in Frames
      BY <2>3, <3>1 DEF Frames
    <3> QED
      BY <1>6, <3>1, <3>2
  <2>5. HeardFrames' \o << >> = HeardFrames'
    BY <2>4 DEF Frames
  <2>6. Append(HeardFrames, body) = HeardFrames \o <<body>>
    <3> DEFINE h == HeardFrames
    <3> HIDE DEF h, body
    <3>1. h \in Seq(Seq(Byte))
      BY <2>4 DEF h, Frames
    <3>2. Append(h, body) = h \o <<body>>
      BY <2>3, <3>1, AppendIsConcat
    <3> QED
      BY <3>2 DEF h
  <2> HIDE DEF body
  <2> QED
    BY <1>1, <1>3, <1>6, <2>1, <2>2, <2>5, <2>6 DEF HeardSoFar
<1> QED
  BY <1>3, <1>4, <1>7 DEF ParseInv

LEMMA ParseInit == Init => ParseInv
<1> SUFFICES ASSUME Init PROVE ParseInv
  OBVIOUS
<1>1. /\ stream \in Seq(Byte) /\ wire = stream /\ input = << >> /\ state = "WAITSTART"
      /\ pc = "idle" /\ heard = << >>
  BY FrameLoadAssumption DEF Init
<1>2. Len(stream) \in Nat /\ Read = 0 /\ Start = 1
  BY <1>1 DEF Read, Start
<1>3. Unread
  BY <1>1, <1>2 DEF Unread
<1>4. Parsed
  BY <1>1, <1>2 DEF Parsed, Position
<1>5. HeardSoFar
  <2>1. HeardFrames = << >> /\ InHand = << >>
    BY <1>1 DEF HeardFrames, InHand
  <2>2. From(stream)[1] \in Frames
    BY <1>1, <1>2, <1>4, FromIs DEF Parsed
  <2> DEFINE f == From(stream)[1]
  <2>3. << >> \o << >> \o f = f
    <3> HIDE DEF f
    <3> QED
      BY <2>2 DEF Frames, f
  <2> QED
    BY <1>2, <2>1, <2>3 DEF HeardSoFar
<1> QED
  BY <1>3, <1>4, <1>5 DEF ParseInv

LEMMA ParseStep == FrameInv /\ CallInv /\ ParseInv /\ [Next]_vars => ParseInv'
<1> SUFFICES ASSUME FrameInv, CallInv, ParseInv, [Next]_vars PROVE ParseInv'
  OBVIOUS
<1>1. CASE Arrive
  <2>1. /\ wire # << >> /\ input' = Append(input, Head(wire)) /\ wire' = Tail(wire)
        /\ UNCHANGED <<stream, state, inFrame, frame, pc, heard>>
    BY <1>1 DEF Arrive, rx, call
  <2>2. /\ stream \in Seq(Byte) /\ input \in Seq(Byte) /\ wire \in Seq(Byte)
        /\ Len(stream) \in Nat /\ Len(input) \in Nat /\ Len(wire) \in Nat /\ Read \in Nat
        /\ Read + Len(input) + Len(wire) = Len(stream)
    BY ReadTypes DEF ParseInv
  <2>3. /\ Len(wire) >= 1 /\ Len(wire') = Len(wire) - 1 /\ Len(input') = Len(input) + 1
        /\ \A i \in 1 .. Len(wire') : wire'[i] = wire[i + 1]
        /\ \A i \in 1 .. Len(input) : input'[i] = input[i]
        /\ input'[Len(input) + 1] = wire[1]
    BY <2>1, <2>2, HeadTailProperties
  <2>4. Read' = Read
    <3> DEFINE s == Len(stream)  i == Len(input)  w == Len(wire)
    <3>1. s \in Nat /\ i \in Nat /\ w \in Nat
      BY <2>2
    <3> HIDE DEF s, i, w
    <3>2. s - (i + 1) - (w - 1) = s - i - w
      BY ONLY <3>1
    <3> QED
      BY <2>1, <2>3, <3>2 DEF Read, s, i, w
  <2>5. Unread'
    <3>1. Read' \in 0 .. Len(stream')
      BY <2>1, <2>4 DEF ParseInv, Unread
    <3>2. ASSUME NEW i \in 1 .. Len(input') PROVE input'[i] = stream'[Read' + i]
      <4>1. CASE i \in 1 .. Len(input)
        BY <2>1, <2>3, <2>4, <4>1 DEF ParseInv, Unread
      <4>2. CASE i = Len(input) + 1
        <5>1. wire[1] = stream[Read + Len(input) + 1]
          BY <2>2, <2>3 DEF ParseInv, Unread
        <5>2. Read + Len(input) + 1 = Read + i
          BY <2>2, <4>2
        <5> QED
          BY <2>1, <2>3, <2>4, <4>2, <5>1, <5>2
      <4> QED
        BY <2>2, <2>3, <4>1, <4>2
    <3>3. ASSUME NEW i \in 1 .. Len(wire') PROVE wire'[i] = stream'[Read' + Len(input') + i]
      <4>1. i + 1 \in 1 .. Len(wire) /\ Read + Len(input) + (i + 1) = Read + (Len(input) + 1) + i
        BY <2>2, <2>3
      <4>2. wire[i + 1] = stream[Read + Len(input) + (i + 1)]
        BY <4>1 DEF ParseInv, Unread
      <4> QED
        BY <2>1, <2>3, <2>4, <4>1, <4>2
    <3> QED
      BY <3>1, <3>2, <3>3 DEF Unread
  <2>6. Start' = Start
    BY <2>1, <2>4 DEF Start
  <2>7. HeardFrames' = HeardFrames /\ InHand' = InHand
    BY <2>1 DEF HeardFrames, InHand
  <2> QED
    BY <2>1, <2>5, <2>6, <2>7 DEF ParseInv, Parsed, HeardSoFar, LengthAt
<1>2. CASE DevTick \/ LoadEmpty \/ UNCHANGED vars
  <2>1. UNCHANGED <<stream, wire, input, state, inFrame, frame, heard>>
    BY <1>2 DEF DevTick, LoadEmpty, vars, port, rx
  <2>2. pc' = pc \/ (pc # "handler" /\ pc' # "handler")
    <3>1. CASE DevTick
      BY <3>1 DEF DevTick, CallInv, Calls
    <3>2. CASE LoadEmpty
      BY <3>2, ReturnCalls DEF LoadEmpty, CallInv
    <3>3. CASE UNCHANGED vars
      BY <3>3 DEF vars, call
    <3> QED
      BY <1>2, <3>1, <3>2, <3>3
  <2>3. Read' = Read /\ Start' = Start /\ HeardFrames' = HeardFrames /\ InHand' = InHand
    BY <2>1, <2>2 DEF Read, Start, HeardFrames, InHand
  <2> QED
    BY <2>1, <2>2, <2>3 DEF ParseInv, Unread, Parsed, HeardSoFar, LengthAt
<1> QED
  BY <1>1, <1>2, ParseHeader, ParsePartial, ParseFrame, ParseDone DEF Next, Load

\* Where the parser is when all is read, no frame is left.
LEMMA AllParsed ==
  FrameInv /\ CallInv /\ ParseInv /\ Drained => HeardFrames = From(stream)[1]
<1> SUFFICES ASSUME FrameInv, CallInv, ParseInv, Drained PROVE HeardFrames = From(stream)[1]
  OBVIOUS
<1>1. /\ stream \in Seq(Byte) /\ Len(stream) \in Nat /\ Read = Len(stream) /\ pc = "idle"
  BY ReadTypes DEF ParseInv, Drained, Read
<1>2. Start \in Position(stream)
  BY DEF ParseInv, Parsed
<1>3. From(stream)[Start] = << >>
  <2>1. CASE state # "RXFRAME"
    <3>1. Start >= Len(stream) - 1 /\ Start \in Nat
      BY <1>1, <1>2, <2>1 DEF Start, CallInv, Header, States, Position
    <3> QED
      BY <1>1, <1>2, <3>1, FromHeader
  <2>2. CASE state = "RXFRAME"
    <3> DEFINE p == Start
    <3>1. p = Len(stream) - Len(frame) - 2 /\ p \in Nat
      BY <1>1, <1>2, <2>2 DEF Start, Position
    <3>2. /\ stream[p] = SOF /\ stream[p + 1] # SOF /\ inFrame = LengthAt(stream, p)
          /\ ValidLength(inFrame) /\ inFrame \in Nat /\ Len(frame) <= inFrame
          /\ Len(frame) \in Nat
      BY <2>2 DEF ParseInv, Parsed, FrameInv, Bytes, Length
    <3> HIDE DEF p
    <3>3. p + 2 <= Len(stream) /\ p + 3 + inFrame > Len(stream)
      BY <1>1, <3>1, <3>2
    <3>4. From(stream)[p] = << >>
      BY <1>1, <1>2, <3>2, <3>3, FromFrame DEF p
    <3> QED
      BY <3>4 DEF p
  <2> QED
    BY <2>1, <2>2
<1>4. InHand = << >>
  BY <1>1 DEF InHand
<1>5. HeardFrames \o << >> \o << >> = HeardFrames
  BY HeardFramesType DEF Frames
<1> QED
  BY <1>1, <1>3, <1>4, <1>5, FromIs DEF ParseInv, HeardSoFar

(***************************************************************************)
(* The handlers hear exactly the frames of the stream and in its order,    *)
(* for every stream, however it is cut up on arrival and whatever the      *)
(* limit of frames per call of xbee_dev_tick.                              *)
(***************************************************************************)
THEOREM FramesHeard == Spec => []HeardExactly
<1>1. FrameInv /\ CallInv /\ ParseInv => HeardExactly
  BY AllParsed, FromIs DEF HeardExactly, CallInv
<1> QED
  BY FrameInit, FrameStep, CallInit, CallStep, ParseInit, ParseStep, <1>1, PTL DEF Spec

-----------------------------------------------------------------------------
(* Back in step.  The frames of a stream are those of any first part of it *)
(* and more; and the parser does not get past a position that nothing      *)
(* before disturbs.                                                        *)

LEMMA PartOf ==
  ASSUME NEW V, NEW a \in Seq(V), NEW b \in Seq(V)
  PROVE  IsPrefix(a, a \o b) /\ IsSuffix(b, a \o b)
<1> DEFINE c == a \o b
<1>1. /\ Len(a) \in Nat /\ Len(b) \in Nat /\ Len(c) = Len(a) + Len(b) /\ c \in Seq(V)
      /\ \A i \in 1 .. Len(a) : c[i] = a[i]
      /\ \A i \in 1 .. Len(b) : c[Len(a) + i] = b[i]
  OBVIOUS
<1> HIDE DEF c
<1>2. SubSeq(a, 1, Len(a)) = SubSeq(c, 1, Len(a))
  BY <1>1
<1> DEFINE r == Reverse(b)  rc == Reverse(c)
<1>3. r \in Seq(V) /\ Len(r) = Len(b) /\ \A i \in 1 .. Len(b) : r[i] = b[Len(b) - i + 1]
  <2>1. r = [i \in 1 .. Len(b) |-> b[Len(b) - i + 1]]
    BY DEF Reverse
  <2>2. \A i \in 1 .. Len(b) : b[Len(b) - i + 1] \in V
    BY <1>1
  <2> HIDE DEF r
  <2> QED
    BY <1>1, <2>1, <2>2
<1>4. rc \in Seq(V) /\ Len(rc) = Len(c) /\ \A i \in 1 .. Len(c) : rc[i] = c[Len(c) - i + 1]
  <2>1. rc = [i \in 1 .. Len(c) |-> c[Len(c) - i + 1]]
    BY DEF Reverse
  <2>2. \A i \in 1 .. Len(c) : c[Len(c) - i + 1] \in V
    BY <1>1
  <2> HIDE DEF rc
  <2> QED
    BY <1>1, <2>1, <2>2
<1> HIDE DEF r, rc
<1>5. ASSUME NEW i \in 1 .. Len(b)  PROVE r[i] = rc[i]
  <2>1. i \in 1 .. Len(c) /\ Len(b) - i + 1 \in 1 .. Len(b) /\ Len(c) - i + 1 = Len(a) + (Len(b) - i + 1)
    BY <1>1
  <2>2. c[Len(a) + (Len(b) - i + 1)] = b[Len(b) - i + 1]
    BY <1>1, <2>1
  <2> QED
    BY <1>3, <1>4, <2>1, <2>2
<1>6. SubSeq(r, 1, Len(r)) = SubSeq(rc, 1, Len(r))
  BY <1>1, <1>3, <1>4, <1>5
<1>7. Len(a) <= Len(c) /\ Len(r) <= Len(rc)
  BY <1>1, <1>3, <1>4
<1> QED
  BY <1>2, <1>6, <1>7 DEF IsPrefix, IsSuffix, c, r, rc

LEMMA FramesTogether ==
  ASSUME NEW a \in Frames, NEW b \in Frames, NEW c \in Frames
  PROVE  /\ a \o b \in Frames /\ (a \o b) \o c = a \o (b \o c)
         /\ << >> \in Frames /\ << >> \o c = c /\ c \o << >> = c
BY ConcatAssociative DEF Frames

\* A frame with a wrong checksum adds nothing.
Piece(s, p, len) ==
  IF Checksum(SubSeq(s, p + 3, p + 3 + len)) = 0 THEN <<SubSeq(s, p + 3, p + 2 + len)>> ELSE << >>

LEMMA PieceType ==
  ASSUME NEW s \in Seq(Byte), NEW p \in Nat \ {0}, NEW len \in Nat, p + 3 + len <= Len(s)
  PROVE  Piece(s, p, len) \in Frames
<1>1. \A i \in p + 3 .. p + 2 + len : s[i] \in Byte
  OBVIOUS
<1>2. SubSeq(s, p + 3, p + 2 + len) \in Seq(Byte)
  BY <1>1
<1> QED
  BY <1>2 DEF Piece, Frames

\* One turn of the recursion, from a position with a whole header.
Jump(s, p) ==
  IF s[p] # SOF \/ s[p + 1] = SOF THEN p + 1
  ELSE IF ~ValidLength(LengthAt(s, p)) THEN (IF s[p + 2] = SOF THEN p + 2 ELSE p + 3)
  ELSE p + 4 + LengthAt(s, p)

Gives(s, p) ==
  IF s[p] # SOF \/ s[p + 1] = SOF \/ ~ValidLength(LengthAt(s, p)) THEN << >>
  ELSE Piece(s, p, LengthAt(s, p))

LEMMA FromJump ==
  ASSUME NEW s \in Seq(Byte), NEW p \in Nat \ {0}, p + 2 <= Len(s)
  PROVE  /\ Jump(s, p) \in Nat /\ Jump(s, p) > p
         /\ Jump(s, p) > Len(s) + 1 => From(s)[p] = << >>
         /\ Jump(s, p) <= Len(s) + 1 =>
              /\ Jump(s, p) \in Position(s) /\ Gives(s, p) \in Frames
              /\ From(s)[p] = Gives(s, p) \o From(s)[Jump(s, p)]
<1> DEFINE f == From(s)  len == LengthAt(s, p)  j == Jump(s, p)
<1>1. p \in Position(s) /\ p \in 1 .. Len(s) /\ Len(s) \in Nat
  BY DEF Position
<1>2. len \in Nat
  BY <1>1, LengthType
<1>3. \A q \in Position(s) : f[q] \in Frames
  BY FromIs
<1>4. CASE s[p] # SOF \/ s[p + 1] = SOF
  <2>1. j = p + 1 /\ Gives(s, p) = << >>
    BY <1>4 DEF Jump, Gives
  <2>2. f[p] = f[p + 1] /\ p + 1 \in Position(s) /\ p + 1 <= Len(s) + 1
    BY <1>1, <1>4, FromHeader DEF Position
  <2>3. f[p + 1] = << >> \o f[p + 1] /\ << >> \in Frames
    BY <1>3, <2>2, FramesTogether
  <2> HIDE DEF f, j
  <2>4. /\ j \in Nat /\ j > p /\ j \in Position(s) /\ Gives(s, p) \in Frames
        /\ f[p] = Gives(s, p) \o f[j] /\ ~ (j > Len(s) + 1)
    BY <1>1, <2>1, <2>2, <2>3
  <2> QED
    BY <2>4 DEF f, j
<1>5. CASE s[p] = SOF /\ s[p + 1] # SOF /\ ~ValidLength(len)
  <2>1. j = (IF s[p + 2] = SOF THEN p + 2 ELSE p + 3) /\ Gives(s, p) = << >>
    BY <1>5 DEF Jump, Gives
  <2>2. f[p] = f[IF s[p + 2] = SOF THEN p + 2 ELSE p + 3]
    BY <1>1, <1>5, FromHeader
  <2> HIDE DEF f, j
  <2>3. f[p] = f[j]
    BY <2>1, <2>2
  <2>4. j \in Nat /\ j > p /\ j \in Position(s) /\ ~ (j > Len(s) + 1)
    BY <1>1, <2>1 DEF Position
  <2>5. f[j] = << >> \o f[j] /\ << >> \in Frames
    BY <1>3, <2>4, FramesTogether
  <2>6. Gives(s, p) \in Frames /\ f[p] = Gives(s, p) \o f[j]
    BY <2>1, <2>3, <2>5
  <2> QED
    BY <2>4, <2>6 DEF f, j
<1>6. CASE s[p] = SOF /\ s[p + 1] # SOF /\ ValidLength(len)
  <2>1. j = p + 4 + len /\ Gives(s, p) = Piece(s, p, len)
    BY <1>6 DEF Jump, Gives
  <2> HIDE DEF len
  <2>2. p + 3 + len > Len(s) => f[p] = << >>
    BY <1>1, <1>2, <1>6, FromFrame DEF len
  <2>3. p + 3 + len <= Len(s) => f[p] = Piece(s, p, len) \o f[p + 4 + len]
    BY <1>1, <1>2, <1>6, FromFrame DEF len, Piece
  <2>4. p + 3 + len <= Len(s) => Piece(s, p, len) \in Frames
    BY <1>1, <1>2, PieceType
  <2> HIDE DEF f, j
  <2>5. j \in Nat /\ j > p /\ (j > Len(s) + 1 => p + 3 + len > Len(s))
        /\ (j <= Len(s) + 1 => p + 3 + len <= Len(s) /\ j \in Position(s))
    BY <1>1, <1>2, <2>1 DEF Position
  <2>6. j > Len(s) + 1 => f[p] = << >>
    BY <2>2, <2>5
  <2>7. j <= Len(s) + 1 => Gives(s, p) \in Frames /\ f[p] = Gives(s, p) \o f[j]
    BY <2>1, <2>3, <2>4, <2>5
  <2> QED
    BY <2>5, <2>6, <2>7 DEF f, j
<1> QED
  BY <1>4, <1>5, <1>6

\* The parser comes to an undisturbed position from wherever it is before it.
LEMMA JumpsTo ==
  ASSUME NEW s \in Seq(Byte), NEW p \in Position(s), Undisturbed(s, p),
         NEW q \in 1 .. p - 1, q + 2 <= Len(s)
  PROVE  Jump(s, q) <= p
<1> DEFINE len == LengthAt(s, q)
<1>1. p \in Nat /\ q \in Nat /\ Len(s) \in Nat /\ p <= Len(s) + 1
  BY DEF Position
<1>2. len \in Nat
  BY <1>1, LengthType
<1>3. MaxFrameLen \in Nat /\ MaxFrameLen >= 2
  BY FrameLoadAssumption
<1>4. CASE s[q] # SOF
  BY <1>1, <1>4 DEF Jump
<1>5. CASE s[q] = SOF /\ q >= p - 3 - MaxFrameLen
  <2>1. FrameBetween(s, q, p)
    BY <1>5 DEF Undisturbed
  <2>2. s[q + 1] # SOF /\ ValidLength(len) /\ q + 4 + len <= p
    BY <2>1 DEF FrameBetween, LengthAt
  <2> QED
    BY <1>5, <2>2 DEF Jump
<1>6. CASE s[q] = SOF /\ q < p - 3 - MaxFrameLen
  <2>1. ValidLength(len) => len <= MaxFrameLen
    BY <1>2, <1>3 DEF ValidLength
  <2> HIDE DEF len
  <2>2. /\ ValidLength(len) => q + 4 + len <= p
        /\ q + 3 <= p
    BY <1>1, <1>2, <1>3, <1>6, <2>1
  <2> QED
    BY <1>1, <2>2 DEF Jump, len
<1> QED
  BY <1>1, <1>3, <1>4, <1>5, <1>6

LEMMA Reaches ==
  ASSUME NEW s \in Seq(Byte), NEW p \in Position(s), Undisturbed(s, p)
  PROVE  \E pre \in Frames : From(s)[1] = pre \o From(s)[p]
<1> DEFINE f == From(s)
           Leads(q) == \E pre \in Frames : f[q] = pre \o f[p]
           S == {k \in 0 .. p - 1 : \A q \in 1 .. p : q >= p - k => Leads(q)}
<1>1. p \in Nat /\ p >= 1 /\ Len(s) \in Nat /\ p <= Len(s) + 1
  BY DEF Position
<1>2. \A q \in Position(s) : f[q] \in Frames
  BY FromIs
<1>3. \A q \in 1 .. p : q \in Position(s)
  BY <1>1 DEF Position
<1>4. Leads(p)
  BY <1>2, FramesTogether
<1>5. 0 \in S
  <2>1. \A q \in 1 .. p : q >= p - 0 => q = p
    BY <1>1
  <2> HIDE DEF Leads
  <2> QED
    BY <1>1, <1>4, <2>1
<1>6. ASSUME NEW k \in 1 .. p - 1, k - 1 \in S  PROVE k \in S
  <2> DEFINE q == p - k
  <2>1. q \in 1 .. p - 1 /\ q \in Nat \ {0}
    BY <1>1
  <2>2. \A r \in 1 .. p : r > q => Leads(r)
    <3> HIDE DEF Leads
    <3> QED
      BY <1>1, <1>6
  <2> HIDE DEF q
  <2>3. ASSUME q + 2 > Len(s)  PROVE Leads(q)
    <3>1. f[q] = << >> /\ f[p] = << >>
      BY <1>1, <1>3, <2>1, <2>3, FromHeader
    <3> HIDE DEF f
    <3>2. << >> \in Frames
      BY DEF Frames
    <3>3. << >> = << >> \o << >>
      BY <3>2, FramesTogether
    <3> QED
      BY <3>1, <3>2, <3>3, Zenon
  <2>4. ASSUME q + 2 <= Len(s)  PROVE Leads(q)
    <3> DEFINE j == Jump(s, q)
    <3>1. j \in Nat /\ j > q /\ j <= p
      BY <2>1, <2>4, FromJump, JumpsTo
    <3>2. Gives(s, q) \in Frames /\ f[q] = Gives(s, q) \o f[j] /\ j \in Position(s)
      BY <1>1, <2>1, <2>4, <3>1, FromJump
    <3> HIDE DEF j
    <3>3. j \in 1 .. p
      BY <1>1, <2>1, <3>1
    <3>4. PICK pre \in Frames : f[j] = pre \o f[p]
      BY <2>2, <3>1, <3>3
    <3>5. f[p] \in Frames
      BY <1>1, <1>2
    <3> DEFINE a == Gives(s, q)  c == f[p]  both == a \o pre
    <3>6. f[q] = both \o c /\ both \in Frames
      <4> HIDE DEF f
      <4>1. f[q] = a \o (pre \o c)
        BY <3>2, <3>4
      <4> QED
        BY <3>2, <3>4, <3>5, <4>1, FramesTogether, Zenon
    <3> HIDE DEF both
    <3> QED
      BY <3>6
  <2>5. Leads(q)
    <3> HIDE DEF Leads
    <3> QED
      BY <1>1, <2>1, <2>3, <2>4
  <2>6. \A r \in 1 .. p : r >= p - k => r = q \/ r > q
    BY <1>1 DEF q
  <2> HIDE DEF Leads
  <2> QED
    BY <1>1, <2>2, <2>5, <2>6
<1>7. p - 1 \in S
  <2> HIDE DEF S
  <2>1. \A k \in 0 .. p - 1 : k \in S
    <3> DEFINE n == p - 1
    <3>1. n \in Nat /\ 0 \in S /\ \A k \in 1 .. n : k - 1 \in S => k \in S
      BY <1>1, <1>5, <1>6
    <3> HIDE DEF n
    <3>2. \A k \in 0 .. n : k \in S
      BY <3>1, UpTo
    <3> QED
      BY <3>2 DEF n
  <2> QED
    BY <1>1, <2>1
<1>8. Leads(1)
  <2> HIDE DEF Leads
  <2> QED
    BY <1>1, <1>7
<1> QED
  BY <1>8

\* What a turn of the recursion looks at lies before the position it goes on from.
LEMMA JumpSame ==
  ASSUME NEW s \in Seq(Byte), NEW t \in Seq(Byte), Len(t) <= Len(s),
         \A i \in 1 .. Len(t) : t[i] = s[i],
         NEW q \in Nat \ {0}, q + 2 <= Len(t)
  PROVE  /\ Jump(t, q) = Jump(s, q)
         /\ Jump(t, q) <= Len(t) + 1 => Gives(t, q) = Gives(s, q)
<1>1. t[q] = s[q] /\ t[q + 1] = s[q + 1] /\ t[q + 2] = s[q + 2]
  <2>1. q \in 1 .. Len(t) /\ q + 1 \in 1 .. Len(t) /\ q + 2 \in 1 .. Len(t)
    OBVIOUS
  <2> QED
    BY <2>1
<1>2. LengthAt(t, q) = LengthAt(s, q)
  BY <1>1 DEF LengthAt
<1>3. Jump(t, q) = Jump(s, q)
  BY <1>1, <1>2 DEF Jump
<1> DEFINE len == LengthAt(t, q)
<1>4. len \in Nat
  <2>1. q \in 1 .. Len(t)
    OBVIOUS
  <2> QED
    BY <2>1, LengthType
<1>5. ASSUME Jump(t, q) <= Len(t) + 1, ~ (t[q] # SOF \/ t[q + 1] = SOF \/ ~ValidLength(len))
      PROVE  Piece(t, q, len) = Piece(s, q, len)
  <2>1. Jump(t, q) = q + 4 + len
    BY <1>5 DEF Jump
  <2> HIDE DEF len
  <2>2. q + 3 + len <= Len(t)
    BY <1>4, <1>5, <2>1
  <2>3. \A i \in q + 3 .. q + 3 + len : t[i] = s[i]
    BY <1>4, <2>2
  <2>4. SubSeq(t, q + 3, q + 3 + len) = SubSeq(s, q + 3, q + 3 + len)
    BY <1>4, <2>2, <2>3
  <2>5. SubSeq(t, q + 3, q + 2 + len) = SubSeq(s, q + 3, q + 2 + len)
    BY <1>4, <2>2, <2>3
  <2> QED
    BY <2>4, <2>5 DEF Piece
<1>6. Jump(t, q) <= Len(t) + 1 => Gives(t, q) = Gives(s, q)
  BY <1>1, <1>2, <1>5 DEF Gives
<1> QED
  BY <1>3, <1>6

\* What comes behind only adds frames.
LEMMA Begins ==
  ASSUME NEW s \in Seq(Byte), NEW n \in 0 .. Len(s)
  PROVE  \E rest \in Frames : From(s)[1] = From(SubSeq(s, 1, n))[1] \o rest
<1> DEFINE t == SubSeq(s, 1, n)  f == From(s)  g == From(t)  m == n + 1
           Longer(q) == \E rest \in Frames : f[q] = g[q] \o rest
           S == {k \in 0 .. m : \A q \in 1 .. m : q >= m - k => Longer(q)}
<1>1. n \in Nat /\ m \in Nat /\ m = n + 1 /\ Len(s) \in Nat /\ n <= Len(s)
  OBVIOUS
<1>2. t \in Seq(Byte) /\ Len(t) = n /\ \A i \in 1 .. n : t[i] = s[i]
  OBVIOUS
<1> HIDE DEF t
<1>3. \A q \in 1 .. m : q \in Position(s) /\ q \in Position(t)
  BY <1>1, <1>2 DEF Position
<1>4. \A q \in 1 .. m : f[q] \in Frames /\ g[q] \in Frames
  BY <1>2, <1>3, FromIs
<1>5. ASSUME NEW q \in 1 .. m, g[q] = << >>  PROVE Longer(q)
  <2> HIDE DEF f, g
  <2>1. f[q] = << >> \o f[q] /\ f[q] \in Frames
    BY <1>4, FramesTogether
  <2> QED
    BY <1>5, <2>1
<1>6. ASSUME NEW q \in 1 .. m, q + 2 > n  PROVE Longer(q)
  <2>1. g[q] = << >>
    BY <1>2, <1>3, <1>6, FromHeader
  <2> HIDE DEF Longer
  <2> QED
    BY <1>5, <2>1
<1>7. ASSUME NEW q \in 1 .. m, q + 2 <= n, \A r \in 1 .. m : r > q => Longer(r)
      PROVE  Longer(q)
  <2> DEFINE j == Jump(t, q)  a == Gives(t, q)
  <2>1. q \in Nat \ {0} /\ q + 2 <= Len(t) /\ q + 2 <= Len(s) /\ Len(t) <= Len(s)
    BY <1>1, <1>2, <1>7
  <2>2. Jump(s, q) = j /\ (j <= m => Gives(s, q) = a)
    BY <1>1, <1>2, <2>1, JumpSame
  <2>3. /\ j \in Nat /\ j > q /\ (j > m => g[q] = << >>)
        /\ j <= m => a \in Frames /\ g[q] = a \o g[j]
    BY <1>1, <1>2, <2>1, FromJump
  <2>4. j <= m => f[q] = a \o f[j]
    <3>1. Jump(s, q) <= Len(s) + 1 => f[q] = Gives(s, q) \o f[Jump(s, q)]
      BY <2>1, FromJump
    <3> HIDE DEF f, j, a
    <3>2. j <= m => j <= Len(s) + 1
      BY <1>1, <2>3
    <3> QED
      BY <2>2, <3>1, <3>2
  <2> HIDE DEF j, a
  <2>5. CASE j > m
    <3> HIDE DEF Longer
    <3> QED
      BY <1>5, <2>3, <2>5
  <2>6. CASE j <= m
    <3>1. j \in 1 .. m
      BY <1>1, <2>3, <2>6
    <3>2. PICK rest \in Frames : f[j] = g[j] \o rest
      BY <1>7, <2>3, <3>1
    <3>3. g[j] \in Frames
      BY <1>4, <3>1
    <3> HIDE DEF f, g
    <3>4. f[q] = (a \o g[j]) \o rest
      <4>1. f[q] = a \o (g[j] \o rest)
        BY <2>4, <2>6, <3>2
      <4> QED
        BY <2>3, <2>6, <3>2, <3>3, <4>1, FramesTogether
    <3>5. f[q] = g[q] \o rest
      BY <2>3, <2>6, <3>4
    <3> QED
      BY <3>2, <3>5
  <2>7. j > m \/ j <= m
    BY <1>1, <2>3
  <2> HIDE DEF Longer, m
  <2> QED
    BY <2>5, <2>6, <2>7
<1>8. 0 \in S
  <2>1. \A q \in 1 .. m : q >= m - 0 => q + 2 > n
    BY <1>1
  <2> HIDE DEF Longer
  <2> QED
    BY <1>1, <1>6, <2>1
<1>9. ASSUME NEW k \in 1 .. m, k - 1 \in S  PROVE k \in S
  <2> SUFFICES ASSUME NEW q \in 1 .. m, q >= m - k  PROVE Longer(q)
    BY <1>1
  <2> HIDE DEF Longer
  <2>1. \A r \in 1 .. m : r > q => Longer(r)
    <3>1. \A r \in 1 .. m : r > q => r >= m - (k - 1)
      BY <1>1
    <3> QED
      BY <1>9, <3>1
  <2>2. q + 2 > n \/ q + 2 <= n
    BY <1>1
  <2> QED
    BY <1>6, <1>7, <2>1, <2>2
<1>10. m \in S
  <2> HIDE DEF S, m
  <2>1. \A k \in 0 .. m : k \in S
    BY <1>1, <1>8, <1>9, UpTo
  <2> QED
    BY <1>1, <2>1
<1>11. Longer(1)
  <2> HIDE DEF Longer
  <2>1. 1 \in 1 .. m /\ 1 >= m - m
    BY <1>1
  <2>2. \A q \in 1 .. m : q >= m - m => Longer(q)
    BY <1>10
  <2> QED
    BY <2>1, <2>2
<1> QED
  BY <1>11 DEF t

(***************************************************************************)
(* The frames of every first part of the stream are heard, whatever comes  *)
(* behind it, and those of everything behind a position that nothing       *)
(* before disturbs: a parser that lost a byte is back in step there.       *)
(***************************************************************************)
THEOREM BackInStepAgain == Spec => []BackInStep
<1>1. FrameInv /\ CallInv /\ ParseInv => BackInStep
  <2> SUFFICES ASSUME FrameInv, CallInv, ParseInv, Drained,
                      NEW p \in 1 .. Len(stream) + 1
               PROVE  /\ IsPrefix(FramesOf(SubSeq(stream, 1, p - 1)), HeardFrames)
                      /\ Undisturbed(stream, p) => IsSuffix(FramesAfter(stream, p), HeardFrames)
    BY DEF BackInStep
  <2> DEFINE s == stream  f == From(s)  t == SubSeq(s, 1, p - 1)
  <2>1. s \in Seq(Byte) /\ Len(s) \in Nat /\ p \in Position(s) /\ p - 1 \in 0 .. Len(s)
    BY DEF CallInv, Position
  <2>2. HeardFrames = f[1] /\ HeardFrames \in Frames
    BY AllParsed, HeardFramesType
  <2>3. IsPrefix(FramesOf(t), HeardFrames)
    <3>1. t \in Seq(Byte) /\ 1 \in Position(t)
      BY <2>1 DEF Position
    <3>2. PICK rest \in Frames : f[1] = From(t)[1] \o rest
      BY <2>1, Begins
    <3> HIDE DEF t, f
    <3>3. FramesOf(t) = From(t)[1] /\ From(t)[1] \in Frames
      BY <3>1, FromIs
    <3> QED
      BY <2>2, <3>2, <3>3, PartOf DEF Frames
  <2>4. ASSUME Undisturbed(s, p)  PROVE IsSuffix(FramesAfter(s, p), HeardFrames)
    <3>1. PICK pre \in Frames : f[1] = pre \o f[p]
      BY <2>1, <2>4, Reaches
    <3>2. FramesAfter(s, p) = f[p] /\ f[p] \in Frames
      BY <2>1, FromIs
    <3> HIDE DEF f
    <3> QED
      BY <2>2, <3>1, <3>2, PartOf DEF Frames
  <2> QED
    BY <2>3, <2>4
<1> QED
  BY FrameInit, FrameStep, CallInit, CallStep, ParseInit, ParseStep, <1>1, PTL DEF Spec
============================================================================
