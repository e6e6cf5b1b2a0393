---------------------------- MODULE SerialRxProofs ----------------------------
(***************************************************************************)
(* The RTS handshake of SerialRx is lossless, and its ring a bounded FIFO, *)
(* for every ring size and every margin that SerialRxAssumption and        *)
(* MarginAssumption allow.                                                 *)
(***************************************************************************)
EXTENDS SerialRx, SequenceTheorems, TLAPS

Room    == Free(head, tail)
Pending == IF sci = NoByte THEN 0 ELSE 1

Opening == {"open", "open_store", "open_free"}
Arming  == {"set_pin", "rts_load", "rts_store"}
Reading == {"get", "copy", "advance", "check", "free"}

(***************************************************************************)
(* Where the driver is fixes what the pin and the two bits of _flags may   *)
(* say, and what xbee_cbuf_get may rely on.                                *)
(***************************************************************************)
Control ==
  /\ pc \in {"open", "open_store"} => ~flow
  /\ pc \notin {"open", "open_store"} => flow
  /\ pc \in Opening => pin /\ ~rts
  /\ pc = "open_store" => flags = <<TRUE, FALSE>>
  /\ pc \in Arming => ~rts /\ arm
  /\ pc \in {"rts_load", "rts_store"} => pin
  /\ pc = "rts_store" => flags = <<TRUE, TRUE>>
  /\ pc \in Reading \cup {"idle"} => pin = rts
  /\ pc = "free" => ~rts
  /\ pc \in {"copy", "advance"} => copy > 0 /\ head # tail

(***************************************************************************)
(* The room that is left in the ring, seen from each place of the driver:  *)
(* enough for what a radio held off may still send; enough for that and a  *)
(* call's interrupts while the handler is armed; and, on the way there,    *)
(* what was seen free or freed when the call tested it, less the           *)
(* interrupts since.                                                       *)
(***************************************************************************)
Margin ==
  /\ ~pin => Room >= credit + Pending
  /\ flow /\ rts => Room + Burst >= AssertBytes
  /\ pc \in Opening => Room + arrived >= Mask
  /\ pc \in Arming => Room + arrived >= AssertBytes
  /\ pc \in Reading => Room + arrived >= got

IInv == TypeOK /\ Control /\ Margin /\ NoDrop
-----------------------------------------------------------------------------
(* The ring operators *)

\* Indices stay in the ring, and the room in it is at most Mask.
LEMMA RingType ==
  ASSUME NEW h \in Slots, NEW t \in Slots
  PROVE  Wrap(h) \in Slots /\ Free(h, t) \in 0 .. Mask
BY SerialRxAssumption DEF Slots, Wrap, Free, Used

\* A byte put takes one place; the ring is full when the next index is head.
LEMMA RoomPut ==
  ASSUME NEW h \in Slots, NEW t \in Slots
  PROVE  /\ Wrap(t) = h <=> Free(h, t) = 0
         /\ Wrap(t) # h => Free(h, Wrap(t)) = Free(h, t) - 1
BY SerialRxAssumption DEF Slots, Wrap, Free, Used

\* A byte taken gives one place back, and an empty ring has room for Mask.
LEMMA RoomTake ==
  ASSUME NEW h \in Slots, NEW t \in Slots
  PROVE  /\ h # t => Free(Wrap(h), t) = Free(h, t) + 1
         /\ Free(t, t) = Mask
BY SerialRxAssumption DEF Slots, Wrap, Free, Used
-----------------------------------------------------------------------------
(* The invariant *)

LEMMA InitInv == Init => IInv
<1> SUFFICES ASSUME Init PROVE IInv
  OBVIOUS
<1>1. TypeOK
  <2>1. flags \in BOOLEAN \X BOOLEAN
    BY DEF Init, NoCopy
  <2>2. data \in [Slots -> Byte \cup {NoByte}]
    BY DEF Init
  <2>3. pc = "open" /\ dropped = {}
    BY DEF Init
  <2>4. /\ sent \in 0 .. MaxBytes /\ credit \in 0 .. Slack
        /\ head \in Slots /\ tail \in Slots
        /\ copy \in Nat /\ got \in Nat /\ arrived \in 0 .. Burst
    BY SerialRxAssumption DEF Init, Slots
  <2>5. /\ sci \in Byte \cup {NoByte} /\ last \in Byte \cup {NoByte}
        /\ masked \in BOOLEAN /\ arm \in BOOLEAN
        /\ flow \in BOOLEAN /\ rts \in BOOLEAN /\ pin \in BOOLEAN
    BY DEF Init
  <2> QED
    BY <2>1, <2>2, <2>3, <2>4, <2>5 DEF TypeOK
<1>2. Control
  BY DEF Init, Control, Opening, Arming, Reading
<1>3. Room = Mask
  BY RoomTake, SerialRxAssumption DEF Init, Room, Slots
<1>4. Margin
  BY <1>3, SerialRxAssumption DEF Init, Margin, Opening, Arming, Reading
<1> QED
  BY <1>1, <1>2, <1>4 DEF Init, IInv, NoDrop

\* The room in the ring is a number, and stays when the indices do.
LEMMA RoomType ==
  ASSUME TypeOK
  PROVE  Room \in 0 .. Mask /\ ((head' = head /\ tail' = tail) => Room' = Room)
BY RingType DEF TypeOK, Room

(***************************************************************************)
(* The radio and the mask.  Only the radio's byte counts: it uses up       *)
(* credit, or it finds the handler armed or the driver opening or arming.  *)
(***************************************************************************)
LEMMA RadioInv == IInv /\ RadioSend => IInv'
<1> SUFFICES ASSUME IInv, RadioSend PROVE IInv'
  OBVIOUS
<1> USE SerialRxAssumption DEF IInv
<1>1. TypeOK'
  BY DEF RadioSend, TypeOK, Byte, NoByte, Slots, ring, rtsVars, local, hist
<1>2. Control'
  BY DEF RadioSend, Control, Opening, Arming, Reading, ring, rtsVars, local
<1>3. Room' = Room /\ Room \in 0 .. Mask
  BY RoomType DEF RadioSend, ring
<1>4. Margin'
  BY <1>3
      DEF RadioSend, TypeOK, Margin, Pending, NoByte, Opening, Arming, Reading,
          rtsVars, local
<1> QED
  BY <1>1, <1>2, <1>4 DEF RadioSend, NoDrop, hist

LEMMA MaskInv == IInv /\ (RtcIsrEnter \/ RtcIsrLeave) => IInv'
<1> SUFFICES ASSUME IInv, RtcIsrEnter \/ RtcIsrLeave PROVE IInv'
  OBVIOUS
<1> USE DEF IInv
<1>1. masked' \in BOOLEAN
  BY DEF RtcIsrEnter, RtcIsrLeave
<1>2. UNCHANGED <<wire, sci, ring, rtsVars, local, arrived, hist>>
  BY DEF RtcIsrEnter, RtcIsrLeave
<1>3. TypeOK'
  BY <1>1, <1>2 DEF TypeOK, wire, ring, rtsVars, local, hist
<1>4. Control'
  BY <1>2 DEF Control, ring, rtsVars, local
<1>5. Room' = Room
  BY <1>2, RoomType DEF ring
<1>6. Margin'
  BY <1>2, <1>5 DEF Margin, Pending, wire, rtsVars, local
<1> QED
  BY <1>2, <1>3, <1>4, <1>6 DEF NoDrop, hist

(***************************************************************************)
(* radio_uart_isr.  Whatever the main loop is doing, there is room for the *)
(* byte; and if the handler deasserts RTS it has room for Slack more.      *)
(***************************************************************************)
LEMMA IsrInv == IInv /\ RadioUartIsr => IInv'
<1> SUFFICES ASSUME IInv, RadioUartIsr PROVE IInv'
  OBVIOUS
<1> USE SerialRxAssumption, MarginAssumption DEF IInv
<1>1. Room \in 0 .. Mask
  BY RoomType
<1>2. Room > 0
  <2>1. CASE ~pin
    BY <1>1, <2>1 DEF RadioUartIsr, TypeOK, Margin, Pending
  <2>2. CASE pin /\ pc \in Opening \cup Arming
    BY <1>1, <2>2 DEF RadioUartIsr, TypeOK, Margin, Opening, Arming
  <2>3. CASE pin /\ pc \in Reading \cup {"idle"}
    <3>1. flow /\ rts
      BY <2>3 DEF Control, Reading
    <3> QED
      BY <1>1, <3>1 DEF Margin
  <2>4. pc \in Opening \cup Arming \cup Reading \cup {"idle"}
    BY DEF TypeOK, Opening, Arming, Reading
  <2> QED
    BY <2>1, <2>2, <2>3, <2>4
<1>3. /\ tail' = Wrap(tail) /\ head' = head /\ dropped' = dropped
      /\ Wrap(tail) # head
      /\ Room' = Room - 1
  BY <1>1, <1>2, RoomPut DEF RadioUartIsr, Putch, TypeOK, Room
<1>4. TypeOK'
  <2>1. data' \in [Slots -> Byte \cup {NoByte}]
    BY DEF RadioUartIsr, Putch, TypeOK
  <2>2. tail' \in Slots
    BY <1>3, RingType DEF TypeOK
  <2>3. arrived' \in 0 .. Burst
    BY DEF RadioUartIsr, TypeOK
  <2>4. credit' \in 0 .. Slack
    BY DEF RadioUartIsr, TypeOK
  <2>5. rts' \in BOOLEAN /\ pin' \in BOOLEAN
    BY DEF RadioUartIsr, TypeOK
  <2> QED
    BY <1>3, <2>1, <2>2, <2>3, <2>4, <2>5 DEF RadioUartIsr, TypeOK, local
<1>5. Control'
  BY <1>3 DEF RadioUartIsr, Control, Opening, Arming, Reading, TypeOK, local
<1>6. Margin'
  <2>1. CASE flow /\ rts /\ Room' < AssertBytes
    BY <1>1, <1>3, <2>1
    DEF RadioUartIsr, TypeOK, Margin, Control, Room, Pending, Opening, Arming, Reading,
        local
  <2>2. CASE ~(flow /\ rts /\ Room' < AssertBytes)
    BY <1>1, <1>3, <2>2
    DEF RadioUartIsr, TypeOK, Margin, Control, Room, Pending, Opening, Arming, Reading,
        local
  <2> QED
    BY <2>1, <2>2
<1> QED
  BY <1>3, <1>4, <1>5, <1>6 DEF NoDrop

(***************************************************************************)
(* Opening the port and setting RTS.  The window from the test of the free *)
(* space to the store of _flags is what Burst has to cover.                *)
(***************************************************************************)
LEMMA OpenInv == IInv /\ (OpenLoad \/ OpenStore \/ OpenFree \/ SetRtsPin \/ SetRtsLoad \/ SetRtsStore) => IInv'
<1> SUFFICES ASSUME IInv,
    OpenLoad \/ OpenStore \/ OpenFree \/ SetRtsPin \/ SetRtsLoad \/ SetRtsStore PROVE IInv'
  OBVIOUS
<1> USE SerialRxAssumption DEF IInv
<1>1. ASSUME OpenLoad PROVE IInv'
  <2>1. TypeOK'
    BY <1>1 DEF OpenLoad, Goto, TypeOK, wire, ring, rtsVars, local, hist
  <2>2. Control'
    <3>1. pc = "open" /\ pc' = "open_store" /\ ~flow /\ ~rts /\ pin
      BY <1>1 DEF OpenLoad, Goto, Control, Opening
    <3>2. flags' = <<TRUE, FALSE>>
      BY <1>1, <3>1 DEF OpenLoad, TypeOK
    <3> QED
      BY <1>1, <3>1, <3>2 DEF OpenLoad, Control, Opening, Arming, Reading, ring, rtsVars
  <2>3. Room' = Room
    BY <1>1, RoomType DEF OpenLoad, ring
  <2>4. Margin'
    BY <1>1, <2>3, RoomType
        DEF OpenLoad, Goto, TypeOK, Margin, Control, Room, Pending, Opening, Arming,
            Reading, wire, rtsVars, local
  <2> QED
    BY <1>1, <2>1, <2>2, <2>4 DEF OpenLoad, NoDrop, hist
<1>2. ASSUME OpenStore PROVE IInv'
  <2>0. pc = "open_store" /\ pc' = "open_free" /\ flow' = TRUE /\ rts' = FALSE /\ flags' = NoCopy
    <3>1. pc = "open_store" /\ pc' = "open_free" /\ flags' = NoCopy
      BY <1>2 DEF OpenStore, Goto
    <3>2. flags = <<TRUE, FALSE>>
      BY <3>1 DEF Control
    <3>3. flow' = flags[1] /\ rts' = flags[2]
      BY <1>2 DEF OpenStore
    <3> QED
      BY <3>1, <3>2, <3>3
  <2>1. TypeOK'
    <3>1. flags' \in BOOLEAN \X BOOLEAN
      BY <2>0 DEF NoCopy
    <3> QED
      BY <1>2, <2>0, <3>1 DEF OpenStore, TypeOK, wire, ring, hist
  <2>2. Control'
    <3>1. pin' = pin /\ pin = TRUE /\ arm' = arm
      BY <1>2, <2>0 DEF OpenStore, Control, Opening, TypeOK
    <3> QED
      BY <2>0, <3>1 DEF Control, Opening, Arming, Reading
  <2>3. Room' = Room
    BY <1>2, RoomType DEF OpenStore, ring
  <2>4. Margin'
    BY <1>2, <2>3, RoomType
        DEF OpenStore, Goto, TypeOK, Margin, Control, Room, Pending, Opening, Arming,
            Reading, wire, rtsVars, local
  <2> QED
    BY <1>2, <2>1, <2>2, <2>4 DEF OpenStore, NoDrop, hist
<1>3. ASSUME OpenFree PROVE IInv'
  <2>1. TypeOK'
    BY <1>3 DEF OpenFree, Goto, TypeOK, wire, ring, rtsVars, local, hist
  <2>2. Control'
    <3>1. Room >= AssertBytes
      BY <1>3, RoomType DEF OpenFree, Goto, TypeOK, Margin, Opening
    <3>2. arm' = TRUE
      BY <1>3, <3>1 DEF OpenFree, Room
    <3> QED
      BY <1>3, <3>2 DEF OpenFree, Goto, Control, Opening, Arming, Reading, ring, rtsVars
  <2>3. Room' = Room
    BY <1>3, RoomType DEF OpenFree, ring
  <2>4. Margin'
    BY <1>3, <2>3, RoomType
        DEF OpenFree, Goto, TypeOK, Margin, Control, Room, Pending, Opening, Arming,
            Reading, wire, rtsVars, local
  <2> QED
    BY <1>3, <2>1, <2>2, <2>4 DEF OpenFree, NoDrop, hist
<1>4. ASSUME SetRtsPin PROVE IInv'
  <2>1. TypeOK'
    BY <1>4 DEF SetRtsPin, Goto, TypeOK, wire, ring, rtsVars, local, hist
  <2>2. Control'
    BY <1>4 DEF SetRtsPin, Goto, Control, Opening, Arming, Reading, ring, rtsVars, local
  <2>3. Room' = Room
    BY <1>4, RoomType DEF SetRtsPin, ring
  <2>4. Margin'
    BY <1>4, <2>3, RoomType
        DEF SetRtsPin, Goto, TypeOK, Margin, Control, Room, Pending, Opening, Arming,
            Reading, wire, rtsVars, local
  <2> QED
    BY <1>4, <2>1, <2>2, <2>4 DEF SetRtsPin, NoDrop, hist
<1>5. ASSUME SetRtsLoad PROVE IInv'
  <2>1. TypeOK'
    BY <1>5 DEF SetRtsLoad, Goto, TypeOK, wire, ring, rtsVars, local, hist
  <2>2. Control'
    BY <1>5 DEF SetRtsLoad, Goto, Control, Opening, Arming, Reading, ring, rtsVars, local
  <2>3. Room' = Room
    BY <1>5, RoomType DEF SetRtsLoad, ring
  <2>4. Margin'
    BY <1>5, <2>3, RoomType
        DEF SetRtsLoad, Goto, TypeOK, Margin, Control, Room, Pending, Opening, Arming,
            Reading, wire, rtsVars, local
  <2> QED
    BY <1>5, <2>1, <2>2, <2>4 DEF SetRtsLoad, NoDrop, hist
<1>6. ASSUME SetRtsStore PROVE IInv'
  <2>0. pc = "rts_store" /\ pc' = "idle" /\ flow' = TRUE /\ rts' = TRUE /\ flags' = NoCopy
    <3>1. pc = "rts_store" /\ pc' = "idle" /\ flags' = NoCopy
      BY <1>6 DEF SetRtsStore, Goto
    <3>2. flags = <<TRUE, TRUE>>
      BY <3>1 DEF Control
    <3>3. flow' = flags[1] /\ rts' = flags[2]
      BY <1>6 DEF SetRtsStore
    <3> QED
      BY <3>1, <3>2, <3>3
  <2>1. TypeOK'
    <3>1. flags' \in BOOLEAN \X BOOLEAN
      BY <2>0 DEF NoCopy
    <3> QED
      BY <1>6, <2>0, <3>1 DEF SetRtsStore, TypeOK, wire, ring, hist
  <2>2. Control'
    <3>1. pin' = pin /\ pin = TRUE /\ arm' = arm
      BY <1>6, <2>0 DEF SetRtsStore, Control, Opening, TypeOK
    <3> QED
      BY <2>0, <3>1 DEF Control, Opening, Arming, Reading
  <2>3. Room' = Room
    BY <1>6, RoomType DEF SetRtsStore, ring
  <2>4. Margin'
    BY <1>6, <2>3, RoomType
        DEF SetRtsStore, Goto, TypeOK, Margin, Control, Room, Pending, Opening, Arming,
            Reading, wire, rtsVars, local
  <2> QED
    BY <1>6, <2>1, <2>2, <2>4 DEF SetRtsStore, NoDrop, hist
<1> QED
  BY <1>1, <1>2, <1>3, <1>4, <1>5, <1>6

\* The steps of xbee_ser_read that only look.
LEMMA LookInv == IInv /\ (GetMore \/ GetCopy \/ GetDone \/ CheckEnough \/ CheckFree \/ CheckNone \/ FreeEnough \/ FreeShort) => IInv'
<1> SUFFICES ASSUME IInv,
    GetMore \/ GetCopy \/ GetDone \/ CheckEnough \/ CheckFree \/ CheckNone \/ FreeEnough \/ FreeShort PROVE IInv'
  OBVIOUS
<1> USE SerialRxAssumption DEF IInv
<1>1. ASSUME GetMore PROVE IInv'
  <2>1. TypeOK'
    BY <1>1 DEF GetMore, Goto, TypeOK, wire, ring, rtsVars, local, hist
  <2>2. Control'
    BY <1>1 DEF GetMore, Goto, Control, Opening, Arming, Reading, ring, rtsVars, local
  <2>3. Room' = Room
    BY <1>1, RoomType DEF GetMore, ring
  <2>4. Margin'
    BY <1>1, <2>3, RoomType
        DEF GetMore, Goto, TypeOK, Margin, Control, Room, Pending, Opening, Arming,
            Reading, wire, rtsVars, local
  <2> QED
    BY <1>1, <2>1, <2>2, <2>4 DEF GetMore, NoDrop, hist
<1>2. ASSUME GetCopy PROVE IInv'
  <2>1. TypeOK'
    BY <1>2 DEF GetCopy, Goto, TypeOK, wire, ring, rtsVars, local, hist
  <2>2. Control'
    BY <1>2 DEF GetCopy, Goto, Control, Opening, Arming, Reading, ring, rtsVars, local
  <2>3. Room' = Room
    BY <1>2, RoomType DEF GetCopy, ring
  <2>4. Margin'
    BY <1>2, <2>3, RoomType
        DEF GetCopy, Goto, TypeOK, Margin, Control, Room, Pending, Opening, Arming,
            Reading, wire, rtsVars, local
  <2> QED
    BY <1>2, <2>1, <2>2, <2>4 DEF GetCopy, NoDrop, hist
<1>3. ASSUME GetDone PROVE IInv'
  <2>1. TypeOK'
    BY <1>3 DEF GetDone, Goto, TypeOK, wire, ring, rtsVars, local, hist
  <2>2. Control'
    BY <1>3 DEF GetDone, Goto, Control, Opening, Arming, Reading, ring, rtsVars, local
  <2>3. Room' = Room
    BY <1>3, RoomType DEF GetDone, ring
  <2>4. Margin'
    BY <1>3, <2>3, RoomType
        DEF GetDone, Goto, TypeOK, Margin, Control, Room, Pending, Opening, Arming,
            Reading, wire, rtsVars, local
  <2> QED
    BY <1>3, <2>1, <2>2, <2>4 DEF GetDone, NoDrop, hist
<1>4. ASSUME CheckEnough PROVE IInv'
  <2>1. TypeOK'
    BY <1>4 DEF CheckEnough, Goto, TypeOK, wire, ring, rtsVars, local, hist
  <2>2. Control'
    BY <1>4 DEF CheckEnough, Goto, Control, Opening, Arming, Reading, ring, rtsVars, local
  <2>3. Room' = Room
    BY <1>4, RoomType DEF CheckEnough, ring
  <2>4. Margin'
    BY <1>4, <2>3, RoomType
        DEF CheckEnough, Goto, TypeOK, Margin, Control, Room, Pending, Opening, Arming,
            Reading, wire, rtsVars, local
  <2> QED
    BY <1>4, <2>1, <2>2, <2>4 DEF CheckEnough, NoDrop, hist
<1>5. ASSUME CheckFree PROVE IInv'
  <2>1. TypeOK'
    BY <1>5 DEF CheckFree, Goto, TypeOK, wire, ring, rtsVars, local, hist
  <2>2. Control'
    BY <1>5 DEF CheckFree, Goto, Control, Opening, Arming, Reading, ring, rtsVars, local
  <2>3. Room' = Room
    BY <1>5, RoomType DEF CheckFree, ring
  <2>4. Margin'
    BY <1>5, <2>3, RoomType
        DEF CheckFree, Goto, TypeOK, Margin, Control, Room, Pending, Opening, Arming,
            Reading, wire, rtsVars, local
  <2> QED
    BY <1>5, <2>1, <2>2, <2>4 DEF CheckFree, NoDrop, hist
<1>6. ASSUME CheckNone PROVE IInv'
  <2>1. TypeOK'
    BY <1>6 DEF CheckNone, Goto, TypeOK, wire, ring, rtsVars, local, hist
  <2>2. Control'
    BY <1>6 DEF CheckNone, Goto, Control, Opening, Arming, Reading, ring, rtsVars, local
  <2>3. Room' = Room
    BY <1>6, RoomType DEF CheckNone, ring
  <2>4. Margin'
    BY <1>6, <2>3, RoomType
        DEF CheckNone, Goto, TypeOK, Margin, Control, Room, Pending, Opening, Arming,
            Reading, wire, rtsVars, local
  <2> QED
    BY <1>6, <2>1, <2>2, <2>4 DEF CheckNone, NoDrop, hist
<1>7. ASSUME FreeEnough PROVE IInv'
  <2>1. TypeOK'
    BY <1>7 DEF FreeEnough, Goto, TypeOK, wire, ring, rtsVars, local, hist
  <2>2. Control'
    BY <1>7 DEF FreeEnough, Goto, Control, Opening, Arming, Reading, ring, rtsVars, local
  <2>3. Room' = Room
    BY <1>7, RoomType DEF FreeEnough, ring
  <2>4. Margin'
    BY <1>7, <2>3, RoomType
        DEF FreeEnough, Goto, TypeOK, Margin, Control, Room, Pending, Opening, Arming,
            Reading, wire, rtsVars, local
  <2> QED
    BY <1>7, <2>1, <2>2, <2>4 DEF FreeEnough, NoDrop, hist
<1>8. ASSUME FreeShort PROVE IInv'
  <2>1. TypeOK'
    BY <1>8 DEF FreeShort, Goto, TypeOK, wire, ring, rtsVars, local, hist
  <2>2. Control'
    BY <1>8 DEF FreeShort, Goto, Control, Opening, Arming, Reading, ring, rtsVars, local
  <2>3. Room' = Room
    BY <1>8, RoomType DEF FreeShort, ring
  <2>4. Margin'
    BY <1>8, <2>3, RoomType
        DEF FreeShort, Goto, TypeOK, Margin, Control, Room, Pending, Opening, Arming,
            Reading, wire, rtsVars, local
  <2> QED
    BY <1>8, <2>1, <2>2, <2>4 DEF FreeShort, NoDrop, hist
<1> QED
  BY <1>1, <1>2, <1>3, <1>4, <1>5, <1>6, <1>7, <1>8

(***************************************************************************)
(* A call begins with nothing freed and nothing arrived; each byte it      *)
(* copies frees one place before it is counted.                            *)
(***************************************************************************)
LEMMA ReadInv ==
  ASSUME NEW n \in Reads, IInv, Read(n)
  PROVE  IInv'
<1> USE SerialRxAssumption DEF IInv
<1>1. TypeOK'
  BY DEF Read, Goto, TypeOK, wire, ring, rtsVars, hist
<1>2. Control'
  BY DEF Read, Goto, Control, Opening, Arming, Reading, ring, rtsVars
<1>3. Room' = Room
  BY RoomType DEF Read, ring
<1>4. Margin'
  BY <1>3, RoomType
      DEF Read, Goto, TypeOK, Margin, Pending, Opening, Arming, Reading, wire, rtsVars
<1> QED
  BY <1>1, <1>2, <1>4 DEF Read, NoDrop, hist

LEMMA AdvanceInv == IInv /\ GetAdvance => IInv'
<1> SUFFICES ASSUME IInv, GetAdvance PROVE IInv'
  OBVIOUS
<1> USE SerialRxAssumption DEF IInv
<1>1. copy > 0 /\ head # tail
  BY DEF GetAdvance, Goto, Control
<1>2. head' \in Slots /\ copy' \in Nat /\ got' \in Nat
  BY <1>1, RingType DEF GetAdvance, TypeOK
<1>3. TypeOK'
  BY <1>2 DEF GetAdvance, Goto, TypeOK, wire, rtsVars, hist
<1>4. Control'
  BY DEF GetAdvance, Goto, Control, Opening, Arming, Reading, rtsVars
<1>5. Room' = Room + 1
  BY <1>1, RoomTake DEF GetAdvance, TypeOK, Room
<1>6. Margin'
  BY <1>5, RoomType
  DEF GetAdvance, Goto, TypeOK, Margin, Pending, Opening, Arming, Reading, wire, rtsVars
<1> QED
  BY <1>3, <1>4, <1>6 DEF GetAdvance, NoDrop, hist

LEMMA FlushInv == IInv /\ Flush => IInv'
<1> SUFFICES ASSUME IInv, Flush PROVE IInv'
  OBVIOUS
<1> USE SerialRxAssumption, MarginAssumption DEF IInv
<1>1. TypeOK'
  BY DEF Flush, Goto, TypeOK, wire, rtsVars, hist
<1>2. Control'
  BY DEF Flush, Goto, Control, Opening, Arming, Reading, rtsVars
<1>3. Room' = Mask
  BY RoomTake DEF Flush, TypeOK, Room
<1>4. Margin'
  BY <1>3
      DEF Flush, Goto, TypeOK, Margin, Pending, Opening, Arming, Reading, wire, rtsVars
<1> QED
  BY <1>1, <1>2, <1>4 DEF Flush, NoDrop, hist

LEMMA StutterInv == IInv /\ UNCHANGED vars => IInv'
<1> SUFFICES ASSUME IInv, UNCHANGED vars PROVE IInv'
  OBVIOUS
<1>1. UNCHANGED <<wire, sci, masked, ring, rtsVars, local, arrived, hist>>
  BY DEF vars
<1>2. TypeOK'
  BY <1>1 DEF IInv, TypeOK, wire, ring, rtsVars, local, hist
<1>3. Control'
  BY <1>1 DEF IInv, Control, ring, rtsVars, local
<1>4. Margin'
  BY <1>1 DEF IInv, Margin, Room, Pending, wire, ring, rtsVars, local
<1> QED
  BY <1>1, <1>2, <1>3, <1>4 DEF IInv, NoDrop, hist
-----------------------------------------------------------------------------
(***************************************************************************)
(* The invariant holds of every behaviour: each step of the driver, of the *)
(* handler and of the radio preserves it.                                  *)
(***************************************************************************)
THEOREM Invariance == Spec => []IInv
<1>1. IInv /\ [Next]_vars => IInv'
  BY RadioInv, MaskInv, IsrInv, OpenInv, LookInv, ReadInv, AdvanceInv, FlushInv,
      StutterInv
  DEF Next, Driver
<1> QED
  BY InitInv, <1>1, PTL DEF Spec

(***************************************************************************)
(* Every variable of the receiver has its type: the indices stay in the    *)
(* ring, the radio within its credit, xbee_cbuf_get never counts below 0.  *)
(***************************************************************************)
THEOREM TypeCorrect == Spec => []TypeOK
<1>1. IInv => TypeOK
  BY DEF IInv
<1> QED
  BY Invariance, <1>1, PTL

(***************************************************************************)
(* RTS_ASSERT_BYTES is enough for every ring it fits in: xbee_cbuf_putch   *)
(* never finds the ring full and never drops a byte.                       *)
(***************************************************************************)
THEOREM Lossless == Spec => []NoDrop
<1>1. IInv => NoDrop
  BY DEF IInv
<1> QED
  BY Invariance, <1>1, PTL

-----------------------------------------------------------------------------
(***************************************************************************)
(* The order of the bytes.  Content(d, f, t) are the bytes of ring d from  *)
(* slot f up to slot t: what Unread is made of.                            *)
(***************************************************************************)
Content(d, f, t) == [i \in 1 .. Used(f, t) |-> d[Slot(f, i - 1)]]

Rings == [Slots -> Byte \cup {NoByte}]

(***************************************************************************)
(* A byte on its way (the one last handed over, those in the ring, the one *)
(* in the register) has been sent, and each was sent before those behind   *)
(* it.                                                                     *)
(***************************************************************************)
Sequenced ==
  /\ InOrder
  /\ last <= sent
  /\ \A i \in DOMAIN Unread : Unread[i] <= sent
  /\ sci # NoByte =>
       /\ last < sci /\ sci <= sent
       /\ \A i \in DOMAIN Unread : Unread[i] < sci

LEMMA SlotType ==
  ASSUME NEW f \in Slots, NEW t \in Slots, NEW k \in 0 .. Mask
  PROVE  /\ Used(f, t) \in 0 .. Mask
         /\ Slot(f, k) \in Slots
         /\ k < Used(f, t) => Slot(f, k) # t
         /\ Slot(f, Used(f, t)) = t
         /\ Slot(f, 0) = f
         /\ k < Mask => Slot(f, k + 1) = Slot(Wrap(f), k)
BY SerialRxAssumption DEF Slots, Used, Slot, Wrap

LEMMA ContentType ==
  ASSUME NEW d \in Rings, NEW f \in Slots, NEW t \in Slots
  PROVE  /\ Content(d, f, t) \in Seq(Byte \cup {NoByte})
         /\ Len(Content(d, f, t)) = Used(f, t)
         /\ DOMAIN Content(d, f, t) = 1 .. Used(f, t)
         /\ \A i \in 1 .. Used(f, t) : Content(d, f, t)[i] = d[Slot(f, i - 1)]
<1> DEFINE n == Used(f, t)  S == Byte \cup {NoByte}  c == Content(d, f, t)
<1>1. n \in 0 .. Mask /\ n \in Nat /\ Mask \in Nat
  BY SlotType, SerialRxAssumption
<1>2. ASSUME NEW i \in 1 .. n  PROVE d[Slot(f, i - 1)] \in S
  <2>1. i - 1 \in 0 .. Mask
    BY <1>1
  <2> QED
    BY <2>1, SlotType DEF Rings
<1>3. c \in [1 .. n -> S]
  BY <1>2 DEF Content
<1>4. c \in Seq(S)
  BY <1>1, <1>3, SeqDef
<1>5. Len(c) \in Nat /\ DOMAIN c = 1 .. Len(c)
  BY <1>4, LenProperties
<1>6. DOMAIN c = 1 .. n
  BY DEF Content
<1>7. Len(c) = n
  BY <1>1, <1>5, <1>6
<1> QED
  BY <1>4, <1>6, <1>7 DEF Content

\* A byte put behind the others leaves them alone.
LEMMA ContentPut ==
  ASSUME NEW d \in Rings, NEW f \in Slots, NEW t \in Slots, NEW b \in Byte, Wrap(t) # f
  PROVE  Content([d EXCEPT ![t] = b], f, Wrap(t)) = Append(Content(d, f, t), b)
<1> DEFINE S == Byte \cup {NoByte}
           e == [d EXCEPT ![t] = b]
           old == Content(d, f, t)
           new == Content(e, f, Wrap(t))
           n == Used(f, t)
<1>0. n \in 0 .. Mask /\ Mask \in Nat /\ Wrap(t) \in Slots
  BY SlotType, RingType, SerialRxAssumption
<1>1. Used(f, Wrap(t)) = n + 1 /\ n < Mask
  BY SerialRxAssumption DEF Slots, Wrap, Used
<1>2. e \in Rings
  BY DEF Rings
<1>3. /\ old \in Seq(S) /\ Len(old) = n
      /\ \A i \in 1 .. n : old[i] = d[Slot(f, i - 1)]
  BY ContentType
<1>4. /\ new \in Seq(S) /\ Len(new) = n + 1
      /\ \A i \in 1 .. n + 1 : new[i] = e[Slot(f, i - 1)]
  <2> HIDE DEF e
  <2>1. /\ new \in Seq(S) /\ Len(new) = Used(f, Wrap(t))
        /\ \A i \in 1 .. Used(f, Wrap(t)) : new[i] = e[Slot(f, i - 1)]
    BY <1>0, <1>2, ContentType
  <2> QED
    BY <1>1, <2>1
<1>5. /\ Append(old, b) \in Seq(S) /\ Len(Append(old, b)) = n + 1
      /\ \A i \in 1 .. n : Append(old, b)[i] = old[i]
      /\ Append(old, b)[n + 1] = b
  BY <1>3, AppendProperties
<1>6. ASSUME NEW i \in 1 .. n + 1  PROVE new[i] = Append(old, b)[i]
  <2>0. i - 1 \in 0 .. Mask
    BY <1>0, <1>1
  <2>1. CASE i = n + 1
    <3>1. i - 1 = n
      BY <1>0, <2>1
    <3>2. Slot(f, i - 1) = t
      BY <1>0, <3>1, SlotType
    <3>3. new[i] = b
      BY <1>4, <3>2 DEF Rings
    <3> QED
      BY <1>5, <2>1, <3>3
  <2>2. CASE i # n + 1
    <3>1. i \in 1 .. n /\ i - 1 < n
      BY <1>0, <2>2
    <3>2. Slot(f, i - 1) # t /\ Slot(f, i - 1) \in Slots
      BY <2>0, <3>1, SlotType
    <3>3. new[i] = d[Slot(f, i - 1)]
      BY <1>4, <3>2 DEF Rings
    <3> QED
      BY <1>3, <1>5, <3>1, <3>3
  <2> QED
    BY <2>1, <2>2
<1> QED
  BY <1>4, <1>5, <1>6, SeqEqual

\* The oldest byte taken leaves the others.
LEMMA ContentTake ==
  ASSUME NEW d \in Rings, NEW f \in Slots, NEW t \in Slots, f # t
  PROVE  /\ Content(d, f, t) # << >>
         /\ d[f] = Head(Content(d, f, t))
         /\ Content(d, Wrap(f), t) = Tail(Content(d, f, t))
<1> DEFINE S == Byte \cup {NoByte}
           old == Content(d, f, t)
           new == Content(d, Wrap(f), t)
           n == Used(f, t)
<1>0. n \in 0 .. Mask /\ Mask \in Nat /\ Wrap(f) \in Slots
  BY SlotType, RingType, SerialRxAssumption
<1>1. Used(Wrap(f), t) = n - 1 /\ n > 0
  BY SerialRxAssumption DEF Slots, Wrap, Used
<1>3. /\ old \in Seq(S) /\ Len(old) = n
      /\ \A i \in 1 .. n : old[i] = d[Slot(f, i - 1)]
  BY ContentType
<1>4. /\ new \in Seq(S) /\ Len(new) = n - 1
      /\ \A i \in 1 .. n - 1 : new[i] = d[Slot(Wrap(f), i - 1)]
  <2>1. /\ new \in Seq(S) /\ Len(new) = Used(Wrap(f), t)
        /\ \A i \in 1 .. Used(Wrap(f), t) : new[i] = d[Slot(Wrap(f), i - 1)]
    BY <1>0, ContentType, Zenon
  <2> QED
    BY ONLY <1>1, <2>1
<1>5. old # << >>
  BY <1>0, <1>1, <1>3
<1>6. d[f] = Head(old)
  <2>1. 1 \in 1 .. n /\ 1 - 1 = 0
    BY <1>0, <1>1
  <2>11. old[1] = d[Slot(f, 0)]
    BY ONLY <1>3, <2>1
  <2>2. Slot(f, 0) = f
    BY <1>0, SlotType
  <2> QED
    BY ONLY <1>3, <1>5, <2>11, <2>2
<1>7. /\ Tail(old) \in Seq(S) /\ Len(Tail(old)) = n - 1
      /\ \A i \in 1 .. n - 1 : Tail(old)[i] = old[i + 1]
  BY <1>3, <1>5, HeadTailProperties
<1>8. ASSUME NEW i \in 1 .. n - 1  PROVE new[i] = Tail(old)[i]
  <2>1. i + 1 \in 1 .. n /\ i \in 0 .. Mask /\ i - 1 \in 0 .. Mask /\ i - 1 < Mask /\ (i - 1) + 1 = i
        /\ (i + 1) - 1 = i
    BY <1>0
  <2>2. Slot(f, i) = Slot(Wrap(f), i - 1)
    BY <2>1, SlotType
  <2>3. new[i] = d[Slot(Wrap(f), i - 1)]
    BY ONLY <1>4, <1>8
  <2>4. old[i + 1] = d[Slot(f, (i + 1) - 1)]
    BY ONLY <1>3, <2>1
  <2>5. Tail(old)[i] = old[i + 1]
    BY ONLY <1>7, <1>8
  <2>6. (i + 1) - 1 = i
    BY <2>1
  <2> QED
    BY ONLY <2>2, <2>3, <2>4, <2>5, <2>6
<1> QED
  BY <1>4, <1>5, <1>6, <1>7, <1>8, SeqEqual

\* An empty ring holds nothing.
LEMMA ContentEmpty ==
  ASSUME NEW d, NEW t \in Slots
  PROVE  Content(d, t, t) = << >>
<1>1. Used(t, t) = 0
  BY SerialRxAssumption DEF Slots, Used
<1> QED
  BY <1>1 DEF Content


\* What the driver has yet to hand over is the content of the ring from Front.
LEMMA UnreadIs ==
  ASSUME TypeOK
  PROVE  /\ data \in Rings /\ head \in Slots /\ tail \in Slots /\ Front \in Slots
         /\ Unread = Content(data, Front, tail)
         /\ DOMAIN Unread = 1 .. Len(Unread)
         /\ Unread \in Seq(Byte \cup {NoByte})
<1>1. data \in Rings /\ head \in Slots /\ tail \in Slots /\ Front \in Slots
  <2>1. data \in Rings /\ head \in Slots /\ tail \in Slots
    BY DEF TypeOK, Rings
  <2>2. Front \in Slots
    BY <2>1, RingType, Zenon DEF Front
  <2> QED
    BY <2>1, <2>2
<1>2. Unread = Content(data, Front, tail)
  BY DEF Unread, Content
<1>3. Unread \in Seq(Byte \cup {NoByte}) /\ DOMAIN Unread = 1 .. Len(Unread)
  <2> DEFINE c == Content(data, Front, tail)
  <2>1. c \in Seq(Byte \cup {NoByte})
    BY <1>1, ContentType, Zenon
  <2>2. DOMAIN c = 1 .. Len(c)
    BY <2>1, LenProperties
  <2> QED
    BY ONLY <1>2, <2>1, <2>2
<1> QED
  BY <1>1, <1>2, <1>3

LEMMA UnreadSame ==
  ASSUME UNCHANGED <<data, tail>>, Front' = Front
  PROVE  Unread' = Unread
<1>1. Unread = Content(data, Front, tail) /\ Unread' = Content(data', Front', tail')
  BY DEF Unread, Content
<1> QED
  BY <1>1

(***************************************************************************)
(* The ring against the queue, for every step of the receiver: the handler *)
(* puts the byte of the register, GetCopy takes the oldest one, Flush      *)
(* empties the queue, and nothing else touches it.                         *)
(***************************************************************************)
LEMMA UnreadIsr ==
  ASSUME IInv, RadioUartIsr
  PROVE  /\ Unread' = Append(Unread, sci) /\ Len(Unread) < Mask
         /\ sci \in Byte /\ last' = last /\ sci' = NoByte /\ sent' = sent
<1>1. /\ data \in Rings /\ head \in Slots /\ tail \in Slots /\ Front \in Slots
      /\ Unread = Content(data, Front, tail)
  BY UnreadIs DEF IInv
<1>2. Wrap(tail) # head /\ tail' = Wrap(tail) /\ head' = head
  <2>1. NoDrop' /\ sci \in Byte \cup {NoByte} /\ sci # NoByte
    BY IsrInv DEF IInv, RadioUartIsr, TypeOK
  <2> QED
    BY <2>1 DEF RadioUartIsr, Putch, NoDrop
<1>3. Front' = Front /\ sci \in Byte
  BY <1>2 DEF RadioUartIsr, local, Front, IInv, TypeOK
<1>4. Wrap(tail) # Front /\ Used(Front, tail) < Mask
  <2>1. CASE pc = "advance"
    <3>1. head # tail /\ Front = Wrap(head)
      BY <2>1 DEF IInv, Control, Front
    <3> QED
      BY <1>1, <1>2, <3>1, SerialRxAssumption DEF Slots, Wrap, Used
  <2>2. CASE pc # "advance"
    <3>1. Front = head
      BY <2>2 DEF Front
    <3> QED
      BY <1>1, <1>2, <3>1, SerialRxAssumption DEF Slots, Wrap, Used
  <2> QED
    BY <2>1, <2>2
<1>5. data' = [data EXCEPT ![tail] = sci]
  BY DEF RadioUartIsr, Putch
<1>6. Unread' = Content(data', Front', tail')
  BY DEF Unread, Content
<1>7. Content([data EXCEPT ![tail] = sci], Front, Wrap(tail)) = Append(Content(data, Front, tail), sci)
  BY <1>1, <1>3, <1>4, ContentPut
<1>8. Len(Unread) < Mask
  BY <1>1, <1>4, ContentType
<1> QED
  BY <1>1, <1>2, <1>3, <1>5, <1>6, <1>7, <1>8 DEF RadioUartIsr

LEMMA UnreadCopy ==
  ASSUME IInv, GetCopy
  PROVE  /\ Unread # << >> /\ last' = Head(Unread) /\ Unread' = Tail(Unread)
         /\ sci' = sci /\ sent' = sent
<1>1. /\ data \in Rings /\ head \in Slots /\ tail \in Slots
      /\ Unread = Content(data, Front, tail)
  BY UnreadIs DEF IInv
<1>2. head # tail /\ Front = head /\ Front' = Wrap(head)
  BY DEF GetCopy, Goto, IInv, Control, Front, ring
<1>3. Unread' = Content(data, Wrap(head), tail)
  <2>1. Unread' = Content(data', Front', tail')
    BY DEF Unread, Content
  <2>2. data' = data /\ tail' = tail
    BY DEF GetCopy, ring
  <2> QED
    BY <1>2, <2>1, <2>2
<1> QED
  BY <1>1, <1>2, <1>3, ContentTake DEF GetCopy, wire

LEMMA UnreadFlush ==
  ASSUME IInv, Flush
  PROVE  Unread' = << >> /\ last' = last /\ sci' = sci /\ sent' = sent
<1>1. tail \in Slots /\ Front' = tail /\ tail' = tail
  BY DEF Flush, Goto, Front, IInv, TypeOK
<1>2. Unread' = Content(data', Front', tail')
  BY DEF Unread, Content
<1> QED
  BY <1>1, <1>2, ContentEmpty DEF Flush, wire, hist

LEMMA UnreadQuiet ==
  ASSUME Next, ~RadioUartIsr, ~GetCopy, ~Flush
  PROVE  Unread' = Unread /\ last' = last /\ (RadioSend \/ (sci' = sci /\ sent' = sent))
<1>1. CASE RadioSend \/ RtcIsrEnter \/ RtcIsrLeave
  <2>1. Front' = Front
    BY <1>1 DEF RadioSend, RtcIsrEnter, RtcIsrLeave, Front, local, ring
  <2> QED
    BY <1>1, <2>1, UnreadSame DEF RadioSend, RtcIsrEnter, RtcIsrLeave, ring, hist, wire
<1>2. CASE OpenLoad \/ OpenStore \/ OpenFree \/ SetRtsPin \/ SetRtsLoad \/ SetRtsStore
  <2>1. Front' = Front
    BY <1>2 DEF OpenLoad, OpenStore, OpenFree, SetRtsPin, SetRtsLoad, SetRtsStore, Goto, Front, ring
  <2> QED
    BY <1>2, <2>1, UnreadSame
    DEF OpenLoad, OpenStore, OpenFree, SetRtsPin, SetRtsLoad, SetRtsStore, ring, hist, wire
<1>3. CASE GetMore \/ GetDone \/ \E n \in Reads : Read(n)
  <2>1. Front' = Front
    BY <1>3 DEF GetMore, GetDone, Read, Goto, Front, ring
  <2> QED
    BY <1>3, <2>1, UnreadSame DEF GetMore, GetDone, Read, ring, hist, wire
<1>4. CASE CheckEnough \/ CheckFree \/ CheckNone \/ FreeEnough \/ FreeShort
  <2>1. Front' = Front
    BY <1>4 DEF CheckEnough, CheckFree, CheckNone, FreeEnough, FreeShort, Goto, Front, ring
  <2> QED
    BY <1>4, <2>1, UnreadSame DEF CheckEnough, CheckFree, CheckNone, FreeEnough, FreeShort, ring, hist, wire
<1>5. CASE GetAdvance
  <2>1. Front' = Front
    BY <1>5 DEF GetAdvance, Goto, Front
  <2> QED
    BY <1>5, <2>1, UnreadSame DEF GetAdvance, hist, wire
<1> QED
  BY <1>1, <1>2, <1>3, <1>4, <1>5 DEF Next, Driver


(***************************************************************************)
(* The bytes stay in order: the radio's next number is above every byte on *)
(* its way, the register's byte above those in the ring, and those above   *)
(* the one last handed over.                                               *)
(***************************************************************************)
LEMMA SequencedInit == Init => Sequenced
<1> SUFFICES ASSUME Init PROVE Sequenced
  OBVIOUS
<1>1. Unread = << >>
  <2>1. tail \in Slots /\ Front = tail
    BY SerialRxAssumption DEF Init, Slots, Front
  <2>2. Unread = Content(data, tail, tail)
    BY <2>1 DEF Unread, Content
  <2> QED
    BY <2>1, <2>2, ContentEmpty
<1> QED
  BY <1>1 DEF Init, Sequenced, InOrder, NoByte

LEMMA SequencedStep ==
  ASSUME IInv, Sequenced, [Next]_vars
  PROVE  Sequenced'
<1> DEFINE S == Byte \cup {NoByte}
<1> USE DEF Sequenced, InOrder
<1>0. /\ Unread \in Seq(S) /\ DOMAIN Unread = 1 .. Len(Unread) /\ Len(Unread) \in Nat
      /\ \A i \in DOMAIN Unread : Unread[i] \in Nat
      /\ sent \in Nat /\ last \in Nat /\ sci \in Nat
  <2>1. Unread \in Seq(S) /\ DOMAIN Unread = 1 .. Len(Unread)
    BY UnreadIs DEF IInv
  <2>2. S \subseteq Nat /\ MaxBytes \in Nat
    BY SerialRxAssumption DEF Byte, NoByte
  <2>3. Len(Unread) \in Nat /\ Unread \in [1 .. Len(Unread) -> S]
    BY <2>1, LenProperties
  <2>4. sent \in Nat /\ last \in Nat /\ sci \in Nat
    BY <2>2 DEF IInv, TypeOK
  <2> QED
    BY <2>1, <2>2, <2>3, <2>4
<1>1. CASE RadioUartIsr
  <2>1. /\ Unread' = Append(Unread, sci) /\ sci \in Byte /\ sci # NoByte
        /\ last' = last /\ sci' = NoByte /\ sent' = sent
    BY <1>1, UnreadIsr DEF RadioUartIsr
  <2>2. /\ DOMAIN Unread' = 1 .. Len(Unread) + 1
        /\ \A i \in 1 .. Len(Unread) : Unread'[i] = Unread[i]
        /\ Unread'[Len(Unread) + 1] = sci
    <3>1. sci \in S
      BY <2>1
    <3>2. /\ Append(Unread, sci) \in Seq(S) /\ Len(Append(Unread, sci)) = Len(Unread) + 1
          /\ \A i \in 1 .. Len(Unread) : Append(Unread, sci)[i] = Unread[i]
          /\ Append(Unread, sci)[Len(Unread) + 1] = sci
      BY <1>0, <3>1, AppendProperties
    <3>3. DOMAIN Append(Unread, sci) = 1 .. Len(Append(Unread, sci))
      BY <3>2, LenProperties
    <3> QED
      BY <2>1, <3>2, <3>3
  <2>3. ASSUME NEW i \in DOMAIN Unread'
        PROVE  last' < Unread'[i] /\ Unread'[i] <= sent'
    BY <1>0, <2>1, <2>2
  <2>4. ASSUME NEW i \in DOMAIN Unread', NEW j \in DOMAIN Unread', i < j
        PROVE  Unread'[i] < Unread'[j]
    BY <1>0, <2>1, <2>2, <2>4
  <2> QED
    BY <2>1, <2>3, <2>4
<1>2. CASE GetCopy
  <2>1. /\ Unread # << >> /\ last' = Head(Unread) /\ Unread' = Tail(Unread)
        /\ sci' = sci /\ sent' = sent
    BY <1>2, UnreadCopy
  <2>2. /\ DOMAIN Unread' = 1 .. Len(Unread) - 1 /\ Len(Unread) > 0
        /\ \A i \in 1 .. Len(Unread) - 1 : Unread'[i] = Unread[i + 1]
        /\ last' = Unread[1]
    <3>1. /\ Tail(Unread) \in Seq(S) /\ Len(Tail(Unread)) = Len(Unread) - 1
          /\ \A i \in 1 .. Len(Unread) - 1 : Tail(Unread)[i] = Unread[i + 1]
      BY <1>0, <2>1, HeadTailProperties
    <3>2. DOMAIN Tail(Unread) = 1 .. Len(Tail(Unread))
      BY <3>1, LenProperties
    <3>3. Len(Unread) > 0 /\ Head(Unread) = Unread[1]
      BY <1>0, <2>1, EmptySeq
    <3> QED
      BY <2>1, <3>1, <3>2, <3>3
  <2>3. 1 \in DOMAIN Unread
    BY <1>0, <2>2
  <2>4. ASSUME NEW i \in DOMAIN Unread'
        PROVE  /\ last' < Unread'[i] /\ Unread'[i] <= sent'
               /\ sci' # NoByte => Unread'[i] < sci'
    <3>1. i + 1 \in DOMAIN Unread /\ 1 < i + 1 /\ Unread'[i] = Unread[i + 1]
      BY <1>0, <2>2
    <3> QED
      BY <2>1, <2>2, <2>3, <3>1
  <2>5. ASSUME NEW i \in DOMAIN Unread', NEW j \in DOMAIN Unread', i < j
        PROVE  Unread'[i] < Unread'[j]
    <3>1. /\ i + 1 \in DOMAIN Unread /\ j + 1 \in DOMAIN Unread /\ i + 1 < j + 1
          /\ Unread'[i] = Unread[i + 1] /\ Unread'[j] = Unread[j + 1]
      BY <1>0, <2>2, <2>5
    <3> QED
      BY <3>1
  <2>6. last' <= sent' /\ (sci' # NoByte => last' < sci' /\ sci' <= sent')
    BY <2>1, <2>2, <2>3
  <2> QED
    BY <2>4, <2>5, <2>6
<1>3. CASE Flush
  <2>1. Unread' = << >> /\ last' = last /\ sci' = sci /\ sent' = sent
    BY <1>3, UnreadFlush
  <2> QED
    BY <2>1
<1>4. CASE RadioSend
  <2>1. Unread' = Unread /\ last' = last
    <3>1. ~RadioUartIsr /\ ~GetCopy /\ ~Flush
      BY <1>0, <1>4 DEF RadioSend, RadioUartIsr, GetCopy, Flush, wire
    <3> QED
      BY <1>4, <3>1, UnreadQuiet DEF Next
  <2>2. sent' = sent + 1 /\ (sci' = sent' \/ (sci # NoByte /\ sci' = sci))
    BY <1>4 DEF RadioSend
  <2>3. last' <= sent' /\ (sci' # NoByte => last' < sci' /\ sci' <= sent')
    BY <1>0, <2>1, <2>2
  <2>4. ASSUME NEW i \in DOMAIN Unread'
        PROVE  /\ last' < Unread'[i] /\ Unread'[i] <= sent'
               /\ sci' # NoByte => Unread'[i] < sci'
    BY <1>0, <2>1, <2>2
  <2> QED
    BY <2>1, <2>3, <2>4
<1>5. CASE Next /\ ~RadioUartIsr /\ ~GetCopy /\ ~Flush /\ ~RadioSend
  <2>1. Unread' = Unread /\ last' = last /\ sci' = sci /\ sent' = sent
    BY <1>5, UnreadQuiet
  <2> QED
    BY <2>1
<1>6. CASE UNCHANGED vars
  <2>1. UNCHANGED <<data, tail, head, pc, last, sci, sent>>
    BY <1>6 DEF vars, ring, hist, wire, local
  <2>2. Unread' = Unread
    BY <2>1, UnreadSame DEF Front
  <2> QED
    BY <2>1, <2>2
<1> QED
  BY <1>1, <1>2, <1>3, <1>4, <1>5, <1>6

(***************************************************************************)
(* The caller of xbee_ser_read sees the bytes in wire order and none of    *)
(* them twice, for every ring and every interleaving with radio_uart_isr.  *)
(***************************************************************************)
THEOREM BytesInOrder == Spec => []InOrder
<1>1. IInv /\ Sequenced /\ [Next]_vars => Sequenced'
  BY SequencedStep
<1>2. Sequenced => InOrder
  BY DEF Sequenced
<1> QED
  BY SequencedInit, Invariance, <1>1, <1>2, PTL DEF Spec

LEMMA StepRefines == IInv /\ [Next]_vars => [Fifo!Next]_(Fifo!vars)
<1> SUFFICES ASSUME IInv, [Next]_vars PROVE [Fifo!Next]_(Fifo!vars)
  OBVIOUS
<1>1. CASE RadioUartIsr
  <2>1. Fifo!Put(sci) /\ sci \in Byte
    BY <1>1, UnreadIsr DEF Fifo!Put
  <2> QED
    BY <2>1 DEF Fifo!Next
<1>2. CASE GetCopy
  <2>1. Fifo!Take
    BY <1>2, UnreadCopy DEF Fifo!Take
  <2> QED
    BY <2>1 DEF Fifo!Next
<1>3. CASE Flush
  <2>1. Fifo!Flush
    BY <1>3, UnreadFlush DEF Fifo!Flush
  <2> QED
    BY <2>1 DEF Fifo!Next
<1>4. CASE Next /\ ~RadioUartIsr /\ ~GetCopy /\ ~Flush
  BY <1>4, UnreadQuiet DEF Fifo!vars
<1>5. CASE UNCHANGED vars
  <2>1. UNCHANGED <<data, tail, head, pc, last>>
    BY <1>5 DEF vars, ring, hist, local
  <2>2. Unread' = Unread
    BY <2>1, UnreadSame DEF Front
  <2> QED
    BY <2>1, <2>2 DEF Fifo!vars
<1> QED
  BY <1>1, <1>2, <1>3, <1>4, <1>5

(***************************************************************************)
(* xbee_cbuf between radio_uart_isr and xbee_ser_read implements a bounded *)
(* FIFO: whatever they interleave, a byte leaves it only by being handed   *)
(* over, oldest first, or by a flush.                                      *)
(***************************************************************************)
THEOREM FifoImplemented == Spec => ImplementsFifo
<1>1. Init => Fifo!Init
  <2> SUFFICES ASSUME Init PROVE Fifo!Init
    OBVIOUS
  <2>1. tail \in Slots /\ Front = tail
    BY SerialRxAssumption DEF Init, Slots, Front
  <2>2. Unread = Content(data, tail, tail)
    BY <2>1 DEF Unread, Content
  <2> QED
    BY <2>1, <2>2, ContentEmpty DEF Init, Fifo!Init
<1> QED
  BY <1>1, StepRefines, Invariance, PTL DEF Spec, ImplementsFifo, Fifo!Spec
===============================================================================
