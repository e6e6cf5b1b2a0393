---------------------------- MODULE AtCmdProofs ----------------------------
(***************************************************************************)
(* Proofs about the AT command layer.                                      *)
(***************************************************************************)
EXTENDS AtCmd, Integers, TLAPS, FiniteSetTheorems, SequenceTheorems, WellFoundedInduction

-----------------------------------------------------------------------------
LEMMA ConstantTypes ==
  /\ TableSize \in Nat \ {0} /\ MaxSeq \in Nat /\ MaxId \in Nat \ {0}
  /\ BuildTime \in Nat \ {0} /\ LocalTime \in Nat \ {0} /\ ReuseTime \in Nat \ {0}
  /\ MaxChanges \in Nat /\ MaxLost \in Nat /\ MaxPending \in Nat \ {0} /\ MaxUsers \in Nat
BY AtCmdAssumption

\* Either list of registers holds commands, is no longer than the whole, and
\* reads the network address.
LEMMA RegsType ==
  ASSUME NEW refresh \in BOOLEAN
  PROVE  /\ Regs(refresh) \in Seq(Command)
         /\ Len(Regs(refresh)) \in 1 .. Len(QueryRegs) /\ Len(QueryRegs) \in Nat
         /\ \A k \in 1 .. Len(Regs(refresh)) : Regs(refresh)[k] \in Command
         /\ \E k \in 1 .. Len(Regs(refresh)) : Regs(refresh)[k] = "MY"
<1> DEFINE S == ToSet(QueryRegs)  q == QueryRegs  n == Len(QueryRegs)
<1>1. q \in Seq(S) /\ RefreshIdx \in 0 .. n - 1 /\ S \subseteq Command
  BY AtCmdAssumption DEF Command
<1>2. n \in Nat /\ \A k \in 1 .. n : q[k] \in S
  BY <1>1, LenProperties, ElementOfSeq
<1>3. PICK m \in RefreshIdx + 1 .. n : q[m] = "MY"
  BY AtCmdAssumption
<1>4. CASE ~refresh
  <2>1. Regs(refresh) = q
    BY <1>4 DEF Regs
  <2>2. q \in Seq(Command)
    BY <1>1
  <2> QED
    BY <1>1, <1>2, <1>3, <2>1, <2>2
<1>5. CASE refresh
  <2> DEFINE s == SubSeq(q, RefreshIdx + 1, n)
  <2>1. Regs(refresh) = s
    BY <1>5 DEF Regs
  <2>2. /\ s \in Seq(S) /\ Len(s) = n - (RefreshIdx + 1) + 1
        /\ \A k \in 1 .. n - (RefreshIdx + 1) + 1 : s[k] = q[(RefreshIdx + 1) + k - 1]
    <3>1. RefreshIdx + 1 \in 1 .. n + 1 /\ n \in (RefreshIdx + 1) - 1 .. n
      BY <1>1, <1>2
    <3> QED
      BY <1>1, <3>1, SubSeqProperties
  <2>3. s \in Seq(Command)
    BY <1>1, <2>2
  <2>4. \A k \in 1 .. Len(s) : s[k] \in Command
    BY <2>3, ElementOfSeq
  <2>5. m - RefreshIdx \in 1 .. Len(s) /\ s[m - RefreshIdx] = q[m]
    <3>1. m - RefreshIdx \in 1 .. n - (RefreshIdx + 1) + 1
      BY <1>1, <1>2, <1>3
    <3>2. (RefreshIdx + 1) + (m - RefreshIdx) - 1 = m
      BY <1>1, <1>2, <1>3
    <3> QED
      BY <2>2, <3>1, <3>2
  <2>6. Len(s) \in 1 .. n
    BY <1>1, <1>2, <2>2
  <2> QED
    BY <1>2, <1>3, <2>1, <2>3, <2>4, <2>5, <2>6
<1> QED
  BY <1>4, <1>5

LEMMA FirstIsIn ==
  ASSUME NEW I, I \subseteq Slots, I # {}
  PROVE  First(I) \in I
<1> DEFINE R == OpToRel(<, Nat)
<1>1. I \subseteq Nat
  BY ConstantTypes DEF Slots
<1>2. IsWellFoundedOn(R, Nat)
  BY NatLessThanWellFounded
<1>3. R = {ss \in Nat \X Nat : ss[1] < ss[2]}
  BY DEF OpToRel
<1> HIDE DEF R
<1>4. PICK i \in I : \A j \in I : <<j, i>> \notin R
  BY <1>1, <1>2, WFMin
<1>5. \A j \in I : i <= j
  <2> SUFFICES ASSUME NEW j \in I  PROVE ~(j < i)
    BY <1>1
  <2>1. <<j, i>> \in Nat \X Nat
    BY <1>1
  <2>2. <<j, i>>[1] = j /\ <<j, i>>[2] = i
    OBVIOUS
  <2> QED
    BY <1>3, <1>4, <2>1, <2>2
<1> QED
  BY <1>5 DEF First

-----------------------------------------------------------------------------
(* Types: every handler keeps the driver's record a driver's record.       *)

LEMMA DriverIs ==
  ASSUME NEW d \in Driver
  PROVE  /\ d.table \in [Slots -> Request] /\ d.id \in 0 .. MaxId /\ d.list \in List
         /\ d.flags \subseteq Flag /\ d.joined \in BOOLEAN /\ d.net \in Address
         /\ d.due \in BOOLEAN /\ d.out \in Seq(Asking)
BY DEF Driver

LEMMA NextIdType ==
  ASSUME NEW id \in 0 .. MaxId
  PROVE  NextId(id) \in 1 .. MaxId
BY ConstantTypes DEF NextId

LEMMA QueueType ==
  ASSUME NEW out \in Seq(Asking), NEW f \in Asking
  PROVE  Queue(out, f) \in Seq(Asking)
<1>1. CASE Len(out) < MaxPending
  BY <1>1, AppendProperties DEF Queue
<1>2. CASE ~(Len(out) < MaxPending)
  <2>1. out # << >>
    BY <1>2, ConstantTypes
  <2>2. Tail(out) \in Seq(Asking)
    BY <2>1, HeadTailProperties
  <2> QED
    BY <1>2, <2>2, AppendProperties DEF Queue
<1> QED
  BY <1>1, <1>2

LEMMA RequestIs ==
  ASSUME NEW r \in Request
  PROVE  /\ r.used \in BOOLEAN /\ r.seq \in 0 .. MaxSeq /\ r.cb \in {"none", "list", "user"}
         /\ r.id \in 0 .. MaxId /\ r.cmd \in Command
         /\ r.ttl \in 0 .. BuildTime + LocalTime + ReuseTime
BY DEF Request

LEMMA WithTable ==
  ASSUME NEW d \in Driver, NEW t \in [Slots -> Request]
  PROVE  [d EXCEPT !.table = t] \in Driver
BY DEF Driver

LEMMA WithRow ==
  ASSUME NEW d \in Driver, NEW i \in Slots, NEW r \in Request
  PROVE  [d EXCEPT !.table[i] = r] \in Driver
<1>1. [d.table EXCEPT ![i] = r] \in [Slots -> Request]
  BY DEF Driver
<1> QED
  BY <1>1 DEF Driver

LEMMA TimesType ==
  /\ 0 \in 0 .. BuildTime + LocalTime + ReuseTime
  /\ BuildTime \in 0 .. BuildTime + LocalTime + ReuseTime
  /\ LocalTime \in 0 .. BuildTime + LocalTime + ReuseTime
  /\ ReuseTime \in 0 .. BuildTime + LocalTime + ReuseTime
  /\ 0 \in 0 .. MaxId /\ 0 \in 0 .. MaxSeq
BY ConstantTypes

LEMMA BlankType ==
  ASSUME NEW s \in 0 .. MaxSeq
  PROVE  Blank(s) \in Request
<1>1. QueryRegs = Regs(FALSE)
  BY DEF Regs
<1>2. QueryRegs[1] \in Command
  <2> DEFINE m == Len(Regs(FALSE))  n == Len(QueryRegs)
  <2>1. m \in 1 .. n /\ n \in Nat
    BY RegsType
  <2> HIDE DEF m, n
  <2>2. 1 \in 1 .. m
    BY ONLY <2>1
  <2> QED
    BY <1>1, <2>2, RegsType DEF m
<1> QED
  BY <1>2, TimesType DEF Blank, Request

LEMMA ReleaseType ==
  ASSUME NEW d \in Driver, NEW i \in Slots
  PROVE  Release(d, i) \in Driver
<1>1. d.table[i].seq \in 0 .. MaxSeq
  BY DriverIs, RequestIs
<1>2. (d.table[i].seq + 1) % (MaxSeq + 1) \in 0 .. MaxSeq
  BY <1>1, ConstantTypes
<1> DEFINE r == Blank((d.table[i].seq + 1) % (MaxSeq + 1))
<1>3. r \in Request
  BY <1>2, BlankType
<1>4. Release(d, i) = [d EXCEPT !.table[i] = r]
  BY DEF Release
<1> QED
  BY <1>3, <1>4, WithRow

LEMMA CreateNoTickType ==
  ASSUME NEW d \in Driver, NEW cmd \in Command
  PROVE  /\ CreateNoTick(d, cmd).d \in Driver
         /\ CreateNoTick(d, cmd).h \in Handle \cup {NoHandle}
<1>1. CASE FreeSlots(d) = {}
  BY <1>1 DEF CreateNoTick
<1>2. CASE FreeSlots(d) # {}
  <2> DEFINE i == First(FreeSlots(d))
             r == [used |-> TRUE, seq |-> d.table[i].seq, ttl |-> BuildTime,
                   cb |-> "none", id |-> 0, cmd |-> cmd]
  <2>1. i \in Slots
    BY <1>2, FirstIsIn DEF FreeSlots
  <2> HIDE DEF i
  <2>2. d.table[i].seq \in 0 .. MaxSeq
    BY <2>1, DriverIs, RequestIs
  <2>3. r \in Request
    BY <2>2, TimesType DEF Request
  <2>4. CreateNoTick(d, cmd) = [d |-> [d EXCEPT !.table[i] = r], h |-> <<i, d.table[i].seq>>]
    BY <1>2 DEF CreateNoTick, i
  <2> HIDE DEF r
  <2>5. [d EXCEPT !.table[i] = r] \in Driver
    BY <2>1, <2>3, WithRow
  <2> QED
    BY <2>1, <2>2, <2>4, <2>5 DEF Handle
<1> QED
  BY <1>1, <1>2

LEMMA SetCallbackType ==
  ASSUME NEW d \in Driver, NEW h, NEW cb \in {"list", "user"}
  PROVE  SetCallback(d, h, cb) \in Driver
<1> DEFINE t == [i \in Slots |->
                   IF i \in AddressOf(d, h) THEN [d.table[i] EXCEPT !.cb = cb] ELSE d.table[i]]
<1>1. ASSUME NEW i \in Slots  PROVE t[i] \in Request
  <2>1. d.table[i] \in Request
    BY DriverIs
  <2>2. [d.table[i] EXCEPT !.cb = cb] \in Request
    BY <2>1 DEF Request
  <2> QED
    BY <2>1, <2>2
<1>2. t \in [Slots -> Request]
  BY <1>1
<1>3. SetCallback(d, h, cb) = [d EXCEPT !.table = t]
  <2>1. d.table \in [Slots -> Request]
    BY DriverIs
  <2> QED
    BY <2>1 DEF SetCallback, Driver
<1> HIDE DEF t
<1> QED
  BY <1>2, <1>3, WithTable

LEMMA SetCommandType ==
  ASSUME NEW d \in Driver, NEW h, NEW cmd \in Command
  PROVE  SetCommand(d, h, cmd) \in Driver
<1> DEFINE t == [i \in Slots |->
                   IF i \in AddressOf(d, h) THEN [d.table[i] EXCEPT !.cmd = cmd] ELSE d.table[i]]
<1>1. ASSUME NEW i \in Slots  PROVE t[i] \in Request
  <2>1. d.table[i] \in Request
    BY DriverIs
  <2>2. [d.table[i] EXCEPT !.cmd = cmd] \in Request
    BY <2>1 DEF Request
  <2> QED
    BY <2>1, <2>2
<1>2. t \in [Slots -> Request]
  BY <1>1
<1>3. SetCommand(d, h, cmd) = [d EXCEPT !.table = t]
  <2>1. d.table \in [Slots -> Request]
    BY DriverIs
  <2> QED
    BY <2>1 DEF SetCommand, Driver
<1> HIDE DEF t
<1> QED
  BY <1>2, <1>3, WithTable

LEMMA SendToType ==
  ASSUME NEW d \in Driver, NEW i \in Slots
  PROVE  SendTo(d, i) \in Driver
<1> DEFINE n == NextId(d.id)
           r == [d.table[i] EXCEPT !.id = n, !.ttl = LocalTime]
           q == Queue(d.out, Asks(d, i))
<1>1. n \in 1 .. MaxId
  BY NextIdType, DriverIs
<1>2. d.table[i] \in Request
  BY DriverIs
<1>3. r \in Request
  <2>1. n \in 0 .. MaxId
    BY <1>1
  <2> HIDE DEF n
  <2> QED
    BY <1>2, <2>1, TimesType DEF Request
<1>4. Asks(d, i) \in Asking
  BY <1>1, <1>2, RequestIs DEF Asks, Asking, Handle
<1>5. q \in Seq(Asking)
  BY <1>4, QueueType, DriverIs
<1>6. n \in 0 .. MaxId
  BY <1>1
<1>7. SendTo(d, i) = IF d.table[i].cb = "none" THEN Release(d, i)
                     ELSE [[d EXCEPT !.table[i] = r] EXCEPT !.id = n, !.out = q]
  BY DEF SendTo, Driver
<1> HIDE DEF n, r, q
<1>8. [[d EXCEPT !.table[i] = r] EXCEPT !.id = n, !.out = q] \in Driver
  <2>1. [d EXCEPT !.table[i] = r] \in Driver
    BY <1>3, WithRow
  <2> QED
    BY <1>5, <1>6, <2>1 DEF Driver
<1> QED
  BY <1>7, <1>8, ReleaseType

LEMMA SendType ==
  ASSUME NEW d \in Driver, NEW h
  PROVE  Send(d, h) \in Driver
<1>1. CASE AddressOf(d, h) = {}
  BY <1>1 DEF Send
<1>2. CASE AddressOf(d, h) # {}
  <2>1. h[1] \in Slots /\ Send(d, h) = SendTo(d, h[1])
    BY <1>2 DEF Send, AddressOf
  <2> QED
    BY <2>1, SendToType
<1> QED
  BY <1>1, <1>2

LEMMA WantedType ==
  ASSUME NEW d \in Driver, NEW refresh \in BOOLEAN
  PROVE  Wanted(d, refresh) \in Driver
BY DEF Wanted, Driver, Flag

LEMMA ListBegunType ==
  ASSUME NEW d \in Driver, NEW refresh \in BOOLEAN
  PROVE  ListBegun(d, refresh) \in Driver /\ Regs(refresh)[1] \in Command
<1> DEFINE l == [regs |-> Regs(refresh), index |-> 1, status |-> "running"]
<1>1. Len(Regs(refresh)) \in 1 .. Len(QueryRegs) /\ Len(QueryRegs) \in Nat
  BY RegsType
<1>2. 1 \in 1 .. Len(Regs(refresh)) /\ 1 \in 1 .. Len(QueryRegs) + 1
  BY <1>1
<1>3. l \in List
  BY <1>2 DEF List
<1>4. [d EXCEPT !.list = l] \in Driver
  BY <1>3 DEF Driver
<1> QED
  BY <1>2, <1>4, RegsType DEF ListBegun

LEMMA ExecuteType ==
  ASSUME NEW r, r.d \in Driver
  PROVE  Execute(r) \in Driver
<1> DEFINE e == Send(SetCallback(r.d, r.h, "list"), r.h)
<1>1. e \in Driver
  BY SetCallbackType, SendType
<1> HIDE DEF e
<1>2. [e EXCEPT !.flags = (@ \cup {"begin", "inprogress"}) \ {"error", "done", "refresh"}] \in Driver
  BY <1>1 DEF Driver, Flag
<1> QED
  BY <1>2 DEF Execute, e

LEMMA QueryNoTickType ==
  ASSUME NEW d \in Driver, NEW refresh \in BOOLEAN
  PROVE  QueryNoTick(d, refresh) \in Driver
<1> DEFINE e == ListBegun(Wanted(d, refresh), refresh)
<1>1. Wanted(d, refresh) \in Driver
  BY WantedType
<1>2. e \in Driver /\ Regs(refresh)[1] \in Command
  BY <1>1, ListBegunType
<1>3. CreateNoTick(e, Regs(refresh)[1]).d \in Driver
  BY <1>2, CreateNoTickType
<1> QED
  BY <1>1, <1>3, ExecuteType DEF QueryNoTick

LEMMA EndedType ==
  ASSUME NEW d \in Driver, NEW failed
  PROVE  Ended(d, failed) \in Driver
BY DEF Ended, Driver, Flag

LEMMA ListTimeoutType ==
  ASSUME NEW d \in Driver
  PROVE  ListTimeout(d) \in Driver
<1> DEFINE l == [d EXCEPT !.list.status = "timeout"]
<1>1. l \in Driver
  <2>1. [d.list EXCEPT !.status = "timeout"] \in List
    BY DriverIs DEF List
  <2> QED
    BY <2>1 DEF Driver
<1> HIDE DEF l
<1>2. Ended(l, TRUE) \in Driver
  BY <1>1, EndedType
<1>3. QueryNoTick(Ended(l, TRUE), TRUE) \in Driver
  BY <1>2, QueryNoTickType
<1> QED
  BY <1>2, <1>3 DEF ListTimeout, l

LEMMA TickSlotType ==
  ASSUME NEW d \in Driver, NEW i \in Slots
  PROVE  TickSlot(d, i) \in Driver
<1> DEFINE called == IF d.table[i].cb = "list" THEN ListTimeout(d) ELSE d
           freed == Release(called, i)
<1>1. called \in Driver
  BY ListTimeoutType
<1> HIDE DEF called
<1>2. freed \in Driver
  BY <1>1, ReleaseType
<1> HIDE DEF freed
<1>3. QueryNoTick(freed, TRUE) \in Driver
  BY <1>2, QueryNoTickType
<1> QED
  BY <1>2, <1>3 DEF TickSlot, freed, called

-----------------------------------------------------------------------------
(* xbee_cmd_tick goes through the slots one by one.  What each slot's turn *)
(* keeps, the whole of it keeps, by induction on the slots.                *)

LEMMA CountUp ==
  ASSUME NEW n \in Nat, NEW S, 0 \in S, \A k \in 1 .. n : k - 1 \in S => k \in S
  PROVE  \A k \in 0 .. n : k \in S
<1> DEFINE R == OpToRel(<, Nat)  T == {k \in 0 .. n : k \notin S}
<1> SUFFICES ASSUME T # {}  PROVE FALSE
  OBVIOUS
<1>1. T \subseteq Nat /\ \A k \in T : k \in 1 .. n /\ k - 1 \in 0 .. n
  OBVIOUS
<1>2. IsWellFoundedOn(R, Nat)
  BY NatLessThanWellFounded
<1>3. R = {ss \in Nat \X Nat : ss[1] < ss[2]}
  BY DEF OpToRel
<1> HIDE DEF R
<1>4. PICK k \in T : \A j \in T : <<j, k>> \notin R
  BY <1>1, <1>2, WFMin
<1>5. k - 1 \notin T
  <2>1. k - 1 \in Nat /\ k \in Nat /\ k - 1 < k
    BY <1>1
  <2>2. <<k - 1, k>> \in Nat \X Nat /\ <<k - 1, k>>[1] = k - 1 /\ <<k - 1, k>>[2] = k
    BY <2>1
  <2>3. <<k - 1, k>> \in R
    BY <1>3, <2>1, <2>2
  <2> QED
    BY <1>4, <2>3
<1> QED
  BY <1>1, <1>5

\* The driver before the slots, and after each of them.
Ticks(d, n, t) == t = [k \in 0 .. n |-> IF k = 0 THEN d ELSE TickSlot(t[k - 1], k)]

LEMMA TicksExist ==
  ASSUME NEW d
  PROVE  \E t : Ticks(d, TableSize, t)
<1> DEFINE S == {n \in 0 .. TableSize : \E t : Ticks(d, n, t)}
<1>1. 0 \in S
  <2> DEFINE t == [k \in 0 .. 0 |-> d]
  <2>1. Ticks(d, 0, t)
    BY DEF Ticks
  <2> QED
    BY <2>1, ConstantTypes
<1>2. ASSUME NEW n \in 1 .. TableSize, n - 1 \in S
      PROVE  n \in S
  <2>1. PICK t : Ticks(d, n - 1, t)
    BY <1>2
  <2> DEFINE u == [k \in 0 .. n |-> IF k = n THEN TickSlot(t[n - 1], n) ELSE t[k]]
  <2>2. n \in Nat /\ n # 0 /\ n - 1 \in 0 .. n /\ n - 1 # n /\ n \in 0 .. TableSize /\ n \in 0 .. n
    BY ConstantTypes
  <2>3. ASSUME NEW k \in 0 .. n  PROVE u[k] = IF k = 0 THEN d ELSE TickSlot(u[k - 1], k)
    <3>1. CASE k = n
      BY <2>2, <3>1
    <3>2. CASE k # n
      <4>1. k \in 0 .. n - 1 /\ (k # 0 => k - 1 \in 0 .. n - 1 /\ k - 1 # n /\ k - 1 \in 0 .. n)
        BY <2>2, <3>2
      <4>2. t[k] = IF k = 0 THEN d ELSE TickSlot(t[k - 1], k)
        BY <2>1, <4>1 DEF Ticks
      <4> QED
        BY <3>2, <4>1, <4>2
    <3> QED
      BY <3>1, <3>2
  <2>4. u = [k \in 0 .. n |-> u[k]]
    OBVIOUS
  <2> HIDE DEF u
  <2>5. Ticks(d, n, u)
    BY <2>3, <2>4 DEF Ticks
  <2> QED
    BY <2>2, <2>5
<1>3. \A n \in 0 .. TableSize : n \in S
  <2> HIDE DEF S
  <2> QED
    BY <1>1, <1>2, CountUp, ConstantTypes
<1>4. TableSize \in 0 .. TableSize
  BY ConstantTypes
<1> QED
  BY <1>3, <1>4

LEMMA TickAllKeeps ==
  ASSUME NEW S, NEW d \in S, \A e \in S, i \in Slots : TickSlot(e, i) \in S
  PROVE  TickAll(d) \in S
<1> DEFINE t == CHOOSE t : Ticks(d, TableSize, t)
<1>1. TickAll(d) = t[TableSize]
  BY DEF TickAll, Ticks
<1>2. Ticks(d, TableSize, t)
  BY TicksExist
<1> HIDE DEF t
<1>3. \A k \in 0 .. TableSize : t[k] = IF k = 0 THEN d ELSE TickSlot(t[k - 1], k)
  BY <1>2 DEF Ticks
<1> DEFINE K == {k \in 0 .. TableSize : t[k] \in S}
<1>4. 0 \in K
  BY <1>3, ConstantTypes
<1>5. ASSUME NEW k \in 1 .. TableSize, k - 1 \in K
      PROVE  k \in K
  <2>1. k \in 0 .. TableSize /\ k # 0 /\ k \in Slots
    BY ConstantTypes DEF Slots
  <2>2. t[k] = TickSlot(t[k - 1], k)
    BY <1>3, <2>1
  <2> QED
    BY <1>5, <2>1, <2>2
<1>6. \A k \in 0 .. TableSize : k \in K
  <2> HIDE DEF K
  <2> QED
    BY <1>4, <1>5, CountUp, ConstantTypes
<1>7. TableSize \in 0 .. TableSize
  BY ConstantTypes
<1> QED
  BY <1>1, <1>6, <1>7

LEMMA TickType ==
  ASSUME NEW d \in Driver
  PROVE  Tick(d) \in Driver
<1>1. [d EXCEPT !.due = FALSE] \in Driver
  BY DEF Driver
<1>2. TickAll([d EXCEPT !.due = FALSE]) \in Driver
  BY <1>1, TickSlotType, TickAllKeeps
<1> QED
  BY <1>2 DEF Tick

LEMMA CreateType ==
  ASSUME NEW d \in Driver, NEW cmd \in Command
  PROVE  /\ Create(d, cmd).d \in Driver
         /\ Create(d, cmd).h \in Handle \cup {NoHandle}
BY TickType, CreateNoTickType DEF Create

LEMMA QueryType ==
  ASSUME NEW d \in Driver, NEW refresh \in BOOLEAN
  PROVE  Query(d, refresh) \in Driver
<1> DEFINE e == ListBegun(Wanted(d, refresh), refresh)
<1>1. Wanted(d, refresh) \in Driver
  BY WantedType
<1>2. e \in Driver /\ Regs(refresh)[1] \in Command
  BY <1>1, ListBegunType
<1>3. Create(e, Regs(refresh)[1]).d \in Driver
  BY <1>2, CreateType
<1> QED
  BY <1>1, <1>3, ExecuteType DEF Query

LEMMA HandleEndType ==
  ASSUME NEW d \in Driver, NEW failed
  PROVE  HandleEnd(d, failed) \in Driver
BY EndedType, QueryType DEF HandleEnd

LEMMA CopyType ==
  ASSUME NEW d \in Driver, NEW f \in Answered
  PROVE  Copy(d, f) \in Driver
<1>1. f.value \in Address
  BY DEF Answered, Address
<1>2. [d EXCEPT !.joined = @ \/ f.value # Undefined] \in Driver
  BY DEF Driver
<1>3. [d EXCEPT !.net = f.value] \in Driver
  BY <1>1 DEF Driver
<1> QED
  BY <1>2, <1>3 DEF Copy

LEMMA WithList ==
  ASSUME NEW d \in Driver, NEW l \in List
  PROVE  [d EXCEPT !.list = l] \in Driver
BY DEF Driver

LEMMA ListOnly ==
  ASSUME NEW d \in Driver, NEW l, NEW e, e = [d EXCEPT !.list = l]
  PROVE  /\ e.list = l /\ e.table = d.table /\ e.id = d.id /\ e.out = d.out
         /\ e.flags = d.flags /\ e.net = d.net
BY DEF Driver

\* Whatever the answer, for a list that is not past its end.
LEMMA ListCallbackType ==
  ASSUME NEW d \in Driver, NEW h, NEW f \in Answered
  PROVE  ListCallback(d, h, f).d \in Driver
<1> DEFINE cur    == d.list.index
           regs   == d.list.regs
           c      == Copy(d, f)
           copied == [c EXCEPT !.list.index = @ + 1]
           done   == [copied EXCEPT !.list.status = "done"]
           bad    == [d EXCEPT !.list.status = "error"]
<1>1. PICK refresh \in BOOLEAN : regs = Regs(refresh)
  BY DriverIs DEF List
<1>2. cur \in Nat /\ cur >= 1 /\ Len(regs) \in Nat /\ Len(regs) <= Len(QueryRegs) /\ Len(QueryRegs) \in Nat
  <2>1. cur \in 1 .. Len(QueryRegs) + 1
    BY DriverIs DEF List
  <2>2. Len(regs) \in 1 .. Len(QueryRegs) /\ Len(QueryRegs) \in Nat
    BY <1>1, RegsType
  <2> QED
    BY <2>1, <2>2
<1>3. bad \in Driver
  <2>1. [d.list EXCEPT !.status = "error"] \in List
    BY DriverIs DEF List
  <2>2. bad = [d EXCEPT !.list = [d.list EXCEPT !.status = "error"]]
    OBVIOUS
  <2> QED
    BY <2>1, <2>2, WithList
<1>4. c \in Driver /\ c.list = d.list
  BY CopyType DEF Copy, Driver
<1> HIDE DEF bad, c
<1>5. CASE cur > Len(regs)
  <2>0. cur > Len(regs) /\ ~(cur <= Len(regs)) /\ ~(cur < Len(regs)) /\ cur # Len(regs)
    BY <1>2, <1>5
  <2> DEFINE e == HandleEnd(bad, TRUE)
  <2>1. ListCallback(d, h, f) = [d |-> e, again |-> FALSE]
    BY <2>0 DEF ListCallback, bad
  <2>2. e \in Driver
    BY <1>3, HandleEndType
  <2> HIDE DEF e
  <2> QED
    BY <2>1, <2>2
<1>6. CASE cur <= Len(regs) /\ regs[cur] # f.cmd
  <2>0. ~(cur > Len(regs)) /\ cur <= Len(regs) /\ regs[cur] # f.cmd
    BY <1>2, <1>6
  <2>1. ListCallback(d, h, f) = [d |-> bad, again |-> FALSE]
    BY <2>0 DEF ListCallback, bad
  <2> QED
    BY <1>3, <2>1
<1>7. CASE cur <= Len(regs) /\ regs[cur] = f.cmd
  <2>1. copied \in Driver
    <3>1. cur + 1 \in 1 .. Len(QueryRegs) + 1
      BY <1>2, <1>7
    <3>2. [d.list EXCEPT !.index = cur + 1] \in List
      BY <3>1, DriverIs DEF List
    <3>3. copied = [c EXCEPT !.list = [d.list EXCEPT !.index = cur + 1]]
      BY <1>4
    <3> QED
      BY <1>4, <3>2, <3>3, WithList
  <2>2. done \in Driver
    <3>1. [copied.list EXCEPT !.status = "done"] \in List
      BY <2>1, DriverIs DEF List
    <3>2. done = [copied EXCEPT !.list = [copied.list EXCEPT !.status = "done"]]
      OBVIOUS
    <3> QED
      BY <2>1, <3>1, <3>2, WithList
  <2>3. CASE cur = Len(regs)
    <3>0. ~(cur > Len(regs)) /\ ~(cur < Len(regs)) /\ cur = Len(regs) /\ regs[cur] = f.cmd
      BY <1>2, <1>7, <2>3
    <3> DEFINE e == HandleEnd(done, FALSE)
    <3>1. ListCallback(d, h, f) = [d |-> e, again |-> FALSE]
      BY <3>0 DEF ListCallback, c
    <3>2. e \in Driver
      BY <2>2, HandleEndType
    <3> HIDE DEF e
    <3> QED
      BY <3>1, <3>2
  <2>4. CASE cur < Len(regs)
    <3>0. ~(cur > Len(regs)) /\ cur < Len(regs) /\ cur # Len(regs) /\ regs[cur] = f.cmd
      BY <1>2, <1>7, <2>4
    <3>1. ListCallback(d, h, f) = [d |-> Send(SetCommand(copied, h, regs[cur + 1]), h), again |-> TRUE]
      BY <3>0 DEF ListCallback, c
    <3>2. cur + 1 \in 1 .. Len(regs)
      BY <1>2, <2>4
    <3>3. regs[cur + 1] \in Command
      BY <1>1, <3>2, RegsType
    <3> HIDE DEF copied
    <3> DEFINE m == SetCommand(copied, h, regs[cur + 1])
    <3>4. m \in Driver
      BY <2>1, <3>3, SetCommandType
    <3>5. Send(m, h) \in Driver
      BY <3>4, SendType
    <3> QED
      BY <3>1, <3>5
  <2> QED
    BY <1>2, <1>7, <2>3, <2>4
<1> QED
  BY <1>2, <1>5, <1>6, <1>7

LEMMA HandleResponseType ==
  ASSUME NEW d \in Driver, NEW f \in Answered
  PROVE  HandleResponse(d, f) \in Driver
<1> DEFINE i == First(Matches(d, f))
           r == IF d.table[i].cb = "list" THEN ListCallback(d, <<i, d.table[i].seq>>, f)
                ELSE [d |-> d, again |-> FALSE]
<1> SUFFICES ASSUME Matches(d, f) # {}  PROVE HandleResponse(d, f) \in Driver
  BY DEF HandleResponse
<1>1. i \in Slots
  BY FirstIsIn DEF Matches
<1>2. r.d \in Driver
  <2> DEFINE l == ListCallback(d, <<i, d.table[i].seq>>, f)
  <2>1. l.d \in Driver
    BY Zenon, ListCallbackType
  <2> HIDE DEF l
  <2> QED
    BY <2>1 DEF l
<1>3. HandleResponse(d, f) = IF r.again THEN [r.d EXCEPT !.table[i].ttl = ReuseTime]
                             ELSE Release(r.d, i)
  BY DEF HandleResponse
<1> HIDE DEF r, i
<1>4. [r.d EXCEPT !.table[i].ttl = ReuseTime] \in Driver
  <2>1. [r.d.table[i] EXCEPT !.ttl = ReuseTime] \in Request
    <3>1. r.d.table[i] \in Request
      BY <1>1, <1>2, DriverIs
    <3> QED
      BY <3>1, TimesType DEF Request
  <2>2. [r.d EXCEPT !.table[i] = [r.d.table[i] EXCEPT !.ttl = ReuseTime]] \in Driver
    BY <1>1, <1>2, <2>1, WithRow
  <2> QED
    BY <2>2
<1> QED
  BY <1>1, <1>2, <1>3, <1>4, ReleaseType

LEMMA HandleModemStatusType ==
  ASSUME NEW d \in Driver, NEW status
  PROVE  HandleModemStatus(d, status) \in Driver
<1>1. [d EXCEPT !.joined = TRUE] \in Driver /\ [d EXCEPT !.joined = FALSE, !.net = Undefined] \in Driver
  BY DEF Driver, Address
<1> QED
  BY <1>1, QueryType DEF HandleModemStatus

-----------------------------------------------------------------------------
Received == Answered \cup Status

LEMMA HeadOfIn ==
  ASSUME TypeOK, in # << >>
  PROVE  /\ Head(in) \in Received /\ Tail(in) \in Seq(Received)
         /\ Head(in).type = "answer" => Head(in) \in Answered
         /\ Head(in).type # "answer" => Head(in) \in Status
<1>1. Head(in) \in Received /\ Tail(in) \in Seq(Received)
  BY HeadTailProperties DEF TypeOK, Received
<1> QED
  BY <1>1 DEF Received, Answered, Status

LEMMA AnswerType ==
  ASSUME TypeOK, Answer
  PROVE  TypeOK'
<1> DEFINE f == Head(drv.out)
           a == [type |-> "answer", id |-> f.id, cmd |-> f.cmd, by |-> f.by, value |-> radioNet]
<1>1. drv.out \in Seq(Asking) /\ drv.out # << >>
  BY DriverIs DEF TypeOK, Answer
<1>2. f \in Asking /\ Tail(drv.out) \in Seq(Asking)
  BY <1>1, HeadTailProperties
<1>3. a \in Answered
  BY <1>2 DEF Asking, Answered, TypeOK
<1>4. in' = Append(in, a)
  BY DEF Answer
<1> HIDE DEF a, f
<1>5. in' \in Seq(Answered \cup Status)
  BY <1>3, <1>4, AppendProperties DEF TypeOK
<1>6. drv' \in Driver
  BY <1>2 DEF TypeOK, Driver, Answer
<1> QED
  BY <1>5, <1>6 DEF TypeOK, Answer

LEMMA RadioType ==
  ASSUME TypeOK, Lose \/ (\E n \in Networks \cup {Undefined} : NewNetwork(n))
  PROVE  TypeOK'
<1>1. CASE Lose
  <2>1. Tail(in) \in Seq(Received) /\ Head(in).type \in {"answer", "status"}
    <3>1. Tail(in) \in Seq(Received) /\ Head(in) \in Answered \cup Status
      BY <1>1, HeadOfIn DEF Lose, Received
    <3> QED
      BY <3>1 DEF Answered, Status
  <2>2. lost' \in 0 .. MaxLost /\ missed' \in BOOLEAN
    BY <1>1, ConstantTypes DEF TypeOK, Lose
  <2> QED
    BY <1>1, <2>1, <2>2 DEF TypeOK, Lose, Received
<1>2. ASSUME NEW n \in Networks \cup {Undefined}, NewNetwork(n)
      PROVE  TypeOK'
  <2> DEFINE s == [type |-> "status", status |-> IF n = Undefined THEN "left" ELSE "joined"]
  <2>1. s \in Answered \cup Status
    BY DEF Status
  <2>2. in' = Append(in, s)
    BY <1>2 DEF NewNetwork
  <2> HIDE DEF s
  <2>3. in' \in Seq(Answered \cup Status)
    BY <2>1, <2>2, AppendProperties DEF TypeOK
  <2>4. changes' \in 0 .. MaxChanges
    BY <1>2, ConstantTypes DEF TypeOK, NewNetwork
  <2> QED
    BY <1>2, <2>3, <2>4 DEF TypeOK, NewNetwork
<1> QED
  BY <1>1, <1>2

LEMMA SecondType ==
  ASSUME TypeOK, Second
  PROVE  TypeOK'
<1> DEFINE t == [i \in Slots |-> [drv.table[i] EXCEPT !.ttl = IF @ = 0 THEN 0 ELSE @ - 1]]
<1>1. ASSUME NEW i \in Slots  PROVE t[i] \in Request
  <2>1. drv.table[i] \in Request
    BY DriverIs DEF TypeOK
  <2> DEFINE n == BuildTime + LocalTime + ReuseTime  x == drv.table[i].ttl
             y == IF x = 0 THEN 0 ELSE x - 1
  <2>2. n \in Nat /\ x \in 0 .. n
    BY <2>1, RequestIs, ConstantTypes
  <2>3. t[i] = [drv.table[i] EXCEPT !.ttl = y]
    OBVIOUS
  <2> HIDE DEF n, x, t
  <2>4. y \in 0 .. n
    BY <2>2
  <2> HIDE DEF y
  <2>5. [drv.table[i] EXCEPT !.ttl = y] \in Request
    BY <2>1, <2>4 DEF Request, n
  <2> QED
    BY <2>3, <2>5
<1>2. t \in [Slots -> Request]
  BY <1>1
<1>3. drv' = [drv EXCEPT !.table = t, !.due = TRUE]
  BY DEF Second
<1> HIDE DEF t
<1>4. drv' \in Driver
  BY <1>2, <1>3 DEF TypeOK, Driver
<1> QED
  BY <1>4 DEF Second, TypeOK, radio

LEMMA DispatchType ==
  ASSUME TypeOK, Dispatch
  PROVE  TypeOK'
<1>1. /\ Tail(in) \in Seq(Received)
      /\ Head(in).type = "answer" => Head(in) \in Answered
  BY HeadOfIn DEF Dispatch
<1>2. drv' \in Driver
  BY <1>1, HandleResponseType, HandleModemStatusType DEF TypeOK, Dispatch
<1>3. crossed' \in BOOLEAN
  BY DEF TypeOK, Dispatch
<1> QED
  BY <1>1, <1>2, <1>3 DEF TypeOK, Dispatch, Received

LEMMA ConsoleType ==
  ASSUME TypeOK, NEW cmd \in UserCommands, ConsoleCommand(cmd)
  PROVE  TypeOK'
<1> DEFINE r == Create(drv, cmd)
<1>1. r.d \in Driver
  BY CreateType DEF TypeOK, Command
<1>2. SetCallback(r.d, r.h, "user") \in Driver
  BY <1>1, SetCallbackType
<1>3. Send(SetCallback(r.d, r.h, "user"), r.h) \in Driver
  BY <1>2, SendType
<1>4. drv' \in Driver
  BY <1>1, <1>3 DEF ConsoleCommand
<1> QED
  BY <1>4 DEF TypeOK, ConsoleCommand, Goto, radio

LEMMA MainType ==
  ASSUME TypeOK, Main
  PROVE  TypeOK'
<1>1. CASE Start
  BY <1>1, QueryType DEF TypeOK, Start, Goto, radio
<1>2. CASE InitFramesDone \/ ConsoleIdle \/ FramesDone
  BY <1>2 DEF TypeOK, InitFramesDone, ConsoleIdle, FramesDone, Goto, radio
<1>3. CASE InitStatus
  BY <1>3, TickType DEF TypeOK, InitStatus, radio
<1>4. CASE LoopTick
  BY <1>4, TickType DEF TypeOK, LoopTick, Goto, radio
<1>5. CASE \E cmd \in UserCommands : ConsoleCommand(cmd)
  BY <1>5, ConsoleType
<1> QED
  BY <1>1, <1>2, <1>3, <1>4, <1>5 DEF Main

LEMMA InitType ==
  ASSUME Init
  PROVE  TypeOK
<1>1. \A i \in Slots : Blank(0) \in Request
  BY BlankType, TimesType
<1>2. [i \in Slots |-> Blank(0)] \in [Slots -> Request]
  BY <1>1
<1>3. [regs |-> QueryRegs, index |-> 1, status |-> "done"] \in List
  <2> DEFINE n == Len(QueryRegs)
  <2>1. QueryRegs = Regs(FALSE) /\ n \in Nat
    BY RegsType DEF Regs
  <2> HIDE DEF n
  <2>2. 1 \in 1 .. n + 1
    BY <2>1
  <2> QED
    BY <2>1, <2>2 DEF List, n
<1>4. << >> \in Seq(Asking) /\ << >> \in Seq(Answered \cup Status)
  BY EmptySeq
<1>5. drv \in Driver
  <2>1. {} \in SUBSET Flag /\ "zero" \in Address /\ 0 \in 0 .. MaxId
    BY TimesType DEF Address
  <2> QED
    BY <1>2, <1>3, <1>4, <2>1 DEF Init, Driver
<1>6. 0 \in 0 .. MaxChanges /\ 0 \in 0 .. MaxLost
  BY ConstantTypes
<1> QED
  BY <1>4, <1>5, <1>6 DEF Init, TypeOK

LEMMA NextType ==
  ASSUME TypeOK, [Next]_vars
  PROVE  TypeOK'
<1>1. CASE UNCHANGED vars
  BY <1>1 DEF TypeOK, vars, radio
<1> QED
  BY <1>1, AnswerType, RadioType, SecondType, MainType, DispatchType DEF Next

(***************************************************************************)
(* Every handler leaves the driver's record, the frames on their way and   *)
(* the main loop's place in their types, however deep the handlers nest    *)
(* and however full the table is.                                          *)
(***************************************************************************)
THEOREM TypeCorrect == Spec => []TypeOK
<1>1. Init => TypeOK
  BY InitType
<1>2. TypeOK /\ [Next]_vars => TypeOK'
  BY NextType
<1> QED
  BY <1>1, <1>2, PTL DEF Spec

-----------------------------------------------------------------------------
(***************************************************************************)
(* From here on the table has room: for the console's requests, the one of *)
(* the query and the one of a query that begins when that one ends.  With  *)
(* less room xbee_cmd_create expires requests inside of handlers, and the  *)
(* runs at_cmd_one_query and at_cmd_query_alive show what becomes of it.   *)
(***************************************************************************)
Room == MaxUsers + 2 <= TableSize

Going(d)   == "inprogress" \in d.flags
ListOf(d)  == {i \in Slots : d.table[i].used /\ d.table[i].cb = "list"}
UsersOf(d) == {i \in Slots : d.table[i].used /\ d.table[i].cb = "user"}

TableOf(d) ==
  /\ \A i \in Slots : d.table[i].used => d.table[i].cb \in {"list", "user"}
  /\ Cardinality(UsersOf(d)) <= MaxUsers

\* The query under way has its one request; without one none is waited for
\* and no refresh is wanted.
QueryOf(d) ==
  IF Going(d)
  THEN /\ d.list.status = "running" /\ d.list.index <= Len(d.list.regs)
       /\ \E i \in Slots : ListOf(d) = {i} /\ d.table[i].cmd = d.list.regs[d.list.index]
  ELSE ListOf(d) = {} /\ "refresh" \notin d.flags

Good(d) == d \in Driver /\ TableOf(d) /\ QueryOf(d)

\* What a handler that sends nothing leaves of the requests, and one that
\* sends a command for slot i: rows are released, no other is given a new ID.
Kept(d, e, j) == /\ d.table[j].used
                 /\ e.table[j].id = d.table[j].id /\ e.table[j].seq = d.table[j].seq

Silent(d, e) == /\ e.id = d.id /\ e.out = d.out
                /\ \A j \in Slots : e.table[j].used => Kept(d, e, j)

SentFor(d, e, i) ==
  /\ \E f \in Asking : /\ f.id = NextId(d.id) /\ e.id = f.id /\ e.out = Queue(d.out, f)
                       /\ e.table[i].used => /\ e.table[i].id = f.id
                                             /\ f.by = <<i, e.table[i].seq>>
  /\ \A j \in Slots \ {i} : e.table[j].used => Kept(d, e, j)

SendsOne(d, e) == \E i \in Slots : SentFor(d, e, i)

\* Whether the driver is going to ask for the network address, or could not.
Ahead(d) ==
  Going(d) /\ \E k \in d.list.index .. Len(d.list.regs) : d.list.regs[k] = "MY"

Unsure(d) ==
  \/ "refresh" \in d.flags
  \/ Ahead(d)
  \/ ~Going(d) /\ ("error" \in d.flags \/ "done" \notin d.flags)

Step(d, e) == Good(e) /\ (Silent(d, e) \/ SendsOne(d, e))

Sure(d, e) == Unsure(e) \/ (e.net = d.net /\ ~Unsure(d))

-----------------------------------------------------------------------------
LEMMA SlotsFinite ==
  /\ IsFiniteSet(Slots) /\ Cardinality(Slots) = TableSize
  /\ \A S \in SUBSET Slots : IsFiniteSet(S) /\ Cardinality(S) \in Nat
<1>1. IsFiniteSet(Slots) /\ Cardinality(Slots) = TableSize
  BY FS_Interval, ConstantTypes DEF Slots
<1> QED
  BY <1>1, FS_Subset, FS_CardinalityType

\* There is a free slot whenever the query has one request at the most.
LEMMA FreeSlot ==
  ASSUME Room, NEW d \in Driver, TableOf(d), NEW i \in Slots, ListOf(d) \subseteq {i}
  PROVE  FreeSlots(d) # {}
<1> SUFFICES ASSUME FreeSlots(d) = {}  PROVE FALSE
  OBVIOUS
<1> DEFINE U == UsersOf(d)
<1>1. Slots \subseteq U \cup {i}
  BY DEF FreeSlots, TableOf, ListOf, UsersOf
<1>2. U \subseteq Slots
  BY DEF UsersOf
<1>3. IsFiniteSet(U) /\ Cardinality(U) \in Nat /\ Cardinality(U) <= MaxUsers
  BY <1>2, SlotsFinite DEF TableOf
<1>4. IsFiniteSet(U \cup {i}) /\ Cardinality(U \cup {i}) <= Cardinality(U) + 1
  <2>1. IsFiniteSet(U \cup {i})
    BY <1>3, FS_AddElement
  <2>2. Cardinality(U \cup {i}) = IF i \in U THEN Cardinality(U) ELSE Cardinality(U) + 1
    BY <1>3, FS_AddElement
  <2> HIDE DEF U
  <2> QED
    BY <1>3, <2>1, <2>2
<1>5. Cardinality(U \cup {i}) \in Nat
  BY <1>4, FS_CardinalityType
<1>6. TableSize <= Cardinality(U \cup {i})
  BY <1>1, <1>4, SlotsFinite, FS_Subset
<1> QED
  BY <1>3, <1>4, <1>5, <1>6, ConstantTypes DEF Room

\* xbee_cmd_create in a free slot, with a callback, and xbee_cmd_send.
Row(d, r, i, cb, cmd) ==
  /\ r.used /\ r.seq = d.table[i].seq /\ r.ttl = LocalTime
  /\ r.cb = cb /\ r.id = NextId(d.id) /\ r.cmd = cmd

Made(d, e, i, cb, cmd) ==
  /\ e.table = [d.table EXCEPT ![i] = e.table[i]] /\ Row(d, e.table[i], i, cb, cmd)
  /\ e.id = NextId(d.id)
  /\ e.out = Queue(d.out, [id |-> NextId(d.id), cmd |-> cmd, by |-> <<i, d.table[i].seq>>])
  /\ e.list = d.list /\ e.flags = d.flags
  /\ e.joined = d.joined /\ e.net = d.net

LEMMA MadeIs ==
  ASSUME NEW d \in Driver, FreeSlots(d) # {}, NEW cmd \in Command, NEW cb \in {"list", "user"}
  PROVE  LET r == CreateNoTick(d, cmd)
             i == First(FreeSlots(d))
         IN /\ r.h # NoHandle /\ i \in FreeSlots(d)
            /\ Made(d, Send(SetCallback(r.d, r.h, cb), r.h), i, cb, cmd)
<1> DEFINE i == First(FreeSlots(d))
           s == d.table[i].seq
           h == <<i, s>>
           r0 == [used |-> TRUE, seq |-> s, ttl |-> BuildTime, cb |-> "none", id |-> 0, cmd |-> cmd]
           r1 == [r0 EXCEPT !.cb = cb]
           d1 == [d EXCEPT !.table[i] = r0]
           d2 == [d EXCEPT !.table[i] = r1]
<1>1. i \in FreeSlots(d) /\ i \in Slots
  BY FirstIsIn DEF FreeSlots
<1>2. CreateNoTick(d, cmd) = [d |-> d1, h |-> h]
  BY DEF CreateNoTick
<1>3. h # NoHandle
  BY <1>1, ConstantTypes DEF NoHandle, Slots
<1> HIDE DEF i
<1>4. d.table \in [Slots -> Request] /\ DOMAIN d.table = Slots
  BY DriverIs
<1>5. SetCallback(d1, h, cb) = d2
  <2>1. d1.table = [d.table EXCEPT ![i] = r0]
    BY DEF Driver
  <2>2. AddressOf(d1, h) = {i}
    BY <1>1, <1>4, <2>1 DEF AddressOf
  <2> DEFINE t == [j \in Slots |-> IF j \in AddressOf(d1, h) THEN [d1.table[j] EXCEPT !.cb = cb]
                                   ELSE d1.table[j]]
  <2>3. ASSUME NEW j \in Slots  PROVE t[j] = [d.table EXCEPT ![i] = r1][j]
    <3>1. CASE j = i
      <4>1. d1.table[j] = r0
        BY <1>1, <1>4, <2>1, <3>1
      <4>2. t[j] = [r0 EXCEPT !.cb = cb]
        BY <2>2, <3>1, <4>1
      <4> QED
        BY <1>1, <1>4, <3>1, <4>2
    <3>2. CASE j # i
      <4>1. d1.table[j] = d.table[j]
        BY <1>1, <1>4, <2>1, <3>2
      <4> QED
        BY <1>1, <1>4, <2>2, <3>2, <4>1
    <3> QED
      BY <3>1, <3>2
  <2>4. t = [d.table EXCEPT ![i] = r1]
    BY <1>4, <2>3
  <2>5. SetCallback(d1, h, cb) = [d1 EXCEPT !.table = t]
    BY DEF SetCallback
  <2> HIDE DEF t, r0, r1
  <2> QED
    BY <2>4, <2>5 DEF Driver
<1>6. d2.table = [d.table EXCEPT ![i] = r1] /\ d2.table[i] = r1
  BY <1>1, <1>4 DEF Driver
<1>7. Send(d2, h) = SendTo(d2, i)
  <2>1. AddressOf(d2, h) = {i}
    BY <1>1, <1>6 DEF AddressOf
  <2> QED
    BY <2>1 DEF Send
<1>8. r1.used /\ r1.cb = cb /\ r1.seq = s /\ r1.cmd = cmd /\ DOMAIN r1 = DOMAIN r0
      /\ DOMAIN r0 = {"used", "seq", "ttl", "cb", "id", "cmd"}
  OBVIOUS
<1> HIDE DEF r1
<1>9. d2.id = d.id /\ d2.out = d.out /\ d2.list = d.list /\ d2.flags = d.flags
      /\ d2.joined = d.joined /\ d2.net = d.net /\ DOMAIN d2 = DOMAIN d
      /\ DOMAIN d = {"table", "id", "list", "flags", "joined", "net", "due", "out"}
  BY DEF Driver
<1>10. Asks(d2, i) = [id |-> NextId(d.id), cmd |-> cmd, by |-> <<i, s>>]
  BY <1>6, <1>8, <1>9 DEF Asks
<1> HIDE DEF d2
<1> DEFINE e == SendTo(d2, i)
<1>11. e = [d2 EXCEPT !.id = NextId(@), !.table[i] = [@ EXCEPT !.id = NextId(d2.id), !.ttl = LocalTime],
                      !.out = Queue(@, Asks(d2, i))]
  BY <1>6, <1>8 DEF SendTo
<1>12. e.table = [d2.table EXCEPT ![i] = [r1 EXCEPT !.id = NextId(d.id), !.ttl = LocalTime]]
  BY <1>6, <1>9, <1>11
<1>13. e.table = [d.table EXCEPT ![i] = e.table[i]] /\ Row(d, e.table[i], i, cb, cmd)
  <2> DEFINE r2 == [r1 EXCEPT !.id = NextId(d.id), !.ttl = LocalTime]
  <2>1. r2.id = NextId(d.id) /\ r2.ttl = LocalTime /\ r2.used /\ r2.seq = s /\ r2.cb = cb /\ r2.cmd = cmd
    BY <1>8
  <2> HIDE DEF r2
  <2>2. e.table = [d.table EXCEPT ![i] = r2] /\ e.table[i] = r2
    BY <1>1, <1>4, <1>6, <1>12 DEF r2
  <2> QED
    BY <2>1, <2>2 DEF Row
<1>14. /\ e.id = NextId(d.id) /\ e.out = Queue(d.out, Asks(d2, i)) /\ e.list = d.list
       /\ e.flags = d.flags /\ e.joined = d.joined /\ e.net = d.net
  BY <1>9, <1>11
<1> HIDE DEF e
<1>15. Made(d, e, i, cb, cmd)
  BY <1>10, <1>13, <1>14 DEF Made
<1> QED
  BY <1>1, <1>2, <1>3, <1>5, <1>7, <1>15 DEF i, e

\* The query begins in slot i.
Begins(d, e, refresh, i) ==
  /\ e.table = [d.table EXCEPT ![i] = e.table[i]]
  /\ Row(d, e.table[i], i, "list", Regs(refresh)[1])
  /\ e.id = NextId(d.id)
  /\ \E f \in Asking : /\ f.id = NextId(d.id) /\ f.by = <<i, d.table[i].seq>>
                       /\ e.out = Queue(d.out, f)
  /\ e.list.regs = Regs(refresh) /\ e.list.index = 1 /\ e.list.status = "running"
  /\ "inprogress" \in e.flags /\ "refresh" \notin e.flags
  /\ e.net = d.net

LEMMA QueryBegins ==
  ASSUME NEW d \in Driver, FreeSlots(d) # {}, ~Going(d), NEW refresh \in BOOLEAN
  PROVE  /\ Query(d, refresh) = QueryNoTick(d, refresh)
         /\ \E i \in FreeSlots(d) : Begins(d, QueryNoTick(d, refresh), refresh, i)
<1> DEFINE b == ListBegun(Wanted(d, refresh), refresh)
           cmd == Regs(refresh)[1]
           r == CreateNoTick(b, cmd)
           i == First(FreeSlots(b))
           m == Send(SetCallback(r.d, r.h, "list"), r.h)
           e == QueryNoTick(d, refresh)
<1>1. b \in Driver /\ cmd \in Command
  BY WantedType, ListBegunType
<1>2. /\ b.table = d.table /\ b.id = d.id /\ b.out = d.out /\ b.net = d.net
      /\ b.list.regs = Regs(refresh) /\ b.list.index = 1 /\ b.list.status = "running"
  BY DEF ListBegun, Wanted, Driver
<1> HIDE DEF b, cmd
<1>3. FreeSlots(b) = FreeSlots(d)
  BY <1>2 DEF FreeSlots
<1>4. r.h # NoHandle /\ i \in FreeSlots(d) /\ Made(b, m, i, "list", cmd)
  BY <1>1, <1>3, MadeIs
<1>5. Query(d, refresh) = Execute(r) /\ e = Execute(r)
  BY <1>3 DEF Query, QueryNoTick, Create, Going, b, cmd
<1>6. e = [m EXCEPT !.flags = (@ \cup {"begin", "inprogress"}) \ {"error", "done", "refresh"}]
  BY <1>4, <1>5 DEF Execute
<1>7. m \in Driver
  <2>1. r.d \in Driver
    BY <1>1, CreateNoTickType
  <2>2. SetCallback(r.d, r.h, "list") \in Driver
    BY <2>1, SetCallbackType
  <2> QED
    BY <2>2, SendType
<1> HIDE DEF r, m, e, i
<1>8. /\ e.table = m.table /\ e.id = m.id /\ e.out = m.out /\ e.list = m.list /\ e.net = m.net
      /\ "inprogress" \in e.flags /\ "refresh" \notin e.flags
  BY <1>6, <1>7 DEF Driver
<1> DEFINE f == [id |-> NextId(d.id), cmd |-> cmd, by |-> <<i, d.table[i].seq>>]
<1>9. f \in Asking /\ f.id = NextId(d.id) /\ f.by = <<i, d.table[i].seq>>
  <2>1. i \in Slots
    BY <1>4 DEF FreeSlots
  <2>2. d.table[i].seq \in 0 .. MaxSeq /\ NextId(d.id) \in 1 .. MaxId
    BY <2>1, DriverIs, RequestIs, NextIdType
  <2> QED
    BY <1>1, <2>1, <2>2 DEF Asking, Handle
<1>10. e.out = Queue(d.out, f)
  BY <1>2, <1>4, <1>8 DEF Made
<1> HIDE DEF f
<1>11. Row(d, e.table[i], i, "list", cmd) /\ e.table = [d.table EXCEPT ![i] = e.table[i]] /\ e.id = NextId(d.id)
  BY <1>2, <1>4, <1>8 DEF Made, Row
<1>12. e.list = b.list /\ e.net = d.net
  BY <1>2, <1>4, <1>8 DEF Made
<1>13. Begins(d, e, refresh, i)
  BY <1>2, <1>8, <1>9, <1>10, <1>11, <1>12 DEF Begins, cmd
<1> QED
  BY <1>4, <1>5, <1>13 DEF e

\* A query that has just begun has the address before it.
LEMMA FreshIsUnsure ==
  ASSUME NEW d, Going(d), NEW refresh \in BOOLEAN, d.list.regs = Regs(refresh), d.list.index = 1
  PROVE  Unsure(d)
BY RegsType DEF Unsure, Ahead

\* Good is about these parts of the driver alone.
LEMMA GoodSame ==
  ASSUME NEW d \in Driver, NEW e \in Driver, TableOf(d), QueryOf(d),
         \A j \in Slots : /\ e.table[j].used = d.table[j].used /\ e.table[j].cb = d.table[j].cb
                          /\ e.table[j].cmd = d.table[j].cmd,
         e.list = d.list, Going(e) <=> Going(d), ~Going(d) => "refresh" \notin e.flags
  PROVE  Good(e)
<1>1. UsersOf(e) = UsersOf(d) /\ ListOf(e) = ListOf(d)
  BY DEF UsersOf, ListOf
<1>2. TableOf(e)
  BY <1>1 DEF TableOf
<1>3. QueryOf(e)
  BY <1>1 DEF QueryOf
<1> QED
  BY <1>2, <1>3 DEF Good

LEMMA SureSame ==
  ASSUME NEW d, NEW e, e.net = d.net, e.list = d.list, e.flags = d.flags
  PROVE  Sure(d, e) /\ (Unsure(e) <=> Unsure(d))
BY DEF Sure, Unsure, Ahead, Going

LEMMA SureThenSure ==
  ASSUME NEW d, NEW e, NEW g, Sure(d, e), Sure(e, g)
  PROVE  Sure(d, g)
BY DEF Sure

LEMMA TableIs ==
  ASSUME NEW d \in Driver, NEW e, NEW i \in Slots, e.table = [d.table EXCEPT ![i] = e.table[i]]
  PROVE  \A j \in Slots \ {i} : e.table[j] = d.table[j]
BY DEF Driver

LEMMA FewerUsers ==
  ASSUME NEW d, NEW e, TableOf(d), UsersOf(e) \subseteq UsersOf(d)
  PROVE  Cardinality(UsersOf(e)) <= MaxUsers
<1>1. UsersOf(d) \subseteq Slots
  BY DEF UsersOf
<1>2. IsFiniteSet(UsersOf(d)) /\ Cardinality(UsersOf(d)) \in Nat
  BY <1>1, SlotsFinite
<1>3. Cardinality(UsersOf(e)) \in Nat /\ Cardinality(UsersOf(e)) <= Cardinality(UsersOf(d))
  BY <1>2, FS_Subset, FS_CardinalityType
<1> QED
  BY <1>2, <1>3, ConstantTypes DEF TableOf

LEMMA SilentThenSilent ==
  ASSUME NEW d, NEW e, NEW g, Silent(d, e), Silent(e, g)
  PROVE  Silent(d, g)
BY DEF Silent, Kept

LEMMA SilentThenSends ==
  ASSUME NEW d, NEW e, NEW g, Silent(d, e), SendsOne(e, g)
  PROVE  SendsOne(d, g)
<1>1. PICK i \in Slots : SentFor(e, g, i)
  BY DEF SendsOne
<1>2. e.id = d.id /\ e.out = d.out
  BY DEF Silent
<1>3. \A j \in Slots \ {i} : g.table[j].used => Kept(d, g, j)
  BY <1>1 DEF SentFor, Silent, Kept
<1>4. SentFor(d, g, i)
  BY <1>1, <1>2, <1>3 DEF SentFor
<1> QED
  BY <1>4 DEF SendsOne

LEMMA SendsThenSilent ==
  ASSUME NEW d, NEW e, NEW g, SendsOne(d, e), Silent(e, g)
  PROVE  SendsOne(d, g)
<1>1. PICK i \in Slots : SentFor(d, e, i)
  BY DEF SendsOne
<1>2. \A j \in Slots \ {i} : g.table[j].used => Kept(d, g, j)
  BY <1>1 DEF SentFor, Silent, Kept
<1>3. SentFor(d, g, i)
  BY <1>1, <1>2 DEF SentFor, Silent, Kept
<1> QED
  BY <1>3 DEF SendsOne

-----------------------------------------------------------------------------
(* One lemma for each handler: what it makes of a driver in good state.    *)

LEMMA BeginGood ==
  ASSUME NEW d, Good(d), ~Going(d), NEW e \in Driver, NEW refresh \in BOOLEAN,
         NEW i \in FreeSlots(d), Begins(d, e, refresh, i)
  PROVE  Step(d, e) /\ Unsure(e)
<1>1. d \in Driver /\ i \in Slots /\ ~d.table[i].used
  BY DEF Good, FreeSlots
<1>2. \A j \in Slots \ {i} : e.table[j] = d.table[j]
  BY <1>1, TableIs DEF Begins
<1>3. e.table[i].used /\ e.table[i].cb = "list" /\ e.table[i].cmd = Regs(refresh)[1]
      /\ e.table[i].id = NextId(d.id) /\ e.table[i].seq = d.table[i].seq
  BY DEF Begins, Row
<1>4. ListOf(e) = {i}
  BY <1>1, <1>2, <1>3 DEF ListOf, Good, QueryOf
<1>5. UsersOf(e) = UsersOf(d)
  BY <1>1, <1>2, <1>3 DEF UsersOf
<1>6. TableOf(e)
  BY <1>2, <1>3, <1>5 DEF TableOf, Good
<1>7. QueryOf(e)
  <2>1. Len(Regs(refresh)) \in 1 .. Len(QueryRegs) /\ Len(QueryRegs) \in Nat
    BY RegsType
  <2>2. e.list.index <= Len(e.list.regs)
    BY <2>1 DEF Begins
  <2> QED
    BY <1>1, <1>3, <1>4, <2>2 DEF QueryOf, Going, Begins
<1>8. SentFor(d, e, i)
  BY <1>2, <1>3 DEF SentFor, Begins, Kept
<1>9. Unsure(e)
  BY FreshIsUnsure DEF Begins, Going
<1> QED
  BY <1>1, <1>6, <1>7, <1>8, <1>9 DEF Step, Good, SendsOne

LEMMA QueryGood ==
  ASSUME Room, NEW d, Good(d), NEW refresh \in BOOLEAN
  PROVE  /\ Step(d, Query(d, refresh)) /\ Sure(d, Query(d, refresh))
         /\ refresh => Unsure(Query(d, refresh))
<1>1. CASE Going(d)
  <2> DEFINE e == Wanted(d, refresh)
  <2>1. Query(d, refresh) = e
    BY <1>1 DEF Query, Going
  <2>2. e \in Driver
    BY WantedType DEF Good
  <2>3. e.table = d.table /\ e.list = d.list /\ Going(e) /\ e.id = d.id /\ e.out = d.out
    BY <1>1 DEF Wanted, Going, Good, Driver
  <2> HIDE DEF e
  <2>4. Good(e)
    BY <1>1, <2>2, <2>3, GoodSame DEF Good
  <2>5. Silent(d, e)
    BY <2>3 DEF Silent, Kept
  <2>6. refresh => Unsure(e)
    BY DEF Unsure, Wanted, Good, Driver, e
  <2>7. Sure(d, e)
    <3>1. ~refresh => e.flags = d.flags /\ e.net = d.net
      BY DEF Wanted, Good, Driver, e
    <3> QED
      BY <2>3, <2>6, <3>1, SureSame DEF Sure
  <2> QED
    BY <1>1, <2>1, <2>4, <2>5, <2>6, <2>7 DEF Step
<1>2. CASE ~Going(d)
  <2>1. d \in Driver /\ TableOf(d) /\ ListOf(d) = {} /\ 1 \in Slots
    BY <1>2, ConstantTypes DEF Good, QueryOf, Slots
  <2>2. FreeSlots(d) # {}
    BY <2>1, FreeSlot
  <2>3. PICK i \in FreeSlots(d) : Begins(d, Query(d, refresh), refresh, i)
    BY <1>2, <2>1, <2>2, QueryBegins
  <2>4. Query(d, refresh) \in Driver
    BY <2>1, QueryType
  <2> QED
    BY <1>2, <2>3, <2>4, BeginGood DEF Sure
<1> QED
  BY <1>1, <1>2

LEMMA ReleaseIs ==
  ASSUME NEW d \in Driver, NEW i \in Slots
  PROVE  /\ ~Release(d, i).table[i].used
         /\ \A j \in Slots \ {i} : Release(d, i).table[j] = d.table[j]
         /\ Release(d, i).id = d.id /\ Release(d, i).out = d.out /\ Release(d, i).list = d.list
         /\ Release(d, i).flags = d.flags /\ Release(d, i).net = d.net
<1> DEFINE b == Blank((d.table[i].seq + 1) % (MaxSeq + 1))
<1>1. Release(d, i) = [d EXCEPT !.table[i] = b] /\ ~b.used
  BY DEF Release, Blank
<1> HIDE DEF b
<1> QED
  BY <1>1 DEF Driver

\* A console request leaves the table.
LEMMA UserGone ==
  ASSUME NEW d, Good(d), NEW i \in Slots, d.table[i].used, d.table[i].cb = "user"
  PROVE  /\ Good(Release(d, i)) /\ Silent(d, Release(d, i)) /\ ListOf(Release(d, i)) = ListOf(d)
         /\ Sure(d, Release(d, i)) /\ (Unsure(Release(d, i)) <=> Unsure(d))
<1> DEFINE e == Release(d, i)
<1>1. d \in Driver /\ e \in Driver /\ TableOf(d) /\ QueryOf(d)
  BY ReleaseType DEF Good
<1>2. /\ ~e.table[i].used /\ \A j \in Slots \ {i} : e.table[j] = d.table[j]
      /\ e.id = d.id /\ e.out = d.out /\ e.list = d.list /\ e.flags = d.flags /\ e.net = d.net
  BY <1>1, ReleaseIs
<1> HIDE DEF e
<1>3. ListOf(e) = ListOf(d) /\ UsersOf(e) \subseteq UsersOf(d)
  BY <1>2 DEF ListOf, UsersOf
<1>4. TableOf(e)
  BY <1>1, <1>2, <1>3, FewerUsers DEF TableOf
<1>5. QueryOf(e)
  BY <1>1, <1>2, <1>3 DEF QueryOf, Going, ListOf
<1>6. Silent(d, e)
  BY <1>2 DEF Silent, Kept
<1>7. Sure(d, e) /\ (Unsure(e) <=> Unsure(d))
  BY <1>2, SureSame
<1> QED
  BY <1>1, <1>3, <1>4, <1>5, <1>6, <1>7 DEF Good, e

\* The query's request has been answered for good or timed out: its slot is
\* released, with the next query begun before that if there is to be one.
Restarted(x) == IF Again(x) THEN QueryNoTick(x, TRUE) ELSE x

LEMMA QueryEnds ==
  ASSUME Room, NEW x \in Driver, TableOf(x), NEW i \in Slots, ListOf(x) = {i}, ~Going(x)
  PROVE  LET g == Release(Restarted(x), i)
         IN /\ Step(x, g) /\ "refresh" \notin g.flags
            /\ \A j \in ListOf(g) : g.table[j].ttl # 0
            /\ Unsure(g) \/ (g.net = x.net /\ g.flags = x.flags)
<1> DEFINE e == Restarted(x)  g == Release(e, i)
<1>1. x.table[i].used /\ x.table[i].cb = "list"
  BY DEF ListOf
<1>2. e \in Driver /\ g \in Driver
  BY QueryNoTickType, ReleaseType DEF Restarted
<1> HIDE DEF e
<1>3. /\ ~g.table[i].used /\ \A j \in Slots \ {i} : g.table[j] = e.table[j]
      /\ g.id = e.id /\ g.out = e.out /\ g.list = e.list /\ g.flags = e.flags /\ g.net = e.net
  BY <1>2, ReleaseIs
<1> HIDE DEF g
<1>4. CASE ~Again(x)
  <2>1. e = x /\ "refresh" \notin x.flags
    BY <1>4 DEF Again, Restarted, e
  <2>2. ListOf(g) = {} /\ UsersOf(g) \subseteq UsersOf(x)
    <3>1. \A j \in Slots : g.table[j].used => j # i /\ g.table[j] = x.table[j]
      BY <1>3, <2>1
    <3> QED
      BY <3>1 DEF ListOf, UsersOf
  <2>3. TableOf(g)
    BY <1>3, <2>1, <2>2, FewerUsers DEF TableOf
  <2>4. QueryOf(g)
    BY <1>3, <2>1, <2>2 DEF QueryOf, Going
  <2>5. Silent(x, g)
    BY <1>3, <2>1 DEF Silent, Kept
  <2> QED
    BY <1>2, <1>3, <2>1, <2>2, <2>3, <2>4, <2>5 DEF Step, Good, g, e
<1>5. CASE Again(x)
  <2>1. e = QueryNoTick(x, TRUE)
    BY <1>5 DEF Restarted, e
  <2>2. FreeSlots(x) # {}
    BY FreeSlot
  <2>3. PICK j \in FreeSlots(x) : Begins(x, e, TRUE, j)
    BY <2>1, <2>2, QueryBegins
  <2>4. j \in Slots /\ ~x.table[j].used /\ j # i
    BY <1>1 DEF FreeSlots
  <2>5. \A k \in Slots \ {j} : e.table[k] = x.table[k]
    BY ONLY x \in Driver, <2>3, <2>4, TableIs DEF Begins
  <2>6. /\ g.table[j].used /\ g.table[j].cb = "list" /\ g.table[j].cmd = Regs(TRUE)[1]
        /\ g.table[j].id = NextId(x.id) /\ g.table[j].seq = x.table[j].seq
        /\ g.table[j].ttl = LocalTime
    BY <1>3, <2>3, <2>4 DEF Begins, Row
  <2>7. \A k \in Slots \ {j} : g.table[k].used => k # i /\ g.table[k] = x.table[k]
    BY <1>3, <2>4, <2>5
  <2>8. ListOf(g) = {j}
    BY ONLY ListOf(x) = {i}, <2>4, <2>6, <2>7 DEF ListOf
  <2>9. UsersOf(g) \subseteq UsersOf(x)
    BY ONLY <2>6, <2>7 DEF UsersOf
  <2>10. TableOf(g)
    <3>1. \A k \in Slots : g.table[k].used => g.table[k].cb \in {"list", "user"}
      BY ONLY TableOf(x), <2>6, <2>7 DEF TableOf
    <3>2. Cardinality(UsersOf(g)) <= MaxUsers
      BY <2>9, FewerUsers
    <3> QED
      BY <3>1, <3>2 DEF TableOf
  <2>11. /\ Going(g) /\ "refresh" \notin g.flags
         /\ g.list.regs = Regs(TRUE) /\ g.list.index = 1 /\ g.list.status = "running"
    BY <1>3, <2>3 DEF Going, Begins
  <2>12. QueryOf(g)
    <3>1. g.list.index <= Len(g.list.regs)
      <4>1. Len(Regs(TRUE)) \in 1 .. Len(QueryRegs) /\ Len(QueryRegs) \in Nat
        BY RegsType
      <4>2. g.list.index = 1 /\ Len(g.list.regs) = Len(Regs(TRUE))
        BY <2>11
      <4> DEFINE m == Len(Regs(TRUE))  n == Len(QueryRegs)
      <4> HIDE DEF m, n
      <4>3. n \in Nat /\ m \in 1 .. n => 1 <= m
        OBVIOUS
      <4> QED
        BY ONLY <4>1, <4>2, <4>3 DEF m, n
    <3> QED
      BY ONLY <2>4, <2>6, <2>8, <2>11, <3>1 DEF QueryOf
  <2>13. SentFor(x, g, j)
    <3>1. PICK f \in Asking : /\ f.id = NextId(x.id) /\ f.by = <<j, x.table[j].seq>>
                              /\ e.out = Queue(x.out, f)
      BY <2>3 DEF Begins
    <3>2. g.id = f.id /\ g.out = Queue(x.out, f)
      BY <1>3, <2>3, <3>1 DEF Begins
    <3>3. \A k \in Slots \ {j} : g.table[k].used => Kept(x, g, k)
      BY ONLY <2>7 DEF Kept
    <3> QED
      BY ONLY <2>6, <3>1, <3>2, <3>3 DEF SentFor
  <2>14. \A k \in ListOf(g) : g.table[k].ttl # 0
    BY <2>6, <2>8, ConstantTypes
  <2>15. Unsure(g)
    BY <2>11, FreshIsUnsure
  <2> QED
    <3>1. Step(x, g)
      BY ONLY <1>2, <2>4, <2>10, <2>12, <2>13 DEF Step, Good, SendsOne
    <3> QED
      BY <2>11, <2>14, <2>15, <3>1 DEF g, e
<1> QED
  BY <1>4, <1>5

-----------------------------------------------------------------------------
(* xbee_cmd_tick                                                           *)

LEMMA TickSlotGood ==
  ASSUME Room, NEW d, Good(d), NEW i \in Slots
  PROVE  LET e == TickSlot(d, i)
         IN /\ Step(d, e) /\ Sure(d, e)
            /\ \/ Silent(d, e) /\ \A j \in ListOf(e) : j \in ListOf(d) /\ e.table[j] = d.table[j]
               \/ d.table[i].ttl = 0 /\ i \in ListOf(d) /\ \A j \in ListOf(e) : e.table[j].ttl # 0
<1> DEFINE e == TickSlot(d, i)
<1>1. d \in Driver /\ TableOf(d) /\ QueryOf(d)
  BY DEF Good
<1>2. CASE ~Expired(d.table[i])
  <2>1. e = d
    BY <1>2 DEF TickSlot
  <2>2. Silent(d, d) /\ Sure(d, d)
    BY DEF Silent, Kept, Sure
  <2> QED
    BY <2>1, <2>2 DEF Step
<1>3. CASE Expired(d.table[i]) /\ d.table[i].cb # "list"
  <2> DEFINE freed == Release(d, i)
  <2>1. d.table[i].used /\ d.table[i].cb = "user"
    BY <1>1, <1>3 DEF Expired, TableOf
  <2>2. Good(freed) /\ Silent(d, freed) /\ ListOf(freed) = ListOf(d) /\ Sure(d, freed)
    BY <2>1, UserGone
  <2>3. freed.flags = d.flags /\ freed \in Driver /\ \A j \in Slots \ {i} : freed.table[j] = d.table[j]
    BY <1>1, ReleaseIs, ReleaseType
  <2>4. e = IF "refresh" \in freed.flags THEN QueryNoTick(freed, TRUE) ELSE freed
    BY <1>3 DEF TickSlot
  <2> HIDE DEF freed
  <2>5. e = freed
    <3> SUFFICES ASSUME "refresh" \in freed.flags  PROVE QueryNoTick(freed, TRUE) = freed
      BY <2>4
    <3>1. Going(freed)
      BY <2>2 DEF Good, QueryOf
    <3>2. QueryNoTick(freed, TRUE) = [freed EXCEPT !.flags = @ \cup {"refresh"}]
      BY <3>1 DEF QueryNoTick, Wanted, Going
    <3>3. freed.flags \cup {"refresh"} = freed.flags
      OBVIOUS
    <3> QED
      BY <2>3, <3>2, <3>3 DEF Driver
  <2>6. \A j \in ListOf(freed) : freed.table[j] = d.table[j]
    BY <2>1, <2>2, <2>3 DEF ListOf
  <2> QED
    BY <2>2, <2>5, <2>6 DEF Step
<1>4. CASE Expired(d.table[i]) /\ d.table[i].cb = "list"
  <2> DEFINE l == [d EXCEPT !.list.status = "timeout"]
             x == Ended(l, TRUE)
             c == Restarted(x)
  <2>1. i \in ListOf(d) /\ ListOf(d) = {i} /\ d.table[i].ttl = 0
    BY <1>1, <1>4 DEF Expired, ListOf, QueryOf
  <2>2. l \in Driver /\ l.table = d.table /\ l.id = d.id /\ l.out = d.out
    <3>1. [d.list EXCEPT !.status = "timeout"] \in List
      BY <1>1, DriverIs DEF List
    <3> QED
      BY <1>1, <3>1 DEF Driver
  <2>3. ListTimeout(d) = c
    BY DEF ListTimeout, Restarted
  <2> HIDE DEF l
  <2>4. x \in Driver /\ x.table = d.table /\ x.id = d.id /\ x.out = d.out /\ ~Going(x)
        /\ "error" \in x.flags
    BY <2>2, EndedType DEF Ended, Going, Driver
  <2>5. e = IF "refresh" \in Release(c, i).flags THEN QueryNoTick(Release(c, i), TRUE) ELSE Release(c, i)
    BY <1>4, <2>3 DEF TickSlot
  <2> HIDE DEF x
  <2>6. TableOf(x) /\ ListOf(x) = {i} /\ Silent(d, x)
    <3>1. \A j \in Slots : x.table[j] = d.table[j]
      BY <2>4
    <3>2. ListOf(x) = ListOf(d) /\ UsersOf(x) = UsersOf(d)
      BY ONLY <3>1 DEF ListOf, UsersOf
    <3>3. TableOf(x)
      BY <1>1, <3>1, <3>2 DEF TableOf
    <3> QED
      BY ONLY <2>1, <2>4, <3>1, <3>2, <3>3 DEF Silent, Kept
  <2>7. LET g == Release(c, i)
        IN /\ Step(x, g) /\ "refresh" \notin g.flags
           /\ \A j \in ListOf(g) : g.table[j].ttl # 0
           /\ Unsure(g) \/ (g.net = x.net /\ g.flags = x.flags)
    BY <2>4, <2>6, QueryEnds
  <2> HIDE DEF c
  <2>8. e = Release(c, i)
    BY <2>5, <2>7
  <2>9. Step(d, e)
    BY <2>6, <2>7, <2>8, SilentThenSilent, SilentThenSends DEF Step
  <2>10. Sure(d, e)
    <3>1. ~Going(e) => "error" \notin e.flags \/ Unsure(e)
      BY DEF Unsure
    <3> QED
      BY <2>4, <2>7, <2>8, <3>1 DEF Sure, Going
  <2> QED
    BY <2>1, <2>7, <2>8, <2>9, <2>10
<1> QED
  BY <1>2, <1>3, <1>4

\* One command at the most goes out in a whole round over the slots.
TickedTo(d, e) ==
  /\ Good(e) /\ Sure(d, e)
  /\ Silent(d, e) \/ (SendsOne(d, e) /\ \A j \in ListOf(e) : e.table[j].ttl # 0)

LEMMA TickedFurther ==
  ASSUME Room, NEW d, NEW e, TickedTo(d, e), NEW i \in Slots
  PROVE  TickedTo(d, TickSlot(e, i))
<1> DEFINE g == TickSlot(e, i)
<1>1. /\ Step(e, g) /\ Sure(e, g)
      /\ \/ Silent(e, g) /\ \A j \in ListOf(g) : j \in ListOf(e) /\ g.table[j] = e.table[j]
         \/ e.table[i].ttl = 0 /\ i \in ListOf(e) /\ \A j \in ListOf(g) : g.table[j].ttl # 0
  BY TickSlotGood DEF TickedTo
<1> HIDE DEF g
<1>2. Good(g) /\ (Silent(e, g) \/ SendsOne(e, g)) /\ Sure(d, g)
  BY <1>1, SureThenSure DEF Step, TickedTo
<1>3. CASE Silent(d, e)
  BY <1>1, <1>2, <1>3, SilentThenSilent, SilentThenSends DEF TickedTo, g
<1>4. CASE SendsOne(d, e) /\ \A j \in ListOf(e) : e.table[j].ttl # 0
  <2>1. Silent(e, g) /\ \A j \in ListOf(g) : j \in ListOf(e) /\ g.table[j] = e.table[j]
    BY <1>1, <1>4
  <2>2. SendsOne(d, g)
    BY <1>4, <2>1, SendsThenSilent
  <2> QED
    BY <1>2, <1>4, <2>1, <2>2 DEF TickedTo, g
<1> QED
  BY <1>3, <1>4 DEF TickedTo

LEMMA TickGood ==
  ASSUME Room, NEW d, Good(d)
  PROVE  Step(d, Tick(d)) /\ Sure(d, Tick(d))
<1> DEFINE S == {e \in Driver : TickedTo(d, e)}
           d0 == [d EXCEPT !.due = FALSE]
<1>1. Silent(d, d) /\ Sure(d, d)
  BY DEF Silent, Kept, Sure
<1>2. d0 \in Driver /\ d0.table = d.table /\ d0.list = d.list /\ d0.flags = d.flags
      /\ d0.id = d.id /\ d0.out = d.out /\ d0.net = d.net
  BY DEF Good, Driver
<1> HIDE DEF d0
<1>3. Good(d0)
  BY <1>2, GoodSame DEF Good, Going, QueryOf
<1>4. d0 \in S
  BY <1>2, <1>3, SureSame DEF TickedTo, Silent, Kept
<1>5. ASSUME NEW e \in S, NEW i \in Slots  PROVE TickSlot(e, i) \in S
  BY TickedFurther, TickSlotType
<1>6. TickAll(d0) \in S
  <2> HIDE DEF S
  <2> QED
    BY <1>4, <1>5, TickAllKeeps
<1>7. Step(d, TickAll(d0)) /\ Sure(d, TickAll(d0))
  BY <1>6 DEF TickedTo, Step
<1>8. Tick(d) = IF d.due THEN TickAll(d0) ELSE d
  BY SMTT(30) DEF Tick, d0
<1> QED
  BY <1>1, <1>7, <1>8 DEF Step

-----------------------------------------------------------------------------
(* _xbee_cmd_handle_response                                               *)

\* The driver takes v for the network address, or is going to ask for it.
Known(d, v) == d.net = v \/ Unsure(d)

\* The request in slot i is sent again for the next command of the list.
Resent(c, e, i, cmd) ==
  /\ e.table[i].used /\ e.table[i].cb = c.table[i].cb /\ e.table[i].seq = c.table[i].seq
  /\ e.table[i].cmd = cmd /\ e.table[i].id = NextId(c.id)
  /\ \A j \in Slots \ {i} : e.table[j] = c.table[j]
  /\ e.id = NextId(c.id)
  /\ \E f \in Asking : /\ f.id = NextId(c.id) /\ f.by = <<i, c.table[i].seq>>
                       /\ e.out = Queue(c.out, f)
  /\ e.list = c.list /\ e.flags = c.flags /\ e.net = c.net

LEMMA ResentIs ==
  ASSUME NEW c \in Driver, NEW i \in Slots, c.table[i].used, c.table[i].cb = "list",
         NEW cmd \in Command
  PROVE  LET h == <<i, c.table[i].seq>>
             e == [Send(SetCommand(c, h, cmd), h) EXCEPT !.table[i].ttl = ReuseTime]
         IN e \in Driver /\ Resent(c, e, i, cmd)
<1> DEFINE s == c.table[i].seq
           h == <<i, s>>
           r1 == [c.table[i] EXCEPT !.cmd = cmd]
           d == [c EXCEPT !.table[i] = r1]
<1>1. c.table \in [Slots -> Request] /\ DOMAIN c.table = Slots /\ c.table[i] \in Request
  BY DriverIs
<1>2. AddressOf(c, h) = {i}
  BY DEF AddressOf
<1>3. SetCommand(c, h, cmd) = d
  <2> DEFINE t == [j \in Slots |-> IF j \in AddressOf(c, h) THEN [c.table[j] EXCEPT !.cmd = cmd]
                                   ELSE c.table[j]]
  <2>1. \A j \in Slots : t[j] = [c.table EXCEPT ![i] = r1][j]
    BY <1>1, <1>2
  <2>2. t = [c.table EXCEPT ![i] = r1]
    BY <1>1, <2>1
  <2>3. SetCommand(c, h, cmd) = [c EXCEPT !.table = t]
    BY DEF SetCommand
  <2> HIDE DEF t, r1
  <2> QED
    BY <2>2, <2>3 DEF Driver
<1>4. r1.used = c.table[i].used /\ r1.cb = c.table[i].cb /\ r1.seq = s /\ r1.cmd = cmd /\ r1 \in Request
  BY <1>1 DEF Request
<1> HIDE DEF r1
<1>5. /\ d.table = [c.table EXCEPT ![i] = r1] /\ d.table[i] = r1 /\ d.id = c.id /\ d.out = c.out
      /\ d.list = c.list /\ d.flags = c.flags /\ d.net = c.net
  BY <1>1 DEF Driver
<1>6. d \in Driver
  BY <1>4, WithRow
<1> HIDE DEF d
<1>7. Send(d, h) = SendTo(d, i)
  <2>1. AddressOf(d, h) = {i}
    BY <1>4, <1>5 DEF AddressOf
  <2> QED
    BY <2>1 DEF Send
<1> DEFINE n == NextId(c.id)
           f == Asks(d, i)
           r2 == [r1 EXCEPT !.id = n, !.ttl = LocalTime]
           q == Queue(c.out, f)
           m == [d EXCEPT !.id = n, !.table[i] = r2, !.out = q]
           r3 == [r2 EXCEPT !.ttl = ReuseTime]
           e == [m EXCEPT !.table[i].ttl = ReuseTime]
<1>8. SendTo(d, i) = m
  <2>1. d.table[i].cb # "none"
    BY <1>4, <1>5
  <2> QED
    BY <1>5, <2>1 DEF SendTo
<1>9. f \in Asking /\ f.id = n /\ f.by = <<i, s>>
  <2>1. f = [id |-> n, cmd |-> cmd, by |-> <<i, s>>]
    BY <1>4, <1>5 DEF Asks
  <2>2. n \in 1 .. MaxId /\ s \in 0 .. MaxSeq
    BY <1>1, DriverIs, NextIdType, RequestIs
  <2> HIDE DEF f, n
  <2> QED
    BY <2>1, <2>2 DEF Asking, Handle
<1>10. r3.used = r1.used /\ r3.cb = r1.cb /\ r3.seq = s /\ r3.cmd = cmd /\ r3.id = n
  BY <1>4 DEF Request
<1> HIDE DEF f, n, q
<1>11. m \in Driver
  BY <1>6, <1>7, <1>8, SendToType
<1>12. /\ m.table = [d.table EXCEPT ![i] = r2] /\ m.id = n /\ m.out = q /\ m.list = d.list
       /\ m.flags = d.flags /\ m.net = d.net
  BY <1>6 DEF Driver
<1> HIDE DEF m, r2
<1>13. m.table[i] = r2 /\ e = [m EXCEPT !.table[i] = r3]
  BY <1>1, <1>5, <1>12
<1>14. \A j \in Slots \ {i} : m.table[j] = c.table[j]
  BY <1>1, <1>5, <1>12
<1>15. r3 \in Request
  <2>1. r2 \in Request
    BY <1>11, <1>13, DriverIs
  <2> QED
    BY <2>1, TimesType DEF Request
<1> HIDE DEF r3
<1>16. e \in Driver
  BY <1>11, <1>13, <1>15, WithRow
<1>17. /\ e.table[i] = r3 /\ \A j \in Slots \ {i} : e.table[j] = m.table[j]
       /\ e.id = m.id /\ e.out = m.out /\ e.list = m.list /\ e.flags = m.flags /\ e.net = m.net
  BY <1>11, <1>13 DEF Driver
<1>18. e = [Send(SetCommand(c, h, cmd), h) EXCEPT !.table[i].ttl = ReuseTime]
  BY <1>3, <1>7, <1>8
<1> HIDE DEF e
<1>19. Resent(c, e, i, cmd)
  <2>1. e.table[i].used /\ e.table[i].cb = c.table[i].cb /\ e.table[i].seq = s
        /\ e.table[i].cmd = cmd /\ e.table[i].id = n
    BY <1>4, <1>10, <1>17
  <2>2. e.id = n /\ e.out = Queue(c.out, f)
    BY <1>12, <1>17 DEF q
  <2>3. e.list = c.list /\ e.flags = c.flags /\ e.net = c.net
    BY <1>5, <1>12, <1>17
  <2>4. \A j \in Slots \ {i} : e.table[j] = c.table[j]
    BY <1>14, <1>17
  <2> QED
    BY <1>9, <2>1, <2>2, <2>3, <2>4 DEF Resent, n
<1> QED
  BY <1>16, <1>18, <1>19

\* _xbee_cmd_handle_response once the request is found and is the query's.
HandleList(d, i, f) ==
  LET r == ListCallback(d, <<i, d.table[i].seq>>, f)
  IN IF r.again THEN [r.d EXCEPT !.table[i].ttl = ReuseTime] ELSE Release(r.d, i)

\* The list goes on to its next command.
LEMMA ListGoesOn ==
  ASSUME NEW d, Good(d), NEW i \in ListOf(d), NEW f \in Answered, f.cmd = d.table[i].cmd,
         d.list.index < Len(d.list.regs)
  PROVE  /\ Step(d, HandleList(d, i, f))
         /\ Known(d, f.value) => Known(HandleList(d, i, f), f.value)
<1> DEFINE cur == d.list.index
           regs == d.list.regs
           c0 == Copy(d, f)
           c == [c0 EXCEPT !.list.index = @ + 1]
           h == <<i, d.table[i].seq>>
           cmd == regs[cur + 1]
           e == HandleList(d, i, f)
<1>1. d \in Driver /\ TableOf(d) /\ QueryOf(d) /\ i \in Slots /\ d.table[i].used /\ d.table[i].cb = "list"
  BY DEF Good, ListOf
<1>2. /\ Going(d) /\ d.list.status = "running" /\ ListOf(d) = {i} /\ regs[cur] = f.cmd
  BY <1>1 DEF QueryOf
<1>3. PICK refresh \in BOOLEAN : regs = Regs(refresh)
  BY <1>1, DriverIs DEF List
<1>4. cur \in Nat /\ cur >= 1 /\ Len(regs) \in Nat /\ Len(regs) <= Len(QueryRegs) /\ Len(QueryRegs) \in Nat
  <2>1. cur \in 1 .. Len(QueryRegs) + 1
    BY <1>1, DriverIs DEF List
  <2>2. Len(regs) \in 1 .. Len(QueryRegs) /\ Len(QueryRegs) \in Nat
    BY <1>3, RegsType
  <2> QED
    BY <2>1, <2>2
<1>5. cmd \in Command
  <2>1. cur + 1 \in 1 .. Len(regs)
    BY <1>4
  <2> QED
    BY <1>3, <2>1, RegsType
<1>6. /\ c0 \in Driver /\ c0.table = d.table /\ c0.id = d.id /\ c0.out = d.out /\ c0.list = d.list
      /\ c0.flags = d.flags /\ c0.net = IF f.cmd = "MY" THEN f.value ELSE d.net
  BY <1>1, CopyType DEF Copy, Driver
<1> HIDE DEF c0
<1>7. /\ c \in Driver /\ c.table = d.table /\ c.id = d.id /\ c.out = d.out /\ c.flags = d.flags
      /\ c.net = c0.net /\ c.list.regs = regs /\ c.list.index = cur + 1 /\ c.list.status = "running"
  <2>1. cur + 1 \in 1 .. Len(QueryRegs) + 1
    BY <1>4
  <2>2. [d.list EXCEPT !.index = cur + 1] \in List
    BY <1>1, <2>1, DriverIs DEF List
  <2>3. c = [c0 EXCEPT !.list = [d.list EXCEPT !.index = cur + 1]]
    BY <1>6
  <2> HIDE DEF c
  <2>4. c \in Driver
    BY <1>6, <2>2, <2>3, WithList
  <2>5. d.list \in List
    BY <1>1, DriverIs
  <2> DEFINE l == [d.list EXCEPT !.index = cur + 1]
  <2>6. l.regs = regs /\ l.index = cur + 1 /\ l.status = "running"
    BY <1>2, <2>5 DEF List
  <2> HIDE DEF l
  <2>7. c = [c0 EXCEPT !.list = l]
    BY <2>3 DEF l
  <2>8. /\ c.list = l /\ c.table = c0.table /\ c.id = c0.id /\ c.out = c0.out
        /\ c.flags = c0.flags /\ c.net = c0.net
    BY SMTT(30), <1>6, <2>7, ListOnly
  <2> QED
    BY <1>6, <2>4, <2>6, <2>8
<1>8. e = [Send(SetCommand(c, h, cmd), h) EXCEPT !.table[i].ttl = ReuseTime]
  <2>1. ~(cur > Len(regs)) /\ cur < Len(regs) /\ cur # Len(regs) /\ regs[cur] = f.cmd
    BY <1>2, <1>4
  <2> DEFINE r == ListCallback(d, h, f)  sent == Send(SetCommand(c, h, cmd), h)
  <2>2. r = [d |-> sent, again |-> TRUE]
    BY <2>1 DEF ListCallback, c0
  <2>3. e = IF r.again THEN [r.d EXCEPT !.table[i].ttl = ReuseTime] ELSE Release(r.d, i)
    BY DEF HandleList
  <2> HIDE DEF r, sent, e
  <2>4. r.again /\ r.d = sent
    BY ONLY Zenon, <2>2
  <2> QED
    BY <2>3, <2>4 DEF sent
<1> HIDE DEF c, e, cmd
<1>9. e \in Driver /\ Resent(c, e, i, cmd)
  BY <1>1, <1>5, <1>7, <1>8, ResentIs
<1>10. /\ e.table[i].used /\ e.table[i].cb = "list" /\ e.table[i].seq = d.table[i].seq
       /\ e.table[i].cmd = regs[cur + 1] /\ e.table[i].id = NextId(d.id)
       /\ e.id = NextId(d.id) /\ e.flags = d.flags /\ e.net = c0.net
       /\ e.list.regs = regs /\ e.list.index = cur + 1 /\ e.list.status = "running"
  BY <1>1, <1>7, <1>9 DEF Resent, cmd
<1>11. \A j \in Slots \ {i} : e.table[j] = d.table[j]
  BY <1>7, <1>9 DEF Resent
<1>12. ListOf(e) = {i} /\ UsersOf(e) = UsersOf(d)
  BY <1>1, <1>2, <1>10, <1>11 DEF ListOf, UsersOf
<1>13. TableOf(e)
  BY <1>1, <1>10, <1>11, <1>12 DEF TableOf
<1>14. QueryOf(e)
  <2>1. e.list.index <= Len(e.list.regs)
    BY <1>4, <1>10
  <2> QED
    BY <1>1, <1>2, <1>10, <1>12, <2>1 DEF QueryOf, Going
<1>15. SentFor(d, e, i)
  <2>1. PICK a \in Asking : a.id = NextId(d.id) /\ a.by = <<i, d.table[i].seq>> /\ e.out = Queue(d.out, a)
    BY <1>7, <1>9 DEF Resent
  <2>2. \A j \in Slots \ {i} : e.table[j].used => Kept(d, e, j)
    BY <1>11 DEF Kept
  <2> QED
    BY <1>10, <2>1, <2>2 DEF SentFor
<1>16. Known(d, f.value) => Known(e, f.value)
  <2> SUFFICES ASSUME Known(d, f.value), e.net # f.value  PROVE Unsure(e)
    BY DEF Known
  <2>1. f.cmd # "MY" /\ Unsure(d)
    BY <1>6, <1>10 DEF Known
  <2>2. CASE "refresh" \in d.flags
    BY <1>10, <2>2 DEF Unsure
  <2>3. CASE Ahead(d)
    <3>1. PICK k \in cur .. Len(regs) : regs[k] = "MY"
      BY <2>3 DEF Ahead
    <3>2. k # cur
      BY <1>2, <2>1, <3>1
    <3>3. k \in cur + 1 .. Len(regs)
      BY <1>4, <3>2
    <3>4. Ahead(e)
      BY <1>2, <1>10, <3>1, <3>3 DEF Ahead, Going
    <3> QED
      BY <3>4 DEF Unsure
  <2> QED
    BY <1>2, <2>1, <2>2, <2>3 DEF Unsure
<1> QED
  BY <1>1, <1>9, <1>13, <1>14, <1>15, <1>16 DEF Step, Good, SendsOne, e

\* The list has got its last answer.
LEMMA ListFinished ==
  ASSUME Room, NEW d, Good(d), NEW i \in ListOf(d), NEW f \in Answered, f.cmd = d.table[i].cmd,
         d.list.index = Len(d.list.regs)
  PROVE  /\ Step(d, HandleList(d, i, f))
         /\ Known(d, f.value) => Known(HandleList(d, i, f), f.value)
<1> DEFINE cur == d.list.index
           regs == d.list.regs
           c0 == Copy(d, f)
           c == [c0 EXCEPT !.list.index = @ + 1]
           done == [c EXCEPT !.list.status = "done"]
           x == Ended(done, FALSE)
           h == <<i, d.table[i].seq>>
           e == HandleList(d, i, f)
<1>1. d \in Driver /\ TableOf(d) /\ QueryOf(d) /\ i \in Slots /\ d.table[i].used /\ d.table[i].cb = "list"
  BY DEF Good, ListOf
<1>2. /\ Going(d) /\ ListOf(d) = {i} /\ regs[cur] = f.cmd
  BY <1>1 DEF QueryOf
<1>3. cur \in Nat /\ cur + 1 \in 1 .. Len(QueryRegs) + 1
  <2>1. PICK refresh \in BOOLEAN : regs = Regs(refresh)
    BY <1>1, DriverIs DEF List
  <2>2. Len(regs) \in 1 .. Len(QueryRegs) /\ Len(QueryRegs) \in Nat
    BY <2>1, RegsType
  <2> QED
    BY <2>2
<1>4. /\ c0 \in Driver /\ c0.table = d.table /\ c0.id = d.id /\ c0.out = d.out /\ c0.list = d.list
      /\ c0.flags = d.flags /\ c0.net = IF f.cmd = "MY" THEN f.value ELSE d.net
  BY <1>1, CopyType DEF Copy, Driver
<1> DEFINE l == [d.list EXCEPT !.index = cur + 1, !.status = "done"]
<1>5. l \in List
  BY <1>1, <1>3, DriverIs DEF List
<1>6. ListCallback(d, h, f) = [d |-> HandleEnd(done, FALSE), again |-> FALSE]
  <2>1. ~(cur > Len(regs)) /\ ~(cur < Len(regs)) /\ cur = Len(regs) /\ regs[cur] = f.cmd
    BY <1>2, <1>3
  <2> QED
    BY <2>1 DEF ListCallback
<1> HIDE DEF c0
<1>7. done = [c0 EXCEPT !.list = l]
  BY <1>4
<1> HIDE DEF c, done, l
<1>8. /\ done \in Driver /\ done.table = d.table /\ done.id = d.id /\ done.out = d.out
      /\ done.flags = d.flags /\ done.net = c0.net
  BY <1>4, <1>5, <1>7, WithList DEF Driver
<1>9. /\ x \in Driver /\ x.table = d.table /\ x.id = d.id /\ x.out = d.out /\ ~Going(x)
      /\ x.flags = (d.flags \ {"inprogress"}) \cup {"done"} /\ x.net = c0.net
  BY <1>8, EndedType DEF Ended, Going, Driver
<1>10. e = Release(HandleEnd(done, FALSE), i)
  <2> DEFINE r == ListCallback(d, h, f)  m == HandleEnd(done, FALSE)
  <2>1. e = IF r.again THEN [r.d EXCEPT !.table[i].ttl = ReuseTime] ELSE Release(r.d, i)
    BY DEF HandleList
  <2>2. r = [d |-> m, again |-> FALSE]
    BY <1>6
  <2> HIDE DEF r, e, m
  <2> QED
    BY <2>1, <2>2 DEF m
<1> HIDE DEF x
<1>11. TableOf(x) /\ ListOf(x) = {i} /\ Silent(d, x)
  <2>1. \A j \in Slots : x.table[j] = d.table[j]
    BY <1>9
  <2>2. ListOf(x) = ListOf(d) /\ UsersOf(x) = UsersOf(d)
    BY ONLY <2>1 DEF ListOf, UsersOf
  <2>3. TableOf(x)
    BY <1>1, <2>1, <2>2 DEF TableOf
  <2> QED
    BY ONLY <1>2, <1>9, <2>1, <2>2, <2>3 DEF Silent, Kept
<1>12. HandleEnd(done, FALSE) = Restarted(x)
  <2>1. FreeSlots(x) # {}
    BY <1>1, <1>9, <1>11, FreeSlot
  <2>2. Query(x, TRUE) = QueryNoTick(x, TRUE)
    BY <1>9, <2>1, QueryBegins
  <2> QED
    BY <2>2 DEF HandleEnd, Restarted, x
<1>13. e = Release(Restarted(x), i)
  BY <1>10, <1>12
<1> HIDE DEF e
<1>14. /\ Step(x, e) /\ "refresh" \notin e.flags
       /\ Unsure(e) \/ (e.net = x.net /\ e.flags = x.flags)
  BY <1>1, <1>9, <1>11, <1>13, QueryEnds
<1>15. Step(d, e)
  BY <1>11, <1>14, SilentThenSilent, SilentThenSends DEF Step
<1>16. Known(d, f.value) => Known(e, f.value)
  <2> SUFFICES ASSUME Known(d, f.value), ~Unsure(e), e.net # f.value  PROVE FALSE
    BY DEF Known
  <2>1. e.net = c0.net /\ e.flags = x.flags
    BY <1>9, <1>14
  <2>2. f.cmd # "MY" /\ Unsure(d)
    BY <1>4, <2>1 DEF Known
  <2>3. "refresh" \notin d.flags
    BY <1>9, <1>14, <2>1
  <2>4. Ahead(d)
    BY <1>2, <2>2, <2>3 DEF Unsure
  <2>5. PICK k \in cur .. cur : regs[k] = "MY"
    BY <2>4 DEF Ahead
  <2>6. k = cur
    BY <1>3
  <2> QED
    BY <1>2, <2>2, <2>5, <2>6
<1> QED
  BY <1>15, <1>16 DEF e

LEMMA ResponseGood ==
  ASSUME Room, NEW d, Good(d), NEW f \in Answered
  PROVE  /\ Step(d, HandleResponse(d, f))
         /\ Known(d, f.value) => Known(HandleResponse(d, f), f.value)
<1> DEFINE e == HandleResponse(d, f)  i == First(Matches(d, f))
<1>1. d \in Driver /\ TableOf(d) /\ QueryOf(d)
  BY DEF Good
<1>2. CASE Matches(d, f) = {}
  <2>1. e = d
    BY <1>2 DEF HandleResponse
  <2>2. Silent(d, d)
    BY DEF Silent, Kept
  <2> QED
    BY <2>1, <2>2 DEF Step
<1>3. CASE Matches(d, f) # {}
  <2>1. i \in Slots /\ d.table[i].used /\ d.table[i].cmd = f.cmd
    BY <1>3, FirstIsIn DEF Matches
  <2>2. CASE d.table[i].cb # "list"
    <3>1. d.table[i].cb = "user"
      BY <1>1, <2>1, <2>2 DEF TableOf
    <3>2. e = Release(d, i)
      BY <1>3, <2>2 DEF HandleResponse
    <3> HIDE DEF e, i
    <3>3. Good(Release(d, i)) /\ Silent(d, Release(d, i)) /\ (Unsure(Release(d, i)) <=> Unsure(d))
      BY <2>1, <3>1, UserGone
    <3>4. Release(d, i).net = d.net
      BY <1>1, <2>1, ReleaseIs
    <3> QED
      BY <3>2, <3>3, <3>4 DEF Step, Known, e
  <2>3. CASE d.table[i].cb = "list"
    <3>1. e = HandleList(d, i, f)
      BY <1>3, <2>3 DEF HandleResponse, HandleList
    <3>2. i \in ListOf(d)
      BY <2>1, <2>3 DEF ListOf
    <3> HIDE DEF e, i
    <3>3. d.list.index \in Nat /\ Len(d.list.regs) \in Nat /\ d.list.index <= Len(d.list.regs)
      <4>1. d.list.index \in 1 .. Len(QueryRegs) + 1 /\ \E refresh \in BOOLEAN : d.list.regs = Regs(refresh)
        BY <1>1, DriverIs DEF List
      <4>2. Len(d.list.regs) \in Nat
        BY <4>1, RegsType
      <4> QED
        BY <1>1, <3>2, <4>1, <4>2 DEF QueryOf
    <3>4. CASE d.list.index < Len(d.list.regs)
      BY <2>1, <3>1, <3>2, <3>4, ListGoesOn DEF e
    <3>5. CASE d.list.index = Len(d.list.regs)
      BY <2>1, <3>1, <3>2, <3>5, ListFinished DEF e
    <3> QED
      BY <3>3, <3>4, <3>5
  <2> QED
    BY <2>2, <2>3
<1> QED
  BY <1>2, <1>3

\* _xbee_dev_modem_status
LEMMA StatusGood ==
  ASSUME Room, NEW d, Good(d), NEW status
  PROVE  /\ Step(d, HandleModemStatus(d, status))
         /\ Known(HandleModemStatus(d, status), Undefined) \/ status = "joined"
         /\ status = "joined" => Unsure(HandleModemStatus(d, status))
<1> DEFINE j == [d EXCEPT !.joined = TRUE]
           l == [d EXCEPT !.joined = FALSE, !.net = Undefined]
<1>1. j \in Driver /\ l \in Driver
  BY DEF Good, Driver, Address
<1>2. /\ j.table = d.table /\ j.id = d.id /\ j.out = d.out /\ j.list = d.list /\ j.flags = d.flags
      /\ l.table = d.table /\ l.id = d.id /\ l.out = d.out /\ l.list = d.list /\ l.flags = d.flags
      /\ l.net = Undefined
  BY DEF Good, Driver
<1>3. HandleModemStatus(d, status) = IF status = "joined" THEN Query(j, TRUE) ELSE l
  BY DEF HandleModemStatus
<1> HIDE DEF j, l
<1>4. Good(j) /\ Good(l)
  BY <1>1, <1>2, GoodSame DEF Good, Going, QueryOf
<1>5. Silent(d, j) /\ Silent(d, l)
  BY <1>2 DEF Silent, Kept
<1>6. Step(j, Query(j, TRUE)) /\ Unsure(Query(j, TRUE))
  BY <1>4, QueryGood
<1>7. Step(d, Query(j, TRUE))
  BY <1>5, <1>6, SilentThenSilent, SilentThenSends DEF Step
<1> QED
  BY <1>2, <1>3, <1>4, <1>5, <1>6, <1>7 DEF Step, Known

\* read_console_commands
Console(d, cmd) ==
  LET r == Create(d, cmd)
  IN IF r.h = NoHandle THEN r.d ELSE Send(SetCallback(r.d, r.h, "user"), r.h)

LEMMA ConsoleGood ==
  ASSUME Room, NEW d, Good(d), NEW cmd \in Command, Cardinality(UsersOf(d)) < MaxUsers
  PROVE  Step(d, Console(d, cmd)) /\ Sure(d, Console(d, cmd))
<1> DEFINE r == CreateNoTick(d, cmd)
           i == First(FreeSlots(d))
           e == Send(SetCallback(r.d, r.h, "user"), r.h)
<1>1. d \in Driver /\ TableOf(d) /\ QueryOf(d)
  BY DEF Good
<1>2. FreeSlots(d) # {}
  <2>1. \E j \in Slots : ListOf(d) \subseteq {j}
    <3>1. 1 \in Slots
      BY ConstantTypes DEF Slots
    <3> QED
      BY <1>1, <3>1 DEF QueryOf
  <2> QED
    BY <1>1, <2>1, FreeSlot
<1>3. r.h # NoHandle /\ i \in FreeSlots(d) /\ Made(d, e, i, "user", cmd)
  BY <1>1, <1>2, MadeIs
<1>4. Console(d, cmd) = e
  BY <1>2, <1>3 DEF Console, Create
<1>5. e \in Driver
  <2>1. r.d \in Driver
    BY <1>1, CreateNoTickType
  <2>2. SetCallback(r.d, r.h, "user") \in Driver
    BY <2>1, SetCallbackType
  <2> QED
    BY <2>2, SendType
<1> HIDE DEF e, i, r
<1>6. i \in Slots /\ ~d.table[i].used
  BY <1>3 DEF FreeSlots
<1>7. \A j \in Slots \ {i} : e.table[j] = d.table[j]
  BY <1>1, <1>3, <1>6, TableIs DEF Made
<1>8. /\ e.table[i].used /\ e.table[i].cb = "user" /\ e.table[i].cmd = cmd
      /\ e.table[i].id = NextId(d.id) /\ e.table[i].seq = d.table[i].seq
  BY <1>3 DEF Made, Row
<1>9. /\ e.id = NextId(d.id) /\ e.list = d.list /\ e.flags = d.flags /\ e.net = d.net
  BY <1>3 DEF Made
<1>10. ListOf(e) = ListOf(d)
  BY <1>6, <1>7, <1>8 DEF ListOf
<1>11. Cardinality(UsersOf(e)) <= MaxUsers
  <2>1. UsersOf(e) = UsersOf(d) \cup {i}
    BY <1>6, <1>7, <1>8 DEF UsersOf
  <2>2. IsFiniteSet(UsersOf(d)) /\ Cardinality(UsersOf(d)) \in Nat
    BY SlotsFinite DEF UsersOf
  <2>3. Cardinality(UsersOf(d) \cup {i}) = IF i \in UsersOf(d) THEN Cardinality(UsersOf(d))
                                           ELSE Cardinality(UsersOf(d)) + 1
    BY <2>2, FS_AddElement
  <2> QED
    BY <2>1, <2>2, <2>3, ConstantTypes
<1>12. TableOf(e)
  BY <1>1, <1>7, <1>8, <1>11 DEF TableOf
<1>13. QueryOf(e)
  <2>1. \A j \in ListOf(d) : e.table[j] = d.table[j]
    BY <1>6, <1>7 DEF ListOf
  <2> QED
    BY <1>1, <1>9, <1>10, <2>1 DEF QueryOf, Going
<1>14. SentFor(d, e, i)
  <2> DEFINE f == [id |-> NextId(d.id), cmd |-> cmd, by |-> <<i, d.table[i].seq>>]
  <2>1. f \in Asking /\ f.id = NextId(d.id) /\ f.by = <<i, d.table[i].seq>>
    <3>1. d.table[i].seq \in 0 .. MaxSeq /\ NextId(d.id) \in 1 .. MaxId
      BY <1>1, <1>6, DriverIs, RequestIs, NextIdType
    <3> QED
      BY <1>6, <3>1 DEF Asking, Handle
  <2>2. e.out = Queue(d.out, f)
    BY <1>3 DEF Made
  <2> HIDE DEF f
  <2>3. \A j \in Slots \ {i} : e.table[j].used => Kept(d, e, j)
    BY <1>7 DEF Kept
  <2> QED
    BY <1>8, <1>9, <2>1, <2>2, <2>3 DEF SentFor
<1>15. Sure(d, e)
  BY <1>9, SureSame
<1> QED
  BY <1>4, <1>5, <1>6, <1>12, <1>13, <1>14, <1>15 DEF Step, Good, SendsOne

-----------------------------------------------------------------------------
(* The steps of the system                                                 *)

LEMMA SameGood ==
  ASSUME TypeOK, Good(drv), drv' = drv
  PROVE  Good(drv') /\ Sure(drv, drv') /\ Silent(drv, drv')
<1>1. Silent(drv, drv) /\ Sure(drv, drv)
  BY DEF Silent, Kept, Sure
<1> QED
  BY <1>1

LEMMA AnswerGood ==
  ASSUME TypeOK, Good(drv), Answer
  PROVE  Good(drv') /\ Sure(drv, drv')
<1>1. drv' \in Driver
  BY AnswerType DEF TypeOK
<1>2. drv'.table = drv.table /\ drv'.list = drv.list /\ drv'.flags = drv.flags /\ drv'.net = drv.net
  BY DEF Answer, TypeOK, Driver
<1> QED
  BY <1>1, <1>2, GoodSame, SureSame DEF Good, Going, QueryOf

LEMMA SecondGood ==
  ASSUME TypeOK, Good(drv), Second
  PROVE  Good(drv') /\ Sure(drv, drv') /\ Silent(drv, drv')
<1> DEFINE older == [i \in Slots |-> [drv.table[i] EXCEPT !.ttl = IF @ = 0 THEN 0 ELSE @ - 1]]
<1>1. drv' \in Driver
  BY SecondType DEF TypeOK
<1>2. \A j \in Slots : /\ older[j].used = drv.table[j].used /\ older[j].cb = drv.table[j].cb
                       /\ older[j].cmd = drv.table[j].cmd /\ older[j].id = drv.table[j].id
                       /\ older[j].seq = drv.table[j].seq
  <2> SUFFICES ASSUME NEW j \in Slots
               PROVE  /\ older[j].used = drv.table[j].used /\ older[j].cb = drv.table[j].cb
                      /\ older[j].cmd = drv.table[j].cmd /\ older[j].id = drv.table[j].id
                      /\ older[j].seq = drv.table[j].seq
    OBVIOUS
  <2>1. drv.table[j] \in Request
    BY DriverIs DEF TypeOK
  <2> QED
    BY <2>1 DEF Request
<1>3. drv' = [drv EXCEPT !.table = older, !.due = TRUE]
  BY DEF Second
<1> HIDE DEF older
<1>4. /\ drv'.table = older /\ drv'.list = drv.list /\ drv'.flags = drv.flags /\ drv'.net = drv.net
      /\ drv'.id = drv.id /\ drv'.out = drv.out
  BY <1>3 DEF TypeOK, Driver
<1>5. Good(drv')
  BY <1>1, <1>2, <1>4, GoodSame DEF Good, Going, QueryOf
<1>6. Sure(drv, drv')
  BY <1>4, SureSame
<1> QED
  BY <1>2, <1>4, <1>5, <1>6 DEF Silent, Kept

LEMMA MainGood ==
  ASSUME Room, TypeOK, Good(drv), Main
  PROVE  Step(drv, drv') /\ Sure(drv, drv')
<1>1. CASE Start
  BY <1>1, QueryGood DEF Start
<1>2. CASE InitFramesDone \/ ConsoleIdle \/ FramesDone
  BY <1>2, SameGood DEF Step, InitFramesDone, ConsoleIdle, FramesDone
<1>3. CASE InitStatus \/ LoopTick
  BY <1>3, TickGood DEF InitStatus, LoopTick
<1>4. ASSUME NEW cmd \in UserCommands, ConsoleCommand(cmd)
      PROVE  Step(drv, drv') /\ Sure(drv, drv')
  <2>1. drv' = Console(drv, cmd)
    BY <1>4 DEF ConsoleCommand, Console
  <2>2. Cardinality(UsersOf(drv)) < MaxUsers
    BY <1>4 DEF ConsoleCommand, UsersOf
  <2>3. cmd \in Command
    BY DEF Command
  <2> QED
    BY <2>1, <2>2, <2>3, ConsoleGood
<1> QED
  BY <1>1, <1>2, <1>3, <1>4 DEF Main

LEMMA DispatchGood ==
  ASSUME Room, TypeOK, Good(drv), Dispatch
  PROVE  /\ Step(drv, drv')
         /\ Head(in).type = "answer" /\ Known(drv, Head(in).value) => Known(drv', Head(in).value)
         /\ Head(in).type # "answer" =>
              IF Head(in).status = "left" THEN Known(drv', Undefined) ELSE Unsure(drv')
<1>1. /\ Head(in).type = "answer" => Head(in) \in Answered
      /\ Head(in).type # "answer" => Head(in) \in Status
  BY HeadOfIn DEF Dispatch
<1>2. CASE Head(in).type = "answer"
  BY <1>1, <1>2, ResponseGood DEF Dispatch
<1>3. CASE Head(in).type # "answer"
  <2>1. drv' = HandleModemStatus(drv, Head(in).status) /\ Head(in).status \in {"joined", "left"}
    BY <1>1, <1>3 DEF Dispatch, Status
  <2> QED
    BY <1>3, <2>1, StatusGood
<1> QED
  BY <1>2, <1>3

LEMMA NextGood ==
  ASSUME Room, TypeOK, Good(drv), [Next]_vars
  PROVE  Good(drv') /\ (Answer \/ Silent(drv, drv') \/ SendsOne(drv, drv'))
<1>1. CASE Answer
  BY <1>1, AnswerGood
<1>2. CASE Lose \/ (\E n \in Networks \cup {Undefined} : NewNetwork(n)) \/ UNCHANGED vars
  BY <1>2, SameGood DEF Lose, NewNetwork, vars
<1>3. CASE Second
  BY <1>3, SecondGood
<1>4. CASE Main
  BY <1>4, MainGood DEF Step
<1>5. CASE Dispatch
  BY <1>5, DispatchGood DEF Step
<1> QED
  BY <1>1, <1>2, <1>3, <1>4, <1>5 DEF Next

LEMMA InitGood ==
  ASSUME Init
  PROVE  Good(drv)
<1>1. drv \in Driver
  BY InitType DEF TypeOK
<1>2. drv.flags = {} /\ \A i \in Slots : ~drv.table[i].used
  BY DEF Init, Blank
<1>3. UsersOf(drv) = {} /\ ListOf(drv) = {}
  BY <1>2 DEF UsersOf, ListOf
<1>4. Cardinality(UsersOf(drv)) <= MaxUsers
  BY <1>3, FS_EmptySet, ConstantTypes
<1> QED
  BY <1>1, <1>2, <1>3, <1>4 DEF Good, TableOf, QueryOf, Going

QInv == TypeOK /\ Good(drv)

LEMMA QInvHolds ==
  ASSUME Room
  PROVE  Spec => []QInv
<1>1. Init => QInv
  BY InitType, InitGood DEF QInv
<1>2. QInv /\ [Next]_vars => QInv'
  BY NextType, NextGood DEF QInv
<1> QED
  BY <1>1, <1>2, PTL DEF Spec

(***************************************************************************)
(* xbee_cmd_query_device sets XBEE_DEV_FLAG_QUERY_INPROGRESS only once the *)
(* request is in the table, and each way for that request to leave the     *)
(* table clears it: the flag and the one request stand and fall together.  *)
(***************************************************************************)
THEOREM FlagHasRequest == Room => (Spec => []QueryHasRequest)
<1> SUFFICES ASSUME Room  PROVE Spec => []QueryHasRequest
  OBVIOUS
<1>1. QInv => QueryHasRequest
  BY DEF QInv, Good, QueryOf, QueryHasRequest, ListRequests, ListOf, Going
<1> QED
  BY <1>1, QInvHolds, PTL

(***************************************************************************)
(* A refresh wanted while the query runs is begun by the handler that ends *)
(* the query, whether the last answer or the time-out ends it.             *)
(***************************************************************************)
THEOREM RefreshIsBegun == Room => (Spec => RefreshRestarts)
<1> SUFFICES ASSUME Room  PROVE Spec => RefreshRestarts
  OBVIOUS
<1>1. QInv /\ QInv' /\ [Next]_vars =>
        [ "inprogress" \in drv.flags /\ "inprogress" \notin drv'.flags
            => "refresh" \notin drv'.flags ]_vars
  BY DEF QInv, Good, QueryOf, Going
<1> QED
  BY <1>1, QInvHolds, PTL DEF Spec, RefreshRestarts

-----------------------------------------------------------------------------
(* The network address: what the radio says last is the address it has,    *)
(* and the driver takes that for its own or is going to ask for it.        *)

LastStatus(s, k) == \A j \in k + 1 .. Len(s) : s[j].type # "status"

Truthful(f, net) ==
  IF f.type = "answer" THEN f.value = net ELSE (f.status = "left" <=> net = Undefined)

RadioInv == ~missed => \A k \in 1 .. Len(in) : LastStatus(in, k) => Truthful(in[k], radioNet)
AddrInv  == ~missed /\ LastStatus(in, 0) => Known(drv, radioNet)
AInv     == QInv /\ RadioInv /\ AddrInv

LEMMA InIsSeq ==
  ASSUME TypeOK
  PROVE  in \in Seq(Received) /\ Len(in) \in Nat /\ \A k \in 1 .. Len(in) : in[k] \in Received
<1>1. in \in Seq(Received)
  BY DEF TypeOK, Received
<1> QED
  BY <1>1, LenProperties, ElementOfSeq

LEMMA SureKnown ==
  ASSUME NEW d, NEW e, NEW v, Sure(d, e), Known(d, v)
  PROVE  Known(e, v)
BY DEF Sure, Known

\* A frame f more at the end of those that arrive.
LEMMA Arrives ==
  ASSUME TypeOK, NEW f \in Received, in' = Append(in, f)
  PROVE  /\ Len(in') = Len(in) + 1 /\ in'[Len(in) + 1] = f /\ Len(in) \in Nat
         /\ \A k \in 1 .. Len(in) : in'[k] = in[k]
         /\ \A k \in 0 .. Len(in) : LastStatus(in', k) <=> LastStatus(in, k) /\ f.type # "status"
<1> DEFINE n == Len(in)
<1>1. in \in Seq(Received) /\ n \in Nat
  BY InIsSeq
<1>2. Len(in') = n + 1 /\ in'[n + 1] = f /\ \A k \in 1 .. n : in'[k] = in[k]
  BY <1>1, AppendProperties
<1>3. ASSUME NEW k \in 0 .. n
      PROVE  LastStatus(in', k) <=> LastStatus(in, k) /\ f.type # "status"
  <2> HIDE DEF n
  <2>1. \A j : j \in k + 1 .. n + 1 <=> j \in k + 1 .. n \/ j = n + 1
    BY <1>1
  <2>2. \A j \in k + 1 .. n : in'[j] = in[j]
    BY <1>1, <1>2
  <2>3. LastStatus(in', k) <=> \A j \in k + 1 .. n + 1 : in'[j].type # "status"
    BY <1>2 DEF LastStatus
  <2>4. LastStatus(in, k) <=> \A j \in k + 1 .. n : in[j].type # "status"
    BY DEF LastStatus, n
  <2> QED
    BY <1>2, <2>1, <2>2, <2>3, <2>4
<1> QED
  BY <1>1, <1>2, <1>3

\* The first of the frames is gone.
LEMMA Leaves ==
  ASSUME TypeOK, in # << >>, in' = Tail(in)
  PROVE  /\ Len(in) \in Nat \ {0} /\ Len(in') = Len(in) - 1 /\ Head(in) = in[1]
         /\ \A k \in 1 .. Len(in') : in'[k] = in[k + 1]
         /\ \A k \in 0 .. Len(in') : LastStatus(in', k) <=> LastStatus(in, k + 1)
<1> DEFINE n == Len(in)
<1>1. in \in Seq(Received) /\ n \in Nat
  BY InIsSeq
<1>2. n \in Nat \ {0} /\ Head(in) = in[1] /\ Len(in') = n - 1 /\ \A k \in 1 .. n - 1 : in'[k] = in[k + 1]
  <2>1. Head(in) = in[1] /\ Len(Tail(in)) = Len(in) - 1
        /\ \A k \in 1 .. Len(Tail(in)) : Tail(in)[k] = in[k + 1]
    BY <1>1, HeadTailProperties
  <2>2. n # 0
    BY <1>1, EmptySeq
  <2> QED
    BY <1>1, <2>1, <2>2
<1>3. ASSUME NEW k \in 0 .. n - 1
      PROVE  LastStatus(in', k) <=> LastStatus(in, k + 1)
  <2> HIDE DEF n
  <2>1. \A j \in k + 1 .. n - 1 : in'[j] = in[j + 1]
    BY <1>2
  <2>2. LastStatus(in', k) <=> \A j \in k + 1 .. n - 1 : in[j + 1].type # "status"
    BY <1>2, <2>1 DEF LastStatus
  <2>3. LastStatus(in, k + 1) <=> \A j \in k + 2 .. n : in[j].type # "status"
    <3>1. (k + 1) + 1 = k + 2
      BY <1>2
    <3> QED
      BY <3>1 DEF LastStatus, n
  <2>4. (\A j \in k + 1 .. n - 1 : in[j + 1].type # "status") <=> \A j \in k + 2 .. n : in[j].type # "status"
    <3>1. \A j \in k + 1 .. n - 1 : j + 1 \in k + 2 .. n
      BY <1>2
    <3>2. \A j \in k + 2 .. n : j - 1 \in k + 1 .. n - 1 /\ (j - 1) + 1 = j
      BY <1>2
    <3> QED
      BY <3>1, <3>2
  <2> QED
    BY <2>2, <2>3, <2>4
<1> QED
  BY <1>2, <1>3

LEMMA LeavesRadio ==
  ASSUME TypeOK, RadioInv, in # << >>, in' = Tail(in), missed' = missed, radioNet' = radioNet
  PROVE  /\ RadioInv'
         /\ ~missed /\ LastStatus(in', 0) => Truthful(Head(in), radioNet)
<1>1. /\ Len(in) \in Nat \ {0} /\ Len(in') = Len(in) - 1 /\ Head(in) = in[1]
      /\ \A k \in 1 .. Len(in') : in'[k] = in[k + 1]
      /\ \A k \in 0 .. Len(in') : LastStatus(in', k) <=> LastStatus(in, k + 1)
  BY Leaves
<1>2. ASSUME ~missed, NEW k \in 1 .. Len(in'), LastStatus(in', k)
      PROVE  Truthful(in'[k], radioNet)
  <2>1. k + 1 \in 1 .. Len(in) /\ k \in 0 .. Len(in')
    BY <1>1
  <2> QED
    BY <1>1, <1>2, <2>1 DEF RadioInv
<1>3. ASSUME ~missed, LastStatus(in', 0)  PROVE Truthful(Head(in), radioNet)
  <2>1. 1 \in 1 .. Len(in) /\ 0 \in 0 .. Len(in') /\ 0 + 1 = 1
    BY <1>1
  <2> QED
    BY <1>1, <1>3, <2>1 DEF RadioInv
<1> QED
  BY <1>2, <1>3 DEF RadioInv

LEMMA AddrAnswer ==
  ASSUME AInv, Answer
  PROVE  (RadioInv /\ AddrInv)'
<1> DEFINE f == Head(drv.out)
           a == [type |-> "answer", id |-> f.id, cmd |-> f.cmd, by |-> f.by, value |-> radioNet]
<1>1. a \in Received /\ a.type = "answer" /\ a.value = radioNet
  <2>1. f \in Asking
    BY DriverIs, HeadTailProperties DEF AInv, QInv, TypeOK, Answer
  <2> QED
    BY <2>1 DEF Asking, Received, Answered, AInv, QInv, TypeOK
<1>2. in' = Append(in, a) /\ radioNet' = radioNet /\ missed' = missed
  BY DEF Answer
<1> HIDE DEF a
<1>3. /\ Len(in') = Len(in) + 1 /\ in'[Len(in) + 1] = a /\ Len(in) \in Nat
      /\ \A k \in 1 .. Len(in) : in'[k] = in[k]
      /\ \A k \in 0 .. Len(in) : LastStatus(in', k) <=> LastStatus(in, k) /\ a.type # "status"
  BY <1>1, <1>2, Arrives DEF AInv, QInv
<1>4. ASSUME ~missed, NEW k \in 1 .. Len(in'), LastStatus(in', k)
      PROVE  Truthful(in'[k], radioNet)
  <2>1. CASE k = Len(in) + 1
    BY <1>1, <1>3, <2>1 DEF Truthful
  <2>2. CASE k # Len(in) + 1
    <3>1. k \in 1 .. Len(in) /\ k \in 0 .. Len(in)
      BY <1>3, <2>2
    <3> QED
      BY <1>3, <1>4, <3>1 DEF AInv, RadioInv
  <2> QED
    BY <2>1, <2>2
<1>5. RadioInv'
  BY <1>2, <1>4 DEF RadioInv
<1>6. ASSUME ~missed, LastStatus(in', 0)  PROVE Known(drv', radioNet)
  <2>1. LastStatus(in, 0)
    <3>1. 0 \in 0 .. Len(in)
      BY <1>3
    <3> QED
      BY <1>3, <1>6, <3>1
  <2>2. Sure(drv, drv')
    BY AnswerGood DEF AInv, QInv
  <2> QED
    BY <1>6, <2>1, <2>2, SureKnown DEF AInv, AddrInv
<1> QED
  BY <1>2, <1>5, <1>6 DEF AddrInv

LEMMA AddrNetwork ==
  ASSUME AInv, NEW n \in Networks \cup {Undefined}, NewNetwork(n)
  PROVE  (RadioInv /\ AddrInv)'
<1> DEFINE s == [type |-> "status", status |-> IF n = Undefined THEN "left" ELSE "joined"]
<1>1. s \in Received /\ s.type = "status" /\ (s.status = "left" <=> n = Undefined)
  BY DEF Received, Status
<1>2. in' = Append(in, s) /\ radioNet' = n
  BY DEF NewNetwork
<1> HIDE DEF s
<1>3. /\ Len(in') = Len(in) + 1 /\ in'[Len(in) + 1] = s /\ Len(in) \in Nat
      /\ \A k \in 0 .. Len(in) : ~LastStatus(in', k)
  BY <1>1, <1>2, Arrives DEF AInv, QInv
<1>4. ASSUME NEW k \in 1 .. Len(in'), LastStatus(in', k)
      PROVE  Truthful(in'[k], n)
  <2>1. k = Len(in) + 1
    <3>1. k \notin 0 .. Len(in)
      BY <1>3, <1>4
    <3> QED
      BY <1>3, <3>1
  <2> QED
    BY <1>1, <1>3, <2>1 DEF Truthful
<1>5. RadioInv'
  BY <1>2, <1>4 DEF RadioInv
<1>6. 0 \in 0 .. Len(in)
  BY <1>3
<1> QED
  BY <1>3, <1>5, <1>6 DEF AddrInv

LEMMA AddrLose ==
  ASSUME AInv, Lose
  PROVE  (RadioInv /\ AddrInv)'
<1>1. TypeOK /\ in # << >> /\ in' = Tail(in) /\ radioNet' = radioNet /\ drv' = drv
      /\ missed' = (missed \/ Head(in).type = "status")
  BY DEF Lose, AInv, QInv
<1>2. CASE missed'
  BY <1>2 DEF RadioInv, AddrInv
<1>3. CASE ~missed'
  <2>1. ~missed /\ missed' = missed /\ Head(in).type # "status"
    BY <1>1, <1>3 DEF TypeOK
  <2>2. RadioInv'
    BY <1>1, <2>1, LeavesRadio DEF AInv
  <2>3. ASSUME LastStatus(in', 0)  PROVE LastStatus(in, 0)
    <3>1. LastStatus(in, 1) /\ in[1].type # "status" /\ Len(in) \in Nat
      <4>1. /\ Len(in) \in Nat \ {0} /\ Len(in') = Len(in) - 1 /\ Head(in) = in[1]
            /\ \A k \in 0 .. Len(in') : LastStatus(in', k) <=> LastStatus(in, k + 1)
        BY <1>1, Leaves
      <4>2. 0 \in 0 .. Len(in') /\ 0 + 1 = 1
        BY <4>1
      <4> QED
        BY <2>1, <2>3, <4>1, <4>2
    <3>2. \A j \in 0 + 1 .. Len(in) : j = 1 \/ j \in 1 + 1 .. Len(in)
      BY <3>1
    <3> QED
      BY <3>1, <3>2 DEF LastStatus
  <2>4. AddrInv'
    BY <1>1, <2>1, <2>3 DEF AInv, AddrInv
  <2> QED
    BY <2>2, <2>4
<1> QED
  BY <1>2, <1>3

LEMMA AddrDispatch ==
  ASSUME Room, AInv, Dispatch
  PROVE  (RadioInv /\ AddrInv)'
<1>1. TypeOK /\ Good(drv) /\ RadioInv /\ in # << >> /\ in' = Tail(in) /\ radioNet' = radioNet /\ missed' = missed
  BY DEF Dispatch, AInv, QInv
<1>2. RadioInv' /\ (~missed /\ LastStatus(in', 0) => Truthful(Head(in), radioNet))
  BY <1>1, LeavesRadio
<1>3. ASSUME ~missed, LastStatus(in', 0)  PROVE Known(drv', radioNet)
  <2>1. Truthful(Head(in), radioNet)
    BY <1>2, <1>3
  <2>2. /\ Head(in).type = "answer" /\ Known(drv, Head(in).value) => Known(drv', Head(in).value)
        /\ Head(in).type # "answer" =>
             IF Head(in).status = "left" THEN Known(drv', Undefined) ELSE Unsure(drv')
    BY <1>1, DispatchGood
  <2>3. CASE Head(in).type = "answer"
    <3>1. LastStatus(in, 0)
      <4>1. /\ Len(in) \in Nat \ {0} /\ Len(in') = Len(in) - 1 /\ Head(in) = in[1]
            /\ \A k \in 0 .. Len(in') : LastStatus(in', k) <=> LastStatus(in, k + 1)
        BY <1>1, Leaves
      <4>2. 0 \in 0 .. Len(in') /\ 0 + 1 = 1
        BY <4>1
      <4>3. LastStatus(in, 1) /\ in[1].type # "status"
        BY <1>3, <2>3, <4>1, <4>2
      <4>4. \A j \in 0 + 1 .. Len(in) : j = 1 \/ j \in 1 + 1 .. Len(in)
        BY <4>1
      <4> QED
        BY <4>3, <4>4 DEF LastStatus
    <3>2. Known(drv, radioNet) /\ Head(in).value = radioNet
      BY <1>3, <2>1, <2>3, <3>1 DEF AInv, AddrInv, Truthful
    <3> QED
      BY <2>2, <2>3, <3>2
  <2>4. CASE Head(in).type # "answer"
    BY <2>1, <2>2, <2>4 DEF Truthful, Known
  <2> QED
    BY <2>3, <2>4
<1> QED
  BY <1>1, <1>2, <1>3 DEF AddrInv

LEMMA AddrNext ==
  ASSUME Room, AInv, [Next]_vars
  PROVE  AInv'
<1>1. QInv'
  BY NextType, NextGood DEF AInv, QInv
<1>2. ASSUME in' = in, radioNet' = radioNet, missed' = missed, Sure(drv, drv')
      PROVE  (RadioInv /\ AddrInv)'
  <2>1. RadioInv'
    BY <1>2 DEF AInv, RadioInv
  <2>2. AddrInv'
    BY <1>2, SureKnown DEF AInv, AddrInv
  <2> QED
    BY <2>1, <2>2
<1>3. CASE Answer
  BY <1>1, <1>3, AddrAnswer DEF AInv
<1>4. CASE Lose \/ (\E n \in Networks \cup {Undefined} : NewNetwork(n))
  BY <1>1, <1>4, AddrLose, AddrNetwork DEF AInv
<1>5. CASE Dispatch
  BY <1>1, <1>5, AddrDispatch DEF AInv
<1>6. CASE Second
  BY <1>1, <1>2, <1>6, SecondGood DEF AInv, QInv, Second, radio
<1>7. CASE UNCHANGED vars
  BY <1>1, <1>2, <1>7, SameGood DEF AInv, QInv, vars, radio
<1>8. CASE Main
  <2>1. UNCHANGED radio
    BY <1>8 DEF Main, Start, InitFramesDone, InitStatus, ConsoleCommand, ConsoleIdle, LoopTick, FramesDone
  <2>2. Sure(drv, drv')
    BY <1>8, MainGood DEF AInv, QInv
  <2> QED
    BY <1>1, <1>2, <2>1, <2>2 DEF AInv, radio
<1> QED
  BY <1>3, <1>4, <1>5, <1>6, <1>7, <1>8 DEF Next

(***************************************************************************)
(* With no status frame lost, whatever handlers and answers come between,  *)
(* the driver's address is the radio's as soon as nothing is under way to  *)
(* put it right: _xbee_cmd_modem_status asks again before it can be relied *)
(* upon, and a query under way is followed by another one.                 *)
(***************************************************************************)
THEOREM AddressFollows == Room => (Spec => []AddressIsCurrent)
<1> SUFFICES ASSUME Room  PROVE Spec => []AddressIsCurrent
  OBVIOUS
<1>1. Init => AInv
  <2> SUFFICES ASSUME Init  PROVE AInv
    OBVIOUS
  <2>1. QInv
    BY InitType, InitGood DEF QInv
  <2>2. Len(in) = 0 /\ 1 .. Len(in) = {}
    BY DEF Init
  <2>3. Unsure(drv)
    BY DEF Init, Unsure, Going
  <2> QED
    BY <2>1, <2>2, <2>3 DEF AInv, RadioInv, AddrInv, Known
<1>2. AInv /\ [Next]_vars => AInv'
  BY AddrNext
<1>3. AInv => AddressIsCurrent
  <2> SUFFICES ASSUME AInv, Settled  PROVE drv.net = radioNet
    BY DEF AddressIsCurrent
  <2>1. in \in Seq(Received) /\ DOMAIN in = 1 .. Len(in)
    BY InIsSeq, LenProperties DEF AInv, QInv
  <2>2. LastStatus(in, 0) /\ ~missed
    BY <2>1 DEF Settled, LastStatus
  <2>3. ~Unsure(drv)
    BY DEF Settled, Unsure, Ahead, Going
  <2> QED
    BY <2>2, <2>3 DEF AInv, AddrInv, Known
<1> QED
  BY <1>1, <1>2, <1>3, PTL DEF Spec

-----------------------------------------------------------------------------
(* Answers and requests, as long as no ID is given a second time while     *)
(* something still goes by it.                                             *)

\* The frame f belongs to every request that waits under its ID.
Belongs(f, d) ==
  \A i \in Slots : d.table[i].used /\ d.table[i].id = f.id => f.by = <<i, d.table[i].seq>>

IdsInv ==
  /\ \A k \in 1 .. Len(drv.out) : Belongs(drv.out[k], drv)
  /\ \A k \in 1 .. Len(in) : in[k].type = "answer" => Belongs(in[k], drv)

RInv == QInv /\ IdsInv /\ RightRequest

LEMMA QueueHas ==
  ASSUME NEW out \in Seq(Asking), NEW f \in Asking, NEW k \in 1 .. Len(Queue(out, f))
  PROVE  Queue(out, f)[k] = f \/ \E m \in 1 .. Len(out) : Queue(out, f)[k] = out[m]
<1> DEFINE n == Len(out)
<1>1. n \in Nat
  BY LenProperties
<1>2. CASE n < MaxPending
  <2>1. Queue(out, f) = Append(out, f)
    BY <1>2 DEF Queue
  <2>2. Len(Append(out, f)) = n + 1 /\ Append(out, f)[n + 1] = f
        /\ \A m \in 1 .. n : Append(out, f)[m] = out[m]
    BY AppendProperties
  <2>3. k \in 1 .. n + 1
    BY <2>1, <2>2
  <2> HIDE DEF n
  <2>4. k = n + 1 \/ k \in 1 .. n
    BY <1>1, <2>3
  <2> QED
    BY <2>1, <2>2, <2>4 DEF n
<1>3. CASE ~(n < MaxPending)
  <2> DEFINE s == Tail(out)
  <2>1. Queue(out, f) = Append(s, f) /\ out # << >>
    BY <1>3, ConstantTypes DEF Queue
  <2>2. s \in Seq(Asking) /\ Len(s) = n - 1 /\ \A m \in 1 .. Len(s) : s[m] = out[m + 1]
    BY <2>1, HeadTailProperties
  <2> HIDE DEF s
  <2>3. Len(Append(s, f)) = Len(s) + 1 /\ Append(s, f)[Len(s) + 1] = f
        /\ \A m \in 1 .. Len(s) : Append(s, f)[m] = s[m]
    BY <2>2, AppendProperties
  <2>4. k \in 1 .. n
    BY <1>1, <2>1, <2>2, <2>3
  <2>5. CASE k = n
    BY <1>1, <2>1, <2>2, <2>3, <2>5
  <2>6. CASE k # n
    <3>1. k \in 1 .. Len(s) /\ k + 1 \in 1 .. n
      BY <1>1, <2>2, <2>4, <2>6
    <3>2. Queue(out, f)[k] = out[k + 1]
      BY <2>1, <2>2, <2>3, <3>1
    <3> QED
      BY <3>1, <3>2
  <2> QED
    BY <2>5, <2>6
<1> QED
  BY <1>2, <1>3

LEMMA SilentBelongs ==
  ASSUME NEW d, NEW e, NEW f, Silent(d, e), Belongs(f, d)
  PROVE  Belongs(f, e)
BY DEF Silent, Kept, Belongs

LEMMA SentBelongs ==
  ASSUME NEW d, NEW e, NEW i \in Slots, SentFor(d, e, i), NEW f, Belongs(f, d), f.id # NextId(d.id)
  PROVE  Belongs(f, e)
BY DEF SentFor, Kept, Belongs

\* A handler's step, with frames that are on their way before it.
LEMMA StepBelongs ==
  ASSUME QInv, IdsInv, IdFree, Silent(drv, drv') \/ SendsOne(drv, drv')
  PROVE  /\ \A k \in 1 .. Len(drv'.out) : Belongs(drv'.out[k], drv')
         /\ \A k \in 1 .. Len(in) : in[k].type = "answer" => Belongs(in[k], drv')
<1> DEFINE n == NextId(drv.id)
<1>1. drv.out \in Seq(Asking) /\ DOMAIN drv.out = 1 .. Len(drv.out) /\ DOMAIN in = 1 .. Len(in)
  BY DriverIs, InIsSeq, LenProperties DEF QInv, TypeOK
<1>2. /\ \A i \in Slots : drv.table[i].id # n
      /\ \A k \in 1 .. Len(drv.out) : drv.out[k].id # n
      /\ \A k \in 1 .. Len(in) : in[k].type = "answer" => in[k].id # n
  BY <1>1 DEF IdFree, IdsInUse
<1>3. CASE Silent(drv, drv')
  <2>1. drv'.out = drv.out
    BY <1>3 DEF Silent
  <2> QED
    BY <1>3, <2>1, SilentBelongs DEF IdsInv
<1>4. ASSUME NEW i \in Slots, SentFor(drv, drv', i)
      PROVE  /\ \A k \in 1 .. Len(drv'.out) : Belongs(drv'.out[k], drv')
             /\ \A k \in 1 .. Len(in) : in[k].type = "answer" => Belongs(in[k], drv')
  <2>1. PICK f \in Asking : /\ f.id = n /\ drv'.out = Queue(drv.out, f)
                            /\ drv'.table[i].used => f.by = <<i, drv'.table[i].seq>>
    BY <1>4 DEF SentFor
  <2>2. \A j \in Slots \ {i} : drv'.table[j].used => drv'.table[j].id # n
    BY <1>2, <1>4 DEF SentFor, Kept
  <2>3. Belongs(f, drv')
    BY <2>1, <2>2 DEF Belongs
  <2>4. \A k \in 1 .. Len(drv.out) : Belongs(drv.out[k], drv')
    BY <1>2, <1>4, SentBelongs DEF IdsInv
  <2>5. \A k \in 1 .. Len(in) : in[k].type = "answer" => Belongs(in[k], drv')
    BY <1>2, <1>4, SentBelongs DEF IdsInv
  <2>6. ASSUME NEW k \in 1 .. Len(drv'.out)  PROVE Belongs(drv'.out[k], drv')
    BY <1>1, <2>1, <2>3, <2>4, QueueHas
  <2> QED
    BY <2>5, <2>6
<1> QED
  BY <1>3, <1>4 DEF SendsOne

LEMMA MatchIsRight ==
  ASSUME NEW d, NEW f, Belongs(f, d)
  PROVE  Matches(d, f) \in {{}, AddressOf(d, f.by)}
<1> SUFFICES ASSUME NEW m \in Matches(d, f)  PROVE Matches(d, f) = AddressOf(d, f.by)
  OBVIOUS
<1>1. \A i \in Matches(d, f) : i \in Slots /\ f.by = <<i, d.table[i].seq>>
  BY DEF Matches, Belongs
<1>2. \A i \in Matches(d, f) : i = f.by[1] /\ d.table[i].seq = f.by[2]
  BY <1>1
<1>3. \A i \in AddressOf(d, f.by) : i = m
  BY <1>2 DEF AddressOf
<1>4. m \in AddressOf(d, f.by)
  BY <1>1, <1>2 DEF AddressOf
<1> QED
  BY <1>2, <1>3, <1>4

LEMMA IdsAnswer ==
  ASSUME RInv, Answer
  PROVE  IdsInv'
<1> DEFINE f == Head(drv.out)
           a == [type |-> "answer", id |-> f.id, cmd |-> f.cmd, by |-> f.by, value |-> radioNet]
<1>1. drv.out \in Seq(Asking) /\ drv.out # << >> /\ Len(drv.out) \in Nat
  BY DriverIs, LenProperties DEF RInv, QInv, TypeOK, Answer
<1>2. /\ f \in Asking /\ f = drv.out[1] /\ Len(Tail(drv.out)) = Len(drv.out) - 1 /\ Len(drv.out) # 0
      /\ \A k \in 1 .. Len(Tail(drv.out)) : Tail(drv.out)[k] = drv.out[k + 1]
  BY <1>1, HeadTailProperties, EmptySeq
<1>3. a \in Received
  BY <1>2 DEF Asking, Received, Answered, RInv, QInv, TypeOK
<1>4. drv'.out = Tail(drv.out) /\ drv'.table = drv.table
  BY DEF Answer, RInv, QInv, TypeOK, Driver
<1>5. ASSUME NEW g, Belongs(g, drv)  PROVE Belongs(g, drv')
  BY <1>4, <1>5 DEF Belongs
<1>6. Belongs(a, drv')
  <2>1. 1 \in 1 .. Len(drv.out)
    BY <1>1, <1>2
  <2>2. Belongs(f, drv')
    BY <1>2, <1>5, <2>1 DEF RInv, IdsInv
  <2> QED
    BY <2>2 DEF Belongs
<1>7. in' = Append(in, a)
  BY DEF Answer
<1> HIDE DEF a, f
<1>8. /\ Len(in') = Len(in) + 1 /\ in'[Len(in) + 1] = a /\ Len(in) \in Nat
      /\ \A k \in 1 .. Len(in) : in'[k] = in[k]
  BY <1>3, <1>7, Arrives DEF RInv, QInv
<1>9. ASSUME NEW k \in 1 .. Len(in'), in'[k].type = "answer"  PROVE Belongs(in'[k], drv')
  <2>1. k = Len(in) + 1 \/ k \in 1 .. Len(in)
    BY <1>8
  <2> QED
    BY <1>5, <1>6, <1>8, <1>9, <2>1 DEF RInv, IdsInv
<1>10. ASSUME NEW k \in 1 .. Len(drv'.out)  PROVE Belongs(drv'.out[k], drv')
  <2>1. k \in 1 .. Len(Tail(drv.out)) /\ k + 1 \in 1 .. Len(drv.out)
    BY <1>1, <1>2, <1>4
  <2> QED
    BY <1>2, <1>4, <1>5, <2>1 DEF RInv, IdsInv
<1> QED
  BY <1>9, <1>10 DEF IdsInv

LEMMA IdsRadio ==
  ASSUME RInv, Lose \/ (\E n \in Networks \cup {Undefined} : NewNetwork(n))
  PROVE  IdsInv'
<1>1. drv' = drv /\ TypeOK
  BY DEF Lose, NewNetwork, RInv, QInv
<1>2. CASE Lose
  <2>1. /\ Len(in) \in Nat \ {0} /\ Len(in') = Len(in) - 1
        /\ \A k \in 1 .. Len(in') : in'[k] = in[k + 1]
    BY <1>1, <1>2, Leaves DEF Lose
  <2>2. \A k \in 1 .. Len(in') : k + 1 \in 1 .. Len(in)
    BY <2>1
  <2> QED
    BY <1>1, <2>1, <2>2 DEF RInv, IdsInv
<1>3. ASSUME NEW n \in Networks \cup {Undefined}, NewNetwork(n)
      PROVE  IdsInv'
  <2> DEFINE s == [type |-> "status", status |-> IF n = Undefined THEN "left" ELSE "joined"]
  <2>1. s \in Received /\ s.type = "status"
    BY DEF Received, Status
  <2>2. in' = Append(in, s)
    BY <1>3 DEF NewNetwork
  <2> HIDE DEF s
  <2>3. /\ Len(in') = Len(in) + 1 /\ in'[Len(in) + 1] = s /\ Len(in) \in Nat
        /\ \A k \in 1 .. Len(in) : in'[k] = in[k]
    BY <1>1, <2>1, <2>2, Arrives
  <2>4. ASSUME NEW k \in 1 .. Len(in'), in'[k].type = "answer"  PROVE Belongs(in'[k], drv')
    <3>1. k \in 1 .. Len(in)
      BY <2>1, <2>3, <2>4
    <3> QED
      BY <1>1, <2>3, <2>4, <3>1 DEF RInv, IdsInv
  <2> QED
    BY <1>1, <2>4 DEF RInv, IdsInv
<1> QED
  BY <1>2, <1>3

LEMMA RightNext ==
  ASSUME Room, RInv, IdFree, [Next]_vars
  PROVE  RInv'
<1>1. QInv'
  BY NextType, NextGood DEF RInv, QInv
<1>2. ASSUME Silent(drv, drv') \/ SendsOne(drv, drv'), in' = in, crossed' = crossed
      PROVE  IdsInv' /\ RightRequest'
  BY <1>2, StepBelongs DEF RInv, IdsInv, RightRequest
<1>3. CASE Answer
  BY <1>1, <1>3, IdsAnswer DEF RInv, RightRequest, Answer
<1>4. CASE Lose \/ (\E n \in Networks \cup {Undefined} : NewNetwork(n))
  <2>1. IdsInv'
    BY <1>4, IdsRadio
  <2>2. crossed' = crossed
    BY <1>4 DEF Lose, NewNetwork
  <2> QED
    BY <1>1, <2>1, <2>2 DEF RInv, RightRequest
<1>5. CASE Dispatch
  <2>1. TypeOK /\ Good(drv) /\ in # << >> /\ in' = Tail(in)
    BY <1>5 DEF Dispatch, RInv, QInv
  <2>2. Silent(drv, drv') \/ SendsOne(drv, drv')
    BY <1>5, <2>1, DispatchGood DEF Step
  <2>3. /\ \A k \in 1 .. Len(drv'.out) : Belongs(drv'.out[k], drv')
        /\ \A k \in 1 .. Len(in) : in[k].type = "answer" => Belongs(in[k], drv')
    BY <2>2, StepBelongs DEF RInv
  <2>4. /\ Len(in) \in Nat \ {0} /\ Len(in') = Len(in) - 1 /\ Head(in) = in[1]
        /\ \A k \in 1 .. Len(in') : in'[k] = in[k + 1]
    BY <2>1, Leaves
  <2>5. 1 \in 1 .. Len(in) /\ \A k \in 1 .. Len(in') : k + 1 \in 1 .. Len(in)
    BY <2>4
  <2>6. IdsInv'
    BY <2>3, <2>4, <2>5 DEF IdsInv
  <2>7. Head(in).type = "answer" => Belongs(Head(in), drv)
    BY <2>4, <2>5 DEF RInv, IdsInv
  <2>8. crossed' = crossed
    <3>1. CASE Head(in).type = "answer"
      <4>1. Matches(drv, Head(in)) \in {{}, AddressOf(drv, Head(in).by)}
        BY <2>7, <3>1, MatchIsRight
      <4>2. crossed \in BOOLEAN
        BY <2>1 DEF TypeOK
      <4> QED
        BY <1>5, <3>1, <4>1, <4>2 DEF Dispatch
    <3>2. CASE Head(in).type # "answer"
      BY <1>5, <3>2 DEF Dispatch
    <3> QED
      BY <3>1, <3>2
  <2> QED
    BY <1>1, <2>6, <2>8 DEF RInv, RightRequest
<1>6. CASE Second
  <2>1. Silent(drv, drv')
    BY <1>6, SecondGood DEF RInv, QInv
  <2> QED
    BY <1>1, <1>2, <1>6, <2>1 DEF RInv, Second, radio
<1>7. CASE UNCHANGED vars
  <2>1. Silent(drv, drv')
    BY <1>7, SameGood DEF RInv, QInv, vars
  <2> QED
    BY <1>1, <1>2, <1>7, <2>1 DEF RInv, vars, radio
<1>8. CASE Main
  <2>1. in' = in /\ crossed' = crossed
    BY <1>8 DEF Main, Start, InitFramesDone, InitStatus, ConsoleCommand, ConsoleIdle, LoopTick,
                FramesDone, radio
  <2>2. Silent(drv, drv') \/ SendsOne(drv, drv')
    BY <1>8, MainGood DEF RInv, QInv, Step
  <2> QED
    BY <1>1, <1>2, <2>1, <2>2 DEF RInv
<1> QED
  BY <1>3, <1>4, <1>5, <1>6, <1>7, <1>8 DEF Next

(***************************************************************************)
(* _xbee_cmd_handle_response finds the request by the frame ID and the     *)
(* command, not by the handle.  As long as the ID about to be given is     *)
(* free, that is enough: slots used again after a time-out, answers that   *)
(* come late and requests for the same command confuse it in no way.       *)
(***************************************************************************)
THEOREM AnswersGoHome == Room => (Spec /\ []IdFree => []RightRequest)
<1> SUFFICES ASSUME Room  PROVE Spec /\ []IdFree => []RightRequest
  OBVIOUS
<1>1. Init => RInv
  <2> SUFFICES ASSUME Init  PROVE RInv
    OBVIOUS
  <2>1. QInv
    BY InitType, InitGood DEF QInv
  <2>2. 1 .. Len(in) = {} /\ 1 .. Len(drv.out) = {} /\ ~crossed
    BY DEF Init
  <2> QED
    BY <2>1, <2>2 DEF RInv, IdsInv, RightRequest
<1>2. RInv /\ IdFree /\ [Next]_vars => RInv'
  BY RightNext
<1>3. RInv => RightRequest
  BY DEF RInv
<1> QED
  BY <1>1, <1>2, <1>3, PTL DEF Spec

=============================================================================
