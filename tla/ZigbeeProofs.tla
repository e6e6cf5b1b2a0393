---------------------------- MODULE ZigbeeProofs ----------------------------
(***************************************************************************)
(* Proofs about the ZigBee layer: the conversation table of Conversations, *)
(* the dispatch and the answers of Zigbee and the writes of ZclAttributes, *)
(* for all tables and messages, every number of transaction IDs, every     *)
(* width of the clock and time-outs below half of its range.               *)
(*                                                                         *)
(* The invariant says of a conversation that its ID is its request's       *)
(* serial number modulo Ids, that the 16-bit difference of the clock and   *)
(* its time-out is its age less its wait modulo Secs, and that it was not  *)
(* over when wpan_tick was last called; and that the contexts that are     *)
(* pending and the conversations belong together one to one.               *)
(*                                                                         *)
(* The loops over a table of endpoints and over the records of a request   *)
(* are recursive functions, whose values StepsExist makes known.           *)
(***************************************************************************)
EXTENDS Conversations, Zigbee, ZclAttributes, FiniteSetTheorems, WellFoundedInduction, TLAPS

\* a is b modulo n.  The invariant carries the quotient, which % hides.
Congruent(n, a, b) == \E q \in Int : a = q * n + b

LEMMA Remainder ==
  ASSUME NEW n \in Nat \ {0}, NEW a \in Int, NEW b \in 0 .. n - 1, Congruent(n, a, b)
  PROVE  a % n = b
BY DEF Congruent

LEMMA NextRemainder ==
  ASSUME NEW n \in Nat \ {0}, NEW a \in Int, NEW b \in 0 .. n - 1, Congruent(n, a, b)
  PROVE  Congruent(n, a + 1, (b + 1) % n) /\ (b + 1) % n \in 0 .. n - 1
<1>1. PICK q \in Int : a = q * n + b
  BY DEF Congruent
<1>2. CASE b + 1 < n
  <2>1. (b + 1) % n = b + 1 /\ b + 1 \in 0 .. n - 1
    BY <1>2
  <2>2. a + 1 = q * n + (b + 1)
    BY <1>1
  <2> QED
    BY <2>1, <2>2 DEF Congruent
<1>3. CASE b + 1 = n
  <2>1. (b + 1) % n = 0 /\ 0 \in 0 .. n - 1
    BY <1>3
  <2>2. (q + 1) * n = q * n + n
    OBVIOUS
  <2>3. a + 1 = (q + 1) * n + 0 /\ q + 1 \in Int
    BY <1>1, <1>3, <2>2
  <2> QED
    BY <2>1, <2>3 DEF Congruent
<1> QED
  BY <1>2, <1>3

\* Numbers with the same remainder are the same or lie n apart.
LEMMA SameRemainder ==
  ASSUME NEW n \in Nat \ {0}, NEW a \in Int, NEW b \in Int, NEW i \in Int,
         Congruent(n, a, i), Congruent(n, b, i)
  PROVE  a = b \/ a - b >= n \/ b - a >= n
<1>1. PICK q \in Int : a = q * n + i
  BY DEF Congruent
<1>2. PICK r \in Int : b = r * n + i
  BY DEF Congruent
<1>3. b - a = (r - q) * n /\ a - b = (q - r) * n
  BY <1>1, <1>2
<1>4. \A k \in Int : k >= 1 => k * n >= n
  OBVIOUS
<1>5. CASE r = q
  BY <1>1, <1>2, <1>5
<1>6. CASE r > q
  BY <1>3, <1>4, <1>6
<1>7. CASE r < q
  BY <1>3, <1>4, <1>7
<1> QED
  BY <1>5, <1>6, <1>7

-----------------------------------------------------------------------------
LEMMA FirstIsIn ==
  ASSUME NEW I, I \subseteq Slot, I # {}
  PROVE  FirstOf(I) \in I
<1> DEFINE R == OpToRel(<, Nat)
<1>1. I \subseteq Nat
  BY ConversationsAssumption DEF Slot
<1>2. IsWellFoundedOn(R, Nat)
  BY NatLessThanWellFounded
<1>3. R = {ss \in Nat \X Nat : ss[1] < ss[2]}
  BY DEF OpToRel
<1> HIDE DEF R
<1>4. PICK i \in I : \A j \in I : <<j, i>> \notin R
  BY <1>1, <1>2, WFMin
<1>5. \A j \in I : i <= j
  <2> SUFFICES ASSUME NEW j \in I  PROVE ~(j < i)
    BY <1>1
  <2>1. <<j, i>> \in Nat \X Nat
    BY <1>1
  <2>2. <<j, i>>[1] = j /\ <<j, i>>[2] = i
    OBVIOUS
  <2> QED
    BY <1>3, <1>4, <2>1, <2>2
<1> QED
  BY <1>5 DEF FirstOf

-----------------------------------------------------------------------------
\* Conversation t is d seconds late at most, and was not over when wpan_tick
\* was last called.
OnTime(t) ==
  \E d \in {0, 1} : /\ Congruent(Secs, seconds - t.timeout, t.age - t.wait - d)
                    /\ t.age <= t.wait + d - 1 + idleFor

TimeInv == \A i \in Slot : Used(i) => table[i].timeout # 0 /\ OnTime(table[i])

IdInv ==
  /\ Congruent(Ids, serial, last)
  /\ \A i \in Slot : Used(i) => /\ table[i].request <= serial
                                /\ Congruent(Ids, table[i].request, table[i].id)
  /\ \A s \in air : s <= serial /\ \E b \in 0 .. Ids - 1 : Congruent(Ids, s, b)

\* A pending context and its conversation belong together.
CellInv ==
  /\ \A i \in Slot : Used(i) => /\ Waits(table[i].context)
                                /\ cell[table[i].context].request = table[i].request
  /\ \A i, j \in Slot : Used(i) /\ Used(j) /\ table[i].context = table[j].context => i = j
  /\ \A c \in Cells : Waits(c) => \E i \in Slot : Used(i) /\ table[i].context = c

IInv == ConvTypeOK /\ TimeInv /\ IdInv /\ CellInv /\ RightAnswer

-----------------------------------------------------------------------------
LEMMA FreeIsNone == Free \notin Conversation
<1>1. Free.request = 0
  BY DEF Free
<1>2. \A t \in Conversation : t.request \in Serial
  BY DEF Conversation
<1> QED
  BY <1>1, <1>2, ConversationsAssumption DEF Serial

LEMMA UsedIsConversation ==
  ASSUME ConvTypeOK, NEW i \in Slot
  PROVE  Used(i) <=> table[i] \in Conversation
BY FreeIsNone DEF Used, ConvTypeOK

\* The time-out is that of the wait, or a second more.
LEMMA EndOfWait ==
  ASSUME seconds \in 0 .. Secs - 1, NEW wait \in 1 .. CallWait
  PROVE  /\ EndOf(wait) \in 1 .. Secs - 1
         /\ \E d \in {0, 1} : Congruent(Secs, seconds - EndOf(wait), 0 - wait - d)
<1> USE ConversationsAssumption
<1>0. Secs \in Nat \ {0} /\ wait \in Nat /\ seconds \in Nat /\ wait < Secs /\ Secs > 1
  <2>1. CallWait + 1 <= HalfSecs /\ HalfSecs + HalfSecs = Secs /\ HalfSecs \in Nat
    BY DEF HalfSecs
  <2> QED
    BY <2>1
<1>1. CASE seconds + wait < Secs
  <2>1. (seconds + wait) % Secs = seconds + wait /\ seconds + wait > 0
    BY <1>0, <1>1
  <2>2. EndOf(wait) = seconds + wait
    BY <1>0, <2>1 DEF EndOf
  <2>3. seconds - EndOf(wait) = 0 * Secs + (0 - wait - 0)
    BY <1>0, <2>2
  <2> QED
    BY <1>0, <1>1, <2>2, <2>3 DEF Congruent
<1>2. CASE seconds + wait >= Secs
  <2>1. seconds + wait = 1 * Secs + (seconds + wait - Secs) /\ seconds + wait - Secs \in 0 .. Secs - 1
    BY <1>0, <1>2
  <2>2. (seconds + wait) % Secs = seconds + wait - Secs
    <3>1. Congruent(Secs, seconds + wait, seconds + wait - Secs)
      BY <2>1 DEF Congruent
    <3>2. seconds + wait \in Int
      BY <1>0
    <3> QED
      BY <1>0, <2>1, <3>1, <3>2, Remainder
  <2>3. CASE seconds + wait = Secs
    <3>1. EndOf(wait) = 1
      BY <1>0, <2>2, <2>3 DEF EndOf
    <3>2. seconds - EndOf(wait) = 1 * Secs + (0 - wait - 1)
      BY <1>0, <2>3, <3>1
    <3> QED
      BY <1>0, <3>1, <3>2 DEF Congruent
  <2>4. CASE seconds + wait # Secs
    <3>1. EndOf(wait) = seconds + wait - Secs
      BY <1>0, <2>2, <2>4 DEF EndOf
    <3>2. seconds - EndOf(wait) = 1 * Secs + (0 - wait - 0)
      BY <1>0, <3>1
    <3> QED
      BY <1>0, <2>1, <2>4, <3>1, <3>2 DEF Congruent
  <2> QED
    BY <2>3, <2>4
<1> QED
  BY <1>0, <1>1, <1>2

\* The signed comparison tells what lies ahead from what is over.
LEMMA OverIsOver ==
  ASSUME seconds \in 0 .. Secs - 1, NEW t \in 1 .. Secs - 1, NEW x \in Int,
         Congruent(Secs, seconds - t, x), 0 - HalfSecs <= x, x < HalfSecs
  PROVE  IsOver(t) <=> x >= 0
<1> USE ConversationsAssumption
<1>0. /\ Secs \in Nat \ {0} /\ HalfSecs \in Nat /\ HalfSecs + HalfSecs = Secs
      /\ seconds - t \in Int
  BY DEF HalfSecs
<1>1. CASE x >= 0
  <2>1. x \in 0 .. Secs - 1
    BY <1>0, <1>1
  <2>2. (seconds - t) % Secs = x
    BY <1>0, <2>1, Remainder
  <2> QED
    BY <1>0, <1>1, <2>2 DEF IsOver
<1>2. CASE x < 0
  <2>1. PICK q \in Int : seconds - t = q * Secs + x
    BY DEF Congruent
  <2>2. (q - 1) * Secs = q * Secs - Secs
    BY <1>0
  <2>3. seconds - t = (q - 1) * Secs + (x + Secs) /\ x + Secs \in 0 .. Secs - 1 /\ q - 1 \in Int
    BY <1>0, <1>2, <2>1, <2>2
  <2>4. (seconds - t) % Secs = x + Secs
    BY <1>0, <2>3, Remainder DEF Congruent
  <2> QED
    BY <1>0, <1>2, <2>4 DEF IsOver
<1> QED
  BY <1>1, <1>2

LEMMA RegisterKeeps ==
  ASSUME IInv, NEW c \in Cells, NEW goesOn \in BOOLEAN, NEW wait \in {AddrWait, CallWait},
         ~Waits(c), Register(c, goesOn, wait), SendRequest
  PROVE  IInv'
<1> USE ConversationsAssumption
<1> DEFINE I == {i \in Slot : ~Used(i)}
           n == FirstOf(I)
           new == [context |-> c, timeout |-> EndOf(wait), id |-> last', goesOn |-> goesOn,
                   wait |-> wait, request |-> serial', age |-> 0]
           asked == [is |-> "pending", request |-> serial', response |-> 0]
<1>0. ConvTypeOK /\ wait \in 1 .. CallWait
  BY DEF IInv
<1>1. n \in Slot /\ ~Used(n)
  <2>1. I \subseteq Slot /\ I # {}
    BY DEF Register
  <2>2. n \in I
    BY <2>1, FirstIsIn
  <2> QED
    BY <2>2
<1>2. serial' = serial + 1 /\ serial' \in Serial /\ serial \in Nat /\ last' \in 0 .. Ids - 1 /\ Congruent(Ids, serial', last')
  <2>1. serial' = serial + 1 /\ last' = (last + 1) % Ids /\ serial' \in Serial /\ serial \in Nat /\ last \in 0 .. Ids - 1
    BY <1>0 DEF Register, NextTransaction, NextId, ConvTypeOK, Serial
  <2> QED
    <3>1. Congruent(Ids, serial, last) /\ Ids \in Nat \ {0} /\ serial \in Int
      BY <2>1 DEF IInv, IdInv
    <3> QED
      BY <2>1, <3>1, NextRemainder
<1>3. /\ EndOf(wait) \in 1 .. Secs - 1
      /\ \E d \in {0, 1} : Congruent(Secs, seconds - EndOf(wait), 0 - wait - d)
  BY <1>0, EndOfWait DEF ConvTypeOK
<1>4. new \in Conversation
  <2>1. EndOf(wait) \in 0 .. Secs - 1 /\ 0 \in 0 .. MaxAge
    BY <1>3 DEF MaxAge
  <2> QED
    BY <1>2, <2>1 DEF Conversation
<1>5. table' = [table EXCEPT ![n] = new]
  BY DEF Register
<1> HIDE DEF n, I, new
<1>6. /\ table' \in [Slot -> Conversation \cup {Free}]
      /\ table'[n] = new /\ \A i \in Slot : i # n => table'[i] = table[i]
  BY <1>0, <1>1, <1>4, <1>5 DEF ConvTypeOK
<1>7. new # Free /\ table[n] = Free
  <2>1. new.request # 0
    BY <1>2 DEF new, Serial
  <2> QED
    BY <2>1, <1>1 DEF Free, Used
<1>8. \A i \in Slot : Used(i)' <=> (i = n \/ Used(i))
  BY <1>6, <1>7 DEF Used
<1>9. new.context = c /\ new.request = serial' /\ new.timeout = EndOf(wait) /\ new.age = 0
      /\ new.wait = wait /\ new.id = last'
  BY DEF new
<1>10. cell' = [cell EXCEPT ![c] = asked]
  <2>1. \A e \in Cells : (\E i \in Slot : table'[i] # table[i] /\ table'[i].context = e) <=> e = c
    BY <1>1, <1>6, <1>7, <1>9
  <2>2. cell' = [e \in Cells |-> IF e = c THEN asked ELSE cell[e]]
    BY <2>1 DEF SendRequest
  <2> QED
    BY <1>0, <2>2 DEF ConvTypeOK
<1>11. UNCHANGED <<seconds, idleFor>> /\ (air' = air \/ air' = air \cup {serial'})
  BY DEF SendRequest
<1>12. ConvTypeOK'
  <2>1. asked \in CellState
    BY <1>2 DEF CellState, Serial
  <2>2. cell' \in [Cells -> CellState]
    BY <1>0, <1>10, <2>1 DEF ConvTypeOK
  <2>3. serial' \in 0 .. MaxSerial /\ air' \subseteq Serial
    <3>1. air' \subseteq Serial
      BY <1>0, <1>2, <1>11 DEF ConvTypeOK
    <3>2. serial' \in 0 .. MaxSerial
      BY <1>2 DEF Serial
    <3> QED
      BY <3>1, <3>2
  <2> QED
    BY <1>0, <1>2, <1>6, <1>11, <2>2, <2>3 DEF ConvTypeOK
<1>13. TimeInv'
  <2> SUFFICES ASSUME NEW i \in Slot, Used(i)'  PROVE table'[i].timeout # 0 /\ OnTime(table[i])'
    BY DEF TimeInv
  <2>1. CASE i = n
    <3>1. PICK d \in {0, 1} : Congruent(Secs, seconds - EndOf(wait), 0 - wait - d)
      BY <1>3
    <3>2. 0 <= wait + d - 1 + idleFor
      BY <1>0 DEF ConvTypeOK
    <3> QED
      BY <1>3, <1>6, <1>9, <1>11, <2>1, <3>1, <3>2 DEF OnTime
  <2>2. CASE i # n
    BY <1>6, <1>8, <1>11, <2>2 DEF IInv, TimeInv, OnTime
  <2> QED
    BY <2>1, <2>2
<1>14. IdInv'
  <2>1. \A i \in Slot : Used(i)' => table'[i].request <= serial' /\ Congruent(Ids, table'[i].request, table'[i].id)
    <3> SUFFICES ASSUME NEW i \in Slot, Used(i)'
                 PROVE  table'[i].request <= serial' /\ Congruent(Ids, table'[i].request, table'[i].id)
      OBVIOUS
    <3>1. CASE i = n
      BY <1>2, <1>6, <1>9, <3>1
    <3>2. CASE i # n
      <4>1. Used(i) /\ table'[i] = table[i] /\ table[i] \in Conversation
        BY <1>0, <1>6, <1>8, <3>2, UsedIsConversation
      <4>2. table[i].request <= serial /\ Congruent(Ids, table[i].request, table[i].id)
        BY <4>1 DEF IInv, IdInv
      <4>3. table[i].request \in Nat
        BY <4>1 DEF Conversation, Serial
      <4> QED
        BY <1>2, <4>1, <4>2, <4>3
    <3> QED
      BY <3>1, <3>2
  <2>2. ASSUME NEW s \in air'  PROVE s <= serial' /\ \E b \in 0 .. Ids - 1 : Congruent(Ids, s, b)
    <3>1. CASE s \in air
      <4>1. s <= serial /\ s \in Nat /\ \E b \in 0 .. Ids - 1 : Congruent(Ids, s, b)
        BY <1>0, <3>1 DEF IInv, IdInv, ConvTypeOK, Serial
      <4> QED
        BY <1>2, <4>1
    <3>2. CASE s = serial'
      BY <1>2, <3>2
    <3> QED
      BY <1>11, <3>1, <3>2
  <2> QED
    BY <1>2, <2>1, <2>2 DEF IdInv
<1>15. CellInv'
  <2>1. \A e \in Cells : cell'[e] = IF e = c THEN asked ELSE cell[e]
    BY <1>0, <1>10 DEF ConvTypeOK
  <2>2. \A i \in Slot : Used(i) => table[i].context \in Cells /\ table[i].context # c
    BY <1>0, UsedIsConversation DEF IInv, CellInv, Conversation
  <2>3. ASSUME NEW i \in Slot, Used(i)'
        PROVE  Waits(table[i].context)' /\ cell'[table'[i].context].request = table'[i].request
    <3>1. CASE i = n
      BY <1>6, <1>9, <2>1, <3>1 DEF Waits
    <3>2. CASE i # n
      BY <1>6, <1>8, <2>1, <2>2, <2>3, <3>2 DEF Waits, IInv, CellInv
    <3> QED
      BY <3>1, <3>2
  <2>4. ASSUME NEW i \in Slot, NEW j \in Slot, Used(i)', Used(j)', table'[i].context = table'[j].context
        PROVE  i = j
    BY <1>6, <1>8, <1>9, <2>2, <2>4 DEF IInv, CellInv
  <2>5. ASSUME NEW e \in Cells, Waits(e)'  PROVE \E i \in Slot : Used(i)' /\ table'[i].context = e
    <3>1. CASE e = c
      BY <1>1, <1>6, <1>8, <1>9, <3>1
    <3>2. CASE e # c
      <4>1. Waits(e)
        BY <2>1, <2>5, <3>2 DEF Waits
      <4>2. PICK i \in Slot : Used(i) /\ table[i].context = e
        BY <4>1 DEF IInv, CellInv
      <4>3. i # n
        BY <4>2, <1>1
      <4> QED
        BY <1>6, <1>8, <4>2, <4>3
    <3> QED
      BY <3>1, <3>2
  <2> QED
    BY <2>3, <2>4, <2>5 DEF CellInv
<1>16. RightAnswer'
  <2>1. \A e \in Cells : cell'[e] = IF e = c THEN asked ELSE cell[e]
    BY <1>0, <1>10 DEF ConvTypeOK
  <2> QED
    BY <2>1 DEF IInv, RightAnswer
<1> QED
  BY <1>12, <1>13, <1>14, <1>15, <1>16 DEF IInv

\* An answer or a time-out frees cells of the table; what is free stays so, and
\* the contexts that lose their conversations are pending no longer.
LEMMA FreeingKeeps ==
  ASSUME IInv, NEW F \in SUBSET Slot, \A i \in F : Used(i),
         table' = [i \in Slot |-> IF i \in F THEN Free ELSE table[i]],
         cell' \in [Cells -> CellState],
         \A c \in Cells : IF \E i \in F : table[i].context = c
                          THEN cell'[c].is \in {"answered", "timeout"} ELSE cell'[c] = cell[c]
  PROVE  /\ table' \in [Slot -> Conversation \cup {Free}]
         /\ \A i \in Slot : Used(i)' <=> Used(i) /\ i \notin F
         /\ CellInv'
<1>0. ConvTypeOK
  BY DEF IInv
<1>1. table' \in [Slot -> Conversation \cup {Free}]
  BY <1>0 DEF ConvTypeOK
<1>2. \A i \in Slot : Used(i)' <=> Used(i) /\ i \notin F
  BY DEF Used
<1>3. \A i \in Slot : Used(i)' => Used(i) /\ table'[i] = table[i] /\ i \notin F /\ table[i].context \in Cells
  BY <1>0, <1>2, UsedIsConversation DEF Conversation
<1>4. \A i \in Slot : Used(i)' => cell'[table[i].context] = cell[table[i].context]
  <2> SUFFICES ASSUME NEW i \in Slot, Used(i)'  PROVE cell'[table[i].context] = cell[table[i].context]
    OBVIOUS
  <2>1. ~\E j \in F : table[j].context = table[i].context
    BY <1>3 DEF IInv, CellInv
  <2> QED
    BY <1>3, <2>1
<1>5. \A c \in Cells : Waits(c)' => \E i \in Slot : Used(i)' /\ table'[i].context = c
  <2> SUFFICES ASSUME NEW c \in Cells, Waits(c)'  PROVE \E i \in Slot : Used(i)' /\ table'[i].context = c
    OBVIOUS
  <2>1. ~(\E i \in F : table[i].context = c) /\ cell'[c] = cell[c]
    BY DEF Waits
  <2>2. PICK i \in Slot : Used(i) /\ table[i].context = c
    BY <2>1 DEF IInv, CellInv, Waits
  <2> QED
    BY <1>2, <1>3, <2>1, <2>2
<1>6. CellInv'
  BY <1>3, <1>4, <1>5 DEF IInv, CellInv, Waits
<1> QED
  BY <1>1, <1>2, <1>6

LEMMA ResponseKeeps == ASSUME IInv, NEW s \in Serial, Response(s)  PROVE IInv'
<1> USE ConversationsAssumption
<1> DEFINE id == s % Ids
           i == FirstOf(Matching(id))
<1>0. ConvTypeOK /\ UNCHANGED <<last, seconds, serial, idleFor>> /\ s \in air /\ serial - s < Ids
  BY DEF IInv, Response
<1>1. air' \subseteq air
  BY DEF Response
<1>2. CASE UNCHANGED <<table, cell>>
  <2>1. ConvTypeOK' /\ CellInv' /\ RightAnswer'
    BY <1>0, <1>1, <1>2 DEF ConvTypeOK, IInv, CellInv, RightAnswer, Used, Waits
  <2>2. TimeInv' /\ IdInv'
    BY <1>0, <1>1, <1>2 DEF IInv, TimeInv, IdInv, Used, OnTime
  <2> QED
    BY <2>1, <2>2 DEF IInv
<1>3. CASE Matching(id) # {} /\ SetAnswered(i, s) /\ table' = Delete(i)
  <2>1. i \in Slot /\ Used(i) /\ table[i].id = id
    <3>1. Matching(id) \subseteq Slot
      BY DEF Matching
    <3>2. i \in Matching(id)
      BY <1>3, <3>1, FirstIsIn
    <3> QED
      BY <3>2 DEF Matching
  <2> HIDE DEF i
  <2> DEFINE c == table[i].context
  <2>2. table[i] \in Conversation /\ c \in Cells
    BY <1>0, <2>1, UsedIsConversation DEF Conversation
  <2>3. cell' = [cell EXCEPT ![c] = [is |-> "answered", request |-> cell[c].request, response |-> s]]
    <3> HIDE DEF c
    <3> DEFINE half == [cell EXCEPT ![c] = [@ EXCEPT !.is = "answered"]]
    <3>1. cell' = [half EXCEPT ![c] = [@ EXCEPT !.response = s]]
      BY <1>3 DEF SetAnswered, c
    <3>2. cell \in [Cells -> CellState] /\ cell[c] \in CellState
      BY <1>0, <2>2 DEF ConvTypeOK
    <3>3. [cell[c] EXCEPT !.is = "answered"] =
            [is |-> "answered", request |-> cell[c].request, response |-> cell[c].response]
      BY <3>2 DEF CellState
    <3>4. half = [cell EXCEPT ![c] = [is |-> "answered", request |-> cell[c].request, response |-> cell[c].response]]
      BY <2>2, <3>2, <3>3
    <3> HIDE DEF half
    <3>5. half[c] = [is |-> "answered", request |-> cell[c].request, response |-> cell[c].response]
      BY <2>2, <3>2, <3>4
    <3>6. [half[c] EXCEPT !.response = s] = [is |-> "answered", request |-> cell[c].request, response |-> s]
      BY <3>5
    <3>7. cell' = [half EXCEPT ![c] = [is |-> "answered", request |-> cell[c].request, response |-> s]]
      BY <3>1, <3>6
    <3> QED
      BY <2>2, <3>2, <3>4, <3>7
  <2> HIDE DEF c
  <2>4. cell' \in [Cells -> CellState] /\ \A e \in Cells : e # c => cell'[e] = cell[e]
    BY <1>0, <2>2, <2>3 DEF ConvTypeOK, CellState, Serial
  <2>5. cell'[c].is = "answered" /\ cell'[c].request = cell[c].request /\ cell'[c].response = s
    BY <1>0, <2>2, <2>3 DEF ConvTypeOK
  <2>6. table' = [j \in Slot |-> IF j \in {i} THEN Free ELSE table[j]]
    BY <1>0, <1>3, <2>1 DEF Delete, ConvTypeOK
  <2>7. \A e \in Cells : IF \E j \in {i} : table[j].context = e
                         THEN cell'[e].is \in {"answered", "timeout"} ELSE cell'[e] = cell[e]
    BY <2>4, <2>5 DEF c
  <2>8. /\ table' \in [Slot -> Conversation \cup {Free}]
        /\ \A j \in Slot : Used(j)' <=> Used(j) /\ j \notin {i}
        /\ CellInv'
    BY <2>1, <2>4, <2>6, <2>7, FreeingKeeps
  <2>9. ConvTypeOK'
    BY <1>0, <1>1, <2>4, <2>8 DEF ConvTypeOK
  <2>10. TimeInv' /\ IdInv'
    BY <1>0, <1>1, <2>6, <2>8 DEF IInv, TimeInv, IdInv, OnTime
  <2>11. s = cell[c].request \/ s - cell[c].request >= Ids
    <3> DEFINE r == table[i].request
    <3>1. r \in Nat /\ r <= serial /\ serial \in Nat /\ s \in Nat /\ id \in 0 .. Ids - 1
      BY <1>0, <2>1, <2>2 DEF Conversation, Serial, IInv, IdInv, ConvTypeOK
    <3>2. Congruent(Ids, r, id) /\ cell[c].request = r
      BY <2>1 DEF IInv, IdInv, CellInv, c
    <3>3. PICK b \in 0 .. Ids - 1 : Congruent(Ids, s, b)
      BY <1>0 DEF IInv, IdInv
    <3>4. b = id
      <4>1. s \in Int /\ Ids \in Nat \ {0}
        BY <3>1
      <4>2. s % Ids = b
        BY <3>3, <4>1, Remainder
      <4> QED
        BY <4>2
    <3>5. s = r \/ s - r >= Ids \/ r - s >= Ids
      BY <3>1, <3>2, <3>3, <3>4, SameRemainder
    <3> HIDE DEF r, id
    <3> QED
      BY <1>0, <3>1, <3>2, <3>5
  <2>12. RightAnswer'
    BY <2>4, <2>5, <2>11 DEF IInv, RightAnswer
  <2> QED
    BY <2>8, <2>9, <2>10, <2>12 DEF IInv
<1> QED
  BY <1>2, <1>3 DEF Response

\* A conversation is over when its age has reached its wait, or a second later.
LEMMA Lateness ==
  ASSUME IInv, NEW i \in Slot, Used(i)
  PROVE  LET t == table[i]
         IN /\ t.age \in 0 .. MaxAge /\ t.wait \in 1 .. CallWait /\ t.timeout \in 1 .. Secs - 1
            /\ \E d \in {0, 1} : /\ Congruent(Secs, seconds - t.timeout, t.age - t.wait - d)
                                 /\ t.age <= t.wait + d - 1 + idleFor
                                 /\ IsOver(t.timeout) <=> t.age >= t.wait + d
            /\ t.age <= t.wait + Gap
<1> USE ConversationsAssumption
<1> DEFINE t == table[i]
<1>1. t.age \in 0 .. MaxAge /\ t.wait \in 1 .. CallWait /\ t.timeout \in 1 .. Secs - 1
  <2>1. t \in Conversation
    BY UsedIsConversation DEF IInv
  <2>2. t.timeout # 0
    BY DEF IInv, TimeInv
  <2> QED
    BY <2>1, <2>2 DEF Conversation
<1>2. PICK d \in {0, 1} : /\ Congruent(Secs, seconds - t.timeout, t.age - t.wait - d)
                          /\ t.age <= t.wait + d - 1 + idleFor
  BY DEF IInv, TimeInv, OnTime
<1> HIDE DEF t
<1>3. idleFor \in 0 .. Gap /\ seconds \in 0 .. Secs - 1
  BY DEF IInv, ConvTypeOK
<1>4. CallWait + 1 <= HalfSecs /\ Gap < HalfSecs /\ HalfSecs \in Nat
  BY DEF HalfSecs
<1>5. t.age \in Nat /\ t.wait \in Nat /\ t.wait <= CallWait
  BY <1>1 DEF MaxAge
<1>6. /\ t.age - t.wait - d \in Int
      /\ 0 - HalfSecs <= t.age - t.wait - d /\ t.age - t.wait - d < HalfSecs
  BY <1>2, <1>3, <1>4, <1>5
<1>7. IsOver(t.timeout) <=> t.age - t.wait - d >= 0
  BY <1>1, <1>2, <1>3, <1>6, OverIsOver
<1>8. IsOver(t.timeout) <=> t.age >= t.wait + d
  BY <1>5, <1>7
<1>9. t.age <= t.wait + Gap
  BY <1>2, <1>3, <1>5
<1> QED
  BY <1>1, <1>2, <1>8, <1>9 DEF t

LEMMA ExpireKeeps == ASSUME IInv, Expire  PROVE IInv'
<1> USE ConversationsAssumption
<1> DEFINE F == {i \in Slot : Ends(i)}
<1>0. ConvTypeOK /\ UNCHANGED <<last, seconds, air, serial>> /\ idleFor' = 0
  BY DEF IInv, Expire
<1>1. \A i \in F : Used(i)
  BY DEF Ends
<1>2. table' = [i \in Slot |-> IF i \in F THEN Free ELSE table[i]]
  BY DEF Expire
<1>3. \A c \in Cells : cell'[c] = IF \E i \in F : table[i].context = c
                                  THEN [cell[c] EXCEPT !.is = "timeout"] ELSE cell[c]
  BY DEF Expire
<1>4. \A c \in Cells : [cell[c] EXCEPT !.is = "timeout"] \in CellState /\ [cell[c] EXCEPT !.is = "timeout"].is = "timeout"
  BY <1>0 DEF ConvTypeOK, CellState
<1>5. cell' \in [Cells -> CellState]
  <2>1. DOMAIN cell' = Cells /\ cell' = [c \in Cells |-> cell'[c]]
    BY DEF Expire
  <2>2. ASSUME NEW c \in Cells  PROVE cell'[c] \in CellState
    <3>1. cell[c] \in CellState
      BY <1>0 DEF ConvTypeOK
    <3>2. cell'[c] = [cell[c] EXCEPT !.is = "timeout"] \/ cell'[c] = cell[c]
      BY <1>3
    <3>3. [cell[c] EXCEPT !.is = "timeout"] \in CellState
      BY <1>4
    <3> QED
      BY ONLY <3>1, <3>2, <3>3
  <2> QED
    BY <2>1, <2>2
<1>6. \A c \in Cells : IF \E i \in F : table[i].context = c
                       THEN cell'[c].is \in {"answered", "timeout"} ELSE cell'[c] = cell[c]
  BY <1>3, <1>4
<1> HIDE DEF F
<1>7. /\ table' \in [Slot -> Conversation \cup {Free}]
      /\ \A i \in Slot : Used(i)' <=> Used(i) /\ i \notin F
      /\ CellInv'
  <2>1. F \in SUBSET Slot
    BY DEF F
  <2> QED
    BY <2>1, <1>1, <1>2, <1>5, <1>6, FreeingKeeps
<1>8. ConvTypeOK'
  BY <1>0, <1>5, <1>7 DEF ConvTypeOK
<1>9. TimeInv'
  <2> SUFFICES ASSUME NEW i \in Slot, Used(i)'  PROVE table'[i].timeout # 0 /\ OnTime(table[i])'
    BY DEF TimeInv
  <2>1. Used(i) /\ i \notin F /\ table'[i] = table[i]
    BY <1>2, <1>7
  <2>2. ~IsOver(table[i].timeout)
    BY <2>1 DEF F, Ends
  <2>3. table[i].age \in Nat /\ table[i].wait \in Nat /\ table[i].timeout # 0
    BY <2>1, Lateness DEF MaxAge
  <2>4. PICK d \in {0, 1} : /\ Congruent(Secs, seconds - table[i].timeout, table[i].age - table[i].wait - d)
                            /\ ~(table[i].age >= table[i].wait + d)
    BY <2>1, <2>2, Lateness
  <2>5. table[i].age <= table[i].wait + d - 1 + 0
    BY <2>3, <2>4
  <2> QED
    BY <1>0, <2>1, <2>3, <2>4, <2>5 DEF OnTime
<1>10. IdInv'
  BY <1>0, <1>2, <1>7 DEF IInv, IdInv
<1>11. RightAnswer'
  BY <1>3, <1>4 DEF IInv, RightAnswer
<1> QED
  BY <1>7, <1>8, <1>9, <1>10, <1>11 DEF IInv

LEMMA SecondKeeps == ASSUME IInv, Second  PROVE IInv'
<1> USE ConversationsAssumption
<1> DEFINE older(i) == [table[i] EXCEPT !.age = table[i].age + 1]
<1>0. ConvTypeOK /\ UNCHANGED <<last, cell, air, serial>> /\ idleFor' = idleFor + 1 /\ idleFor < Gap /\ idleFor \in Nat
  BY DEF IInv, Second, ConvTypeOK
<1>1. ASSUME NEW i \in Slot, Used(i)
      PROVE  /\ older(i) = [context |-> table[i].context, timeout |-> table[i].timeout, id |-> table[i].id,
                             goesOn |-> table[i].goesOn, wait |-> table[i].wait,
                             request |-> table[i].request, age |-> table[i].age + 1]
             /\ older(i) \in Conversation
             /\ table[i].age < MaxAge /\ table[i].age \in Nat
  <2>1. table[i] \in Conversation
    BY <1>0, <1>1, UsedIsConversation
  <2>2. table[i].age <= table[i].wait + Gap /\ table[i].wait \in 1 .. CallWait /\ table[i].age \in 0 .. MaxAge
    BY <1>1, Lateness
  <2>3. table[i].age < MaxAge /\ table[i].age \in Nat /\ table[i].age + 1 \in 0 .. MaxAge
    BY <2>2 DEF MaxAge
  <2>4. older(i) = [context |-> table[i].context, timeout |-> table[i].timeout, id |-> table[i].id,
                    goesOn |-> table[i].goesOn, wait |-> table[i].wait,
                    request |-> table[i].request, age |-> table[i].age + 1]
    BY <2>1 DEF Conversation
  <2>5. older(i) \in Conversation
    BY <2>1, <2>3, <2>4 DEF Conversation
  <2> QED
    BY <2>3, <2>4, <2>5
<1>2. \A i \in Slot : table'[i] = IF Used(i) THEN older(i) ELSE Free
  BY <1>1 DEF Second
<1> HIDE DEF older
<1>3. table' \in [Slot -> Conversation \cup {Free}]
  <2>1. table' = [i \in Slot |-> table'[i]]
    BY DEF Second
  <2>2. \A i \in Slot : table'[i] \in Conversation \cup {Free}
    BY <1>1, <1>2
  <2> QED
    BY <2>1, <2>2
<1>4. seconds \in 0 .. Secs - 1 /\ seconds' = (seconds + 1) % Secs
  BY <1>0 DEF Second, ConvTypeOK
<1>5. seconds' \in 0 .. Secs - 1
      /\ (seconds' = seconds + 1 \/ seconds' = seconds + 1 - Secs)
  <2>1. CASE seconds + 1 < Secs
    BY <1>4, <2>1
  <2>2. CASE seconds + 1 = Secs
    <3>1. (seconds + 1) % Secs = 0
      BY <1>4, <2>2
    <3> QED
      BY <1>4, <2>2, <3>1
  <2> QED
    BY <1>4, <2>1, <2>2
<1>6. ConvTypeOK'
  BY <1>0, <1>3, <1>5 DEF ConvTypeOK
<1>7. \A i \in Slot : Used(i)' <=> Used(i)
  <2>1. \A i \in Slot : Used(i) => table'[i] \in Conversation
    BY <1>1, <1>2
  <2>2. \A i \in Slot : Used(i)' <=> table'[i] \in Conversation
    BY <1>3, FreeIsNone DEF Used
  <2> QED
    BY <1>2, <2>1, <2>2 DEF Used
<1>8. TimeInv'
  <2> SUFFICES ASSUME NEW i \in Slot, Used(i)'  PROVE table'[i].timeout # 0 /\ OnTime(table[i])'
    BY DEF TimeInv
  <2> DEFINE t == table[i]
  <2>1. /\ Used(i) /\ table'[i].timeout = t.timeout /\ table'[i].wait = t.wait /\ table'[i].age = t.age + 1
        /\ t.age \in Nat
    BY <1>1, <1>2, <1>7
  <2>2. t.wait \in Nat /\ t.timeout \in 1 .. Secs - 1
    BY <2>1, Lateness
  <2>3. PICK d \in {0, 1} : /\ Congruent(Secs, seconds - t.timeout, t.age - t.wait - d)
                            /\ t.age <= t.wait + d - 1 + idleFor
    BY <2>1, Lateness
  <2> HIDE DEF t
  <2>4. PICK q \in Int : seconds - t.timeout = q * Secs + (t.age - t.wait - d)
    BY <2>3 DEF Congruent
  <2> DEFINE whole == q * Secs
  <2>5. (q - 1) * Secs = whole - Secs /\ whole \in Int /\ Secs \in Int /\ q - 1 \in Int
    OBVIOUS
  <2>6. seconds - t.timeout = whole + (t.age - t.wait - d)
    BY <2>4
  <2> HIDE DEF whole
  <2>7. Congruent(Secs, seconds' - t.timeout, t.age + 1 - t.wait - d)
    <3>0. /\ t.age \in Int /\ t.wait \in Int /\ t.timeout \in Int /\ d \in Int
          /\ seconds \in Int /\ whole \in Int /\ Secs \in Int
      BY <1>4, <2>1, <2>2, <2>5
    <3>1. CASE seconds' = seconds + 1
      <4>1. seconds' - t.timeout = whole + (t.age + 1 - t.wait - d)
        BY <2>6, <3>0, <3>1
      <4> QED
        BY <4>1 DEF Congruent, whole
    <3>2. CASE seconds' = seconds + 1 - Secs
      <4>1. seconds' - t.timeout = (whole - Secs) + (t.age + 1 - t.wait - d)
        BY <2>6, <3>0, <3>2
      <4>2. seconds' - t.timeout = (q - 1) * Secs + (t.age + 1 - t.wait - d)
        BY <2>5, <4>1
      <4> QED
        BY <2>5, <4>2 DEF Congruent
    <3> QED
      BY <1>5, <3>1, <3>2
  <2>8. t.age + 1 <= t.wait + d - 1 + idleFor'
    BY <1>0, <2>1, <2>2, <2>3
  <2>9. t.timeout # 0
    BY <2>2
  <2>10. Congruent(Secs, seconds' - table'[i].timeout, table'[i].age - table'[i].wait - d)
    <3>1. table'[i].age - table'[i].wait - d = t.age + 1 - t.wait - d
      BY <2>1, <2>2
    <3>2. seconds' - table'[i].timeout = seconds' - t.timeout
      BY <2>1
    <3> QED
      BY <2>7, <3>1, <3>2
  <2>11. table'[i].age <= table'[i].wait + d - 1 + idleFor'
    BY <2>1, <2>8
  <2> QED
    BY <2>1, <2>9, <2>10, <2>11 DEF OnTime
<1>9. \A i \in Slot : Used(i) => /\ table'[i].context = table[i].context /\ table'[i].id = table[i].id
                                 /\ table'[i].request = table[i].request
  BY <1>1, <1>2
<1>10. IdInv'
  BY <1>0, <1>7, <1>9 DEF IInv, IdInv
<1>11. CellInv'
  BY <1>0, <1>7, <1>9 DEF IInv, CellInv, Waits
<1>12. RightAnswer'
  BY <1>0 DEF IInv, RightAnswer
<1> QED
  BY <1>6, <1>8, <1>10, <1>11, <1>12 DEF IInv

LEMMA LoseKeeps == ASSUME IInv, NEW s \in Serial, Lose(s)  PROVE IInv'
<1>1. UNCHANGED <<table, last, seconds, cell, serial, idleFor>> /\ air' \subseteq air
  BY DEF Lose
<1>2. ConvTypeOK' /\ CellInv' /\ RightAnswer'
  BY <1>1 DEF IInv, ConvTypeOK, CellInv, RightAnswer, Used, Waits
<1>3. TimeInv' /\ IdInv'
  BY <1>1 DEF IInv, TimeInv, IdInv, Used, OnTime
<1> QED
  BY <1>2, <1>3 DEF IInv

LEMMA LeaveKeeps == ASSUME IInv, SendLeaveReq  PROVE IInv'
<1> USE ConversationsAssumption
<1>1. /\ UNCHANGED <<table, cell, seconds, idleFor>>
      /\ air' = air \/ air' = air \cup {serial'}
  BY DEF SendLeaveReq
<1>2. /\ serial' = serial + 1 /\ serial' \in Serial /\ serial \in Nat
      /\ last' \in 0 .. Ids - 1 /\ Congruent(Ids, serial', last')
  <2>1. serial' = serial + 1 /\ last' = (last + 1) % Ids /\ serial' \in Serial /\ serial \in Nat /\ last \in 0 .. Ids - 1
    BY DEF SendLeaveReq, NextTransaction, NextId, IInv, ConvTypeOK, Serial
  <2> QED
    <3>1. Congruent(Ids, serial, last) /\ Ids \in Nat \ {0} /\ serial \in Int
      BY <2>1 DEF IInv, IdInv
    <3> QED
      BY <2>1, <3>1, NextRemainder
<1>3. ConvTypeOK'
  <2>1. air' \subseteq Serial
    BY <1>1, <1>2 DEF IInv, ConvTypeOK
  <2>2. serial' \in 0 .. MaxSerial
    BY <1>2 DEF Serial
  <2> QED
    BY <1>1, <1>2, <2>1, <2>2 DEF IInv, ConvTypeOK
<1>4. TimeInv' /\ CellInv' /\ RightAnswer'
  BY <1>1 DEF IInv, TimeInv, CellInv, RightAnswer, Used, Waits, OnTime
<1>5. IdInv'
  <2>1. ASSUME NEW i \in Slot, Used(i)'
        PROVE  table'[i].request <= serial' /\ Congruent(Ids, table'[i].request, table'[i].id)
    <3>1. Used(i) /\ table' = table
      BY <1>1, <2>1 DEF Used
    <3>2. table[i].request \in Nat
      BY <3>1, UsedIsConversation DEF IInv, Conversation, Serial
    <3>3. table[i].request <= serial /\ Congruent(Ids, table[i].request, table[i].id)
      BY <3>1 DEF IInv, IdInv
    <3> QED
      BY <1>2, <3>1, <3>2, <3>3
  <2>2. ASSUME NEW s \in air'  PROVE s <= serial' /\ \E b \in 0 .. Ids - 1 : Congruent(Ids, s, b)
    <3>1. CASE s \in air
      <4>1. s <= serial /\ s \in Nat /\ \E b \in 0 .. Ids - 1 : Congruent(Ids, s, b)
        BY <3>1 DEF IInv, IdInv, ConvTypeOK, Serial
      <4> QED
        BY <1>2, <4>1
    <3>2. CASE s = serial'
      BY <1>2, <3>2
    <3> QED
      BY <1>1, <3>1, <3>2
  <2> QED
    BY <1>2, <2>1, <2>2 DEF IdInv
<1> QED
  BY <1>3, <1>4, <1>5 DEF IInv

LEMMA StutterKeeps == ASSUME IInv, UNCHANGED convVars  PROVE IInv'
<1>1. UNCHANGED <<table, last, seconds, cell, air, serial, idleFor>>
  BY DEF convVars
<1>2. ConvTypeOK' /\ CellInv' /\ RightAnswer'
  BY <1>1 DEF IInv, ConvTypeOK, CellInv, RightAnswer, Used, Waits
<1>3. TimeInv' /\ IdInv'
  BY <1>1 DEF IInv, TimeInv, IdInv, Used, OnTime
<1> QED
  BY <1>2, <1>3 DEF IInv

-----------------------------------------------------------------------------
LEMMA Initially == ConvInit => IInv
<1> USE ConversationsAssumption
<1> SUFFICES ASSUME ConvInit  PROVE IInv
  OBVIOUS
<1>1. ConvTypeOK
  BY DEF ConvInit, ConvTypeOK, CellState
<1>2. TimeInv /\ CellInv /\ RightAnswer
  BY DEF ConvInit, TimeInv, CellInv, RightAnswer, Used, Waits
<1>3. IdInv
  <2>1. serial = 0 * Ids + last /\ 0 \in Int
    BY DEF ConvInit
  <2> QED
    BY <2>1 DEF ConvInit, IdInv, Used, Congruent
<1> QED
  BY <1>1, <1>2, <1>3 DEF IInv

LEMMA StepKeeps == IInv /\ [ConvNext]_convVars => IInv'
<1> SUFFICES ASSUME IInv, [ConvNext]_convVars  PROVE IInv'
  OBVIOUS
<1>1. ASSUME NEW c \in Cells, SendAddrReq(c)  PROVE IInv'
  BY <1>1, RegisterKeeps DEF SendAddrReq
<1>2. ASSUME NEW c \in Cells, SendWithCallback(c)  PROVE IInv'
  BY <1>2, RegisterKeeps DEF SendWithCallback
<1>3. ASSUME NEW c \in Cells, SendRefused(c)  PROVE IInv'
  BY <1>3, StutterKeeps DEF SendRefused
<1> QED
  BY <1>1, <1>2, <1>3, LeaveKeeps, ResponseKeeps, LoseKeeps, ExpireKeeps, SecondKeeps, StutterKeeps
     DEF ConvNext

(***************************************************************************)
(* The inductive invariant of the conversation table, for every number of  *)
(* entries, of transaction IDs and of contexts, every width of the clock   *)
(* and every set of time-outs below half of its range.                     *)
(***************************************************************************)
THEOREM Invariance == ConvSpec => []IInv
<1>1. ConvInit => IInv
  BY Initially
<1>2. IInv /\ [ConvNext]_convVars => IInv'
  BY StepKeeps
<1> QED
  BY <1>1, <1>2, PTL DEF ConvSpec

(***************************************************************************)
(* wpan_conversation_response gives a response to the request it answers,  *)
(* or the two lie a multiple of the IDs apart.                             *)
(***************************************************************************)
THEOREM AnswersAreRight == ConvSpec => []RightAnswer
<1>1. IInv => RightAnswer
  BY DEF IInv
<1> QED
  BY <1>1, Invariance, PTL

(***************************************************************************)
(* No conversation outlives its time-out by more than the time between two *)
(* calls of wpan_tick and one second, and a context is pending exactly as  *)
(* long as it has a conversation, which is one.                            *)
(***************************************************************************)
THEOREM NoneForgotten == ConvSpec => []NeverForgotten
<1>1. ASSUME IInv  PROVE NeverForgotten
  <2> USE ConversationsAssumption, <1>1
  <2>1. ASSUME NEW i \in Slot, Used(i)  PROVE table[i].age <= table[i].wait + 1 + Gap
    <3>1. table[i].age \in Nat /\ table[i].wait \in Nat /\ table[i].age <= table[i].wait + Gap
      BY <2>1, Lateness DEF MaxAge
    <3> QED
      BY <3>1
  <2>2. ASSUME NEW c \in Cells
        PROVE  Cardinality({i \in Slot : Used(i) /\ table[i].context = c}) = IF Waits(c) THEN 1 ELSE 0
    <3> DEFINE I == {i \in Slot : Used(i) /\ table[i].context = c}
    <3>1. CASE Waits(c)
      <4>1. PICK i \in Slot : Used(i) /\ table[i].context = c
        BY <3>1 DEF IInv, CellInv
      <4>2. I = {i}
        BY <4>1 DEF IInv, CellInv
      <4> QED
        BY <3>1, <4>2, FS_Singleton
    <3>2. CASE ~Waits(c)
      <4>1. I = {}
        BY <3>2 DEF IInv, CellInv
      <4> QED
        BY <3>2, <4>1, FS_EmptySet
    <3> QED
      BY <3>1, <3>2
  <2> QED
    BY <2>1, <2>2 DEF NeverForgotten
<1> QED
  BY <1>1, Invariance, PTL

(***************************************************************************)
(* Over the wrap of the 16-bit clock too, the signed comparison ends no    *)
(* conversation before its seconds are over.                               *)
(***************************************************************************)
THEOREM TimeoutsInTime == ConvSpec => NoEarlyTimeout
<1> DEFINE A == \A i \in Slot : Used(i) /\ table'[i] = Free /\ cell'[table[i].context].is = "timeout"
                  => table[i].age >= table[i].wait
<1>1. ASSUME IInv, [ConvNext]_convVars  PROVE [A]_convVars
  <2> SUFFICES ASSUME ConvNext, NEW i \in Slot, Used(i), table'[i] = Free,
                      cell'[table[i].context].is = "timeout"
               PROVE  table[i].age >= table[i].wait
    BY <1>1
  <2> USE <1>1
  <2>1. /\ table[i] \in Conversation /\ table[i] # Free
        /\ table[i].age \in Nat /\ table[i].wait \in Nat
        /\ \E d \in {0, 1} : IsOver(table[i].timeout) <=> table[i].age >= table[i].wait + d
    BY Lateness, UsedIsConversation DEF Used, MaxAge, IInv
  <2>2. table' # table
    BY <2>1
  <2>3. CASE Expire
    <3>1. IsOver(table[i].timeout)
      BY <2>1, <2>3 DEF Expire, Ends
    <3> QED
      BY <2>1, <3>1
  <2>4. CASE Second
    <3>1. table'[i] = [table[i] EXCEPT !.age = IF table[i].age < MaxAge THEN table[i].age + 1 ELSE table[i].age]
      BY <2>4 DEF Second
    <3>2. table'[i].request = table[i].request /\ table[i].request # 0
      BY <2>1, <3>1, ConversationsAssumption DEF Conversation, Serial
    <3> QED
      BY <3>2 DEF Free
  <2>5. ASSUME NEW s \in Serial, Response(s)  PROVE FALSE
    <3> DEFINE j == FirstOf(Matching(s % Ids))
    <3>1. SetAnswered(j, s) /\ table' = Delete(j)
      BY <2>2, <2>5 DEF Response
    <3> HIDE DEF j
    <3>2. i = j
      BY <2>1, <3>1 DEF Delete, IInv, ConvTypeOK
    <3>3. cell'[table[i].context].is = "answered"
      <4>1. cell \in [Cells -> CellState] /\ table[i].context \in Cells
        BY <2>1 DEF IInv, ConvTypeOK, Conversation
      <4> QED
        BY <3>1, <3>2, <4>1 DEF SetAnswered, CellState
    <3> QED
      BY <3>3
  <2>6. ASSUME NEW c \in Cells, NEW goesOn, NEW wait, Register(c, goesOn, wait)  PROVE FALSE
    <3> DEFINE n == FirstOf({k \in Slot : ~Used(k)})
               new == [context |-> c, timeout |-> EndOf(wait), id |-> last', goesOn |-> goesOn,
                       wait |-> wait, request |-> serial', age |-> 0]
    <3>1. table' = [table EXCEPT ![n] = new]
      BY <2>6 DEF Register
    <3>2. n \in {k \in Slot : ~Used(k)}
      BY <2>6, FirstIsIn DEF Register
    <3> HIDE DEF n, new
    <3>3. i # n
      BY <3>2
    <3> QED
      BY <2>1, <3>1, <3>2, <3>3 DEF IInv, ConvTypeOK
  <2> QED
    BY <2>2, <2>3, <2>4, <2>5, <2>6 DEF ConvNext, SendAddrReq, SendWithCallback, SendRefused, SendLeaveReq,
       Lose, convVars
<1> QED
  BY <1>1, Invariance, PTL DEF ConvSpec, NoEarlyTimeout

(***************************************************************************)
(* A context is told one outcome of a request: what was answered or timed  *)
(* out changes only when the context is used for the next request.         *)
(***************************************************************************)
THEOREM OutcomesAreFinal == ConvSpec => OneOutcome
<1> DEFINE A == \A c \in Cells : cell'[c] # cell[c] => Waits(c) \/ cell'[c].is = "pending"
<1>1. ASSUME IInv, [ConvNext]_convVars  PROVE [A]_convVars
  <2> SUFFICES ASSUME ConvNext, NEW c \in Cells, cell'[c] # cell[c], cell'[c].is # "pending"
               PROVE  Waits(c)
    BY <1>1
  <2> USE <1>1
  <2>1. ASSUME NEW i \in Slot, Used(i), table[i].context = c  PROVE Waits(c)
    BY <2>1 DEF IInv, CellInv
  <2>2. CASE Expire
    BY <2>1, <2>2 DEF Expire, Ends
  <2>3. CASE SendRequest
    BY <2>3 DEF SendRequest
  <2>4. ASSUME NEW s \in Serial, Response(s)  PROVE Waits(c)
    <3> DEFINE j == FirstOf(Matching(s % Ids))
    <3>1. SetAnswered(j, s) /\ Matching(s % Ids) # {}
      BY <2>4 DEF Response
    <3>2. j \in Slot /\ Used(j)
      <4>1. Matching(s % Ids) \subseteq Slot
        BY DEF Matching
      <4>2. j \in Matching(s % Ids)
        BY <3>1, <4>1, FirstIsIn
      <4> QED
        BY <4>2 DEF Matching
    <3> HIDE DEF j
    <3>3. table[j].context \in Cells /\ cell \in [Cells -> CellState]
      BY <3>2, UsedIsConversation DEF IInv, ConvTypeOK, Conversation
    <3>4. c = table[j].context
      BY <3>1, <3>3 DEF SetAnswered
    <3> QED
      BY <2>1, <3>2, <3>4
  <2> QED
    BY <2>1, <2>2, <2>3, <2>4 DEF ConvNext, SendAddrReq, SendWithCallback, SendRefused, SendLeaveReq,
       Lose, Second, convVars
<1> QED
  BY <1>1, Invariance, PTL DEF ConvSpec, OneOutcome

-----------------------------------------------------------------------------
(* Recursive functions over the positions of a sequence *)

LEMMA UpTo ==
  ASSUME NEW n \in Nat, NEW S, 0 \in S, \A k \in 1 .. n : k - 1 \in S => k \in S
  PROVE  \A k \in 0 .. n : k \in S
<1> DEFINE Less == OpToRel(<, Nat)  T == {k \in 0 .. n : k \notin S}
<1> SUFFICES ASSUME T # {} PROVE FALSE
  OBVIOUS
<1>1. T \subseteq Nat /\ \A k \in T : k \in 1 .. n /\ k - 1 \in 0 .. n
  OBVIOUS
<1>2. IsWellFoundedOn(Less, Nat) /\ Less = {e \in Nat \X Nat : e[1] < e[2]}
  BY NatLessThanWellFounded DEF OpToRel
<1> HIDE DEF Less
<1>3. PICK k \in T : \A j \in T : <<j, k>> \notin Less
  BY <1>1, <1>2, WFMin
<1>4. <<k - 1, k>> \in Less
  <2>1. k - 1 \in Nat /\ k \in Nat /\ k - 1 < k
    BY <1>1
  <2>2. <<k - 1, k>> \in Nat \X Nat /\ <<k - 1, k>>[1] = k - 1 /\ <<k - 1, k>>[2] = k
    BY <2>1
  <2> QED
    BY <1>2, <2>1, <2>2
<1> QED
  BY <1>1, <1>3, <1>4

\* t is a recursive function over the positions of a sequence.
Stepped(t, n, a, step) == \A k \in 0 .. n : t[k] = IF k = 0 THEN a ELSE step[<<k, t[k - 1]>>]

LEMMA StepsExist ==
  ASSUME NEW n \in Nat, NEW D, NEW a \in D, NEW step \in [(1 .. n) \X D -> D]
  PROVE  \E t \in [0 .. n -> D] : Stepped(t, n, a, step)
<1> DEFINE Fits(t, m) == \A k \in 0 .. m : t[k] = IF k = 0 THEN a ELSE step[<<k, t[k - 1]>>]
           S == {m \in 0 .. n : \E t \in [0 .. n -> D] : Fits(t, m)}
<1>1. 0 \in S
  <2> DEFINE t == [k \in 0 .. n |-> a]
  <2>1. t \in [0 .. n -> D] /\ Fits(t, 0) /\ 0 \in 0 .. n
    OBVIOUS
  <2> HIDE DEF t, Fits
  <2> QED
    BY <2>1
<1>2. ASSUME NEW m \in 1 .. n, m - 1 \in S PROVE m \in S
  <2>1. PICK t \in [0 .. n -> D] : Fits(t, m - 1)
    BY <1>2
  <2>2. m - 1 \in 0 .. n /\ <<m, t[m - 1]>> \in (1 .. n) \X D
    OBVIOUS
  <2> DEFINE u == [t EXCEPT ![m] = step[<<m, t[m - 1]>>]]
  <2>3. u \in [0 .. n -> D]
    BY <2>2
  <2>4. ASSUME NEW k \in 0 .. m PROVE u[k] = IF k = 0 THEN a ELSE step[<<k, u[k - 1]>>]
    <3>1. CASE k = m
      <4>1. k # 0 /\ k \in 0 .. n /\ k - 1 \in 0 .. n /\ k - 1 # m
        BY <3>1
      <4>2. u[k] = step[<<k, t[k - 1]>>] /\ u[k - 1] = t[k - 1]
        BY <3>1, <4>1
      <4> QED
        BY <4>1, <4>2
    <3>2. CASE k # m
      <4>1. k \in 0 .. m - 1 /\ k \in 0 .. n
            /\ (k # 0 => k - 1 \in 0 .. n /\ k - 1 # m)
        BY <3>2
      <4>2. t[k] = IF k = 0 THEN a ELSE step[<<k, t[k - 1]>>]
        BY <2>1, <4>1
      <4>3. u[k] = t[k] /\ (k # 0 => u[k - 1] = t[k - 1])
        BY <3>2, <4>1
      <4> QED
        BY <4>2, <4>3
    <3> QED
      BY <3>1, <3>2
  <2> HIDE DEF u
  <2> QED
    BY <2>3, <2>4
<1>3. n \in S
  <2> HIDE DEF S
  <2>1. \A m \in 0 .. n : m \in S
    BY <1>1, <1>2, UpTo
  <2> QED
    BY <2>1
<1> QED
  BY <1>3 DEF Stepped

-----------------------------------------------------------------------------
(* Dispatch *)

LEMMA TableOf ==
  ASSUME NEW n \in Node
  PROVE  /\ Len(Table[n]) \in Nat /\ DOMAIN Table[n] = 1 .. Len(Table[n])
         /\ \A k \in DOMAIN Table[n] : Table[n][k] \in Range(Table[n])
BY ZigbeeAssumption DEF Range

LEMMA MatchIsIn ==
  ASSUME NEW id, NEW mask, NEW clusters, NEW c \in ClusterMatch(id, mask, clusters)
  PROVE  c \in Range(clusters)
BY DEF ClusterMatch, First, Range

\* What a call of a handler has of the message, the envelope and the table.
LEMMA Dispatched ==
  ASSUME NEW n \in Node, NEW e \in Range(Table[n]), NEW m, NEW options
  PROVE  LET d == EndpointDispatch(m, options, e)
         IN /\ d.env.msg = m /\ d.env.ep = e.ep
            /\ options \subseteq d.env.options /\ d.env.options \subseteq options \cup ClusterFlags
            /\ d.handler \in Handlers \/ (d.handler = "zdo" /\ e.profile = "zdo")
<1> DEFINE found == ClusterMatch(m.cluster, {"in", "out"}, e.clusters)
           c == CHOOSE c \in found : TRUE
           env == [msg |-> m, ep |-> e.ep, options |-> options]
<1>1. e.handler \in Handlers \/ (e.handler = "zdo" /\ e.profile = "zdo")
  BY ZigbeeAssumption
<1>2. found # {} => c.flags \subseteq ClusterFlags /\ c.handler \in Handlers
  <2> HAVE found # {}
  <2>1. c \in found
    OBVIOUS
  <2>2. c \in Range(e.clusters)
    BY <2>1, MatchIsIn
  <2> QED
    BY <2>2, ZigbeeAssumption
<1> DEFINE d == EndpointDispatch(m, options, e)
<1>3. d = CASE found = {} -> [env |-> env, handler |-> e.handler]
            [] found # {} /\ Refuses(options, c) -> [env |-> env, handler |-> "refuse"]
            [] OTHER -> [env |-> [env EXCEPT !.options = @ \cup c.flags],
                         handler |-> IF c.handler = "none" THEN e.handler ELSE c.handler]
  BY DEF EndpointDispatch
<1> HIDE DEF found, c, d
<1>4. CASE found = {}
  <2>1. d = [env |-> env, handler |-> e.handler]
    BY <1>3, <1>4
  <2> QED
    BY <1>1, <2>1 DEF d
<1>5. CASE found # {} /\ Refuses(options, c)
  <2>1. d = [env |-> env, handler |-> "refuse"]
    BY <1>3, <1>5
  <2> QED
    BY <2>1 DEF d, Handlers
<1>6. CASE found # {} /\ ~Refuses(options, c)
  <2>1. d = [env |-> [env EXCEPT !.options = options \cup c.flags],
             handler |-> IF c.handler = "none" THEN e.handler ELSE c.handler]
    BY <1>3, <1>6
  <2> QED
    BY <1>1, <1>2, <1>6, <2>1 DEF d
<1> QED
  BY <1>4, <1>5, <1>6

LEMMA OptionsApart ==
  ASSUME NEW m
  PROVE  (Options(m) \cup {"all"}) \cap ClusterFlags = {}
BY DEF Options, ClusterFlags

\* Every turn of the loop begins with the options of the message.
LEMMA FreshTurn ==
  ASSUME NEW n \in Node, NEW m, NEW k \in DOMAIN Table[n]
  PROVE  NextTurn(LoopOptions(n, m, k)) = Options(m) \cup {"all"}
<1> DEFINE len == Len(Table[n])
           all == Options(m) \cup {"all"}
           Next1(j, o) == IF j \in OfProfile(n, m)
                          THEN EndpointDispatch(m, NextTurn(o), Table[n][j]).env.options ELSE o
           D == {o \in SUBSET (all \cup ClusterFlags) : all \subseteq o}
           step == [p \in (1 .. len) \X D |-> Next1(p[1], p[2])]
           Is(t) == t = [j \in 0 .. len |-> IF j = 0 THEN all
                                            ELSE IF j \in OfProfile(n, m)
                                            THEN EndpointDispatch(m, NextTurn(t[j - 1]), Table[n][j]).env.options
                                            ELSE t[j - 1]]
           left == CHOOSE t : Is(t)
<1>1. len \in Nat /\ k \in 1 .. len /\ all \in D
  BY TableOf
<1>2. ASSUME NEW j \in 1 .. len, NEW o \in D
      PROVE  Next1(j, o) \in D
  <2>1. NextTurn(o) = all
    BY OptionsApart DEF NextTurn
  <2>2. Table[n][j] \in Range(Table[n])
    BY TableOf
  <2> DEFINE o1 == EndpointDispatch(m, all, Table[n][j]).env.options
  <2>3. all \subseteq o1 /\ o1 \subseteq all \cup ClusterFlags
    BY <2>2, Dispatched
  <2> QED
    BY <2>1, <2>3
<1> HIDE DEF Next1
<1>3. step \in [(1 .. len) \X D -> D]
  BY <1>2
<1> HIDE DEF D
<1>4. PICK t \in [0 .. len -> D] : Stepped(t, len, all, step)
  BY <1>1, <1>3, StepsExist
<1>5. Is(t)
  <2>1. ASSUME NEW j \in 0 .. len  PROVE t[j] = IF j = 0 THEN all ELSE Next1(j, t[j - 1])
    <3>1. CASE j = 0
      BY <1>4, <3>1 DEF Stepped
    <3>2. CASE j # 0
      <4>1. j \in 1 .. len /\ j - 1 \in 0 .. len /\ t[j - 1] \in D
        BY <1>1, <3>2
      <4>2. <<j, t[j - 1]>> \in (1 .. len) \X D /\ t[j] = step[<<j, t[j - 1]>>]
        BY <1>4, <3>2, <4>1 DEF Stepped
      <4> QED
        BY <3>2, <4>2
    <3> QED
      BY <3>1, <3>2
  <2>2. t = [j \in 0 .. len |-> t[j]]
    OBVIOUS
  <2> QED
    BY <2>1, <2>2 DEF Next1
<1>6. Is(left)
  <2> HIDE DEF Is
  <2> QED
    BY <1>5
<1>7. \A j \in 0 .. len : left[j] = IF j = 0 THEN all ELSE Next1(j, left[j - 1])
  <2> HIDE DEF left
  <2> QED
    BY <1>6 DEF Next1
<1>8. \A j \in 0 .. len : left[j] \in D
  <2> DEFINE S == {j \in 0 .. len : left[j] \in D}
  <2> HIDE DEF left
  <2>1. 0 \in S
    <3>1. 0 \in 0 .. len /\ left[0] = all
      BY <1>1, <1>7
    <3> QED
      BY <1>1, <3>1
  <2>2. ASSUME NEW j \in 1 .. len, j - 1 \in S  PROVE j \in S
    <3>1. left[j - 1] \in D /\ j \in 0 .. len /\ j # 0
      BY <2>2, <1>1
    <3>2. Next1(j, left[j - 1]) \in D
      BY <1>2, <3>1
    <3> QED
      BY <1>7, <3>1, <3>2
  <2> HIDE DEF S
  <2>3. \A j \in 0 .. len : j \in S
    BY <1>1, <2>1, <2>2, UpTo
  <2> QED
    BY <2>3 DEF S
<1>9. LoopOptions(n, m, k) = left[k - 1]
  BY DEF LoopOptions
<1>10. left[k - 1] \in D
  <2> HIDE DEF left
  <2>1. k - 1 \in 0 .. len
    BY <1>1
  <2> QED
    BY <1>8, <2>1
<1> QED
  BY <1>9, <1>10, OptionsApart DEF D, NextTurn

\* The calls for a message: each to an entry of its profile, with the options
\* it came with and the mark of the broadcast endpoint if that is its own.
LEMMA CallEntry ==
  ASSUME NEW n \in Node, NEW m, NEW k \in DOMAIN Calls(n, m)
  PROVE  k \in DOMAIN Table[n] /\ Table[n][k] \in Range(Table[n]) /\ Table[n][k].profile = m.profile
<1>1. k \in OfProfile(n, m) \/ k \in EndpointMatch(n, m.dst, m.profile)
  BY DEF Calls
<1>2. k \in DOMAIN Table[n] /\ Table[n][k].profile = m.profile
  BY <1>1 DEF OfProfile, EndpointMatch, First
<1> QED
  BY <1>2, TableOf

LEMMA CallOptions ==
  ASSUME NEW n \in Node, NEW m, NEW k \in DOMAIN Calls(n, m)
  PROVE  /\ m.dst = ToAll => Calls(n, m)[k] = EndpointDispatch(m, Options(m) \cup {"all"}, Table[n][k])
         /\ m.dst # ToAll => Calls(n, m)[k] = EndpointDispatch(m, Options(m), Table[n][k])
<1>1. CASE m.dst = ToAll
  <2>1. Calls(n, m)[k] = EndpointDispatch(m, NextTurn(LoopOptions(n, m, k)), Table[n][k])
    BY <1>1 DEF Calls
  <2> QED
    BY <1>1, <2>1, CallEntry, FreshTurn
<1>2. CASE m.dst # ToAll
  BY <1>2 DEF Calls
<1> QED
  BY <1>1, <1>2

LEMMA AnswerOfOne ==
  ASSUME NEW n, NEW calls, NEW A \in AnswersOf(n, calls), NEW a \in A
  PROVE  \E k \in DOMAIN calls : \E S \in Handle(n, calls[k].env, calls[k].handler) : a \in S
<1> DEFINE may == [k \in DOMAIN calls |-> Handle(n, calls[k].env, calls[k].handler)]
<1>1. PICK f \in [DOMAIN calls -> UNION Range(may)] :
        A = UNION Range(f) /\ \A k \in DOMAIN calls : f[k] \in may[k]
  BY DEF AnswersOf
<1>2. PICK k \in DOMAIN calls : a \in f[k]
  BY <1>1 DEF Range
<1> QED
  BY <1>1, <1>2

-----------------------------------------------------------------------------
(* Answers *)

Fields == {"to", "from", "src", "dst", "bcast", "enc", "profile", "cluster", "body", "origin"}
IsMessage(m) == m = [f \in Fields |-> m[f]]

\* Answered returns one reply.
LEMMA OneReply ==
  ASSUME NEW env, NEW body, NEW S \in Answered(env, body), NEW a \in S
  PROVE  a = Reply(env, body)
BY DEF Answered

LEMMA DefaultReplies ==
  ASSUME NEW env, NEW ok, NEW S \in DefaultResponse(env, ok), NEW a \in S
  PROVE  \E body : a = Reply(env, body) /\ body.cmd # "read"
<1> DEFINE body == [ToggledHeader(env.msg.body, "default_resp") EXCEPT !.type = "profile"]
<1>1. a = Reply(env, body)
  BY OneReply DEF DefaultResponse, NoAnswer
<1>2. body.cmd # "read"
  BY DEF ToggledHeader, Body
<1> QED
  BY <1>1, <1>2

LEMMA HeaderReplies ==
  ASSUME NEW env, NEW b, NEW cmd, cmd # "read", NEW S \in Answered(env, ToggledHeader(b, cmd)), NEW a \in S
  PROVE  \E body : a = Reply(env, body) /\ body.cmd # "read"
<1>1. a = Reply(env, ToggledHeader(b, cmd))
  BY OneReply
<1>2. ToggledHeader(b, cmd).cmd # "read"
  BY DEF ToggledHeader, Body
<1> QED
  BY <1>1, <1>2

LEMMA GeneralReplies ==
  ASSUME NEW env, NEW S \in GeneralCommand(env), NEW a \in S
  PROVE  \E body : a = Reply(env, body) /\ body.cmd # "read"
<1> DEFINE b == env.msg.body
<1>1. \/ S \in Invalid(env) \/ S \in NoAnswer
      \/ S \in Answered(env, ToggledHeader(b, "read_resp"))
      \/ b.cmd \in {"discover", "write", "write_undiv"} /\ S \in Answered(env, ToggledHeader(b, RespOf[b.cmd]))
  BY DEF GeneralCommand, Either
<1>2. b.cmd \in {"discover", "write", "write_undiv"} => RespOf[b.cmd] # "read"
  BY DEF RespOf
<1> HIDE DEF b
<1>3. CASE S \in Invalid(env)
  BY <1>3, DefaultReplies DEF Invalid
<1>4. CASE S \in Answered(env, ToggledHeader(b, "read_resp"))
  BY <1>4, HeaderReplies
<1>5. CASE b.cmd \in {"discover", "write", "write_undiv"} /\ S \in Answered(env, ToggledHeader(b, RespOf[b.cmd]))
  BY <1>2, <1>5, HeaderReplies
<1> QED
  BY <1>1, <1>3, <1>4, <1>5 DEF NoAnswer

\* Whatever is not the ZDO sends replies, and no reads.
LEMMA HandlersReply ==
  ASSUME NEW n, NEW env, NEW handler \in Handlers, NEW S \in Handle(n, env, handler), NEW a \in S
  PROVE  \E body : a = Reply(env, body) /\ body.cmd # "read"
<1> DEFINE b == env.msg.body
           Fine(U) == \A x \in U : \E body : x = Reply(env, body) /\ body.cmd # "read"
<1>1. \A U \in Invalid(env) : Fine(U)
  BY DefaultReplies DEF Invalid
<1>2. \A ok : \A U \in DefaultResponse(env, ok) : Fine(U)
  BY DefaultReplies
<1>3. \A U \in GeneralCommand(env) : Fine(U)
  BY GeneralReplies
<1>4. \A cmd : cmd # "read" => \A U \in Answered(env, ToggledHeader(b, cmd)) : Fine(U)
  BY HeaderReplies
<1>5. \A U \in NoAnswer : Fine(U)
  BY DEF NoAnswer
<1>6. \A U \in Answered(env, Text("refused")) : Fine(U)
  BY OneReply DEF Text, Body
<1> HIDE DEF Fine
<1>7. CASE handler = "general"
  BY <1>3, <1>7 DEF Handle, Fine
<1>8. CASE handler = "onoff"
  BY <1>1, <1>3, <1>8 DEF Handle, OnOff, Fine
<1>9. CASE handler = "time"
  BY <1>2, <1>3, <1>9 DEF Handle, TimeClient, Either, Fine
<1>10. CASE handler \in {"invalid", "refuse"}
  BY <1>1, <1>10 DEF Handle, Fine
<1>11. CASE handler = "rx"
  BY <1>4, <1>5, <1>11 DEF Handle, RxClusterCallback, Fine
<1>12. CASE handler = "default"
  BY <1>4, <1>5, <1>12 DEF Handle, DefaultClusterCallback, Either, Fine
<1>13. CASE handler = "ota"
  BY <1>5, <1>6, <1>13 DEF Handle, OtaServerCmd, Fine
<1>14. CASE handler \in {"serial", "none"}
  BY <1>5, <1>14 DEF Handle, Fine
<1> QED
  BY <1>7, <1>8, <1>9, <1>10, <1>11, <1>12, <1>13, <1>14 DEF Handlers

LEMMA ReplyIs ==
  ASSUME NEW env, NEW body, IsMessage(env.msg)
  PROVE  LET r == Reply(env, body)
         IN /\ IsMessage(r) /\ r.to = env.msg.from /\ r.from = env.msg.to /\ r.origin = env.msg.origin
            /\ r.profile = env.msg.profile /\ r.enc = ("enc" \in env.options) /\ r.body = body
BY DEF Reply, IsMessage, Fields

\* zdo_send_response sends a reply, and so does the client that reads, but for
\* the addresses within the nodes.
LEMMA ZdoResponse ==
  ASSUME NEW env, NEW cluster, NEW list, NEW S \in Respond(env, cluster, list), NEW a \in S
  PROVE  a = [Reply(env, Zdo("zdo", list)) EXCEPT !.cluster = cluster]
BY DEF Respond, Answered

LEMMA ClientReads ==
  ASSUME NEW n, NEW env, NEW S \in SendReadFromMatch(n, env), NEW a \in S
  PROVE  LET id == env.msg.origin.body.list[1]
             client == ClientOf(n, id)
             read == Body("profile", TRUE, FALSE, FALSE, "read", << >>)
         IN a = [Reply(env, read) EXCEPT !.src = client.ep, !.profile = client.profile, !.cluster = id,
                                         !.dst = env.msg.body.list[1], !.enc = Secret(n, id)]
<1> DEFINE id == env.msg.origin.body.list[1]
           client == ClientOf(n, id)
           read == Body("profile", TRUE, FALSE, FALSE, "read", << >>)
           Sent(r) == [r EXCEPT !.src = client.ep, !.profile = client.profile, !.cluster = id,
                                !.dst = env.msg.body.list[1], !.enc = Secret(n, id)]
<1>1. S \in { {Sent(r) : r \in A} : A \in Answered(env, read) }
  BY DEF SendReadFromMatch
<1> HIDE DEF Sent, read
<1>2. PICK A \in Answered(env, read) : S = {Sent(r) : r \in A}
  BY <1>1
<1>3. A = {Reply(env, read)}
  BY <1>2 DEF Answered
<1>4. a = Sent(Reply(env, read))
  BY <1>2, <1>3
<1> QED
  BY <1>4 DEF Sent, read

LEMMA ZdoAnswers ==
  ASSUME NEW n, NEW env, IsMessage(env.msg), NEW S \in Handle(n, env, "zdo"), NEW a \in S
  PROVE  IsMessage(a) /\ a.to = env.msg.from /\ a.from = env.msg.to /\ a.origin = env.msg.origin
<1> DEFINE Fine(x) == IsMessage(x) /\ x.to = env.msg.from /\ x.from = env.msg.to /\ x.origin = env.msg.origin
<1>1. \A cluster, list : \A U \in Respond(env, cluster, list) : \A x \in U : Fine(x)
  BY ZdoResponse, ReplyIs DEF IsMessage, Fields
<1>2. \A U \in SendReadFromMatch(n, env) : \A x \in U : Fine(x)
  <2> TAKE U \in SendReadFromMatch(n, env)
  <2> TAKE x \in U
  <2> DEFINE id == env.msg.origin.body.list[1]
             client == ClientOf(n, id)
             r == Reply(env, Body("profile", TRUE, FALSE, FALSE, "read", << >>))
  <2>1. x = [r EXCEPT !.src = client.ep, !.profile = client.profile, !.cluster = id,
                      !.dst = env.msg.body.list[1], !.enc = Secret(n, id)]
    BY ClientReads
  <2>2. Fine(r)
    BY ReplyIs
  <2> HIDE DEF r, client, id
  <2> QED
    BY <2>1, <2>2 DEF IsMessage, Fields
<1>3. \A U \in NoAnswer : \A x \in U : Fine(x)
  BY DEF NoAnswer
<1> HIDE DEF Fine
<1>4. S \in ZdoHandler(n, env)
  BY DEF Handle
<1> QED
  BY <1>1, <1>2, <1>3, <1>4 DEF ZdoHandler, Either, Fine

-----------------------------------------------------------------------------
(* The network *)

\* What follows from a message of a profile other than the ZDO's is of it, and
\* encrypted if that message was.
Follows(m) ==
  m.origin.profile # "zdo" => m.profile # "zdo" /\ (m.origin.enc => m.enc)

Sound(m) == IsMessage(m) /\ m.to \in Node /\ m.from \in Node /\ Follows(m)

NetInv == \A m \in net : Sound(m)
HeardInv == \A m \in lastMsg : IsMessage(m) /\ m.to \in Node /\ heard = Calls(m.to, m)

\* An answer is that of a handler, called for an entry of the message's profile.
LEMMA AnswerOfHandler ==
  ASSUME NEW n \in Node, NEW m, NEW A \in AnswersOf(n, Calls(n, m)), NEW a \in A
  PROVE  \E e \in Range(Table[n]) : \E o :
           /\ e.profile = m.profile /\ Options(m) \subseteq o
           /\ LET d == EndpointDispatch(m, o, e) IN \E S \in Handle(n, d.env, d.handler) : a \in S
<1> DEFINE calls == Calls(n, m)
<1>1. PICK k \in DOMAIN calls : \E S \in Handle(n, calls[k].env, calls[k].handler) : a \in S
  BY AnswerOfOne
<1> DEFINE e == Table[n][k]
<1>2. e \in Range(Table[n]) /\ e.profile = m.profile
  BY CallEntry
<1>3. \/ calls[k] = EndpointDispatch(m, Options(m) \cup {"all"}, e)
      \/ calls[k] = EndpointDispatch(m, Options(m), e)
  BY CallOptions
<1>4. Options(m) \subseteq Options(m) \cup {"all"} /\ Options(m) \subseteq Options(m)
  OBVIOUS
<1> HIDE DEF calls, e
<1> QED
  BY <1>1, <1>2, <1>3, <1>4

LEMMA AnswersSound ==
  ASSUME NEW m, Sound(m), NEW A \in AnswersOf(m.to, Calls(m.to, m)), NEW a \in A
  PROVE  Sound(a)
<1>1. m.to \in Node /\ m.from \in Node /\ IsMessage(m)
  BY DEF Sound
<1>2. PICK e \in Range(Table[m.to]) : \E o :
        /\ e.profile = m.profile /\ Options(m) \subseteq o
        /\ LET d == EndpointDispatch(m, o, e) IN \E S \in Handle(m.to, d.env, d.handler) : a \in S
  BY <1>1, AnswerOfHandler
<1>3. PICK o :
        /\ e.profile = m.profile /\ Options(m) \subseteq o
        /\ LET d == EndpointDispatch(m, o, e) IN \E S \in Handle(m.to, d.env, d.handler) : a \in S
  BY <1>2
<1> DEFINE env == EndpointDispatch(m, o, e).env
           handler == EndpointDispatch(m, o, e).handler
<1>4. PICK S \in Handle(m.to, env, handler) : a \in S
  BY <1>3
<1>5. /\ env.msg = m /\ Options(m) \subseteq env.options
      /\ handler \in Handlers \/ (handler = "zdo" /\ m.profile = "zdo")
  BY <1>1, <1>3, Dispatched
<1> HIDE DEF env, handler
<1>6. CASE handler \in Handlers
  <2>1. PICK body : a = Reply(env, body)
    BY <1>4, <1>6, HandlersReply
  <2>2. IsMessage(a) /\ a.to = m.from /\ a.from = m.to /\ a.origin = m.origin
        /\ a.profile = m.profile /\ a.enc = ("enc" \in env.options)
    BY <1>1, <1>5, <2>1, ReplyIs
  <2>3. m.enc => a.enc
    BY <1>5, <2>2 DEF Options
  <2> QED
    BY <1>1, <2>2, <2>3 DEF Sound, Follows
<1>7. CASE handler = "zdo" /\ m.profile = "zdo"
  <2>1. IsMessage(a) /\ a.to = m.from /\ a.from = m.to /\ a.origin = m.origin
    BY <1>1, <1>4, <1>5, <1>7, ZdoAnswers
  <2> QED
    BY <1>1, <1>7, <2>1 DEF Sound, Follows
<1> QED
  BY <1>5, <1>6, <1>7

LEMMA OwnSound ==
  ASSUME SendOwn
  PROVE  NetInv'
<1>1. PICK m \in Starts, first \in Node :
        net' = {[to |-> n, from |-> m.from, src |-> m.src, dst |-> m.dst, bcast |-> m.bcast,
                 enc |-> m.enc, profile |-> m.profile, cluster |-> m.cluster, body |-> m.body,
                 origin |-> m] : n \in IF m.bcast THEN Node \ {m.from} ELSE {first}}
  BY DEF SendOwn
<1>2. m.from \in Node
  BY ZigbeeAssumption
<1> SUFFICES ASSUME NEW x \in net'  PROVE Sound(x)
  BY DEF NetInv
<1>3. PICK n \in Node :
        x = [to |-> n, from |-> m.from, src |-> m.src, dst |-> m.dst, bcast |-> m.bcast,
             enc |-> m.enc, profile |-> m.profile, cluster |-> m.cluster, body |-> m.body, origin |-> m]
  BY <1>1
<1>4. IsMessage(x)
  BY <1>3 DEF IsMessage, Fields
<1>5. x.to = n /\ x.from = m.from /\ x.profile = m.profile /\ x.enc = m.enc /\ x.origin = m
  BY <1>3
<1> QED
  BY <1>2, <1>4, <1>5 DEF Sound, Follows

LEMMA NetStep == NetInv /\ HeardInv /\ [ZigbeeNext]_netVars => NetInv' /\ HeardInv'
<1> SUFFICES ASSUME NetInv, HeardInv, [ZigbeeNext]_netVars  PROVE NetInv' /\ HeardInv'
  OBVIOUS
<1>1. CASE UNCHANGED netVars
  BY <1>1 DEF netVars, NetInv, HeardInv
<1>2. CASE SendOwn
  <2>1. UNCHANGED <<heard, lastMsg>>
    BY <1>2 DEF SendOwn
  <2> QED
    BY <1>2, <2>1, OwnSound DEF HeardInv
<1>3. ASSUME NEW m \in net, Receive(m)  PROVE NetInv' /\ HeardInv'
  <2>1. heard' = Calls(m.to, m) /\ lastMsg' = {m} /\ Sound(m)
    BY <1>3 DEF Receive, NetInv
  <2>2. PICK A \in AnswersOf(m.to, Calls(m.to, m)) : net' \subseteq net \cup A
    BY <1>3, <2>1 DEF Receive
  <2>3. NetInv'
    BY <2>1, <2>2, AnswersSound DEF NetInv
  <2> QED
    BY <2>1, <2>3 DEF HeardInv, Sound
<1>4. ASSUME NEW m \in net, LoseMessage(m)  PROVE NetInv' /\ HeardInv'
  BY <1>4 DEF LoseMessage, NetInv, HeardInv
<1> QED
  BY <1>1, <1>2, <1>3, <1>4 DEF ZigbeeNext

LEMMA NetInvHolds == ZigbeeSpec => [](NetInv /\ HeardInv)
<1>1. ZigbeeInit => NetInv /\ HeardInv
  BY DEF ZigbeeInit, NetInv, HeardInv
<1> QED
  BY <1>1, NetStep, PTL DEF ZigbeeSpec

(***************************************************************************)
(* All that follows from an encrypted message is encrypted, for all tables *)
(* and messages: handlers answer by wpan_envelope_reply, which takes the   *)
(* encryption from the envelope, and the loop for the broadcast endpoint   *)
(* leaves that option in it.                                               *)
(***************************************************************************)
THEOREM EncryptionStays == ZigbeeSpec => []StaysEncrypted
<1>1. NetInv => StaysEncrypted
  BY DEF NetInv, Sound, Follows, StaysEncrypted
<1> QED
  BY <1>1, NetInvHolds, PTL

\* The mark of the broadcast endpoint does not matter for whether a cluster is
\* found and whether it refuses, and stays in the envelope beside its flags.
LEMMA SameCall ==
  ASSUME NEW n \in Node, NEW e \in Range(Table[n]), NEW m, IsMessage(m),
         NEW opts, "all" \notin opts
  PROVE  LET d == EndpointDispatch(m, opts \cup {"all"}, e)
         IN EndpointDispatch([m EXCEPT !.dst = e.ep], opts, e) =
              [env |-> [msg |-> [m EXCEPT !.dst = e.ep], ep |-> e.ep, options |-> d.env.options \ {"all"}],
               handler |-> d.handler]
<1> DEFINE m1 == [m EXCEPT !.dst = e.ep]
           found == ClusterMatch(m.cluster, {"in", "out"}, e.clusters)
           c == CHOOSE c \in found : TRUE
           both == opts \cup {"all"}
           d == EndpointDispatch(m, both, e)
           d1 == EndpointDispatch(m1, opts, e)
           E(msg, o) == [msg |-> msg, ep |-> e.ep, options |-> o]
           to == IF c.handler = "none" THEN e.handler ELSE c.handler
<1>1. m1.cluster = m.cluster
  BY DEF IsMessage, Fields
<1>2. Refuses(both, c) = Refuses(opts, c)
  BY DEF Refuses
<1>3. found # {} => "all" \notin c.flags
  <2> HAVE found # {}
  <2>1. c \in Range(e.clusters)
    BY MatchIsIn
  <2> QED
    BY <2>1, ZigbeeAssumption DEF ClusterFlags
<1>4. d = CASE found = {} -> [env |-> E(m, both), handler |-> e.handler]
            [] found # {} /\ Refuses(both, c) -> [env |-> E(m, both), handler |-> "refuse"]
            [] OTHER -> [env |-> [E(m, both) EXCEPT !.options = @ \cup c.flags], handler |-> to]
  BY DEF EndpointDispatch
<1>5. d1 = CASE found = {} -> [env |-> E(m1, opts), handler |-> e.handler]
             [] found # {} /\ Refuses(opts, c) -> [env |-> E(m1, opts), handler |-> "refuse"]
             [] OTHER -> [env |-> [E(m1, opts) EXCEPT !.options = @ \cup c.flags], handler |-> to]
  BY <1>1 DEF EndpointDispatch
<1> HIDE DEF d, d1, found, c, to
<1>6. \E o, h :
        /\ d = [env |-> E(m, o), handler |-> h] /\ d1 = [env |-> E(m1, o \ {"all"}), handler |-> h]
  <2>1. both \ {"all"} = opts /\ (found # {} => (both \cup c.flags) \ {"all"} = opts \cup c.flags)
    BY <1>3
  <2>2. CASE found = {}
    BY <1>4, <1>5, <2>1, <2>2
  <2>3. CASE found # {} /\ Refuses(both, c)
    BY <1>2, <1>4, <1>5, <2>1, <2>3
  <2>4. CASE found # {} /\ ~Refuses(both, c)
    BY <1>2, <1>4, <1>5, <2>1, <2>4
  <2> QED
    BY <2>2, <2>3, <2>4
<1>7. d1 = [env |-> E(m1, d.env.options \ {"all"}), handler |-> d.handler]
  <2>1. PICK o, h : d = [env |-> E(m, o), handler |-> h] /\ d1 = [env |-> E(m1, o \ {"all"}), handler |-> h]
    BY <1>6
  <2>2. d.env.options = o /\ d.handler = h
    BY <2>1
  <2> QED
    BY <2>1, <2>2
<1> QED
  BY <1>7 DEF d, d1

(***************************************************************************)
(* Whatever the endpoints dispatched to before have left in the envelope,  *)
(* a handler called for a message to all endpoints sees what it would see  *)
(* of a message to its own, for every table.                               *)
(***************************************************************************)
THEOREM HeardAlone == ZigbeeSpec => []EachAlone
<1>1. HeardInv => EachAlone
  <2> SUFFICES ASSUME HeardInv, NEW m \in lastMsg, m.dst = ToAll, NEW k \in DOMAIN heard
               PROVE  LET env == heard[k].env
                          alone == [msg |-> [m EXCEPT !.dst = env.ep], ep |-> env.ep,
                                    options |-> env.options \ {"all"}]
                      IN Calls(m.to, alone.msg) = [i \in {k} |-> [env |-> alone, handler |-> heard[k].handler]]
    BY DEF EachAlone
  <2> DEFINE n == m.to
             e == Table[n][k]
             m1 == [m EXCEPT !.dst = e.ep]
             alone == [env |-> [msg |-> m1, ep |-> e.ep, options |-> heard[k].env.options \ {"all"}],
                       handler |-> heard[k].handler]
  <2>1. IsMessage(m) /\ n \in Node /\ heard = Calls(n, m)
    BY DEF HeardInv
  <2>2. /\ k \in DOMAIN Table[n] /\ e \in Range(Table[n]) /\ e.profile = m.profile
        /\ heard[k] = EndpointDispatch(m, Options(m) \cup {"all"}, e)
    <3>1. k \in DOMAIN Table[n] /\ e \in Range(Table[n]) /\ e.profile = m.profile
      BY <2>1, CallEntry
    <3>2. heard[k] = EndpointDispatch(m, Options(m) \cup {"all"}, e)
      BY <2>1, CallOptions
    <3> QED
      BY <3>1, <3>2
  <2>3. heard[k].env.ep = e.ep
    BY <2>1, <2>2, Dispatched
  <2>4. m1.dst = e.ep /\ m1.profile = m.profile /\ Options(m1) = Options(m) /\ m1.dst # ToAll
    <3>1. m1.dst = e.ep /\ m1.profile = m.profile /\ m1.bcast = m.bcast /\ m1.enc = m.enc
      BY <2>1 DEF IsMessage, Fields
    <3> QED
      BY <2>1, <2>2, <3>1, ZigbeeAssumption DEF Options
  <2>5. EndpointMatch(n, e.ep, m.profile) = {k}
    <3>1. {j \in DOMAIN Table[n] : Table[n][j].ep = e.ep /\ Table[n][j].profile = m.profile} = {k}
      BY <2>1, <2>2, ZigbeeAssumption
    <3>2. k \in Nat
      BY <2>1, <2>2, TableOf
    <3> QED
      BY <3>1, <3>2 DEF EndpointMatch, First
  <2>6. "all" \notin Options(m)
    BY DEF Options
  <2>7. EndpointDispatch(m1, Options(m), e) = alone
    BY <2>1, <2>2, <2>6, SameCall
  <2>8. Calls(n, m1) = [i \in {k} |-> EndpointDispatch(m1, Options(m1), Table[n][i])]
    BY <2>4, <2>5 DEF Calls
  <2> HIDE DEF m1, alone
  <2>9. Calls(n, m1) = [i \in {k} |-> alone]
    BY <2>4, <2>7, <2>8
  <2> QED
    BY <2>3, <2>9 DEF m1, alone
<1> QED
  BY <1>1, NetInvHolds, PTL

-----------------------------------------------------------------------------
(* What the ZDO advertises *)

Servers(n, profile, ids) == {e.ep : e \in {f \in Range(Table[n]) : Matches(f, profile, ids)}}

\* A Match Descriptor response lists endpoints that match, and no others.
LEMMA MatchingServe ==
  ASSUME NEW n \in Node, NEW profile, NEW ids
  PROVE  MatchingEndpoints(n, profile, ids) \in Seq(Servers(n, profile, ids))
<1> DEFINE len == Len(Table[n])
           Next1(j, l) == IF Matches(Table[n][j], profile, ids) THEN Append(l, Table[n][j].ep) ELSE l
           D == Seq(Servers(n, profile, ids))
           step == [p \in (1 .. len) \X D |-> Next1(p[1], p[2])]
           Is(t) == t = [j \in 0 .. len |-> IF j = 0 THEN << >>
                                            ELSE IF Matches(Table[n][j], profile, ids)
                                            THEN Append(t[j - 1], Table[n][j].ep)
                                            ELSE t[j - 1]]
           list == CHOOSE t : Is(t)
<1>1. len \in Nat /\ << >> \in D
  BY TableOf
<1>2. ASSUME NEW j \in 1 .. len, NEW l \in D
      PROVE  Next1(j, l) \in D
  <2>1. Table[n][j] \in Range(Table[n])
    BY TableOf
  <2>2. Matches(Table[n][j], profile, ids) => Table[n][j].ep \in Servers(n, profile, ids)
    BY <2>1 DEF Servers
  <2> QED
    BY <2>2
<1> HIDE DEF Next1, D
<1>3. step \in [(1 .. len) \X D -> D]
  BY <1>2
<1>4. PICK t \in [0 .. len -> D] : Stepped(t, len, << >>, step)
  BY <1>1, <1>3, StepsExist
<1>5. Is(t)
  <2>1. ASSUME NEW j \in 0 .. len  PROVE t[j] = IF j = 0 THEN << >> ELSE Next1(j, t[j - 1])
    <3>1. CASE j = 0
      BY <1>4, <3>1 DEF Stepped
    <3>2. CASE j # 0
      <4>1. j \in 1 .. len /\ j - 1 \in 0 .. len /\ t[j - 1] \in D
        BY <1>1, <3>2
      <4>2. <<j, t[j - 1]>> \in (1 .. len) \X D /\ t[j] = step[<<j, t[j - 1]>>]
        BY <1>4, <3>2, <4>1 DEF Stepped
      <4> QED
        BY <3>2, <4>2
    <3> QED
      BY <3>1, <3>2
  <2>2. t = [j \in 0 .. len |-> t[j]]
    OBVIOUS
  <2> QED
    BY <2>1, <2>2 DEF Next1
<1>6. Is(list)
  <2> HIDE DEF Is
  <2> QED
    BY <1>5
<1>7. \A j \in 0 .. len : list[j] = IF j = 0 THEN << >> ELSE Next1(j, list[j - 1])
  <2> HIDE DEF list
  <2> QED
    BY <1>6 DEF Next1
<1>8. \A j \in 0 .. len : list[j] \in D
  <2> DEFINE S == {j \in 0 .. len : list[j] \in D}
  <2> HIDE DEF list
  <2>1. 0 \in S
    <3>1. 0 \in 0 .. len /\ list[0] = << >>
      BY <1>1, <1>7
    <3> QED
      BY <1>1, <3>1
  <2>2. ASSUME NEW j \in 1 .. len, j - 1 \in S  PROVE j \in S
    <3>1. list[j - 1] \in D /\ j \in 0 .. len /\ j # 0
      BY <2>2, <1>1
    <3>2. Next1(j, list[j - 1]) \in D
      BY <1>2, <3>1
    <3> QED
      BY <1>7, <3>1, <3>2
  <2> HIDE DEF S
  <2>3. \A j \in 0 .. len : j \in S
    BY <1>1, <2>1, <2>2, UpTo
  <2> QED
    BY <2>3 DEF S
<1>9. MatchingEndpoints(n, profile, ids) = list[len]
  BY DEF MatchingEndpoints
<1>10. list[len] \in D
  <2> HIDE DEF list
  <2>1. len \in 0 .. len
    BY <1>1
  <2> QED
    BY <1>8, <2>1
<1> QED
  BY <1>9, <1>10 DEF D

LEMMA FirstServes ==
  ASSUME NEW n \in Node, NEW profile, NEW ids, MatchingEndpoints(n, profile, ids) # << >>
  PROVE  \E e \in Range(Table[n]) :
           Matches(e, profile, ids) /\ MatchingEndpoints(n, profile, ids)[1] = e.ep
<1> DEFINE list == MatchingEndpoints(n, profile, ids)
<1>1. list \in Seq(Servers(n, profile, ids)) /\ list # << >>
  BY MatchingServe
<1> HIDE DEF list
<1>2. list[1] \in Servers(n, profile, ids)
  BY <1>1
<1> QED
  BY <1>2 DEF Servers, list

\* A read for an endpoint that serves its cluster reaches a handler.
LEMMA ReadReaches ==
  ASSUME NEW n \in Node, NEW e \in Range(Table[n]), NEW m, m.dst = e.ep, m.profile = e.profile,
         Serves(e, m.cluster, m.enc)
  PROVE  \E k \in DOMAIN Calls(n, m) :
           DOMAIN Calls(n, m) = {k} /\ Calls(n, m)[k].handler \notin {"invalid", "refuse", "none"}
<1>1. PICK k \in DOMAIN Table[n] : Table[n][k] = e
  BY DEF Range
<1>2. e.ep # ToAll
  BY ZigbeeAssumption
<1>3. EndpointMatch(n, m.dst, m.profile) = {k}
  <2> DEFINE S == {j \in DOMAIN Table[n] : Table[n][j].ep = m.dst /\ Table[n][j].profile = m.profile}
  <2>1. S = {k}
    BY <1>1, ZigbeeAssumption
  <2>2. k \in Nat
    BY <1>1, TableOf
  <2>3. EndpointMatch(n, m.dst, m.profile) = {i \in S : \A j \in S : i <= j}
    BY DEF EndpointMatch, First
  <2> HIDE DEF S
  <2> QED
    BY <2>1, <2>2, <2>3
<1>4. Calls(n, m) = [j \in {k} |-> EndpointDispatch(m, Options(m), Table[n][j])]
  BY <1>2, <1>3 DEF Calls
<1>5. EndpointDispatch(m, Options(m), e).handler \notin {"invalid", "refuse", "none"}
  <2> DEFINE found == ClusterMatch(m.cluster, {"in", "out"}, e.clusters)
             c == CHOOSE c \in found : TRUE
             env == [msg |-> m, ep |-> e.ep, options |-> Options(m)]
  <2>1. found # {} /\ c \in found
    BY DEF Serves
  <2>2. /\ (IF c.handler = "none" THEN e.handler ELSE c.handler) \notin {"invalid", "refuse", "none"}
        /\ "not_zcl" \in c.flags \/ {"encrypt", "encrypt_unicast"} \cap c.flags = {} \/ m.enc
    <3> HIDE DEF c
    <3> QED
      BY <2>1 DEF Serves
  <2>3. ~Refuses(Options(m), c)
    <3> HIDE DEF c
    <3> QED
      BY <2>2 DEF Refuses, Options
  <2>4. EndpointDispatch(m, Options(m), e) =
          CASE found = {} -> [env |-> env, handler |-> e.handler]
            [] found # {} /\ Refuses(Options(m), c) -> [env |-> env, handler |-> "refuse"]
            [] OTHER -> [env |-> [env EXCEPT !.options = @ \cup c.flags],
                         handler |-> IF c.handler = "none" THEN e.handler ELSE c.handler]
    BY DEF EndpointDispatch
  <2> HIDE DEF found, c, env
  <2> QED
    BY <2>1, <2>2, <2>3, <2>4
<1> QED
  BY <1>1, <1>4, <1>5

\* What may follow from a Match Descriptor request: the request itself, a
\* response that names an endpoint which matches, the read sent to one that
\* serves the cluster, and what is answered to that, which is no read.
MatchRequest(m) ==
  /\ m.profile = "zdo" /\ m.cluster = "match_req" /\ m.body = m.origin.body
  /\ m.from = m.origin.from /\ m.to # m.from

MatchResponse(m) ==
  /\ m.profile = "zdo" /\ m.cluster = "match_rsp" /\ m.body.cmd = "zdo"
  /\ m.to = m.origin.from /\ m.from # m.to
  /\ \E e \in Range(Table[m.from]) : Matches(e, "ha", m.origin.body.list) /\ m.body.list[1] = e.ep

GoodRead(m) ==
  \E e \in Range(Table[m.to]) : m.dst = e.ep /\ m.profile = e.profile /\ Serves(e, m.cluster, m.enc)

ReadOrAnswer(m) == m.profile = "ha" /\ (m.body.cmd = "read" => GoodRead(m))

MatchFollows(m) ==
  /\ Sound(m) /\ m.origin \in Starts
  /\ m.origin.body.cmd = "match" => MatchRequest(m) \/ MatchResponse(m) \/ ReadOrAnswer(m)

MatchInv == (\A m \in net : MatchFollows(m)) /\ \A m \in lastMsg : MatchFollows(m)

\* The condition on the tables, for one request and the server of its cluster.
LEMMA Agreed ==
  ASSUME TablesAgree, NEW m \in Starts, m.body.cmd = "match"
  PROVE  /\ m.profile = "zdo" /\ m.cluster = "match_req"
         /\ EndpointOfCluster(m.from, "ha", m.body.list[1], {"out"}) # {}
         /\ \A n \in Node \ {m.from} : \A e \in Range(Table[n]) :
              Matches(e, "ha", m.body.list) => Serves(e, m.body.list[1], Secret(m.from, m.body.list[1]))
<1> DEFINE id == m.body.list[1]
<1>1. /\ m.cluster = "match_req" /\ m.profile = "zdo" /\ m.body.list = << id >>
      /\ EndpointOfCluster(m.from, "ha", id, {"out"}) # {}
      /\ \A n \in Node \ {m.from} : \A e \in Range(Table[n]) :
           Matches(e, "ha", << id >>) => Serves(e, id, Secret(m.from, id))
  BY DEF TablesAgree
<1> HIDE DEF id
<1>2. m.body.list = << id >>
  BY <1>1
<1> QED
  BY <1>1, <1>2 DEF id

\* A message of the ZDO's profile reaches zdo_handler and nothing else.
LEMMA ZdoOnly ==
  ASSUME TablesAgree, NEW n \in Node, NEW e \in Range(Table[n]), e.profile = "zdo", NEW m, NEW o
  PROVE  EndpointDispatch(m, o, e).handler = "zdo"
<1>1. e.handler = "zdo" /\ e.clusters = << >>
  BY DEF TablesAgree
<1>2. ClusterMatch(m.cluster, {"in", "out"}, e.clusters) = {}
  BY <1>1, MatchIsIn DEF Range
<1> QED
  BY <1>1, <1>2 DEF EndpointDispatch

\* What zdo_handler answers to a request and to a response.
LEMMA RequestAnswered ==
  ASSUME NEW m, m.to \in Node, MatchFollows(m), MatchRequest(m), m.origin.body.cmd = "match",
         NEW env, env.msg = m, NEW S \in Handle(m.to, env, "zdo"), NEW a \in S
  PROVE  MatchResponse(a)
<1> DEFINE eps == MatchingEndpoints(m.to, "ha", m.body.list)
           r == Reply(env, Zdo("zdo", eps))
<1>1. S \in ZdoHandler(m.to, env)
  BY DEF Handle
<1>2. eps # << >> /\ S \in Respond(env, "match_rsp", eps)
  BY <1>1 DEF ZdoHandler, MatchRequest, NoAnswer, Either
<1>3. a = [r EXCEPT !.cluster = "match_rsp"]
  BY <1>2, ZdoResponse
<1>4. /\ IsMessage(r) /\ r.to = m.from /\ r.from = m.to /\ r.origin = m.origin
      /\ r.profile = m.profile /\ r.body = Zdo("zdo", eps)
  BY ReplyIs DEF MatchFollows, Sound
<1>5. PICK e \in Range(Table[m.to]) : Matches(e, "ha", m.body.list) /\ eps[1] = e.ep
  BY <1>2, FirstServes
<1> HIDE DEF r, eps
<1>6. /\ a.to = m.from /\ a.from = m.to /\ a.origin = m.origin /\ a.profile = m.profile
      /\ a.cluster = "match_rsp" /\ a.body = Zdo("zdo", eps)
  BY <1>3, <1>4 DEF IsMessage, Fields
<1>7. a.body.cmd = "zdo" /\ a.body.list = eps
  BY <1>6 DEF Zdo, Body
<1> QED
  BY <1>5, <1>6, <1>7 DEF MatchRequest, MatchResponse

LEMMA ResponseAnswered ==
  ASSUME TablesAgree, NEW m, MatchFollows(m), MatchResponse(m), m.origin.body.cmd = "match",
         NEW env, env.msg = m, NEW S \in Handle(m.to, env, "zdo"), NEW a \in S
  PROVE  ReadOrAnswer(a)
<1> DEFINE id == m.origin.body.list[1]
           client == ClientOf(m.to, id)
           read == Body("profile", TRUE, FALSE, FALSE, "read", << >>)
           r == Reply(env, read)
<1>1. S \in ZdoHandler(m.to, env)
  BY DEF Handle
<1>2. S \in SendReadFromMatch(m.to, env)
  BY <1>1 DEF ZdoHandler, MatchResponse, NoAnswer, Either
<1>3. a = [r EXCEPT !.src = client.ep, !.profile = client.profile, !.cluster = id,
                    !.dst = m.body.list[1], !.enc = Secret(m.to, id)]
  <2> DEFINE wanted == env.msg.origin.body.list[1]
             reader == ClientOf(m.to, wanted)
  <2>1. a = [r EXCEPT !.src = reader.ep, !.profile = reader.profile, !.cluster = wanted,
                      !.dst = env.msg.body.list[1], !.enc = Secret(m.to, wanted)]
    BY <1>2, ClientReads, Zenon
  <2>2. wanted = id /\ reader = client /\ env.msg = m
    OBVIOUS
  <2> HIDE DEF wanted, reader, client, id, r
  <2> QED
    BY <2>1, <2>2
<1>4. IsMessage(r) /\ r.to = m.from
  BY ReplyIs DEF MatchFollows, Sound
<1>5. m.origin \in Starts /\ m.to = m.origin.from /\ m.from \in Node \ {m.to}
  BY DEF MatchFollows, Sound, MatchResponse
<1>6. client.profile = "ha"
  <2>1. EndpointOfCluster(m.to, "ha", id, {"out"}) # {}
    BY <1>5, Agreed
  <2>2. (CHOOSE k \in EndpointOfCluster(m.to, "ha", id, {"out"}) : TRUE)
           \in EndpointOfCluster(m.to, "ha", id, {"out"})
    BY <2>1
  <2> QED
    BY <2>2 DEF ClientOf, EndpointOfCluster, First
<1>7. PICK e \in Range(Table[m.from]) : Matches(e, "ha", m.origin.body.list) /\ m.body.list[1] = e.ep
  BY DEF MatchResponse
<1>8. Serves(e, id, Secret(m.to, id)) /\ e.profile = "ha"
  BY <1>5, <1>7, Agreed DEF Matches
<1> HIDE DEF r, client, id
<1>9. /\ a.to = m.from /\ a.profile = "ha" /\ a.cluster = id /\ a.dst = e.ep
      /\ a.enc = Secret(m.to, id)
  BY <1>3, <1>4, <1>6, <1>7 DEF IsMessage, Fields
<1>10. Serves(e, a.cluster, a.enc)
  BY <1>8, <1>9
<1> QED
  BY <1>8, <1>9, <1>10 DEF ReadOrAnswer, GoodRead

LEMMA MatchAnswers ==
  ASSUME TablesAgree, NEW m, MatchFollows(m), NEW A \in AnswersOf(m.to, Calls(m.to, m)), NEW a \in A
  PROVE  MatchFollows(a)
<1>1. m.to \in Node /\ m.from \in Node /\ IsMessage(m) /\ Sound(m)
  BY DEF MatchFollows, Sound
<1>2. Sound(a)
  BY <1>1, AnswersSound
<1>3. PICK e \in Range(Table[m.to]) : \E o :
        /\ e.profile = m.profile /\ Options(m) \subseteq o
        /\ LET d == EndpointDispatch(m, o, e) IN \E S \in Handle(m.to, d.env, d.handler) : a \in S
  BY <1>1, AnswerOfHandler
<1>4. PICK o :
        /\ e.profile = m.profile /\ Options(m) \subseteq o
        /\ LET d == EndpointDispatch(m, o, e) IN \E S \in Handle(m.to, d.env, d.handler) : a \in S
  BY <1>3
<1> DEFINE env == EndpointDispatch(m, o, e).env
           handler == EndpointDispatch(m, o, e).handler
<1>5. PICK S \in Handle(m.to, env, handler) : a \in S
  BY <1>4
<1>6. env.msg = m /\ (handler \in Handlers \/ (handler = "zdo" /\ m.profile = "zdo"))
  BY <1>1, <1>4, Dispatched
<1>7. m.profile = "zdo" => handler = "zdo"
  BY <1>1, <1>4, ZdoOnly
<1> HIDE DEF env, handler
<1>8. handler \in Handlers => \E body : a = Reply(env, body) /\ body.cmd # "read"
  BY <1>5, HandlersReply
<1>9. a.origin = m.origin
  <2>1. CASE handler \in Handlers
    BY <1>1, <1>6, <1>8, <2>1, ReplyIs
  <2>2. CASE handler = "zdo"
    BY <1>1, <1>5, <1>6, <2>2, ZdoAnswers
  <2> QED
    BY <1>6, <2>1, <2>2
<1>10. ASSUME m.origin.body.cmd = "match"
       PROVE  MatchRequest(a) \/ MatchResponse(a) \/ ReadOrAnswer(a)
  <2>1. CASE MatchRequest(m)
    <3>1. handler = "zdo"
      BY <1>7, <2>1 DEF MatchRequest
    <3> QED
      BY <1>1, <1>5, <1>6, <1>10, <2>1, <3>1, RequestAnswered
  <2>2. CASE MatchResponse(m)
    <3>1. handler = "zdo"
      BY <1>7, <2>2 DEF MatchResponse
    <3> QED
      BY <1>5, <1>6, <1>10, <2>2, <3>1, ResponseAnswered
  <2>3. CASE ReadOrAnswer(m)
    <3>1. handler \in Handlers /\ m.profile = "ha"
      BY <1>6, <2>3 DEF ReadOrAnswer
    <3>2. PICK body : a = Reply(env, body) /\ body.cmd # "read"
      BY <1>8, <3>1
    <3>3. a.profile = "ha" /\ a.body = body
      BY <1>1, <1>6, <3>1, <3>2, ReplyIs
    <3> QED
      BY <3>2, <3>3 DEF ReadOrAnswer
  <2> QED
    BY <1>10, <2>1, <2>2, <2>3 DEF MatchFollows
<1> QED
  BY <1>2, <1>9, <1>10 DEF MatchFollows

LEMMA OwnFollows ==
  ASSUME TablesAgree, SendOwn
  PROVE  \A x \in net' : MatchFollows(x)
<1>1. PICK m \in Starts, first \in Node :
        /\ first # m.from
        /\ net' = {[to |-> n, from |-> m.from, src |-> m.src, dst |-> m.dst, bcast |-> m.bcast,
                    enc |-> m.enc, profile |-> m.profile, cluster |-> m.cluster, body |-> m.body,
                    origin |-> m] : n \in IF m.bcast THEN Node \ {m.from} ELSE {first}}
  BY DEF SendOwn
<1> SUFFICES ASSUME NEW x \in net'  PROVE MatchFollows(x)
  OBVIOUS
<1>2. PICK n \in Node \ {m.from} :
        x = [to |-> n, from |-> m.from, src |-> m.src, dst |-> m.dst, bcast |-> m.bcast,
             enc |-> m.enc, profile |-> m.profile, cluster |-> m.cluster, body |-> m.body, origin |-> m]
  BY <1>1
<1>3. /\ x.to = n /\ x.from = m.from /\ x.profile = m.profile /\ x.cluster = m.cluster
      /\ x.body = m.body /\ x.origin = m
  BY <1>2
<1>4. Sound(x)
  BY OwnSound DEF NetInv
<1>5. m.body.cmd = "match" => MatchRequest(x)
  BY <1>3, Agreed DEF MatchRequest
<1> QED
  BY <1>3, <1>4, <1>5 DEF MatchFollows

LEMMA MatchStep == TablesAgree /\ MatchInv /\ [ZigbeeNext]_netVars => MatchInv'
<1> SUFFICES ASSUME TablesAgree, MatchInv, [ZigbeeNext]_netVars  PROVE MatchInv'
  OBVIOUS
<1>1. CASE UNCHANGED netVars
  BY <1>1 DEF netVars, MatchInv
<1>2. CASE SendOwn
  <2>1. UNCHANGED lastMsg
    BY <1>2 DEF SendOwn
  <2> QED
    BY <1>2, <2>1, OwnFollows DEF MatchInv
<1>3. ASSUME NEW m \in net, Receive(m)  PROVE MatchInv'
  <2>1. heard' = Calls(m.to, m) /\ lastMsg' = {m} /\ MatchFollows(m)
    BY <1>3 DEF Receive, MatchInv
  <2>2. PICK A \in AnswersOf(m.to, Calls(m.to, m)) : net' \subseteq net \cup A
    BY <1>3, <2>1 DEF Receive
  <2> QED
    BY <2>1, <2>2, MatchAnswers DEF MatchInv
<1>4. ASSUME NEW m \in net, LoseMessage(m)  PROVE MatchInv'
  BY <1>4 DEF LoseMessage, MatchInv
<1> QED
  BY <1>1, <1>2, <1>3, <1>4 DEF ZigbeeNext

(***************************************************************************)
(* What the ZDO advertises is served, for all tables that agree: a read    *)
(* that _zcl_send_read_from_zdo_match makes of a Match Descriptor response *)
(* is dispatched to one handler, for the endpoint that the response named, *)
(* and _wpan_endpoint_dispatch does not refuse it.                         *)
(***************************************************************************)
THEOREM AdvertisedServed == TablesAgree => (ZigbeeSpec => []AdvertisedIsServed)
<1> SUFFICES ASSUME TablesAgree  PROVE ZigbeeSpec => []AdvertisedIsServed
  OBVIOUS
<1>1. ZigbeeInit => MatchInv
  BY DEF ZigbeeInit, MatchInv
<1>2. MatchInv /\ HeardInv => AdvertisedIsServed
  <2> SUFFICES ASSUME MatchInv, HeardInv, NEW m \in lastMsg,
                      m.body.cmd = "read", m.origin.body.cmd = "match"
               PROVE  \E k \in DOMAIN heard :
                        DOMAIN heard = {k} /\ heard[k].handler \notin {"invalid", "refuse", "none"}
    BY DEF AdvertisedIsServed
  <2>1. MatchFollows(m) /\ m.to \in Node /\ heard = Calls(m.to, m)
    BY DEF MatchInv, HeardInv
  <2>2. GoodRead(m)
    BY <2>1 DEF MatchFollows, MatchRequest, MatchResponse, ReadOrAnswer
  <2> QED
    BY <2>1, <2>2, ReadReaches DEF GoodRead
<1>3. MatchInv /\ [ZigbeeNext]_netVars => MatchInv'
  BY MatchStep
<1> QED
  BY <1>1, <1>2, <1>3, NetInvHolds, PTL DEF ZigbeeSpec

-----------------------------------------------------------------------------
(* Attributes *)

\* The attributes are those of the table.
ValueInv == value = [id \in Id |-> value[id]]

Good(recs) == Seen(recs) \ Errors(recs, TRUE)

\* The loop over the records: its results after each of them.
LEMMA AssignedSteps ==
  ASSUME ValueInv, NEW recs, Len(recs) \in Nat
  PROVE  \E vals : /\ Assigned(recs) = vals[Len(recs)] /\ vals[0] = value
                   /\ \A i \in 1 .. Len(recs) :
                        vals[i] = IF i \in Good(recs)
                                  THEN [vals[i - 1] EXCEPT ![recs[i].id] = recs[i].data] ELSE vals[i - 1]
<1> DEFINE len == Len(recs)
           Data == {value[id] : id \in Id} \cup {recs[i].data : i \in 1 .. len}
           D == [Id -> Data]
           Put(i, v) == IF i \in Seen(recs) \ Errors(recs, TRUE)
                        THEN [v EXCEPT ![recs[i].id] = recs[i].data] ELSE v
           step == [p \in (1 .. len) \X D |-> Put(p[1], p[2])]
           Is(t) == t = [i \in 0 .. len |-> IF i = 0 THEN value
                                            ELSE IF i \in Seen(recs) \ Errors(recs, TRUE)
                                            THEN [t[i - 1] EXCEPT ![recs[i].id] = recs[i].data] ELSE t[i - 1]]
           vals == CHOOSE t : Is(t)
<1>1. len \in Nat /\ value \in D
  BY DEF ValueInv
<1>2. \A i \in 1 .. len, v \in D : Put(i, v) \in D
  OBVIOUS
<1> HIDE DEF D
<1>3. step \in [(1 .. len) \X D -> D]
  <2> HIDE DEF Put
  <2> QED
    BY <1>2
<1>4. PICK t \in [0 .. len -> D] : Stepped(t, len, value, step)
  <2> HIDE DEF step
  <2> QED
    BY <1>1, <1>3, StepsExist
<1>5. Is(t)
  <2>1. ASSUME NEW i \in 0 .. len  PROVE t[i] = IF i = 0 THEN value ELSE Put(i, t[i - 1])
    <3> HIDE DEF Put
    <3>1. CASE i = 0
      BY <1>4, <3>1 DEF Stepped
    <3>2. CASE i # 0
      <4>1. i \in 1 .. len /\ i - 1 \in 0 .. len /\ t[i - 1] \in D
        BY <1>1, <3>2
      <4>2. <<i, t[i - 1]>> \in (1 .. len) \X D /\ t[i] = step[<<i, t[i - 1]>>]
        BY <1>4, <3>2, <4>1 DEF Stepped
      <4> QED
        BY <3>2, <4>2
    <3> QED
      BY <3>1, <3>2
  <2>2. t = [i \in 0 .. len |-> t[i]]
    OBVIOUS
  <2> QED
    BY <2>1, <2>2
<1>6. Is(vals)
  <2> HIDE DEF Is
  <2> QED
    BY <1>5
<1>7. Assigned(recs) = vals[len]
  BY DEF Assigned
<1>8. /\ vals[0] = value
      /\ \A i \in 1 .. len : vals[i] = IF i \in Good(recs)
                                       THEN [vals[i - 1] EXCEPT ![recs[i].id] = recs[i].data] ELSE vals[i - 1]
  <2> HIDE DEF vals
  <2>1. 0 \in 0 .. len /\ \A i \in 1 .. len : i \in 0 .. len /\ i # 0
    BY <1>1
  <2> QED
    BY <1>6, <2>1 DEF Good
<1> QED
  BY <1>7, <1>8

\* What the loop has assigned: each attribute has the last value for it.
LEMMA LastAssigned ==
  ASSUME ValueInv, NEW recs, Len(recs) \in Nat, \A i \in Good(recs) : recs[i].id \in Id
  PROVE  /\ Assigned(recs) = [id \in Id |-> Assigned(recs)[id]]
         /\ \A i \in 1 .. Len(recs) :
              i \in Good(recs) /\ (\A j \in i + 1 .. Len(recs) : recs[j].id # recs[i].id)
                => Assigned(recs)[recs[i].id] = recs[i].data
<1> DEFINE len == Len(recs)
<1>1. PICK vals : /\ Assigned(recs) = vals[len] /\ vals[0] = value
                  /\ \A i \in 1 .. len :
                       vals[i] = IF i \in Good(recs)
                                 THEN [vals[i - 1] EXCEPT ![recs[i].id] = recs[i].data] ELSE vals[i - 1]
  BY AssignedSteps
<1> DEFINE Right(k) ==
      /\ vals[k] = [id \in Id |-> vals[k][id]]
      /\ \A i \in 1 .. k : i \in Good(recs) /\ (\A j \in i + 1 .. k : recs[j].id # recs[i].id)
                             => vals[k][recs[i].id] = recs[i].data
      S == {k \in 0 .. len : Right(k)}
<1>2. 0 \in S
  BY <1>1 DEF ValueInv
<1>3. ASSUME NEW k \in 1 .. len, k - 1 \in S  PROVE k \in S
  <2>1. /\ k - 1 \in 0 .. len /\ k \in 0 .. len
        /\ vals[k - 1] = [id \in Id |-> vals[k - 1][id]]
        /\ \A i \in 1 .. k - 1 :
             i \in Good(recs) /\ (\A j \in i + 1 .. k - 1 : recs[j].id # recs[i].id)
               => vals[k - 1][recs[i].id] = recs[i].data
    BY <1>3
  <2>2. vals[k] = IF k \in Good(recs)
                  THEN [vals[k - 1] EXCEPT ![recs[k].id] = recs[k].data] ELSE vals[k - 1]
    BY <1>1
  <2>3. vals[k] = [id \in Id |-> vals[k][id]]
    BY <2>1, <2>2
  <2>4. ASSUME NEW i \in 1 .. k, i \in Good(recs), \A j \in i + 1 .. k : recs[j].id # recs[i].id
        PROVE  vals[k][recs[i].id] = recs[i].data
    <3>1. recs[i].id \in Id
      BY <2>4
    <3>2. CASE i = k
      BY <2>1, <2>2, <2>4, <3>1, <3>2
    <3>3. CASE i # k
      <4>1. i \in 1 .. k - 1 /\ k \in i + 1 .. k
        BY <3>3
      <4>2. recs[k].id # recs[i].id /\ \A j \in i + 1 .. k - 1 : recs[j].id # recs[i].id
        BY <2>4, <4>1
      <4>3. vals[k - 1][recs[i].id] = recs[i].data
        BY <2>1, <2>4, <4>1, <4>2
      <4> QED
        BY <2>1, <2>2, <3>1, <4>2, <4>3
    <3> QED
      BY <3>2, <3>3
  <2> QED
    BY <2>1, <2>3, <2>4
<1>4. len \in S
  <2> HIDE DEF S
  <2>1. \A k \in 0 .. len : k \in S
    BY <1>2, <1>3, UpTo
  <2> QED
    BY <2>1
<1> QED
  BY <1>1, <1>4

\* Where no record was refused, none was malformed, so that all were seen.
LEMMA AllSeen ==
  ASSUME NEW recs, Len(recs) \in Nat, DOMAIN recs = 1 .. Len(recs), NEW assign, Errors(recs, assign) = {}
  PROVE  \A i \in DOMAIN recs : i \in Seen(recs) /\ Accepts(recs[i], assign)
<1> DEFINE len == Len(recs)
           S == {k \in 0 .. len : \A j \in 1 .. k : ~Malformed(recs[j])}
<1>1. 0 \in S
  OBVIOUS
<1>2. ASSUME NEW k \in 1 .. len, k - 1 \in S  PROVE k \in S
  <2>1. k \in Seen(recs)
    BY <1>2 DEF Seen
  <2>2. Accepts(recs[k], assign)
    BY <2>1 DEF Errors
  <2>3. ~Malformed(recs[k])
    BY <2>2 DEF Accepts, Malformed
  <2> QED
    BY <1>2, <2>3
<1>3. \A k \in 0 .. len : k \in S
  <2> HIDE DEF S
  <2> QED
    BY <1>1, <1>2, UpTo
<1>4. \A i \in DOMAIN recs : i \in Seen(recs)
  BY <1>3 DEF Seen
<1> QED
  BY <1>4 DEF Errors

\* What pass 0 accepts is accepted by pass 1, if it has a value.
LEMMA PassesAgree ==
  ASSUME NEW recs, Errors(recs, FALSE) = {}, ~Ghostly(recs)
  PROVE  Errors(recs, TRUE) = {}
<1> SUFFICES ASSUME NEW i \in Errors(recs, TRUE)  PROVE FALSE
  OBVIOUS
<1>1. i \in Seen(recs) /\ i \in DOMAIN recs /\ ~Accepts(recs[i], TRUE)
  BY DEF Errors, Seen
<1>2. Accepts(recs[i], FALSE)
  BY <1>1 DEF Errors
<1>3. ~Attributes[recs[i].id].ghost
  BY <1>1, <1>2 DEF Ghostly, Accepts
<1> QED
  BY <1>1, <1>2, <1>3 DEF Accepts, MayWrite

LEMMA WriteValues ==
  ASSUME ValueInv, NEW cmd, NEW recs \in Requests, WriteAttributes(cmd, recs)
  PROVE  /\ ValueInv'
         /\ cmd = "write_undiv" /\ ~Ghostly(recs) =>
              IF refused' = {}
              THEN \A i \in DOMAIN recs :
                     (\A j \in i + 1 .. Len(recs) : recs[j].id # recs[i].id)
                       => value'[recs[i].id] = recs[i].data
              ELSE UNCHANGED <<value, ends>>
<1>1. Len(recs) \in Nat /\ DOMAIN recs = 1 .. Len(recs)
  BY ZclAssumption DEF Requests
<1>2. \A i \in Good(recs) : recs[i].id \in Id
  BY DEF Good, Errors, Accepts
<1>3. CASE CheckPassFails(recs)
  BY <1>3 DEF CheckPassFails, WriteAttributes, ValueInv
<1>4. CASE AssignPass(recs) /\ (cmd = "write_undiv" => Errors(recs, FALSE) = {})
  <2>1. value' = Assigned(recs) /\ refused' = Errors(recs, TRUE)
    BY <1>4 DEF AssignPass
  <2>2. ValueInv'
    BY <1>1, <1>2, <2>1, LastAssigned DEF ValueInv
  <2>3. ASSUME refused' = {}
        PROVE  \A i \in DOMAIN recs :
                 (\A j \in i + 1 .. Len(recs) : recs[j].id # recs[i].id) => value'[recs[i].id] = recs[i].data
    <3>1. \A i \in DOMAIN recs : i \in Good(recs)
      BY <1>1, <2>1, <2>3, AllSeen DEF Good
    <3> QED
      BY <1>1, <1>2, <2>1, <3>1, LastAssigned
  <2>4. cmd = "write_undiv" /\ ~Ghostly(recs) => refused' = {}
    BY <1>4, <2>1, PassesAgree
  <2> QED
    BY <2>2, <2>3, <2>4
<1> QED
  BY <1>3, <1>4 DEF WriteAttributes

LEMMA ValueStep == ValueInv /\ [ZclNext]_zclVars => ValueInv'
<1> SUFFICES ASSUME ValueInv, [ZclNext]_zclVars  PROVE ValueInv'
  OBVIOUS
<1>1. CASE UNCHANGED zclVars
  BY <1>1 DEF zclVars, ValueInv
<1>2. ASSUME NEW cmd, NEW recs \in Requests, WriteAttributes(cmd, recs)  PROVE ValueInv'
  BY <1>2, WriteValues
<1>3. CASE IdentifyIsActive
  BY <1>3 DEF IdentifyIsActive, ValueInv
<1>4. ASSUME NEW s, IdentifyCommand(s)  PROVE ValueInv'
  BY <1>4 DEF IdentifyCommand, ValueInv
<1>5. CASE NextSecond
  BY <1>5 DEF NextSecond, ValueInv
<1> QED
  BY <1>1, <1>2, <1>3, <1>4, <1>5 DEF ZclNext

(***************************************************************************)
(* An undivided write is one, for every table of attributes and requests   *)
(* of any length: what the pass that only checks accepts, the pass that    *)
(* assigns accepts too, and it sees every record.                          *)
(***************************************************************************)
THEOREM UndividedIsOne == ZclSpec => AllOrNothing
<1>1. ValueInv /\ [ZclNext]_zclVars =>
        [LET recs == request'.recs
         IN request'.cmd = "write_undiv" /\ ~Ghostly(recs) /\ now' = now /\ request' # request =>
              IF refused' = {}
              THEN \A i \in DOMAIN recs :
                     (\A j \in i + 1 .. Len(recs) : recs[j].id # recs[i].id)
                       => value'[recs[i].id] = recs[i].data
              ELSE UNCHANGED <<value, ends>>]_zclVars
  <2> SUFFICES ASSUME ValueInv, ZclNext, request'.cmd = "write_undiv", ~Ghostly(request'.recs)
               PROVE  IF refused' = {}
                      THEN \A i \in DOMAIN request'.recs :
                             (\A j \in i + 1 .. Len(request'.recs) : request'.recs[j].id # request'.recs[i].id)
                               => value'[request'.recs[i].id] = request'.recs[i].data
                      ELSE UNCHANGED <<value, ends>>
    OBVIOUS
  <2>1. PICK cmd \in WriteCommands, recs \in Requests : WriteAttributes(cmd, recs)
    <3>1. ~Handled
      BY DEF Handled, NoRequest
    <3> QED
      BY <3>1 DEF ZclNext, IdentifyIsActive, IdentifyCommand, NextSecond
  <2>2. request' = [cmd |-> cmd, recs |-> recs]
    BY <2>1 DEF WriteAttributes
  <2> QED
    BY <2>1, <2>2, WriteValues
<1>2. ZclInit => ValueInv
  BY DEF ZclInit, ValueInv
<1> QED
  BY <1>1, <1>2, ValueStep, PTL DEF ZclSpec, AllOrNothing
=============================================================================
