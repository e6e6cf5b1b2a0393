--------------------------- MODULE Conversations ---------------------------
(***************************************************************************)
(* The conversation table of the ZDO endpoint (wpan_aps.c) and the         *)
(* requests of zigbee_zdo.c and zcl_client.c that use it: addresses asked  *)
(* for by zdo_send_nwk_addr_req and zdo_send_ieee_addr_req, whose handlers *)
(* end the conversation, and requests with a callback, which may go on.    *)
(*                                                                         *)
(* A cell is what a handler is given as context.  Responses come late,     *)
(* twice, or never, and carry nothing but the transaction ID.  A response  *)
(* is not younger than Ids requests: later the network has dropped it.     *)
(***************************************************************************)
EXTENDS Integers, FiniteSets

CONSTANTS
  Slots,      \* the entries of the table, 1 to WPAN_MAX_CONVERSATIONS
  Ids,        \* values of a transaction ID, a uint8_t
  Secs,       \* values of the uint16_t cast of xbee_seconds_timer
  Cells,      \* contexts
  AddrWait,   \* ZDO_CONVERSATION_TIMEOUT
  CallWait,   \* the longest time-out a callback is registered with
  Gap,        \* seconds at most between two calls of wpan_tick
  MaxSerial   \* bound: transaction IDs handed out

ASSUME ConversationsAssumption ==
  /\ Slots \in Nat \ {0} /\ Ids \in Nat \ {0} /\ Secs \in Nat \ {0} /\ Secs % 2 = 0
  /\ Gap \in Nat /\ MaxSerial \in Nat
  /\ CallWait \in Nat /\ AddrWait \in 1 .. CallWait /\ CallWait + 1 <= Secs \div 2
  /\ Gap < Secs \div 2

VARIABLES
  table,   \* state->conversations
  last,    \* state->last_transaction
  seconds, \* (uint16_t) xbee_seconds_timer()
  cell,    \* what the handlers wrote to each context
  air,     \* requests the peers have seen, as serial numbers
  \* What the properties compare with:
  serial,  \* transaction IDs handed out so far
  idleFor  \* seconds since wpan_tick was called

convVars == <<table, last, seconds, cell, air, serial, idleFor>>

Slot == 1 .. Slots
Serial == 1 .. MaxSerial
HalfSecs == Secs \div 2

MaxAge == CallWait + Gap + 2   \* bound of age

\* request is the serial number of the request, and age the seconds since.
Conversation ==
  [context : Cells, timeout : 0 .. Secs - 1, id : 0 .. Ids - 1, goesOn : BOOLEAN,
   wait : {AddrWait, CallWait}, request : Serial, age : 0 .. MaxAge]
Free == [request |-> 0]

\* request and response are those of the request and of the response that
\* set the cell, 0 for none.
CellState == [is : {"unset", "pending", "answered", "timeout"},
         request : 0 .. MaxSerial, response : 0 .. MaxSerial]

ConvTypeOK ==
  /\ table \in [Slot -> Conversation \cup {Free}]
  /\ last \in 0 .. Ids - 1 /\ seconds \in 0 .. Secs - 1
  /\ cell \in [Cells -> CellState]
  /\ air \subseteq Serial
  /\ serial \in 0 .. MaxSerial /\ idleFor \in 0 .. Gap

ConvInit ==
  /\ table = [i \in Slot |-> Free]
  /\ last = 0 /\ serial = 0
  /\ seconds \in 0 .. Secs - 1
  /\ cell = [c \in Cells |-> [is |-> "unset", request |-> 0, response |-> 0]]
  /\ air = {} /\ idleFor = 0

----------------------------------------------------------------------------
Used(i) == table[i] # Free
FirstOf(I) == CHOOSE i \in I : \A j \in I : i <= j

\* Faulty: the second in which a time-out of 0 would mean never is not avoided.
EndOfNever(wait) == (seconds + wait) % Secs

\* When a conversation ends; 0 is reserved.
EndOf(wait) == IF (seconds + wait) % Secs = 0 THEN 1 ELSE (seconds + wait) % Secs

NextId == (last + 1) % Ids

\* ++state->last_transaction
NextTransaction ==
  /\ serial < MaxSerial
  /\ last' = NextId
  /\ serial' = serial + 1

\* wpan_conversation_register with a handler.
Register(c, goesOn, wait) ==
  /\ \E i \in Slot : ~Used(i)
  /\ NextTransaction
  /\ table' = [table EXCEPT ![FirstOf({i \in Slot : ~Used(i)})] =
       [context |-> c, timeout |-> EndOf(wait), id |-> last', goesOn |-> goesOn,
        wait |-> wait, request |-> serial', age |-> 0]]

\* The request is sent, or wpan_envelope_send fails and it is not.
SendRequest ==
  /\ cell' = [c \in Cells |-> IF \E i \in Slot : table'[i] # table[i] /\ table'[i].context = c
                              THEN [is |-> "pending", request |-> serial', response |-> 0]
                              ELSE cell[c]]
  /\ air' \in {air, air \cup {serial'}}
  /\ UNCHANGED <<seconds, idleFor>>

Waits(c) == cell[c].is = "pending"

\* zdo_send_nwk_addr_req and zdo_send_ieee_addr_req: the caller looks at the
\* cell until it is no longer pending.
SendAddrReq(c) == ~Waits(c) /\ Register(c, FALSE, AddrWait) /\ SendRequest

\* zdo_simple_desc_request, zdo_send_descriptor_req, zdo_send_bind_req, zdo_send_match_desc
SendWithCallback(c) ==
  \E wait \in {AddrWait, CallWait} : ~Waits(c) /\ Register(c, TRUE, wait) /\ SendRequest

\* -ENOSPC: the request is not sent.
SendRefused(c) ==
  /\ ~Waits(c) /\ \A i \in Slot : Used(i)
  /\ UNCHANGED convVars

\* zdo_mgmt_leave_req: no conversation.
SendLeaveReq ==
  /\ NextTransaction
  /\ air' \in {air, air \cup {serial'}}
  /\ UNCHANGED <<table, cell, seconds, idleFor>>

\* Faulty: the first conversation under way is taken.
MatchingAny(id) == {i \in Slot : Used(i)}

Matching(id) == {i \in Slot : Used(i) /\ table[i].id = id}

\* Faulty: the conversation stays in the table.
DeleteNothing(i) == table

Delete(i) == [table EXCEPT ![i] = Free]

SetAnswered(i, s) ==
  cell' = [cell EXCEPT ![table[i].context].is = "answered", ![table[i].context].response = s]

\* wpan_conversation_response, called by zdo_handler for a response that a
\* peer sent to request s.
Response(s) ==
  /\ s \in air /\ serial - s < Ids
  /\ air' \in {air, air \ {s}}
  /\ LET id == s % Ids
         i == FirstOf(Matching(id))
     IN \/ /\ Matching(id) = {}
           /\ UNCHANGED <<table, cell>>
        \/ /\ Matching(id) # {}
           /\ SetAnswered(i, s)
           /\ table' = Delete(i)
        \/ /\ Matching(id) # {} /\ table[i].goesOn
           /\ UNCHANGED <<table, cell>>
  /\ UNCHANGED <<last, seconds, serial, idleFor>>

Lose(s) ==
  /\ s \in air
  /\ air' = air \ {s}
  /\ UNCHANGED <<table, last, seconds, cell, serial, idleFor>>

\* Faulty: the numbers are compared as unsigned.
IsOverUnsigned(t) == t # 0 /\ seconds >= t

\* (int16_t)(now - conversation->timeout) >= 0
IsOver(t) == t # 0 /\ (seconds - t) % Secs < HalfSecs

Ends(i) == Used(i) /\ IsOver(table[i].timeout)

\* _wpan_endpoint_expire_conversations, the end of wpan_tick.
Expire ==
  /\ cell' = [c \in Cells |-> IF \E i \in Slot : Ends(i) /\ table[i].context = c
                              THEN [cell[c] EXCEPT !.is = "timeout"] ELSE cell[c]]
  /\ table' = [i \in Slot |-> IF Ends(i) THEN Free ELSE table[i]]
  /\ idleFor' = 0
  /\ UNCHANGED <<last, seconds, air, serial>>

Second ==
  /\ idleFor < Gap
  /\ idleFor' = idleFor + 1
  /\ seconds' = (seconds + 1) % Secs
  /\ table' = [i \in Slot |-> IF Used(i) THEN [table[i] EXCEPT !.age = IF @ < MaxAge THEN @ + 1 ELSE @] ELSE Free]
  /\ UNCHANGED <<last, cell, air, serial>>

ConvNext ==
  \/ \E c \in Cells : SendAddrReq(c) \/ SendWithCallback(c) \/ SendRefused(c)
  \/ SendLeaveReq
  \/ \E s \in Serial : Response(s) \/ Lose(s)
  \/ Expire \/ Second

ConvSpec == ConvInit /\ [][ConvNext]_convVars

----------------------------------------------------------------------------
(***************************************************************************)
(* A response ends the conversation of the request it answers, or of one   *)
(* from which Ids transaction IDs, or a multiple, lie to it.               *)
(***************************************************************************)
RightAnswer ==
  \A c \in Cells :
    LET from == cell[c].request  by == cell[c].response
    IN cell[c].is = "answered" => by = from \/ by - from >= Ids

(***************************************************************************)
(* No conversation is forgotten: with wpan_tick called every Gap seconds   *)
(* it is over one second and Gap after its time-out at the latest, on      *)
(* whichever second of the 16-bit clock that falls, and a context that is  *)
(* pending has exactly one conversation.                                   *)
(***************************************************************************)
NeverForgotten ==
  /\ \A i \in Slot : Used(i) => table[i].age <= table[i].wait + 1 + Gap
  /\ \A c \in Cells :
       Cardinality({i \in Slot : Used(i) /\ table[i].context = c}) = IF Waits(c) THEN 1 ELSE 0

(***************************************************************************)
(* A time-out comes when its seconds are over and not before.              *)
(***************************************************************************)
NoEarlyTimeout ==
  [][\A i \in Slot : Used(i) /\ table'[i] = Free /\ cell'[table[i].context].is = "timeout"
       => table[i].age >= table[i].wait]_convVars

(***************************************************************************)
(* A request has one outcome: once it was answered or timed out, no later  *)
(* response, copy of it or time-out changes what the caller was told.      *)
(***************************************************************************)
OneOutcome ==
  [][\A c \in Cells : cell'[c] # cell[c] => Waits(c) \/ cell'[c].is = "pending"]_convVars
=============================================================================
