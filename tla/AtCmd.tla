------------------------------- MODULE AtCmd -------------------------------
(***************************************************************************)
(* The AT command layer of pan/xbee/xbee_atcmd.c as sys_xbee_init and the  *)
(* main loop drive it: the table of outstanding requests, their time-outs, *)
(* and the command list that queries the radio and keeps the device's      *)
(* network address up to date.                                             *)
(*                                                                         *)
(* All of it runs in the main loop, one handler at a time, but handlers    *)
(* nest: a response ends the query, whose end handler starts another one,  *)
(* whose xbee_cmd_create expires requests, whose callbacks end the query.  *)
(* The handlers are operators on the driver's state, a record, so that     *)
(* nesting is composition.  The clock does not advance inside a handler.   *)
(***************************************************************************)
EXTENDS Naturals, Sequences, FiniteSets, SequencesExt

CONSTANTS
  TableSize,       \* XBEE_CMD_REQUEST_TABLESIZE
  MaxSeq,          \* the sequence byte counts modulo MaxSeq + 1
  MaxId,           \* the largest frame ID, 255
  BuildTime,       \* seconds to finish building a request
  LocalTime,       \* XBEE_CMD_LOCAL_TIMEOUT
  ReuseTime,       \* seconds for the next answer to a request kept alive
  QueryRegs,       \* commands of _xbee_atcmd_query_regs
  RefreshIdx,      \* XBEE_ATCMD_REG_REFRESH_IDX
  UserCommands,    \* commands the console can ask for
  Networks,        \* network addresses the radio can get
  MaxChanges,      \* bound: times the radio joins or leaves
  MaxLost,         \* bound: frames from the radio that are lost
  MaxPending,      \* bound: commands the radio has not answered, answers under way
  MaxUsers         \* bound: console requests in the table

ASSUME AtCmdAssumption ==
  /\ TableSize \in Nat \ {0} /\ MaxSeq \in Nat /\ MaxId \in Nat \ {0}
  /\ {BuildTime, LocalTime, ReuseTime} \subseteq Nat \ {0}
  /\ QueryRegs \in Seq(ToSet(QueryRegs))
  /\ RefreshIdx \in 0 .. Len(QueryRegs) - 1
  /\ \E k \in RefreshIdx + 1 .. Len(QueryRegs) : QueryRegs[k] = "MY"
  /\ MaxChanges \in Nat /\ MaxLost \in Nat /\ MaxPending \in Nat \ {0}
  /\ MaxUsers \in Nat

Slots     == 1 .. TableSize
Undefined == "undefined"      \* WPAN_NET_ADDR_UNDEFINED
NoHandle  == <<0, 0>>         \* xbee_cmd_create returned -ENOSPC
Command   == ToSet(QueryRegs) \cup UserCommands

VARIABLES
  drv,        \* the driver, a record:
              \*   table   the requests
              \*   id      xbee->frame_id
              \*   list    _xbee_atcmd_query_regs_head: commands, index, status
              \*   flags   XBEE_DEV_FLAG_QUERY_...
              \*   joined, net   wpan_dev: WPAN_FLAG_JOINED, address.network
              \*   due     the clock differs from xbee_cmd_tick's last_time
              \*   out     frames sent to the radio, not yet answered
  pc,         \* where the main loop is
  in,         \* frames from the radio that have not been dispatched
  radioNet,   \* the radio's network address, or Undefined
  changes, lost,   \* bounds: changes of radioNet, frames lost
  missed,     \* history: a modem status frame was lost
  crossed     \* history: an answer was given to another request than asked

radio == <<in, radioNet, changes, lost, missed>>
vars  == <<drv, pc, radio, crossed>>
-----------------------------------------------------------------------------
(* The request table.  A handle is <<slot, sequence>>.                     *)

FreeSlots(d) == {i \in Slots : ~d.table[i].used}
First(S) == CHOOSE i \in S : \A j \in S : i <= j

\* _xbee_cmd_handle_to_address; the slot need not be in use
AddressOf(d, h) == {i \in Slots : i = h[1] /\ d.table[i].seq = h[2]}

\* A free slot; of what was in it only the sequence byte is read again.
Blank(s) ==
  [used |-> FALSE, seq |-> s, ttl |-> 0, cb |-> "none", id |-> 0, cmd |-> QueryRegs[1]]

\* _xbee_cmd_release_request
Release(d, i) == [d EXCEPT !.table[i] = Blank((@.seq + 1) % (MaxSeq + 1))]

\* xbee_cmd_create when it may not call xbee_cmd_tick to make room
CreateNoTick(d, cmd) ==
  IF FreeSlots(d) = {} THEN [d |-> d, h |-> NoHandle]
  ELSE LET i == First(FreeSlots(d))
       IN [d |-> [d EXCEPT !.table[i] =
                    [used |-> TRUE, seq |-> @.seq, ttl |-> BuildTime,
                     cb |-> "none", id |-> 0, cmd |-> cmd]],
           h |-> <<i, d.table[i].seq>>]

\* xbee_cmd_set_callback
SetCallback(d, h, cb) ==
  [d EXCEPT !.table = [i \in Slots |->
     IF i \in AddressOf(d, h) THEN [@[i] EXCEPT !.cb = cb] ELSE @[i]]]

SetCommand(d, h, cmd) ==
  [d EXCEPT !.table = [i \in Slots |->
     IF i \in AddressOf(d, h) THEN [@[i] EXCEPT !.cmd = cmd] ELSE @[i]]]

\* Faulty: no wrap at the end of the byte; IDs that come round too soon.
NextIdWide(id) == id + 1
NextIdHalf(id) == IF id >= MaxId \div 2 THEN 1 ELSE id + 1

NextId(id) == IF id = MaxId THEN 1 ELSE id + 1

\* A radio that does not keep up forgets the oldest command.
Queue(out, f) == IF Len(out) < MaxPending THEN Append(out, f) ELSE Append(Tail(out), f)

\* xbee_cmd_send; xbee_frame_write does not fail.  A request nobody waits for
\* goes out with ID 0 and leaves the table.
Asks(d, i) == [id |-> NextId(d.id), cmd |-> d.table[i].cmd, by |-> <<i, d.table[i].seq>>]

SendTo(d, i) ==
  IF d.table[i].cb = "none" THEN Release(d, i)
  ELSE [d EXCEPT !.id = NextId(@),
                 !.table[i] = [@ EXCEPT !.id = NextId(d.id), !.ttl = LocalTime],
                 !.out = Queue(@, Asks(d, i))]

Send(d, h) == IF AddressOf(d, h) = {} THEN d ELSE SendTo(d, h[1])
-----------------------------------------------------------------------------
(* The query.  xbee_cmd_create may call xbee_cmd_tick to make room, which  *)
(* may begin a query; a query begun there may not (QueryNoTick).           *)

Wanted(d, refresh) == [d EXCEPT !.flags = IF refresh THEN @ \cup {"refresh"} ELSE @]

Regs(refresh) ==
  IF refresh THEN SubSeq(QueryRegs, RefreshIdx + 1, Len(QueryRegs)) ELSE QueryRegs

\* xbee_cmd_list_execute up to xbee_cmd_create
ListBegun(d, refresh) ==
  [d EXCEPT !.list = [regs |-> Regs(refresh), index |-> 1, status |-> "running"]]

\* ... and from there, with the request r made, back in xbee_cmd_query_device
Execute(r) ==
  IF r.h = NoHandle THEN r.d
  ELSE [Send(SetCallback(r.d, r.h, "list"), r.h) EXCEPT
          !.flags = (@ \cup {"begin", "inprogress"}) \ {"error", "done", "refresh"}]

\* xbee_cmd_query_device
QueryNoTick(d, refresh) ==
  IF "inprogress" \in d.flags THEN Wanted(d, refresh)
  ELSE Execute(CreateNoTick(ListBegun(Wanted(d, refresh), refresh), Regs(refresh)[1]))

\* _xbee_cmd_query_handle_end up to its xbee_cmd_query_device, and when it calls it
Ended(d, failed) ==
  [d EXCEPT !.flags = (@ \ {"inprogress"}) \cup {IF failed THEN "error" ELSE "done"}]

\* Faulty: a refresh that came in during the query is not looked for; every
\* failed query is started again.
AgainNoRefresh(d) == "error" \in d.flags /\ d.joined /\ d.net = Undefined
AgainRetry(d)     == d.flags \cap {"refresh", "error"} # {}

Again(d) ==
  \/ "refresh" \in d.flags
  \/ "error" \in d.flags /\ d.joined /\ d.net = Undefined

\* _xbee_cmd_list_callback on a time-out
ListTimeout(d) ==
  LET e == Ended([d EXCEPT !.list.status = "timeout"], TRUE)
  IN IF Again(e) THEN QueryNoTick(e, TRUE) ELSE e

\* Faulty: a request nobody waits for in the driver does not expire.
ExpiredList(r) == r.used /\ r.ttl = 0 /\ r.cb = "list"

\* xbee_cmd_tick for one slot, without the test of the clock
Expired(r) == r.used /\ r.ttl = 0

\* Faulty: the callback does not hear of the time-out.
TickSlotSilent(d, i) ==
  IF ~Expired(d.table[i]) THEN d
  ELSE LET freed == Release(d, i)
       IN IF "refresh" \in freed.flags THEN QueryNoTick(freed, TRUE) ELSE freed

TickSlot(d, i) ==
  IF ~Expired(d.table[i]) THEN d
  ELSE LET called == IF d.table[i].cb = "list" THEN ListTimeout(d) ELSE d
           freed  == Release(called, i)
       IN IF "refresh" \in freed.flags THEN QueryNoTick(freed, TRUE) ELSE freed

\* xbee_cmd_tick; within it xbee_cmd_create finds last_time = now
TickAll(d) ==
  LET ticked[k \in 0 .. TableSize] == IF k = 0 THEN d ELSE TickSlot(ticked[k - 1], k)
  IN ticked[TableSize]
Tick(d)    == IF d.due THEN TickAll([d EXCEPT !.due = FALSE]) ELSE d

\* xbee_cmd_create: a full table is ticked once
Create(d, cmd) ==
  IF FreeSlots(d) = {} THEN CreateNoTick(Tick(d), cmd) ELSE CreateNoTick(d, cmd)

\* xbee_cmd_query_device
Query(d, refresh) ==
  IF "inprogress" \in d.flags THEN Wanted(d, refresh)
  ELSE Execute(Create(ListBegun(Wanted(d, refresh), refresh), Regs(refresh)[1]))

\* _xbee_cmd_query_handle_end
HandleEnd(d, failed) ==
  IF Again(Ended(d, failed)) THEN Query(Ended(d, failed), TRUE) ELSE Ended(d, failed)

\* What the query keeps of an answer (XBEE_CLT_COPY_BE, _xbee_cmd_query_handle_ai)
Copy(d, f) ==
  CASE f.cmd = "AI" -> [d EXCEPT !.joined = @ \/ f.value # Undefined]
    [] f.cmd = "MY" -> [d EXCEPT !.net = f.value]
    [] OTHER        -> d

\* _xbee_cmd_list_callback on an answer f to the request with handle h; "again"
\* is its return value XBEE_ATCMD_REUSE.  A register's callback called for an answer
\* to another command is _xbee_cmd_query_handle_ai, which only looks for a 0, and
\* no network address or number of bytes is 0.
ListCallback(d, h, f) ==
  LET cur    == d.list.index
      copied == [Copy(d, f) EXCEPT !.list.index = @ + 1]
      done   == [copied EXCEPT !.list.status = "done"]
  IN CASE cur > Len(d.list.regs) ->
            [d |-> HandleEnd([d EXCEPT !.list.status = "error"], TRUE), again |-> FALSE]
       [] cur <= Len(d.list.regs) /\ d.list.regs[cur] # f.cmd ->
            [d |-> [d EXCEPT !.list.status = "error"], again |-> FALSE]
       [] cur < Len(d.list.regs) /\ d.list.regs[cur] = f.cmd ->
            [d |-> Send(SetCommand(copied, h, d.list.regs[cur + 1]), h), again |-> TRUE]
       [] cur = Len(d.list.regs) /\ d.list.regs[cur] = f.cmd ->
            [d |-> HandleEnd(done, FALSE), again |-> FALSE]

\* Faulty: the command alone finds the request.
MatchesCommand(d, f) == {i \in Slots : d.table[i].used /\ d.table[i].cmd = f.cmd}

\* _xbee_cmd_handle_response: the requests the answer matches, and the rest.
\* The release at the end goes by the slot, whoever has it by then.
Matches(d, f) ==
  {i \in Slots : d.table[i].used /\ d.table[i].id = f.id /\ d.table[i].cmd = f.cmd}

HandleResponse(d, f) ==
  IF Matches(d, f) = {} THEN d
  ELSE LET i == First(Matches(d, f))
           r == IF d.table[i].cb = "list" THEN ListCallback(d, <<i, d.table[i].seq>>, f)
                ELSE [d |-> d, again |-> FALSE]
       IN IF r.again THEN [r.d EXCEPT !.table[i].ttl = ReuseTime] ELSE Release(r.d, i)

\* Faulty: joining does not make the driver ask for the new address.
HandleModemStatusIdle(d, status) ==
  IF status = "joined" THEN [d EXCEPT !.joined = TRUE]
  ELSE [d EXCEPT !.joined = FALSE, !.net = Undefined]

\* _xbee_dev_modem_status, then _xbee_cmd_modem_status
HandleModemStatus(d, status) ==
  IF status = "joined" THEN Query([d EXCEPT !.joined = TRUE], TRUE)
  ELSE [d EXCEPT !.joined = FALSE, !.net = Undefined]
-----------------------------------------------------------------------------
(* After xbee_dev_init, which clears xbee_dev_t: the address is 0, not     *)
(* WPAN_NET_ADDR_UNDEFINED.                                                *)

Init ==
  /\ drv = [table |-> [i \in Slots |-> Blank(0)],
            id |-> 0,
            list |-> [regs |-> QueryRegs, index |-> 1, status |-> "done"],
            flags |-> {}, joined |-> FALSE, net |-> "zero",
            due |-> TRUE, out |-> << >>]
  /\ pc = "start"
  /\ in = << >> /\ radioNet \in Networks \cup {Undefined}
  /\ changes = 0 /\ lost = 0 /\ missed = FALSE /\ crossed = FALSE
-----------------------------------------------------------------------------
(* The radio and the clock                                                 *)

\* The radio answers commands in order.
Answer ==
  /\ drv.out # << >> /\ Len(in) < MaxPending
  /\ LET f == Head(drv.out)
     IN in' = Append(in, [type |-> "answer", id |-> f.id, cmd |-> f.cmd, by |-> f.by,
                          value |-> radioNet])
  /\ drv' = [drv EXCEPT !.out = Tail(@)]
  /\ UNCHANGED <<pc, radioNet, changes, lost, missed, crossed>>

NewNetwork(n) ==
  /\ changes < MaxChanges /\ Len(in) < MaxPending
  /\ n # radioNet
  /\ radioNet' = n /\ changes' = changes + 1
  /\ in' = Append(in, [type |-> "status", status |-> IF n = Undefined THEN "left" ELSE "joined"])
  /\ UNCHANGED <<drv, pc, lost, missed, crossed>>

\* A byte of the frame was overrun or its checksum was wrong.
Lose ==
  /\ in # << >> /\ lost < MaxLost
  /\ in' = Tail(in) /\ lost' = lost + 1
  /\ missed' = (missed \/ Head(in).type = "status")
  /\ UNCHANGED <<drv, pc, radioNet, changes, crossed>>

Second ==
  /\ ~drv.due \/ \E i \in Slots : drv.table[i].ttl > 0
  /\ LET older == [i \in Slots |-> [drv.table[i] EXCEPT !.ttl = IF @ = 0 THEN 0 ELSE @ - 1]]
     IN drv' = [drv EXCEPT !.table = older, !.due = TRUE]
  /\ UNCHANGED <<pc, radio, crossed>>
-----------------------------------------------------------------------------
(* main: sys_xbee_init, then read_console_commands and sys_xbee_tick       *)

Goto(from, to) == pc = from /\ pc' = to

\* xbee_cmd_init_device
Start ==
  /\ Goto("start", "init_frames")
  /\ drv' = Query(drv, FALSE)
  /\ UNCHANGED <<radio, crossed>>

\* One frame of a xbee_dev_tick
Dispatch ==
  /\ pc \in {"init_frames", "frames"} /\ in # << >>
  /\ LET f == Head(in)
     IN IF f.type = "answer"
        THEN /\ drv' = HandleResponse(drv, f)
             /\ crossed' = (crossed \/ Matches(drv, f) \notin {{}, AddressOf(drv, f.by)})
        ELSE /\ drv' = HandleModemStatus(drv, f.status)
             /\ UNCHANGED crossed
  /\ in' = Tail(in)
  /\ UNCHANGED <<pc, radioNet, changes, lost, missed>>

\* xbee_dev_tick returns when it has read all that arrived.
InitFramesDone ==
  /\ Goto("init_frames", "init_status")
  /\ in = << >>
  /\ UNCHANGED <<drv, radio, crossed>>

\* xbee_cmd_query_status, and the loop condition of sys_xbee_init
InitStatus ==
  /\ pc = "init_status"
  /\ drv' = Tick(drv)
  /\ pc' = IF drv'.list.status = "running" THEN "init_frames" ELSE "console"
  /\ UNCHANGED <<radio, crossed>>

\* Bound: with 255 IDs the console cannot bring one round again while a request
\* waits or an answer is under way with it.
IdsInUse ==
  {drv.table[i].id : i \in Slots} \cup {drv.out[k].id : k \in DOMAIN drv.out}
    \cup {in[k].id : k \in {j \in DOMAIN in : in[j].type = "answer"}}

IdsAhead == \A k \in 1 .. MaxId \div 2 : ((drv.id + k - 1) % MaxId) + 1 \notin IdsInUse

\* read_console_commands with one of the keys 1, 2, 3
ConsoleCommand(cmd) ==
  /\ Goto("console", "tick")
  /\ Cardinality({i \in Slots : drv.table[i].used /\ drv.table[i].cb = "user"}) < MaxUsers
  /\ IdsAhead
  /\ LET r == Create(drv, cmd)
     IN drv' = IF r.h = NoHandle THEN r.d ELSE Send(SetCallback(r.d, r.h, "user"), r.h)
  /\ UNCHANGED <<radio, crossed>>

ConsoleIdle == Goto("console", "tick") /\ UNCHANGED <<drv, radio, crossed>>

LoopTick == Goto("tick", "frames") /\ drv' = Tick(drv) /\ UNCHANGED <<radio, crossed>>

FramesDone ==
  /\ Goto("frames", "console")
  /\ in = << >>
  /\ UNCHANGED <<drv, radio, crossed>>
-----------------------------------------------------------------------------
Main ==
  \/ Start \/ InitFramesDone \/ InitStatus
  \/ (\E cmd \in UserCommands : ConsoleCommand(cmd)) \/ ConsoleIdle
  \/ LoopTick \/ FramesDone

Next ==
  \/ Answer \/ (\E n \in Networks \cup {Undefined} : NewNetwork(n)) \/ Lose \/ Second
  \/ Main \/ Dispatch

Spec == Init /\ [][Next]_vars

(***************************************************************************)
(* The main loop runs, time passes, and a frame that arrived is dispatched *)
(* before long.  The radio owes no answer.                                 *)
(***************************************************************************)
Fairness == WF_vars(Main) /\ WF_vars(Second) /\ SF_vars(Dispatch)

FairSpec == Spec /\ Fairness
-----------------------------------------------------------------------------
Request == [used : BOOLEAN, seq : 0 .. MaxSeq, ttl : 0 .. BuildTime + LocalTime + ReuseTime,
            cb : {"none", "list", "user"}, id : 0 .. MaxId, cmd : Command]

Handle  == Slots \X (0 .. MaxSeq)
Asking  == [id : 1 .. MaxId, cmd : Command, by : Handle]
List    == [regs : {Regs(TRUE), Regs(FALSE)}, index : 1 .. Len(QueryRegs) + 1,
            status : {"running", "done", "timeout", "error"}]
Flag    == {"begin", "inprogress", "done", "error", "refresh"}
Address == Networks \cup {Undefined, "zero"}

Driver ==
  [table : [Slots -> Request], id : 0 .. MaxId, list : List, flags : SUBSET Flag,
   joined : BOOLEAN, net : Address, due : BOOLEAN, out : Seq(Asking)]

Answered ==
  [type : {"answer"}, id : 1 .. MaxId, cmd : Command, by : Handle,
   value : Networks \cup {Undefined}]
Status == [type : {"status"}, status : {"joined", "left"}]

TypeOK ==
  /\ drv \in Driver /\ in \in Seq(Answered \cup Status)
  /\ pc \in {"start", "init_frames", "init_status", "console", "tick", "frames"}
  /\ radioNet \in Networks \cup {Undefined}
  /\ changes \in 0 .. MaxChanges /\ lost \in 0 .. MaxLost
  /\ missed \in BOOLEAN /\ crossed \in BOOLEAN

(***************************************************************************)
(* _xbee_next_frame_id counts on without looking at what is out: the next  *)
(* ID is not that of a request in the table, of a command under way to the *)
(* radio or of an answer under way from it, in the query that begins anew  *)
(* with every status frame as in the console's commands.                   *)
(***************************************************************************)
IdFree == NextId(drv.id) \notin IdsInUse

(***************************************************************************)
(* An answer reaches the request that asked for it or none: not a request  *)
(* made in the same slot after a time-out, nor one for the same command.   *)
(***************************************************************************)
RightRequest == ~crossed

(***************************************************************************)
(* While the query is marked as under way there is one request for it in   *)
(* the table, waiting for the command the list has got to: the flag that   *)
(* keeps a second query out is never left behind.                          *)
(***************************************************************************)
ListRequests == {i \in Slots : drv.table[i].used /\ drv.table[i].cb = "list"}

QueryHasRequest ==
  IF "inprogress" \in drv.flags
  THEN /\ drv.list.status = "running"
       /\ \E i \in Slots : ListRequests = {i} /\ drv.table[i].cmd = drv.list.regs[drv.list.index]
  ELSE ListRequests = {}

(***************************************************************************)
(* xbee_cmd_query_device: "aborting; query already in progress".  There is *)
(* never a second request working through the one list.                    *)
(***************************************************************************)
OneQuery == Cardinality(ListRequests) <= 1

(***************************************************************************)
(* device.h of XBEE_DEV_FLAG_QUERY_INPROGRESS: "query is in progress".     *)
(* The flag is not left standing with no request to end the query.         *)
(***************************************************************************)
QueryAlive == "inprogress" \in drv.flags => ListRequests # {}

(***************************************************************************)
(* xbee_cmd_query_device: "if we were trying to refresh, we've set a flag  *)
(* (QUERY_REFRESH) and can restart the refresh after the current pass      *)
(* finishes".  A pass of the query does not end with a refresh wanted and  *)
(* none begun.                                                             *)
(***************************************************************************)
RefreshRestarts ==
  [][ "inprogress" \in drv.flags /\ "inprogress" \notin drv'.flags
        => "refresh" \notin drv'.flags ]_vars

(***************************************************************************)
(* The device knows the radio's address when nothing says otherwise: no    *)
(* status frame under way or lost, no query under way, wanted or failed.   *)
(***************************************************************************)
Settled ==
  /\ \A k \in DOMAIN in : in[k].type # "status"
  /\ drv.flags \cap {"inprogress", "refresh", "error"} = {}
  /\ "done" \in drv.flags /\ ~missed

AddressIsCurrent == Settled => drv.net = radioNet

(***************************************************************************)
(* Every request leaves the table again, whether it is answered or not.    *)
(***************************************************************************)
RequestsEnd ==
  \A i \in Slots, s \in 0 .. MaxSeq :
    drv.table[i].used /\ drv.table[i].seq = s ~> drv.table[i].seq # s

(***************************************************************************)
(* sys_xbee_init gets out of its loop even if the radio answers nothing.   *)
(***************************************************************************)
InitEnds == <>(pc = "console")
=============================================================================
