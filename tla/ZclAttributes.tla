--------------------------- MODULE ZclAttributes ---------------------------
(***************************************************************************)
(* The attributes of a server cluster and the three Write Attributes       *)
(* commands of zigbee_zcl.c, with the one attribute whose write has an     *)
(* effect, IdentifyTime of zcl_identify.c.                                 *)
(*                                                                         *)
(* A value is the unsigned number its bytes make.  One size stands for     *)
(* those of all types; layout and byte order are left out.                 *)
(***************************************************************************)
EXTENDS Integers, SequencesExt

CONSTANTS
  Attributes,  \* the attribute table: from attribute IDs to entries of type,
               \* readonly, ghost (the value pointer is NULL), min and max
  Size,        \* bytes of a value
  ByteSpan,    \* values of a byte, 256
  Records,     \* attribute records that a client may write
  MaxRecords,  \* bound: records in a request
  MaxNow       \* bound: seconds

ASSUME ZclAssumption ==
  /\ Size \in 1 .. 4 /\ ByteSpan \in Nat \ {0} /\ ByteSpan % 2 = 0
  /\ MaxRecords \in Nat /\ MaxNow \in Nat

VARIABLES
  value,      \* what the entries point to
  ends,       \* zcl_identify_end
  now,        \* xbee_seconds_timer
  request,    \* the write request just handled, if any
  refused     \* the records of it that its response has an error status for

zclVars == <<value, ends, now, request, refused>>

Id == DOMAIN Attributes
Span == ByteSpan ^ Size
IdentifyTime == "identify_time"

WriteCommands == {"write", "write_noresp", "write_undiv"}

----------------------------------------------------------------------------
(* Limits *)

\* The number that the bytes of a signed value stand for.
SignedValue(v) == IF 2 * v < Span THEN v ELSE v - Span

\* What zcl_check_minmax takes it for: with the sign bit set all bits from bit
\* number Size on are set, not those from bit number 8 * Size on.
SignExtended(v) ==
  IF 2 * v < Span \/ Size = 4 THEN SignedValue(v) ELSE (v % 2 ^ Size) - 2 ^ Size

\* zcl_check_minmax; an entry without HAS_MIN or HAS_MAX has limits out of reach.
InLimits(e, v) ==
  LET n == IF e.type = "signed" THEN SignExtended(v) ELSE v
  IN e.min <= n /\ n <= e.max

----------------------------------------------------------------------------
(* Writing.  A record is complete, or cut: the request ends in the middle of *)
(* it or its type has no known size, so that nothing behind it can be read. *)

\* Faulty: a read-only attribute is found out when it is assigned to.
MayWriteLate(r, assign) == assign => ~Attributes[r.id].readonly

MayWrite(r, assign) == ~Attributes[r.id].readonly

\* zcl_parse_attribute_record and zcl_decode_attribute: is the status SUCCESS?
Accepts(r, assign) ==
  /\ r.id \in Id /\ ~r.cut
  /\ LET e == Attributes[r.id]
     IN /\ r.type = e.type
        /\ MayWrite(r, assign)
        /\ InLimits(e, r.data)
        /\ e.type = "boolean" => r.data <= 1
        /\ assign => ~e.ghost

\* ZCL_STATUS_MALFORMED_COMMAND: what follows is not looked at.
Malformed(r) == r.cut

Seen(recs) == {i \in DOMAIN recs : \A j \in 1 .. i - 1 : ~Malformed(recs[j])}

Errors(recs, assign) == {i \in Seen(recs) : ~Accepts(recs[i], assign)}

\* The loop over the records of a request, when they are assigned.
Assigned(recs) ==
  LET vals[i \in 0 .. Len(recs)] ==
        IF i = 0 THEN value
        ELSE IF i \in Seen(recs) \ Errors(recs, TRUE)
        THEN [vals[i - 1] EXCEPT ![recs[i].id] = recs[i].data] ELSE vals[i - 1]
  IN vals[Len(recs)]

\* _zcl_identify_time_set, called for a record that is assigned.
SetIdentifyTime(recs) ==
  ends' = IF \E i \in Seen(recs) \ Errors(recs, TRUE) : recs[i].id = IdentifyTime
          THEN now + value'[IdentifyTime] ELSE ends

\* Pass 1 of _zcl_write_attributes
AssignPass(recs) ==
  /\ value' = Assigned(recs)
  /\ SetIdentifyTime(recs)
  /\ refused' = Errors(recs, TRUE)

\* Pass 0: nothing is assigned.
CheckPassFails(recs) ==
  /\ Errors(recs, FALSE) # {}
  /\ refused' = Errors(recs, FALSE)
  /\ UNCHANGED <<value, ends>>

\* _zcl_write_attributes
WriteAttributes(cmd, recs) ==
  /\ \/ cmd # "write_undiv" /\ AssignPass(recs)
     \/ cmd = "write_undiv" /\ CheckPassFails(recs)
     \/ cmd = "write_undiv" /\ Errors(recs, FALSE) = {} /\ AssignPass(recs)
  /\ request' = [cmd |-> cmd, recs |-> recs]
  /\ UNCHANGED now

----------------------------------------------------------------------------
(* Identify *)

NoRequest == [cmd |-> "none", recs |-> << >>]
Handled == request' = NoRequest /\ refused' = {}

\* zcl_identify_isactive, called by the main program, by the read function of
\* the attribute and for an Identify Query command.
IdentifyIsActive ==
  /\ IdentifyTime \in Id /\ value[IdentifyTime] # 0
  /\ value' = [value EXCEPT ![IdentifyTime] = IF ends > now THEN ends - now ELSE 0]
  /\ Handled
  /\ UNCHANGED <<ends, now>>

\* ZCL_IDENTIFY_CMD_IDENTIFY
IdentifyCommand(seconds) ==
  /\ value' = [value EXCEPT ![IdentifyTime] = seconds]
  /\ ends' = now + seconds
  /\ Handled
  /\ UNCHANGED now

NextSecond ==
  /\ now < MaxNow
  /\ now' = now + 1
  /\ Handled
  /\ UNCHANGED <<value, ends>>

Requests == UNION {[1 .. n -> Records] : n \in 0 .. MaxRecords}

ZclInit ==
  /\ value = [id \in Id |-> 0]
  /\ ends = 0 /\ now = 0
  /\ request = NoRequest /\ refused = {}

ZclNext ==
  \/ \E cmd \in WriteCommands, recs \in Requests : WriteAttributes(cmd, recs)
  \/ IdentifyIsActive
  \/ \E r \in Records : r.id = IdentifyTime /\ r.id \in Id /\ IdentifyCommand(r.data)
  \/ NextSecond

ZclSpec == ZclInit /\ [][ZclNext]_zclVars

----------------------------------------------------------------------------
Ghostly(recs) == \E i \in DOMAIN recs : recs[i].id \in Id /\ Attributes[recs[i].id].ghost

(***************************************************************************)
(* An undivided write is one: its response has no error, and every         *)
(* attribute it names has the last value it gives for it, or there is one, *)
(* and neither a value nor the end of identification mode is touched.      *)
(* (Attributes without a value are left out: only the second pass finds    *)
(* out about them.)                                                        *)
(***************************************************************************)
AllOrNothing ==
  [][LET recs == request'.recs
     IN request'.cmd = "write_undiv" /\ ~Ghostly(recs) /\ now' = now /\ request' # request =>
          IF refused' = {}
          THEN \A i \in DOMAIN recs :
                 (\A j \in i + 1 .. Len(recs) : recs[j].id # recs[i].id)
                   => value'[recs[i].id] = recs[i].data
          ELSE UNCHANGED <<value, ends>>]_zclVars

(***************************************************************************)
(* No write takes an attribute out of its limits.                          *)
(***************************************************************************)
LimitsHold ==
  \A id \in Id :
    LET e == Attributes[id]
        n == IF e.type = "signed" THEN SignedValue(value[id]) ELSE value[id]
    IN e.min <= n /\ n <= e.max
=============================================================================
