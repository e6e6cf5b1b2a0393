------------------------------ MODULE Veeprom ------------------------------
(***************************************************************************)
(* The virtual EEPROM of veeprom.c on two flash pages, one access to the   *)
(* flash at a time, with a reset between any two of them.                  *)
(*                                                                         *)
(* A byte is the set of its bits that are one: erasing sets all, and       *)
(* programming can only clear, so a programmed byte is the intersection.   *)
(* The four bytes VEEP and the byte of the active mark are a flag each: a  *)
(* partly written VEEP compares unequal like a missing one.                *)
(***************************************************************************)
EXTENDS Naturals

CONSTANTS
  DataLen,         \* VEEPROM_DATA_LEN: the bytes of data in a block
  Bits,        \* the bits of a byte
  MaxWrites,   \* bound: calls of veeprom_write
  MaxResets,   \* bound: resets
  Careful      \* TRUE: no write is begun once a reset cut one short

ASSUME VeepromAssumption ==
  /\ DataLen \in Nat \ {0}
  /\ MaxWrites \in Nat /\ MaxResets \in Nat
  /\ Careful \in BOOLEAN

VARIABLES
  flash,    \* the two blocks
  pc,       \* the next access to the flash
  blk,      \* block: the loop variable, or the block an erase is about
  ret,      \* where veeprom_erase_block returns to
  act,      \* actblock
  req,      \* the write under way, a function on the cells it covers
  idx,      \* the next cell to program
  cut,      \* a reset came in the middle of a write
  writes, resets

vars == <<flash, pc, blk, ret, act, req, idx, cut, writes, resets>>

Cell  == 0 .. DataLen - 1
Byte  == SUBSET Bits
Block == {0, 1}
None  == 2               \* veeprom_get_actblock found no active block

\* Cells off up to, not including, top: what a call with off and len covers
\* once towrite is cut down to the end of the block.
Covered(off, top) == {c \in Cell : off <= c /\ c < top}
Writes == UNION {[Covered(off, top) -> Byte] : off \in Cell, top \in 0 .. DataLen}
NoWrite == [c \in {} |-> Bits]

Page == [magic : BOOLEAN, active : BOOLEAN, data : [Cell -> Byte]]

Locations == {"init", "idle", "find", "check", "prog", "markold",
              "copy", "marknew", "erase", "magic"}

TypeOK ==
  /\ flash \in [Block -> Page]
  /\ pc \in Locations
  /\ blk \in 0 .. None
  /\ ret \in {"init", "find", "idle"}
  /\ act \in 0 .. None
  /\ req \in Writes
  /\ idx \in 0 .. DataLen
  /\ cut \in BOOLEAN
  /\ writes \in 0 .. MaxWrites
  /\ resets \in 0 .. MaxResets

----------------------------------------------------------------------------
\* VEEPROM_BLOCK_ADDR: every b that is not 0 is the second block.
BlockAddr(b) == IF b = 0 THEN 0 ELSE 1

\* !actblock
Other(b) == IF b = 0 THEN 1 ELSE 0

Erased == [magic |-> FALSE, active |-> FALSE, data |-> [c \in Cell |-> Bits]]

\* flash_prog_byte on a byte of data: bits are cleared, never set.
ProgByte(b, c, v) == [flash EXCEPT ![b].data[c] = @ \cap v]

\* veeprom_mark_active
MarkActive(b) == [flash EXCEPT ![BlockAddr(b)].active = TRUE]

\* veeprom_erase_block, up to its first access; block 0 stands for any number out of range.
EraseBlock(b, r) ==
  /\ pc' = "erase" /\ ret' = r
  /\ blk' = IF b >= None THEN 0 ELSE b

Init ==
  /\ flash = [b \in Block |-> Erased]
  /\ pc = "init" /\ blk = 0 /\ ret = "init"
  /\ act = None /\ req = NoWrite /\ idx = 0
  /\ cut = FALSE /\ writes = 0 /\ resets = 0

\* veeprom_init: one turn of its loop.
InitBlock ==
  /\ pc = "init"
  /\ \/ /\ blk = None
        /\ pc' = "idle"
        /\ UNCHANGED <<blk, ret>>
     \/ /\ blk # None /\ flash[blk].magic
        /\ blk' = blk + 1
        /\ UNCHANGED <<pc, ret>>
     \/ /\ blk # None /\ ~flash[blk].magic
        /\ EraseBlock(blk, "init")
  /\ UNCHANGED <<flash, act, req, idx, cut, writes, resets>>

\* veeprom_erase_block: flash_erase_page, then flash_prog of the block mark.
ErasePage ==
  /\ pc = "erase"
  /\ flash' = [flash EXCEPT ![blk] = Erased]
  /\ pc' = "magic"
  /\ UNCHANGED <<blk, ret, act, req, idx, cut, writes, resets>>

ProgMagic ==
  /\ pc = "magic"
  /\ flash' = [flash EXCEPT ![blk].magic = TRUE]
  /\ pc' = ret
  /\ req' = IF ret = "idle" THEN NoWrite ELSE req
  /\ UNCHANGED <<blk, ret, act, idx, cut, writes, resets>>

\* A call of veeprom_write, up to veeprom_get_actblock.
CallWrite ==
  /\ pc = "idle" /\ writes < MaxWrites
  /\ Careful => ~cut
  /\ req' \in Writes
  /\ writes' = writes + 1
  /\ pc' = "find" /\ blk' = 0
  /\ UNCHANGED <<flash, ret, act, idx, cut, resets>>

\* veeprom_get_actblock: one turn of its loop.  A block without its mark is
\* erased and then looked at like any other.
Active(b) == flash[b].active

GetActblock ==
  /\ pc = "find"
  /\ \/ /\ blk # None /\ ~flash[blk].magic
        /\ EraseBlock(blk, "find")
        /\ UNCHANGED act
     \/ /\ blk # None /\ flash[blk].magic /\ ~Active(blk)
        /\ blk' = blk + 1
        /\ UNCHANGED <<pc, ret, act>>
     \/ /\ blk # None => flash[blk].magic /\ Active(blk)
        /\ act' = blk
        /\ pc' = "check"
        /\ UNCHANGED <<blk, ret>>
  /\ UNCHANGED <<flash, req, idx, cut, writes, resets>>

\* Faulty: the operands of the comparison are swapped.
ReusableSwapped == \A c \in DOMAIN req : flash[BlockAddr(act)].data[c] \subseteq req[c]

\* Can the data be written where it is, clearing bits only?
Reusable == \A c \in DOMAIN req : req[c] \subseteq flash[BlockAddr(act)].data[c]

FirstCell == IF req = NoWrite THEN DataLen ELSE CHOOSE c \in DOMAIN req : \A d \in DOMAIN req : c <= d

Check ==
  /\ pc = "check"
  /\ \/ /\ Reusable
        /\ idx' = FirstCell
        /\ pc' = IF req = NoWrite THEN "markold" ELSE "prog"
     \/ /\ ~Reusable
        /\ idx' = 0
        /\ pc' = "copy"
  /\ UNCHANGED <<flash, blk, ret, act, req, cut, writes, resets>>

\* In place: one byte of the loop.
Program ==
  /\ pc = "prog"
  /\ flash' = ProgByte(BlockAddr(act), idx, req[idx])
  /\ idx' = idx + 1
  /\ pc' = IF idx + 1 \in DOMAIN req THEN "prog" ELSE "markold"
  /\ UNCHANGED <<blk, ret, act, req, cut, writes, resets>>

MarkOld ==
  /\ pc = "markold"
  /\ flash' = MarkActive(act)
  /\ pc' = "idle"
  /\ req' = NoWrite
  /\ UNCHANGED <<blk, ret, act, idx, cut, writes, resets>>

\* Into the other block: one byte of the loop, which nothing erased before.
Source(c) == IF c \in DOMAIN req THEN req[c] ELSE flash[BlockAddr(act)].data[c]

Copy ==
  /\ pc = "copy"
  /\ flash' = ProgByte(Other(act), idx, Source(idx))
  /\ idx' = idx + 1
  /\ pc' = IF idx + 1 < DataLen THEN "copy" ELSE "marknew"
  /\ UNCHANGED <<blk, ret, act, req, cut, writes, resets>>

\* Faulty: the old block is erased before the new one is marked.
MarkNewLate ==
  /\ pc = "marknew"
  /\ flash' = [flash EXCEPT ![BlockAddr(act)] = Erased, ![Other(act)].active = TRUE]
  /\ pc' = "idle" /\ req' = NoWrite
  /\ UNCHANGED <<blk, ret, act, idx, cut, writes, resets>>

MarkNew ==
  /\ pc = "marknew"
  /\ flash' = MarkActive(Other(act))
  /\ EraseBlock(act, "idle")
  /\ UNCHANGED <<act, req, idx, cut, writes, resets>>

\* The processor loses its RAM and starts again with veeprom_init.
Reset ==
  /\ resets < MaxResets
  /\ resets' = resets + 1
  /\ cut' = (cut \/ req # NoWrite)
  /\ pc' = "init" /\ blk' = 0 /\ ret' = "init"
  /\ act' = None /\ req' = NoWrite /\ idx' = 0
  /\ UNCHANGED <<flash, writes>>

Next ==
  \/ InitBlock \/ ErasePage \/ ProgMagic
  \/ CallWrite \/ GetActblock \/ Check
  \/ Program \/ MarkOld \/ Copy \/ MarkNew
  \/ Reset

Spec == Init /\ [][Next]_vars

----------------------------------------------------------------------------
(***************************************************************************)
(* What veeprom_read would return for each cell if it were called now: the *)
(* data of the block veeprom_get_actblock finds.                           *)
(***************************************************************************)
Content == IF flash[0].magic /\ flash[0].active THEN flash[0].data ELSE flash[1].data

E == INSTANCE Eeprom WITH content <- Content, pending <- req

(***************************************************************************)
(* A reset at any point of a write leaves each cell of the write with its  *)
(* old or its new value and every other cell alone, and a write that       *)
(* returned is there for good: the two blocks are an EEPROM.  This holds   *)
(* for an application that begins no write after a reset has cut one short *)
(* (Careful): a copy that was cut short is left where the next one goes.   *)
(***************************************************************************)
ImplementsEeprom == E!Spec

(***************************************************************************)
(* When a write is about to return, what it wrote is what is read.         *)
(***************************************************************************)
WrittenIsRead ==
  [][req # NoWrite /\ req' = NoWrite /\ resets' = resets =>
       \A c \in DOMAIN req : Content'[c] = req[c]]_vars
============================================================================
