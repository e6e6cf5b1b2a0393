--------------------------- MODULE VeepromProofs ---------------------------
(***************************************************************************)
(* Proof that the two flash blocks of Veeprom implement Eeprom for every   *)
(* size of a block, set of bits and number of writes and resets, as long   *)
(* as the application begins no write after a reset cut one short.         *)
(***************************************************************************)
EXTENDS Veeprom, TLAPS

Blank(b) == ~flash[b].active /\ flash[b].data = [c \in Cell |-> Bits]

\* No write is under way: the block that is not read is blank, and both are as
\* long as none is active.
Consistent ==
  /\ flash[0].active => Blank(1)
  /\ ~flash[0].active => Blank(0)
  /\ ~flash[0].active /\ ~flash[1].active => Blank(1)

\* act is what veeprom_get_actblock returns.
Found ==
  /\ act = 0 <=> flash[0].active
  /\ act = 1 => flash[1].active
  /\ act = None => ~flash[1].active

Stored(b, S) == \A c \in S : flash[b].data[c] = req[c]

FlashInv ==
  /\ \A b \in Block : ~flash[b].magic => flash[b] = Erased
  /\ pc \in {"idle", "find", "check", "prog", "markold", "copy", "marknew"} =>
       flash[0].magic /\ flash[1].magic
  /\ pc = "init" \/ (pc \in {"erase", "magic"} /\ ret = "init") =>
       \A b \in Block : b < blk => flash[b].magic

QuietInv ==
  /\ pc \in {"init", "idle"} => req = NoWrite
  /\ pc \in {"init", "idle"} /\ ~cut => Consistent
  /\ pc \in {"erase", "magic"} => ret # "find"
  /\ pc \in {"erase", "magic"} /\ ret = "init" =>
       /\ blk \in Block /\ req = NoWrite
       /\ flash[blk] = Erased
       /\ ~cut => Consistent

FindInv ==
  /\ pc \in {"find", "check", "prog", "markold", "copy", "marknew"} => ~cut
  /\ pc \in {"find", "check"} => Consistent
  /\ pc = "find" => /\ blk # 0 => ~flash[0].active
                    /\ blk = None => ~flash[1].active
  /\ pc \in {"check", "prog", "markold", "copy", "marknew"} => Found

PlaceInv ==
  /\ pc \in {"prog", "markold"} => IF act = 0 THEN Blank(1) ELSE Blank(0)
  /\ pc = "markold" => /\ Stored(BlockAddr(act), DOMAIN req)
                       /\ req = NoWrite => Consistent
  /\ pc = "prog" =>
       /\ idx \in DOMAIN req
       /\ \A c \in DOMAIN req :
            IF c < idx THEN flash[BlockAddr(act)].data[c] = req[c]
                       ELSE req[c] \subseteq flash[BlockAddr(act)].data[c]

CopyInv ==
  /\ pc \in {"copy", "marknew"} =>
       /\ act # None /\ req # NoWrite
       /\ ~flash[Other(act)].active
       /\ idx \in 0 .. DataLen
       /\ \A c \in Cell : flash[Other(act)].data[c] = IF c < idx THEN Source(c) ELSE Bits
  /\ pc = "copy" => idx < DataLen
  /\ pc = "marknew" => idx = DataLen
  /\ pc \in {"erase", "magic"} /\ ret = "idle" =>
       /\ ~cut /\ req # NoWrite
       /\ act \in Block /\ blk = act
       /\ flash[Other(act)].active /\ flash[Other(act)].magic
       /\ Stored(Other(act), DOMAIN req)
  /\ pc = "erase" /\ ret = "idle" =>
       \A c \in Cell \ DOMAIN req : flash[Other(act)].data[c] = flash[act].data[c]
  /\ pc = "magic" /\ ret = "idle" => flash[act] = Erased

IInv == TypeOK /\ FlashInv /\ QuietInv /\ FindInv /\ PlaceInv /\ CopyInv

-----------------------------------------------------------------------------
\* What a request covers is an interval of cells.
LEMMA WriteIsInterval ==
  ASSUME NEW r \in Writes
  PROVE  \E off \in Cell, top \in 0 .. DataLen : r \in [Covered(off, top) -> Byte]
BY DEF Writes

LEMMA IntervalIsWrite ==
  ASSUME NEW off \in Cell, NEW top \in 0 .. DataLen, NEW r \in [Covered(off, top) -> Byte]
  PROVE  r \in Writes
<1> DEFINE W == {[Covered(o, t) -> Byte] : o \in Cell, t \in 0 .. DataLen}
<1>1. [Covered(off, top) -> Byte] \in W
  OBVIOUS
<1>2. Writes = UNION W
  BY DEF Writes
<1> HIDE DEF W
<1> QED BY <1>1, <1>2

LEMMA NoWriteIsWrite == NoWrite \in Writes
<1>1. 0 \in Cell /\ 0 \in 0 .. DataLen /\ Covered(0, 0) = {}
  BY VeepromAssumption DEF Cell, Covered
<1>2. NoWrite \in [Covered(0, 0) -> Byte]
  BY <1>1 DEF NoWrite, Byte
<1> QED BY <1>1, <1>2, IntervalIsWrite

LEMMA WriteType ==
  ASSUME NEW r \in Writes
  PROVE  /\ DOMAIN r \subseteq Cell
         /\ r \in [DOMAIN r -> Byte]
BY WriteIsInterval DEF Covered

\* A request that covers no cell is NoWrite.
LEMMA EmptyWrite ==
  ASSUME NEW r \in Writes, DOMAIN r = {}
  PROVE  r = NoWrite
<1>1. r \in [{} -> Byte]
  BY WriteType
<1>2. NoWrite \in [{} -> Byte]
  BY DEF NoWrite, Byte
<1> QED BY <1>1, <1>2

\* veeprom_write starts at the first of the cells it covers.
LEMMA FirstIsLeast ==
  ASSUME TypeOK, req # NoWrite
  PROVE  /\ FirstCell \in DOMAIN req
         /\ \A d \in DOMAIN req : FirstCell <= d
<1>1. req \in Writes
  BY DEF TypeOK
<1>2. PICK off \in Cell, top \in 0 .. DataLen : req \in [Covered(off, top) -> Byte]
  BY <1>1, WriteIsInterval
<1>3. DOMAIN req # {}
  BY <1>1, EmptyWrite
<1>4. off \in DOMAIN req /\ \A d \in DOMAIN req : off <= d
  BY <1>2, <1>3, VeepromAssumption DEF Covered, Cell
<1>5. \E c \in DOMAIN req : \A d \in DOMAIN req : c <= d
  BY <1>4
<1> QED BY <1>5 DEF FirstCell

\* The cell behind the last one covered is covered no more, nor is any further one.
LEMMA NoGap ==
  ASSUME TypeOK, NEW c \in DOMAIN req, c + 1 \notin DOMAIN req, NEW d \in DOMAIN req
  PROVE  d < c + 1
<1>1. PICK off \in Cell, top \in 0 .. DataLen : req \in [Covered(off, top) -> Byte]
  BY WriteIsInterval DEF TypeOK
<1> QED BY <1>1, VeepromAssumption DEF Covered, Cell

LEMMA InitHolds == Init => IInv
<1> SUFFICES ASSUME Init PROVE IInv
  OBVIOUS
<1>2. Erased \in Page /\ ~Erased.active /\ Erased.data = [c \in Cell |-> Bits]
  BY DEF Erased, Page, Byte
<1>3. TypeOK
  <2>1. flash \in [Block -> Page]
    BY <1>2 DEF Init
  <2>2. blk \in 0 .. None /\ act \in 0 .. None /\ idx \in 0 .. DataLen /\ req \in Writes
    BY NoWriteIsWrite, VeepromAssumption DEF Init, None
  <2>3. pc \in Locations /\ ret \in {"init", "find", "idle"} /\ cut \in BOOLEAN
    BY Zenon DEF Init, Locations
  <2>4. writes \in 0 .. MaxWrites /\ resets \in 0 .. MaxResets
    BY VeepromAssumption DEF Init
  <2> QED BY <2>1, <2>2, <2>3, <2>4 DEF TypeOK
<1>4. Consistent
  BY <1>2 DEF Init, Consistent, Blank, Block
<1> QED
  BY <1>2, <1>3, <1>4 DEF Init, IInv, FlashInv, QuietInv, FindInv, PlaceInv, CopyInv, Block
LEMMA BitsAreByte == Bits \in Byte /\ \A x, y \in Byte : x \cap y \in Byte
BY DEF Byte

\* What erasing does to the two blocks.
LEMMA EraseEffect ==
  ASSUME TypeOK, NEW b \in Block, flash' = [flash EXCEPT ![b] = Erased]
  PROVE  /\ flash' \in [Block -> Page]
         /\ flash'[b] = Erased
         /\ \A d \in Block : d # b => flash'[d] = flash[d]
<1>1. Erased \in Page
  BY DEF Erased, Page, Byte
<1> QED BY <1>1 DEF TypeOK

\* What a flag of a block being programmed does to the two blocks.
LEMMA MarkEffect ==
  ASSUME TypeOK, NEW b \in Block, flash' = [flash EXCEPT ![b].active = TRUE]
  PROVE  /\ flash' \in [Block -> Page]
         /\ flash'[b].active /\ flash'[b].magic = flash[b].magic
         /\ flash'[b].data = flash[b].data
         /\ \A d \in Block : d # b => flash'[d] = flash[d]
<1>1. flash[b] \in Page
  BY DEF TypeOK
<1>2. flash'[b] = [flash[b] EXCEPT !.active = TRUE] /\ DOMAIN flash' = Block
  BY DEF TypeOK
<1>3. \A d \in Block : d # b => flash'[d] = flash[d]
  BY DEF TypeOK
<1>4. flash'[b] \in Page
  BY <1>1, <1>2 DEF Page
<1>5. flash' \in [Block -> Page]
  BY <1>3, <1>4 DEF TypeOK
<1> QED BY <1>1, <1>2, <1>3, <1>5 DEF Page

LEMMA MagicEffect ==
  ASSUME TypeOK, NEW b \in Block, flash' = [flash EXCEPT ![b].magic = TRUE]
  PROVE  /\ flash' \in [Block -> Page]
         /\ flash'[b].magic /\ flash'[b].active = flash[b].active
         /\ flash'[b].data = flash[b].data
         /\ \A d \in Block : d # b => flash'[d] = flash[d]
<1>1. flash[b] \in Page
  BY DEF TypeOK
<1>2. flash'[b] = [flash[b] EXCEPT !.magic = TRUE] /\ DOMAIN flash' = Block
  BY DEF TypeOK
<1>3. \A d \in Block : d # b => flash'[d] = flash[d]
  BY DEF TypeOK
<1>4. flash'[b] \in Page
  BY <1>1, <1>2 DEF Page
<1>5. flash' \in [Block -> Page]
  BY <1>3, <1>4 DEF TypeOK
<1> QED BY <1>1, <1>2, <1>3, <1>5 DEF Page

\* What a byte of data being programmed does to the two blocks.
LEMMA ProgEffect ==
  ASSUME TypeOK, NEW b \in Block, NEW c \in Cell, NEW v \in Byte,
         flash' = ProgByte(b, c, v)
  PROVE  /\ flash' \in [Block -> Page]
         /\ flash'[b].active = flash[b].active /\ flash'[b].magic = flash[b].magic
         /\ flash'[b].data = [flash[b].data EXCEPT ![c] = @ \cap v]
         /\ \A d \in Block : d # b => flash'[d] = flash[d]
<1>1. flash[b] \in Page
  BY DEF TypeOK
<1>2. flash'[b] = [flash[b] EXCEPT !.data[c] = @ \cap v] /\ DOMAIN flash' = Block
  BY DEF TypeOK, ProgByte
<1>3. \A d \in Block : d # b => flash'[d] = flash[d]
  BY DEF TypeOK, ProgByte
<1>4. /\ flash'[b].active = flash[b].active /\ flash'[b].magic = flash[b].magic
      /\ flash'[b].data = [flash[b].data EXCEPT ![c] = @ \cap v]
  BY <1>1, <1>2 DEF Page
<1>5. flash'[b].data \in [Cell -> Byte]
  BY <1>1, <1>4, BitsAreByte DEF Page
<1>6. flash'[b] \in Page
  BY <1>1, <1>2, <1>5 DEF Page
<1>7. flash' \in [Block -> Page]
  BY <1>2, <1>3, <1>6 DEF TypeOK, ProgByte
<1> QED BY <1>3, <1>4, <1>7
LEMMA InitBlockStep ==
  ASSUME IInv, InitBlock
  PROVE  IInv'
<1> USE DEF Block, None
<1>1. TypeOK'
  <2>1. flash' \in [Block -> Page]
    BY DEF IInv, TypeOK, InitBlock
  <2>2. /\ pc' \in Locations /\ ret' \in {"init", "find", "idle"} /\ cut' \in BOOLEAN
    BY DEF IInv, TypeOK, InitBlock, Locations, EraseBlock
  <2>3. blk' \in 0 .. None /\ act' \in 0 .. None /\ idx' \in 0 .. DataLen
    BY VeepromAssumption DEF IInv, TypeOK, FlashInv, QuietInv, FindInv, PlaceInv, CopyInv, InitBlock, Locations, EraseBlock, Cell
  <2>4. req' \in Writes
    BY DEF IInv, TypeOK, FlashInv, QuietInv, FindInv, PlaceInv, CopyInv, InitBlock, Locations, EraseBlock
  <2>5. writes' \in 0 .. MaxWrites /\ resets' \in 0 .. MaxResets
    BY VeepromAssumption DEF IInv, TypeOK, FlashInv, QuietInv, FindInv, PlaceInv, CopyInv, InitBlock, Locations, EraseBlock
  <2> QED BY <2>1, <2>2, <2>3, <2>4, <2>5 DEF TypeOK
<1>2. FlashInv'
  BY VeepromAssumption DEF IInv, TypeOK, FlashInv, QuietInv, FindInv, PlaceInv, CopyInv, InitBlock, EraseBlock
<1>3. QuietInv'
  <2>1. CASE blk = None
    BY <2>1 DEF IInv, QuietInv, InitBlock, Consistent, Blank
  <2>2. CASE blk # None /\ flash[blk].magic
    BY <2>2 DEF IInv, QuietInv, InitBlock, Consistent, Blank
  <2>3. CASE blk # None /\ ~flash[blk].magic
    <3>1. blk \in Block /\ flash[blk] = Erased
      BY <2>3 DEF IInv, TypeOK, FlashInv
    <3>2. pc' = "erase" /\ ret' = "init" /\ blk' = blk /\ UNCHANGED <<flash, req, cut>>
      BY <2>3, <3>1 DEF InitBlock, EraseBlock
    <3> QED BY <3>1, <3>2 DEF IInv, QuietInv, InitBlock, Consistent, Blank
  <2> QED BY <2>1, <2>2, <2>3
<1>4. FindInv'
  BY VeepromAssumption DEF IInv, TypeOK, FlashInv, QuietInv, FindInv, PlaceInv, CopyInv, InitBlock, Consistent, Blank, Found, EraseBlock, Erased
<1>5. PlaceInv'
  BY VeepromAssumption DEF IInv, TypeOK, FlashInv, QuietInv, FindInv, PlaceInv, CopyInv, InitBlock, Consistent, Blank, Stored, BlockAddr, EraseBlock, Erased
<1>6. CopyInv'
  BY VeepromAssumption DEF IInv, TypeOK, FlashInv, QuietInv, FindInv, PlaceInv, CopyInv, InitBlock, Stored, Source, Other, BlockAddr, EraseBlock, Erased
<1> QED BY <1>1, <1>2, <1>3, <1>4, <1>5, <1>6 DEF IInv

LEMMA ErasePageStep ==
  ASSUME IInv, ErasePage
  PROVE  IInv'
<1> USE DEF Block, None
<1>7. blk \in Block
  BY DEF IInv, TypeOK, QuietInv, CopyInv, ErasePage
<1>8. /\ flash' \in [Block -> Page]
      /\ flash'[blk] = Erased
      /\ \A d \in Block : d # blk => flash'[d] = flash[d]
  BY <1>7, EraseEffect DEF IInv, ErasePage
<1>1. TypeOK'
  <2>1. flash' \in [Block -> Page]
    BY <1>7, <1>8
  <2>2. /\ pc' \in Locations /\ ret' \in {"init", "find", "idle"} /\ cut' \in BOOLEAN
    BY DEF IInv, TypeOK, ErasePage, Locations, EraseBlock
  <2>3. blk' \in 0 .. None /\ act' \in 0 .. None /\ idx' \in 0 .. DataLen
    BY <1>7, <1>8, VeepromAssumption DEF IInv, TypeOK, FlashInv, QuietInv, FindInv, PlaceInv, CopyInv, ErasePage, Locations, EraseBlock, Cell
  <2>4. req' \in Writes
    BY DEF IInv, TypeOK, FlashInv, QuietInv, FindInv, PlaceInv, CopyInv, ErasePage, Locations, EraseBlock
  <2>5. writes' \in 0 .. MaxWrites /\ resets' \in 0 .. MaxResets
    BY VeepromAssumption DEF IInv, TypeOK, FlashInv, QuietInv, FindInv, PlaceInv, CopyInv, ErasePage, Locations, EraseBlock
  <2> QED BY <2>1, <2>2, <2>3, <2>4, <2>5 DEF TypeOK
<1>2. FlashInv'
  BY <1>7, <1>8, VeepromAssumption DEF IInv, TypeOK, FlashInv, QuietInv, FindInv, PlaceInv, CopyInv, ErasePage, EraseBlock
<1>3. QuietInv'
  BY <1>7, <1>8, VeepromAssumption DEF IInv, TypeOK, FlashInv, QuietInv, FindInv, PlaceInv, CopyInv, ErasePage, Consistent, Blank, EraseBlock, Erased
<1>4. FindInv'
  BY <1>7, <1>8, VeepromAssumption DEF IInv, TypeOK, FlashInv, QuietInv, FindInv, PlaceInv, CopyInv, ErasePage, Consistent, Blank, Found, EraseBlock, Erased
<1>5. PlaceInv'
  BY <1>7, <1>8, VeepromAssumption DEF IInv, TypeOK, FlashInv, QuietInv, FindInv, PlaceInv, CopyInv, ErasePage, Consistent, Blank, Stored, BlockAddr, EraseBlock, Erased
<1>6. CopyInv'
  BY <1>7, <1>8, VeepromAssumption DEF IInv, TypeOK, FlashInv, QuietInv, FindInv, PlaceInv, CopyInv, ErasePage, Stored, Source, Other, BlockAddr, EraseBlock, Erased
<1> QED BY <1>1, <1>2, <1>3, <1>4, <1>5, <1>6 DEF IInv

LEMMA ProgMagicStep ==
  ASSUME IInv, ProgMagic
  PROVE  IInv'
<1> USE DEF Block, None
<1>7. blk \in Block
  BY DEF IInv, TypeOK, QuietInv, CopyInv, ProgMagic
<1>8. /\ flash' \in [Block -> Page]
      /\ flash'[blk].magic /\ flash'[blk].active = flash[blk].active
      /\ flash'[blk].data = flash[blk].data
      /\ \A d \in Block : d # blk => flash'[d] = flash[d]
  BY <1>7, MagicEffect DEF IInv, ProgMagic
<1>1. TypeOK'
  <2>1. flash' \in [Block -> Page]
    BY <1>7, <1>8
  <2>2. /\ pc' \in Locations /\ ret' \in {"init", "find", "idle"} /\ cut' \in BOOLEAN
    BY DEF IInv, TypeOK, ProgMagic, Locations, EraseBlock
  <2>3. blk' \in 0 .. None /\ act' \in 0 .. None /\ idx' \in 0 .. DataLen
    BY <1>7, <1>8, VeepromAssumption DEF IInv, TypeOK, FlashInv, QuietInv, FindInv, PlaceInv, CopyInv, ProgMagic, Locations, EraseBlock, Cell
  <2>4. req' \in Writes
    BY NoWriteIsWrite DEF IInv, TypeOK, ProgMagic
  <2>5. writes' \in 0 .. MaxWrites /\ resets' \in 0 .. MaxResets
    BY VeepromAssumption DEF IInv, TypeOK, FlashInv, QuietInv, FindInv, PlaceInv, CopyInv, ProgMagic, Locations, EraseBlock
  <2> QED BY <2>1, <2>2, <2>3, <2>4, <2>5 DEF TypeOK
<1>2. FlashInv'
  <2>1. \A b \in Block : ~flash'[b].magic => flash'[b] = Erased
    BY <1>7, <1>8 DEF IInv, FlashInv
  <2>2. CASE ret = "init"
    BY <1>7, <1>8, <2>1, <2>2 DEF IInv, TypeOK, FlashInv, ProgMagic
  <2>3. CASE ret = "idle"
    <3>1. flash'[0].magic /\ flash'[1].magic
      BY <1>7, <1>8, <2>3 DEF IInv, TypeOK, CopyInv, ProgMagic, Other
    <3> QED BY <2>1, <2>3, <3>1 DEF FlashInv, ProgMagic
  <2> QED BY <2>2, <2>3 DEF IInv, TypeOK, QuietInv, ProgMagic
<1>3. QuietInv'
  <2>1. CASE ret = "init"
    <3>1. pc' = "init" /\ req' = NoWrite
      BY <2>1 DEF IInv, QuietInv, ProgMagic
    <3>2. ~cut' => Consistent'
      BY <1>7, <1>8, <2>1 DEF IInv, QuietInv, ProgMagic, Consistent, Blank
    <3> QED BY <3>1, <3>2 DEF QuietInv
  <2>2. CASE ret = "idle"
    <3>1. pc' = "idle" /\ req' = NoWrite
      BY <2>2 DEF ProgMagic
    <3>2. Consistent'
      BY <1>7, <1>8, <2>2 DEF IInv, CopyInv, ProgMagic, Consistent, Blank, Other, Erased
    <3> QED BY <3>1, <3>2 DEF QuietInv
  <2> QED BY <2>1, <2>2 DEF IInv, TypeOK, QuietInv, ProgMagic
<1>4. FindInv'
  BY <1>7, <1>8, VeepromAssumption DEF IInv, TypeOK, FlashInv, QuietInv, FindInv, PlaceInv, CopyInv, ProgMagic, Consistent, Blank, Found, EraseBlock, Erased
<1>5. PlaceInv'
  BY <1>7, <1>8, VeepromAssumption DEF IInv, TypeOK, FlashInv, QuietInv, FindInv, PlaceInv, CopyInv, ProgMagic, Consistent, Blank, Stored, BlockAddr, EraseBlock, Erased
<1>6. CopyInv'
  BY <1>7, <1>8, VeepromAssumption DEF IInv, TypeOK, FlashInv, QuietInv, FindInv, PlaceInv, CopyInv, ProgMagic, Stored, Source, Other, BlockAddr, EraseBlock, Erased
<1> QED BY <1>1, <1>2, <1>3, <1>4, <1>5, <1>6 DEF IInv

LEMMA CallWriteStep ==
  ASSUME Careful, IInv, CallWrite
  PROVE  IInv'
<1> USE DEF Block, None
<1>1. TypeOK'
  <2>1. flash' \in [Block -> Page]
    BY DEF IInv, TypeOK, CallWrite
  <2>2. /\ pc' \in Locations /\ ret' \in {"init", "find", "idle"} /\ cut' \in BOOLEAN
    BY DEF IInv, TypeOK, CallWrite, Locations, EraseBlock
  <2>3. blk' \in 0 .. None /\ act' \in 0 .. None /\ idx' \in 0 .. DataLen
    BY VeepromAssumption DEF IInv, TypeOK, FlashInv, QuietInv, FindInv, PlaceInv, CopyInv, CallWrite, Locations, EraseBlock, Cell
  <2>4. req' \in Writes
    BY DEF IInv, TypeOK, FlashInv, QuietInv, FindInv, PlaceInv, CopyInv, CallWrite, Locations, EraseBlock
  <2>5. writes' \in 0 .. MaxWrites /\ resets' \in 0 .. MaxResets
    BY VeepromAssumption DEF IInv, TypeOK, FlashInv, QuietInv, FindInv, PlaceInv, CopyInv, CallWrite, Locations, EraseBlock
  <2> QED BY <2>1, <2>2, <2>3, <2>4, <2>5 DEF TypeOK
<1>2. FlashInv'
  BY VeepromAssumption DEF IInv, TypeOK, FlashInv, QuietInv, FindInv, PlaceInv, CopyInv, CallWrite, EraseBlock
<1>3. QuietInv'
  BY VeepromAssumption DEF IInv, TypeOK, FlashInv, QuietInv, FindInv, PlaceInv, CopyInv, CallWrite, Consistent, Blank, EraseBlock, Erased
<1>4. FindInv'
  BY VeepromAssumption DEF IInv, TypeOK, FlashInv, QuietInv, FindInv, PlaceInv, CopyInv, CallWrite, Consistent, Blank, Found, EraseBlock, Erased
<1>5. PlaceInv'
  BY VeepromAssumption DEF IInv, TypeOK, FlashInv, QuietInv, FindInv, PlaceInv, CopyInv, CallWrite, Consistent, Blank, Stored, BlockAddr, EraseBlock, Erased
<1>6. CopyInv'
  BY VeepromAssumption DEF IInv, TypeOK, FlashInv, QuietInv, FindInv, PlaceInv, CopyInv, CallWrite, Stored, Source, Other, BlockAddr, EraseBlock, Erased
<1> QED BY <1>1, <1>2, <1>3, <1>4, <1>5, <1>6 DEF IInv

LEMMA GetActblockStep ==
  ASSUME IInv, GetActblock
  PROVE  IInv'
<1> USE DEF Block, None
<1>1. TypeOK'
  <2>1. flash' \in [Block -> Page]
    BY DEF IInv, TypeOK, GetActblock
  <2>2. /\ pc' \in Locations /\ ret' \in {"init", "find", "idle"} /\ cut' \in BOOLEAN
    BY DEF IInv, TypeOK, GetActblock, Locations, EraseBlock
  <2>3. blk' \in 0 .. None /\ act' \in 0 .. None /\ idx' \in 0 .. DataLen
    BY VeepromAssumption DEF IInv, TypeOK, FlashInv, QuietInv, FindInv, PlaceInv, CopyInv, GetActblock, Locations, EraseBlock, Cell
  <2>4. req' \in Writes
    BY DEF IInv, TypeOK, FlashInv, QuietInv, FindInv, PlaceInv, CopyInv, GetActblock, Locations, EraseBlock
  <2>5. writes' \in 0 .. MaxWrites /\ resets' \in 0 .. MaxResets
    BY VeepromAssumption DEF IInv, TypeOK, FlashInv, QuietInv, FindInv, PlaceInv, CopyInv, GetActblock, Locations, EraseBlock
  <2> QED BY <2>1, <2>2, <2>3, <2>4, <2>5 DEF TypeOK
<1>2. FlashInv'
  BY VeepromAssumption DEF IInv, TypeOK, FlashInv, QuietInv, FindInv, PlaceInv, CopyInv, GetActblock, EraseBlock
<1>3. QuietInv'
  BY VeepromAssumption DEF IInv, TypeOK, FlashInv, QuietInv, FindInv, PlaceInv, CopyInv, GetActblock, Consistent, Blank, EraseBlock, Erased
<1>4. FindInv'
  <2>1. Consistent' /\ ~cut' /\ pc' \in {"find", "check"}
    BY DEF IInv, FlashInv, FindInv, GetActblock, Consistent, Blank, TypeOK
  <2>2. pc' = "find" => (blk' # 0 => ~flash'[0].active)
    BY DEF IInv, FlashInv, FindInv, GetActblock, TypeOK, Active
  <2>3. pc' = "find" => (blk' = None => ~flash'[1].active)
    BY DEF IInv, FlashInv, FindInv, GetActblock, TypeOK, Active
  <2>4. pc' = "check" => Found'
    BY DEF IInv, FlashInv, FindInv, GetActblock, TypeOK, Active, Found, Consistent, Blank
  <2> QED BY <2>1, <2>2, <2>3, <2>4 DEF FindInv
<1>5. PlaceInv'
  BY VeepromAssumption DEF IInv, TypeOK, FlashInv, QuietInv, FindInv, PlaceInv, CopyInv, GetActblock, Consistent, Blank, Stored, BlockAddr, EraseBlock, Erased
<1>6. CopyInv'
  BY VeepromAssumption DEF IInv, TypeOK, FlashInv, QuietInv, FindInv, PlaceInv, CopyInv, GetActblock, Stored, Source, Other, BlockAddr, EraseBlock, Erased
<1> QED BY <1>1, <1>2, <1>3, <1>4, <1>5, <1>6 DEF IInv

LEMMA CheckStep ==
  ASSUME IInv, Check
  PROVE  IInv'
<1> USE DEF Block, None
<1>1. TypeOK'
  <2>1. flash' \in [Block -> Page]
    BY DEF IInv, TypeOK, Check
  <2>2. /\ pc' \in Locations /\ ret' \in {"init", "find", "idle"} /\ cut' \in BOOLEAN
    BY DEF IInv, TypeOK, Check, Locations, EraseBlock
  <2>3. blk' \in 0 .. None /\ act' \in 0 .. None
    BY DEF IInv, TypeOK, Check
  <2>6. idx' \in 0 .. DataLen
    <3>1. FirstCell \in 0 .. DataLen
      BY FirstIsLeast, WriteType, VeepromAssumption DEF IInv, TypeOK, FirstCell, Cell
    <3> QED BY <3>1, VeepromAssumption DEF Check
  <2>4. req' \in Writes
    BY DEF IInv, TypeOK, FlashInv, QuietInv, FindInv, PlaceInv, CopyInv, Check, Locations, EraseBlock
  <2>5. writes' \in 0 .. MaxWrites /\ resets' \in 0 .. MaxResets
    BY VeepromAssumption DEF IInv, TypeOK, FlashInv, QuietInv, FindInv, PlaceInv, CopyInv, Check, Locations, EraseBlock
  <2> QED BY <2>1, <2>2, <2>3, <2>4, <2>5, <2>6 DEF TypeOK
<1>2. FlashInv'
  BY VeepromAssumption DEF IInv, TypeOK, FlashInv, QuietInv, FindInv, PlaceInv, CopyInv, Check, EraseBlock
<1>3. QuietInv'
  BY VeepromAssumption DEF IInv, TypeOK, FlashInv, QuietInv, FindInv, PlaceInv, CopyInv, Check, Consistent, Blank, EraseBlock, Erased
<1>4. FindInv'
  BY VeepromAssumption DEF IInv, TypeOK, FlashInv, QuietInv, FindInv, PlaceInv, CopyInv, Check, Consistent, Blank, Found, EraseBlock, Erased
<1>5. PlaceInv'
  <2>1. ASSUME Reusable, req # NoWrite
        PROVE  PlaceInv'
    <3>1. pc' = "prog" /\ idx' = FirstCell /\ UNCHANGED <<flash, act, req>>
      BY <2>1 DEF Check
    <3>2. FirstCell \in DOMAIN req /\ \A d \in DOMAIN req : FirstCell <= d
      BY <2>1, FirstIsLeast DEF IInv
    <3>3. \A c \in DOMAIN req : ~(c < FirstCell)
      BY <3>2, WriteType DEF IInv, TypeOK, Cell
    <3>4. IF act = 0 THEN Blank(1) ELSE Blank(0)
      BY DEF IInv, FindInv, Check, Consistent, Found
    <3> QED BY <2>1, <3>1, <3>2, <3>3, <3>4 DEF PlaceInv, Reusable, Blank, BlockAddr
  <2>2. ASSUME Reusable, req = NoWrite
        PROVE  PlaceInv'
    <3>1. pc' = "markold" /\ UNCHANGED <<flash, act, req>>
      BY <2>2 DEF Check
    <3>2. IF act = 0 THEN Blank(1) ELSE Blank(0)
      BY DEF IInv, FindInv, Check, Consistent, Found
    <3>3. Consistent
      BY DEF IInv, FindInv, Check
    <3>4. DOMAIN req = {}
      BY <2>2 DEF NoWrite
    <3> QED BY <3>1, <3>2, <3>3, <3>4 DEF PlaceInv, Blank, Consistent, Stored, BlockAddr
  <2>3. CASE ~Reusable
    BY <2>3 DEF Check, PlaceInv
  <2> QED BY <2>1, <2>2, <2>3
<1>6. CopyInv'
  <2>1. CASE Reusable
    BY <2>1 DEF Check, CopyInv
  <2>2. ASSUME ~Reusable
        PROVE  CopyInv'
    <3>1. pc' = "copy" /\ idx' = 0 /\ UNCHANGED <<flash, act, req>>
      BY <2>2 DEF Check
    <3>2. req # NoWrite
      BY <2>2 DEF Reusable, NoWrite
    <3>3. act # None
      <4>1. SUFFICES ASSUME act = None PROVE FALSE
        OBVIOUS
      <4>2. Blank(1)
        BY <4>1 DEF IInv, FindInv, Check, Consistent, Found
      <4>3. \A c \in DOMAIN req : c \in Cell /\ req[c] \subseteq Bits
        BY WriteType DEF IInv, TypeOK, Byte
      <4> QED BY <2>2, <4>1, <4>2, <4>3 DEF Reusable, Blank, BlockAddr
    <3>4. Blank(Other(act))
      BY <3>3 DEF IInv, TypeOK, FindInv, Check, Consistent, Found, Other
    <3>5. \A c \in Cell : ~(c < 0)
      BY DEF Cell
    <3> QED BY <3>1, <3>2, <3>3, <3>4, <3>5, VeepromAssumption DEF CopyInv, Blank, Other
  <2> QED BY <2>1, <2>2
<1> QED BY <1>1, <1>2, <1>3, <1>4, <1>5, <1>6 DEF IInv

LEMMA ProgramStep ==
  ASSUME IInv, Program
  PROVE  IInv'
<1> USE DEF Block, None
<1> DEFINE B == BlockAddr(act)
<1>7. /\ B \in Block /\ idx \in DOMAIN req /\ idx \in Cell /\ req[idx] \in Byte
      /\ DOMAIN req \subseteq Cell
  BY WriteType DEF IInv, TypeOK, PlaceInv, Program, BlockAddr
<1>8. /\ flash' \in [Block -> Page]
      /\ flash'[B].active = flash[B].active /\ flash'[B].magic = flash[B].magic
      /\ flash'[B].data = [flash[B].data EXCEPT ![idx] = @ \cap req[idx]]
      /\ \A d \in Block : d # B => flash'[d] = flash[d]
  BY <1>7, ProgEffect DEF IInv, Program
<1>1. TypeOK'
  <2>1. flash' \in [Block -> Page]
    BY <1>7, <1>8
  <2>2. /\ pc' \in Locations /\ ret' \in {"init", "find", "idle"} /\ cut' \in BOOLEAN
    BY DEF IInv, TypeOK, Program, Locations, EraseBlock
  <2>3. blk' \in 0 .. None /\ act' \in 0 .. None /\ idx' \in 0 .. DataLen
    BY <1>7, <1>8, VeepromAssumption DEF IInv, TypeOK, FlashInv, QuietInv, FindInv, PlaceInv, CopyInv, Program, Locations, EraseBlock, Cell
  <2>4. req' \in Writes
    BY DEF IInv, TypeOK, FlashInv, QuietInv, FindInv, PlaceInv, CopyInv, Program, Locations, EraseBlock
  <2>5. writes' \in 0 .. MaxWrites /\ resets' \in 0 .. MaxResets
    BY VeepromAssumption DEF IInv, TypeOK, FlashInv, QuietInv, FindInv, PlaceInv, CopyInv, Program, Locations, EraseBlock
  <2> QED BY <2>1, <2>2, <2>3, <2>4, <2>5 DEF TypeOK
<1>2. FlashInv'
  BY <1>7, <1>8, VeepromAssumption DEF IInv, TypeOK, FlashInv, QuietInv, FindInv, PlaceInv, CopyInv, Program, EraseBlock
<1>3. QuietInv'
  BY <1>7, <1>8, VeepromAssumption DEF IInv, TypeOK, FlashInv, QuietInv, FindInv, PlaceInv, CopyInv, Program, Consistent, Blank, EraseBlock, Erased
<1>4. FindInv'
  BY <1>7, <1>8, VeepromAssumption DEF IInv, TypeOK, FlashInv, QuietInv, FindInv, PlaceInv, CopyInv, Program, Consistent, Blank, Found, EraseBlock, Erased
<1>5. PlaceInv'
  <2>1. act' = act /\ req' = req /\ BlockAddr(act)' = B /\ idx' = idx + 1
    BY DEF Program, BlockAddr
  <2>2. ASSUME NEW c \in DOMAIN req
        PROVE  IF c < idx + 1 THEN flash'[B].data[c] = req[c]
                              ELSE req[c] \subseteq flash'[B].data[c]
    <3>1. c \in Cell /\ c \in Nat /\ idx \in Nat /\ (c < idx + 1 <=> c < idx \/ c = idx)
      BY <1>7 DEF Cell
    <3>2. flash[B].data \in [Cell -> Byte]
      BY <1>7 DEF IInv, TypeOK, Page
    <3>3. IF c < idx THEN flash[B].data[c] = req[c] ELSE req[c] \subseteq flash[B].data[c]
      BY DEF IInv, PlaceInv, Program
    <3>4. CASE c = idx
      BY <1>7, <1>8, <3>1, <3>2, <3>3, <3>4
    <3>5. CASE c # idx
      BY <1>7, <1>8, <3>1, <3>2, <3>3, <3>5
    <3> QED BY <3>4, <3>5
  <2>3. IF act' = 0 THEN Blank(1)' ELSE Blank(0)'
    BY <1>7, <1>8, <2>1 DEF IInv, TypeOK, PlaceInv, Program, Blank, BlockAddr
  <2>4. CASE idx + 1 \in DOMAIN req
    BY <2>1, <2>2, <2>3, <2>4 DEF PlaceInv, Program
  <2>5. CASE idx + 1 \notin DOMAIN req
    <3>1. \A c \in DOMAIN req : c < idx + 1
      BY <1>7, <2>5, NoGap DEF IInv
    <3>2. Stored(B, DOMAIN req)'
      BY <2>1, <2>2, <3>1 DEF Stored
    <3>3. req # NoWrite
      BY <1>7 DEF NoWrite
    <3> QED BY <2>1, <2>3, <2>5, <3>2, <3>3 DEF PlaceInv, Program
  <2> QED BY <2>4, <2>5
<1>6. CopyInv'
  BY <1>7, <1>8, VeepromAssumption DEF IInv, TypeOK, FlashInv, QuietInv, FindInv, PlaceInv, CopyInv, Program, Stored, Source, Other, BlockAddr, EraseBlock, Erased
<1> QED BY <1>1, <1>2, <1>3, <1>4, <1>5, <1>6 DEF IInv

LEMMA MarkOldStep ==
  ASSUME IInv, MarkOld
  PROVE  IInv'
<1> USE DEF Block, None
<1> DEFINE B == BlockAddr(act)
<1>7. B \in Block
  BY DEF IInv, TypeOK, BlockAddr
<1>8. /\ flash' \in [Block -> Page]
      /\ flash'[B].active /\ flash'[B].magic = flash[B].magic
      /\ flash'[B].data = flash[B].data
      /\ \A d \in Block : d # B => flash'[d] = flash[d]
  BY <1>7, MarkEffect DEF IInv, MarkOld, MarkActive
<1>1. TypeOK'
  <2>1. flash' \in [Block -> Page]
    BY <1>7, <1>8
  <2>2. /\ pc' \in Locations /\ ret' \in {"init", "find", "idle"} /\ cut' \in BOOLEAN
    BY DEF IInv, TypeOK, MarkOld, Locations, EraseBlock
  <2>3. blk' \in 0 .. None /\ act' \in 0 .. None /\ idx' \in 0 .. DataLen
    BY <1>7, <1>8, VeepromAssumption DEF IInv, TypeOK, FlashInv, QuietInv, FindInv, PlaceInv, CopyInv, MarkOld, Locations, EraseBlock, Cell
  <2>4. req' \in Writes
    BY NoWriteIsWrite DEF IInv, TypeOK, MarkOld
  <2>5. writes' \in 0 .. MaxWrites /\ resets' \in 0 .. MaxResets
    BY VeepromAssumption DEF IInv, TypeOK, FlashInv, QuietInv, FindInv, PlaceInv, CopyInv, MarkOld, Locations, EraseBlock
  <2> QED BY <2>1, <2>2, <2>3, <2>4, <2>5 DEF TypeOK
<1>2. FlashInv'
  BY <1>7, <1>8, VeepromAssumption DEF IInv, TypeOK, FlashInv, QuietInv, FindInv, PlaceInv, CopyInv, MarkOld, EraseBlock
<1>3. QuietInv'
  <2>1. pc' = "idle" /\ req' = NoWrite
    BY DEF MarkOld
  <2>2. Consistent'
    BY <1>7, <1>8 DEF IInv, TypeOK, PlaceInv, FindInv, Found, MarkOld, Consistent, Blank, BlockAddr
  <2> QED BY <2>1, <2>2 DEF QuietInv
<1>4. FindInv'
  BY <1>7, <1>8, VeepromAssumption DEF IInv, TypeOK, FlashInv, QuietInv, FindInv, PlaceInv, CopyInv, MarkOld, Consistent, Blank, Found, EraseBlock, Erased
<1>5. PlaceInv'
  BY <1>7, <1>8, VeepromAssumption DEF IInv, TypeOK, FlashInv, QuietInv, FindInv, PlaceInv, CopyInv, MarkOld, Consistent, Blank, Stored, BlockAddr, EraseBlock, Erased
<1>6. CopyInv'
  BY <1>7, <1>8, VeepromAssumption DEF IInv, TypeOK, FlashInv, QuietInv, FindInv, PlaceInv, CopyInv, MarkOld, Stored, Source, Other, BlockAddr, EraseBlock, Erased
<1> QED BY <1>1, <1>2, <1>3, <1>4, <1>5, <1>6 DEF IInv

LEMMA CopyStep ==
  ASSUME IInv, Copy
  PROVE  IInv'
<1> USE DEF Block, None
<1> DEFINE B == Other(act)
<1>7. B \in Block /\ idx \in Cell /\ DOMAIN req \subseteq Cell /\ Source(idx) \in Byte
  BY WriteType, VeepromAssumption DEF IInv, TypeOK, CopyInv, Copy, Other, Source, Cell, Page, BlockAddr
<1>8. /\ flash' \in [Block -> Page]
      /\ flash'[B].active = flash[B].active /\ flash'[B].magic = flash[B].magic
      /\ flash'[B].data = [flash[B].data EXCEPT ![idx] = @ \cap Source(idx)]
      /\ \A d \in Block : d # B => flash'[d] = flash[d]
  BY <1>7, ProgEffect DEF IInv, Copy
<1>1. TypeOK'
  <2>1. flash' \in [Block -> Page]
    BY <1>7, <1>8
  <2>2. /\ pc' \in Locations /\ ret' \in {"init", "find", "idle"} /\ cut' \in BOOLEAN
    BY DEF IInv, TypeOK, Copy, Locations, EraseBlock
  <2>3. blk' \in 0 .. None /\ act' \in 0 .. None /\ idx' \in 0 .. DataLen
    BY <1>7, <1>8, VeepromAssumption DEF IInv, TypeOK, FlashInv, QuietInv, FindInv, PlaceInv, CopyInv, Copy, Locations, EraseBlock, Cell
  <2>4. req' \in Writes
    BY DEF IInv, TypeOK, FlashInv, QuietInv, FindInv, PlaceInv, CopyInv, Copy, Locations, EraseBlock
  <2>5. writes' \in 0 .. MaxWrites /\ resets' \in 0 .. MaxResets
    BY VeepromAssumption DEF IInv, TypeOK, FlashInv, QuietInv, FindInv, PlaceInv, CopyInv, Copy, Locations, EraseBlock
  <2> QED BY <2>1, <2>2, <2>3, <2>4, <2>5 DEF TypeOK
<1>2. FlashInv'
  BY <1>7, <1>8, VeepromAssumption DEF IInv, TypeOK, FlashInv, QuietInv, FindInv, PlaceInv, CopyInv, Copy, EraseBlock
<1>3. QuietInv'
  BY <1>7, <1>8, VeepromAssumption DEF IInv, TypeOK, FlashInv, QuietInv, FindInv, PlaceInv, CopyInv, Copy, Consistent, Blank, EraseBlock, Erased
<1>4. FindInv'
  BY <1>7, <1>8, VeepromAssumption DEF IInv, TypeOK, FlashInv, QuietInv, FindInv, PlaceInv, CopyInv, Copy, Consistent, Blank, Found, EraseBlock, Erased
<1>5. PlaceInv'
  BY <1>7, <1>8, VeepromAssumption DEF IInv, TypeOK, FlashInv, QuietInv, FindInv, PlaceInv, CopyInv, Copy, Consistent, Blank, Stored, BlockAddr, EraseBlock, Erased
<1>6. CopyInv'
  <2>1. /\ act \in Block /\ act' = act /\ req' = req /\ idx' = idx + 1
        /\ Other(act)' = B /\ act # B /\ BlockAddr(act)' = act
    BY DEF IInv, TypeOK, CopyInv, Copy, Other, BlockAddr
  <2>2. \A c \in Cell : Source(c)' = Source(c)
    BY <1>7, <1>8, <2>1 DEF Source, BlockAddr
  <2>3. ASSUME NEW c \in Cell
        PROVE  flash'[B].data[c] = IF c < idx + 1 THEN Source(c) ELSE Bits
    <3>1. c \in Nat /\ idx \in Nat /\ (c < idx + 1 <=> c < idx \/ c = idx)
      BY <1>7 DEF Cell
    <3>2. flash[B].data \in [Cell -> Byte]
      BY <1>7 DEF IInv, TypeOK, Page
    <3>3. flash[B].data[c] = IF c < idx THEN Source(c) ELSE Bits
      BY DEF IInv, CopyInv, Copy
    <3>4. CASE c = idx
      <4>1. flash[B].data[c] = Bits
        BY <3>1, <3>3, <3>4
      <4>2. flash'[B].data[c] = Bits \cap Source(idx)
        BY <1>7, <1>8, <3>2, <3>4, <4>1
      <4> QED BY <1>7, <3>1, <3>4, <4>2 DEF Byte
    <3>5. CASE c # idx
      BY <1>7, <1>8, <3>1, <3>2, <3>3, <3>5
    <3> QED BY <3>4, <3>5
  <2>4. \A c \in Cell : flash'[Other(act)'].data[c] = IF c < idx' THEN Source(c)' ELSE Bits
    BY <2>1, <2>2, <2>3
  <2>5. act' # None /\ req' # NoWrite /\ ~flash'[Other(act)'].active
    BY <1>7, <1>8, <2>1 DEF IInv, CopyInv, Copy
  <2>6. idx' \in 0 .. DataLen /\ (pc' = "copy" => idx' < DataLen) /\ (pc' = "marknew" => idx' = DataLen)
        /\ pc' \in {"copy", "marknew"}
    BY <1>7, <2>1, VeepromAssumption DEF Copy, Cell
  <2> QED BY <2>4, <2>5, <2>6 DEF CopyInv
<1> QED BY <1>1, <1>2, <1>3, <1>4, <1>5, <1>6 DEF IInv

LEMMA MarkNewStep ==
  ASSUME IInv, MarkNew
  PROVE  IInv'
<1> USE DEF Block, None
<1> DEFINE B == Other(act)
<1>7. B \in Block /\ act \in Block /\ BlockAddr(B) = B /\ BlockAddr(act) = act /\ B # act
  BY DEF IInv, TypeOK, CopyInv, MarkNew, Other, BlockAddr
<1>8. /\ flash' \in [Block -> Page]
      /\ flash'[B].active /\ flash'[B].magic = flash[B].magic
      /\ flash'[B].data = flash[B].data
      /\ \A d \in Block : d # B => flash'[d] = flash[d]
  BY <1>7, MarkEffect DEF IInv, MarkNew, MarkActive
<1>1. TypeOK'
  <2>1. flash' \in [Block -> Page]
    BY <1>7, <1>8
  <2>2. /\ pc' \in Locations /\ ret' \in {"init", "find", "idle"} /\ cut' \in BOOLEAN
    BY DEF IInv, TypeOK, MarkNew, Locations, EraseBlock
  <2>3. blk' \in 0 .. None /\ act' \in 0 .. None /\ idx' \in 0 .. DataLen
    BY <1>7, <1>8, VeepromAssumption DEF IInv, TypeOK, FlashInv, QuietInv, FindInv, PlaceInv, CopyInv, MarkNew, Locations, EraseBlock, Cell
  <2>4. req' \in Writes
    BY DEF IInv, TypeOK, FlashInv, QuietInv, FindInv, PlaceInv, CopyInv, MarkNew, Locations, EraseBlock
  <2>5. writes' \in 0 .. MaxWrites /\ resets' \in 0 .. MaxResets
    BY VeepromAssumption DEF IInv, TypeOK, FlashInv, QuietInv, FindInv, PlaceInv, CopyInv, MarkNew, Locations, EraseBlock
  <2> QED BY <2>1, <2>2, <2>3, <2>4, <2>5 DEF TypeOK
<1>2. FlashInv'
  BY <1>7, <1>8, VeepromAssumption DEF IInv, TypeOK, FlashInv, QuietInv, FindInv, PlaceInv, CopyInv, MarkNew, EraseBlock
<1>3. QuietInv'
  BY <1>7, <1>8, VeepromAssumption DEF IInv, TypeOK, FlashInv, QuietInv, FindInv, PlaceInv, CopyInv, MarkNew, Consistent, Blank, EraseBlock, Erased
<1>4. FindInv'
  BY <1>7, <1>8, VeepromAssumption DEF IInv, TypeOK, FlashInv, QuietInv, FindInv, PlaceInv, CopyInv, MarkNew, Consistent, Blank, Found, EraseBlock, Erased
<1>5. PlaceInv'
  BY <1>7, <1>8, VeepromAssumption DEF IInv, TypeOK, FlashInv, QuietInv, FindInv, PlaceInv, CopyInv, MarkNew, Consistent, Blank, Stored, BlockAddr, EraseBlock, Erased
<1>6. CopyInv'
  <2>1. /\ pc' = "erase" /\ ret' = "idle" /\ blk' = act /\ act' = act
        /\ req' = req /\ idx' = idx /\ cut' = cut /\ Other(act)' = B
    BY <1>7 DEF MarkNew, EraseBlock, Other
  <2>2. /\ ~cut /\ req # NoWrite /\ flash[B].magic
    BY <1>7 DEF IInv, FlashInv, FindInv, CopyInv, MarkNew
  <2>3. \A c \in Cell : flash'[B].data[c] = Source(c)
    BY <1>7, <1>8, VeepromAssumption DEF IInv, CopyInv, MarkNew, Cell
  <2>4. DOMAIN req \subseteq Cell
    BY WriteType DEF IInv, TypeOK
  <2>5. Stored(B, DOMAIN req)'
    BY <2>1, <2>3, <2>4 DEF Stored, Source
  <2>6. \A c \in Cell \ DOMAIN req : flash'[B].data[c] = flash'[act].data[c]
    BY <1>7, <1>8, <2>3 DEF Source
  <2> QED BY <1>7, <1>8, <2>1, <2>2, <2>5, <2>6 DEF CopyInv, Stored
<1> QED BY <1>1, <1>2, <1>3, <1>4, <1>5, <1>6 DEF IInv

LEMMA ResetStep ==
  ASSUME IInv, Reset
  PROVE  IInv'
<1> USE DEF Block, None
<1>1. TypeOK'
  <2>1. flash' \in [Block -> Page]
    BY DEF IInv, TypeOK, Reset
  <2>2. /\ pc' \in Locations /\ ret' \in {"init", "find", "idle"} /\ cut' \in BOOLEAN
    BY DEF IInv, TypeOK, Reset, Locations, EraseBlock
  <2>3. blk' \in 0 .. None /\ act' \in 0 .. None /\ idx' \in 0 .. DataLen
    BY VeepromAssumption DEF IInv, TypeOK, FlashInv, QuietInv, FindInv, PlaceInv, CopyInv, Reset, Locations, EraseBlock, Cell
  <2>4. req' \in Writes
    BY NoWriteIsWrite DEF IInv, TypeOK, Reset
  <2>5. writes' \in 0 .. MaxWrites /\ resets' \in 0 .. MaxResets
    BY VeepromAssumption DEF IInv, TypeOK, FlashInv, QuietInv, FindInv, PlaceInv, CopyInv, Reset, Locations, EraseBlock
  <2> QED BY <2>1, <2>2, <2>3, <2>4, <2>5 DEF TypeOK
<1>2. FlashInv'
  BY VeepromAssumption DEF IInv, TypeOK, FlashInv, QuietInv, FindInv, PlaceInv, CopyInv, Reset, EraseBlock
<1>3. QuietInv'
  <2>1. req = NoWrite /\ ~cut => Consistent
    BY DEF IInv, TypeOK, Locations, QuietInv, FindInv, PlaceInv, CopyInv, NoWrite
  <2>2. pc' = "init" /\ req' = NoWrite /\ (~cut' => req = NoWrite /\ ~cut) /\ flash' = flash
    BY DEF Reset
  <2>3. ~cut' => Consistent'
    BY <2>1, <2>2 DEF Consistent, Blank
  <2> QED BY <2>2, <2>3 DEF QuietInv
<1>4. FindInv'
  BY VeepromAssumption DEF IInv, TypeOK, FlashInv, QuietInv, FindInv, PlaceInv, CopyInv, Reset, Consistent, Blank, Found, EraseBlock, Erased
<1>5. PlaceInv'
  BY VeepromAssumption DEF IInv, TypeOK, FlashInv, QuietInv, FindInv, PlaceInv, CopyInv, Reset, Consistent, Blank, Stored, BlockAddr, EraseBlock, Erased
<1>6. CopyInv'
  BY VeepromAssumption DEF IInv, TypeOK, FlashInv, QuietInv, FindInv, PlaceInv, CopyInv, Reset, Stored, Source, Other, BlockAddr, EraseBlock, Erased
<1> QED BY <1>1, <1>2, <1>3, <1>4, <1>5, <1>6 DEF IInv
-----------------------------------------------------------------------------
\* A write that covers no cell is the same in both specifications, and the
\* writes of this one are writes of the other.
LEMMA SameNoWrite == NoWrite = E!NoWrite
<1>1. NoWrite \in [{} -> {Bits}] /\ DOMAIN NoWrite = {}
  BY DEF NoWrite
<1>2. E!NoWrite \in [{} -> {Byte}] /\ DOMAIN E!NoWrite = {}
  BY DEF E!NoWrite
<1> QED BY <1>1, <1>2 DEF NoWrite, E!NoWrite

LEMMA SameWrites ==
  ASSUME NEW r \in Writes
  PROVE  r \in E!Write
<1> DEFINE W == {[c -> Byte] : c \in SUBSET Cell}
<1>1. DOMAIN r \in SUBSET Cell /\ r \in [DOMAIN r -> Byte]
  BY WriteType
<1>2. [DOMAIN r -> Byte] \in W
  BY <1>1
<1>3. E!Write = UNION W
  BY DEF E!Write
<1> HIDE DEF W
<1> QED BY <1>1, <1>2, <1>3

LEMMA ContentType ==
  ASSUME TypeOK
  PROVE  Content \in [Cell -> Byte]
BY DEF TypeOK, Page, Block, Content

\* What is read between veeprom_get_actblock and the marking of a block.
LEMMA ContentIsFound ==
  ASSUME IInv, pc \in {"check", "prog", "markold", "copy", "marknew"}
  PROVE  Content = flash[BlockAddr(act)].data
BY DEF IInv, TypeOK, FlashInv, FindInv, Found, Content, BlockAddr, None

LEMMA InitRefines == Init => E!Init
<1> SUFFICES ASSUME Init PROVE E!Init
  OBVIOUS
<1>1. Content \in [Cell -> Byte]
  BY InitHolds, ContentType DEF IInv
<1> QED BY <1>1, SameNoWrite DEF Init, E!Init

\* Looking for the block, comparing, copying into the block that is not read:
\* nothing an application could see.
LEMMA QuietRefines ==
  ASSUME IInv, InitBlock \/ GetActblock \/ Check
  PROVE  UNCHANGED <<Content, req>>
BY DEF InitBlock, GetActblock, Check, Content

LEMMA CopyRefines ==
  ASSUME IInv, Copy
  PROVE  UNCHANGED <<Content, req>>
<1> DEFINE B == Other(act)
<1> USE DEF Block, None
<1>1. B \in Block /\ idx \in Cell /\ Source(idx) \in Byte
  BY WriteType, VeepromAssumption DEF IInv, TypeOK, CopyInv, Copy, Other, Source, Cell, Page, BlockAddr
<1>2. /\ flash'[B].active = flash[B].active /\ flash'[B].magic = flash[B].magic
      /\ \A d \in Block : d # B => flash'[d] = flash[d]
  BY <1>1, ProgEffect DEF IInv, Copy
<1>3. ~flash[B].active
  BY DEF IInv, CopyInv, Copy
<1>4. Content' = Content
  <2>1. act \in Block
    BY DEF IInv, TypeOK, CopyInv, Copy
  <2>2. act = 0 => flash[0].active /\ flash[0].magic
    BY DEF IInv, FlashInv, FindInv, Found, Copy
  <2>3. CASE act = 0
    BY <1>2, <2>2, <2>3 DEF Content, Other
  <2>4. CASE act = 1
    BY <1>1, <1>2, <1>3, <2>4 DEF Content, Other
  <2> QED BY <2>1, <2>3, <2>4
<1> QED BY <1>4 DEF Copy

LEMMA CallRefines ==
  ASSUME IInv, CallWrite
  PROVE  E!Begin
<1>1. req = NoWrite /\ req' \in Writes /\ Content' = Content
  BY DEF IInv, QuietInv, CallWrite, Content
<1> QED BY <1>1, SameNoWrite, SameWrites DEF E!Begin

LEMMA ProgramRefines ==
  ASSUME IInv, IInv', Program
  PROVE  E!Progress
<1> DEFINE B == BlockAddr(act)
<1> USE DEF Block
<1>1. /\ B \in Block /\ idx \in DOMAIN req /\ idx \in Cell /\ req[idx] \in Byte
      /\ req[idx] \subseteq flash[B].data[idx]
  BY WriteType DEF IInv, TypeOK, PlaceInv, Program, BlockAddr, Cell
<1>2. /\ flash'[B].active = flash[B].active /\ flash'[B].magic = flash[B].magic
      /\ flash'[B].data = [flash[B].data EXCEPT ![idx] = @ \cap req[idx]]
      /\ \A d \in Block : d # B => flash'[d] = flash[d]
  BY <1>1, ProgEffect DEF IInv, Program
<1>3. Content = flash[B].data
  BY ContentIsFound DEF Program
<1>4. Content' = flash'[B].data
  BY <1>1, <1>2 DEF IInv, TypeOK, FlashInv, FindInv, Found, Program, Content, BlockAddr, None
<1>5. Content \in [Cell -> Byte] /\ Content' \in [Cell -> Byte]
  BY DEF IInv, TypeOK, Page, Block, Content
<1>6. ASSUME NEW c \in Cell, Content'[c] # Content[c]
      PROVE  c \in DOMAIN req /\ Content'[c] = req[c]
  <2>1. flash'[B].data = [Content EXCEPT ![idx] = @ \cap req[idx]]
    BY <1>2, <1>3
  <2>2. c = idx /\ Content'[c] = Content[idx] \cap req[idx]
    BY ONLY <1>4, <1>5, <1>6, <2>1
  <2>3. Content[idx] \cap req[idx] = req[idx]
    BY <1>1, <1>3
  <2> QED
    BY <1>1, <2>2, <2>3
<1> QED BY <1>5, <1>6 DEF E!Progress, Program

LEMMA MarkOldRefines ==
  ASSUME IInv, MarkOld
  PROVE  E!End
<1> DEFINE B == BlockAddr(act)
<1> USE DEF Block, None
<1>1. B \in Block
  BY DEF IInv, TypeOK, BlockAddr
<1>2. /\ flash'[B].active /\ flash'[B].magic = flash[B].magic
      /\ flash'[B].data = flash[B].data
      /\ \A d \in Block : d # B => flash'[d] = flash[d]
  BY <1>1, MarkEffect DEF IInv, MarkOld, MarkActive
<1>3. Content = flash[B].data
  BY ContentIsFound DEF MarkOld
<1>4. Content' = flash'[B].data
  BY <1>1, <1>2 DEF IInv, TypeOK, FlashInv, FindInv, Found, MarkOld, Content, BlockAddr
<1>5. \A c \in DOMAIN req : Content[c] = req[c]
  BY <1>3 DEF IInv, PlaceInv, MarkOld, Stored
<1> QED BY <1>2, <1>3, <1>4, <1>5, SameNoWrite DEF E!End, MarkOld

\* Marking the copy is what a reader sees of a write that moves to block 0.
LEMMA MarkNewRefines ==
  ASSUME IInv, IInv', MarkNew
  PROVE  E!Progress
<1> DEFINE B == Other(act)
<1> USE DEF Block, None
<1>1. B \in Block /\ act \in Block /\ BlockAddr(act) = act /\ BlockAddr(B) = B /\ B # act
  BY DEF IInv, TypeOK, CopyInv, MarkNew, Other, BlockAddr
<1>2. /\ flash'[B].active /\ flash'[B].magic = flash[B].magic
      /\ flash'[B].data = flash[B].data
      /\ \A d \in Block : d # B => flash'[d] = flash[d]
  BY <1>1, MarkEffect DEF IInv, MarkNew, MarkActive
<1>3. Content = flash[act].data
  BY <1>1, ContentIsFound DEF MarkNew
<1>4. Content' = flash[act].data \/ Content' = flash[B].data
  BY <1>1, <1>2 DEF Content
<1>5. \A c \in Cell : flash[B].data[c] = Source(c)
  BY VeepromAssumption DEF IInv, CopyInv, MarkNew, Cell
<1>6. Content' \in [Cell -> Byte]
  BY DEF IInv, TypeOK, Page, Block, Content
<1>7. ASSUME NEW c \in Cell, Content'[c] # Content[c]
      PROVE  c \in DOMAIN req /\ Content'[c] = req[c]
  BY <1>1, <1>3, <1>4, <1>5, <1>7 DEF Source
<1> QED BY <1>6, <1>7 DEF E!Progress, MarkNew, EraseBlock

\* Erasing the old block is what a reader sees of a write that moves to block 1.
LEMMA ErasePageRefines ==
  ASSUME IInv, IInv', ErasePage
  PROVE  E!Progress
<1> USE DEF Block
<1>1. blk \in Block
  BY DEF IInv, TypeOK, QuietInv, CopyInv, ErasePage
<1>2. /\ flash'[blk] = Erased
      /\ \A d \in Block : d # blk => flash'[d] = flash[d]
  BY <1>1, EraseEffect DEF IInv, ErasePage
<1>3. Content' \in [Cell -> Byte]
  BY DEF IInv, TypeOK, Page, Block, Content
<1>4. CASE ret = "init"
  <2>1. flash[blk] = Erased
    BY <1>4 DEF IInv, QuietInv, ErasePage
  <2>2. Content' = Content
    BY <1>1, <1>2, <2>1 DEF Content
  <2> QED BY <1>3, <2>2 DEF E!Progress, ErasePage
<1>5. CASE ret = "idle"
  <2> DEFINE B == Other(act)
  <2>1. /\ act \in Block /\ blk = act /\ B \in Block /\ B # act
        /\ flash[B].active /\ flash[B].magic
        /\ \A c \in DOMAIN req : flash[B].data[c] = req[c]
        /\ \A c \in Cell \ DOMAIN req : flash[B].data[c] = flash[act].data[c]
    BY <1>5 DEF IInv, CopyInv, ErasePage, Stored, Other
  <2>2. Content = flash[act].data \/ Content = flash[B].data
    BY <2>1 DEF Content
  <2>3. Content' = flash[B].data
    BY <1>2, <2>1 DEF Content, Erased
  <2>4. ASSUME NEW c \in Cell, Content'[c] # Content[c]
        PROVE  c \in DOMAIN req /\ Content'[c] = req[c]
    BY <2>1, <2>2, <2>3, <2>4
  <2> QED BY <1>3, <2>4 DEF E!Progress, ErasePage
<1> QED BY <1>4, <1>5 DEF IInv, TypeOK, QuietInv, ErasePage

LEMMA ProgMagicRefines ==
  ASSUME IInv, ProgMagic
  PROVE  E!End \/ UNCHANGED <<Content, req>>
<1> USE DEF Block
<1>1. blk \in Block
  BY DEF IInv, TypeOK, QuietInv, CopyInv, ProgMagic
<1>2. /\ flash'[blk].active = flash[blk].active
      /\ flash'[blk].data = flash[blk].data
      /\ \A d \in Block : d # blk => flash'[d] = flash[d]
  BY <1>1, MagicEffect DEF IInv, ProgMagic
<1>3. flash[blk] = Erased /\ ~flash[blk].active
  BY DEF IInv, TypeOK, QuietInv, CopyInv, ProgMagic, Erased
<1>4. Content' = Content
  BY <1>1, <1>2, <1>3 DEF Content
<1>5. CASE ret = "init"
  BY <1>4, <1>5 DEF ProgMagic
<1>6. CASE ret = "idle"
  <2> DEFINE B == Other(act)
  <2>1. /\ act \in Block /\ blk = act /\ B \in Block /\ B # act
        /\ flash[B].active /\ flash[B].magic
        /\ \A c \in DOMAIN req : flash[B].data[c] = req[c]
    BY <1>6 DEF IInv, CopyInv, ProgMagic, Stored, Other
  <2>2. Content = flash[B].data
    BY <1>3, <2>1 DEF Content
  <2> QED BY <1>4, <1>6, <2>1, <2>2, SameNoWrite DEF E!End, ProgMagic
<1> QED BY <1>5, <1>6 DEF IInv, TypeOK, QuietInv, ProgMagic

LEMMA ResetRefines ==
  ASSUME Reset
  PROVE  E!Reset
BY SameNoWrite DEF Reset, E!Reset, Content

-----------------------------------------------------------------------------
\* Every step of an application that begins no write after one was cut short.
LEMMA StepHolds ==
  ASSUME Careful, IInv, [Next]_vars
  PROVE  IInv'
<1>1. CASE UNCHANGED vars
  BY <1>1 DEF vars, IInv, TypeOK, FlashInv, QuietInv, FindInv, PlaceInv, CopyInv,
              Consistent, Blank, Found, Stored, Source
<1> QED BY <1>1, InitBlockStep, ErasePageStep, ProgMagicStep, CallWriteStep, GetActblockStep,
           CheckStep, ProgramStep, MarkOldStep, CopyStep, MarkNewStep, ResetStep DEF Next

LEMMA StepRefines ==
  ASSUME IInv, IInv', [Next]_vars
  PROVE  [E!Next]_<<Content, req>>
<1>1. CASE UNCHANGED vars
  BY <1>1 DEF vars, Content
<1>2. CASE E!Begin \/ E!Progress \/ E!End \/ E!Reset
  BY <1>2 DEF E!Next
<1> QED BY <1>1, <1>2, QuietRefines, CopyRefines, CallRefines, ProgramRefines, MarkOldRefines,
           MarkNewRefines, ErasePageRefines, ProgMagicRefines, ResetRefines DEF Next

\* The invariant the refinement rests on, and with it the types.
THEOREM InvariantHolds == ASSUME Careful PROVE Spec => []IInv
<1>1. IInv /\ [Next]_vars => IInv'
  BY StepHolds
<1> QED BY InitHolds, <1>1, PTL DEF Spec

THEOREM TypesHold == ASSUME Careful PROVE Spec => []TypeOK
<1>1. IInv => TypeOK
  BY DEF IInv
<1> QED BY InvariantHolds, <1>1, PTL

\* Wherever a reset falls in veeprom_write or veeprom_init, the two flash blocks
\* read like an EEPROM whose cells each hold their old or their new value, and
\* a write that returned is complete.
THEOREM Implements == ASSUME Careful PROVE Spec => ImplementsEeprom
<1>1. IInv /\ IInv' /\ [Next]_vars => [E!Next]_(E!vars)
  BY StepRefines DEF E!vars
<1> QED BY InvariantHolds, InitRefines, <1>1, PTL DEF Spec, ImplementsEeprom, E!Spec
LEMMA OnlyEndEnds ==
  ASSUME IInv, [Next]_vars, req # NoWrite, req' = NoWrite, resets' = resets
  PROVE  E!End
<1>1. ~Reset
  BY DEF Reset, IInv, TypeOK
<1>2. MarkOld \/ ProgMagic
  BY <1>1 DEF Next, vars, InitBlock, ErasePage, CallWrite, GetActblock, Check, Program, Copy,
             MarkNew, EraseBlock, IInv, QuietInv
<1> QED BY <1>2, MarkOldRefines, ProgMagicRefines

\* A call of veeprom_write that returns has written what it says it wrote.
THEOREM ReturnedIsWritten == ASSUME Careful PROVE Spec => WrittenIsRead
<1>1. IInv /\ [Next]_vars =>
        [req # NoWrite /\ req' = NoWrite /\ resets' = resets =>
           \A c \in DOMAIN req : Content'[c] = req[c]]_vars
  BY OnlyEndEnds DEF E!End
<1> QED BY InvariantHolds, <1>1, PTL DEF Spec, WrittenIsRead
=============================================================================
