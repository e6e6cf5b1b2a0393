---------------------------- MODULE XmodemProofs ----------------------------
(***************************************************************************)
(* Proof that the sender of Xmodem implements Transfer, for files of any   *)
(* length, any modulus above 2 of the packet numbers and any number of     *)
(* tries.                                                                  *)
(*                                                                         *)
(* With a punctual target the argument is that of stop-and-wait: one       *)
(* packet or one answer is under way, a packet under way is the one in the *)
(* buffer, the target has stored all blocks before it or that one too, and *)
(* an ACK under way says that it is that one too.                          *)
(*                                                                         *)
(* With a late one the sender may be ahead of the target, and what counts  *)
(* is how far: each packet under way may yet give an ACK, so that the      *)
(* sender gets no more than Room blocks past the one that is wanted.       *)
(***************************************************************************)
EXTENDS Xmodem, WellFoundedInduction, TLAPS

TxType ==
  /\ tx \in [state : Running \cup {"SUCCESS", "FAILURE"}, num : Nat, tries : Int, read : Nat, block : Nat]
  /\ tx.read <= Blocks
  /\ stored \in Seq(Nat)

Stored == Len(stored)
Quiet == line = << >> /\ back = << >>
Awaiting == {"START", "WAIT_ACK", "FINAL_ACK"}

\* Packet p, or an answer to it, is all that is under way.
Alone(p) ==
  \/ Quiet
  \/ line = <<p>> /\ back = << >>
  \/ line = << >> /\ \E c \in Char : back = <<c>>

LineInv ==
  /\ tx.state \in {"START", "SUCCESS", "FAILURE"} => line = << >>
  /\ tx.state \in {"SEND", "RESEND", "SENDING", "EOF"} => Quiet
  /\ tx.state = "START" => Alone(EOT)
  /\ tx.state = "WAIT_ACK" => Alone(Header(tx))
  /\ tx.state = "FINAL_ACK" => Alone(EOT)

StoredInv ==
  /\ tx.state = "START" => tx.read = 0 /\ Stored = 0
  /\ tx.state = "SEND" => Stored = tx.read /\ tx.num = tx.read + 1
  /\ tx.state \in {"RESEND", "SENDING", "WAIT_ACK"} =>
       /\ tx.num = tx.read /\ tx.block = tx.read /\ tx.read > 0
       /\ Stored = tx.num - 1 \/ Stored = tx.num
  /\ tx.state = "WAIT_ACK" /\ Acked => Stored = tx.num
  /\ tx.state \in {"EOF", "FINAL_ACK", "SUCCESS"} => Stored = Blocks

IInv == punctual /\ TxType /\ LineInv /\ StoredInv

-----------------------------------------------------------------------------
\* Sequences of one element at most.
LEMMA OneElement ==
  ASSUME NEW x
  PROVE  /\ Append(<< >>, x) = <<x>> /\ Head(<<x>>) = x /\ Tail(<<x>>) = << >>
         /\ <<x>> # << >> /\ Len(<<x>>) = 1
BY SMT

\* Packet numbers count on without a gap.
LEMMA CountOn ==
  ASSUME NEW N \in Nat, N > 2, NEW q \in Nat, NEW b \in 0 .. N - 1
  PROVE  \E r \in Nat, d \in 0 .. N - 1 : q * N + b + 1 = r * N + d
<1>1. CASE b + 1 < N
  <2>1. q * N + b + 1 = q * N + (b + 1) /\ b + 1 \in 0 .. N - 1
    BY <1>1
  <2> QED
    BY <2>1
<1>2. CASE b + 1 = N
  <2>1. q * N + N = (q + 1) * N
    OBVIOUS
  <2>2. q * N + b + 1 = (q + 1) * N + 0 /\ 0 \in 0 .. N - 1 /\ q + 1 \in Nat
    BY <1>2, <2>1
  <2> QED
    BY <2>2
<1> QED
  BY <1>1, <1>2

\* Every number has a quotient: there is no least one without.
LEMMA Quotient ==
  ASSUME NEW N \in Nat, N > 2, NEW n \in Nat
  PROVE  \E q \in Nat, b \in 0 .. N - 1 : n = q * N + b
<1> DEFINE Less == OpToRel(<, Nat)
           Without == {k \in Nat : ~ \E q \in Nat, b \in 0 .. N - 1 : k = q * N + b}
<1> SUFFICES ASSUME Without # {} PROVE FALSE
  OBVIOUS
<1>1. IsWellFoundedOn(Less, Nat) /\ Less = {e \in Nat \X Nat : e[1] < e[2]}
  BY NatLessThanWellFounded DEF OpToRel
<1> HIDE DEF Less
<1>2. Without \subseteq Nat
  OBVIOUS
<1>3. PICK k \in Without : \A j \in Without : <<j, k>> \notin Less
  <2> HIDE DEF Without
  <2> QED
    BY <1>1, <1>2, WFMin
<1>4. k # 0
  <2>1. 0 = 0 * N + 0 /\ 0 \in 0 .. N - 1
    OBVIOUS
  <2> QED
    BY <2>1
<1>5. k - 1 \in Nat /\ k \in Nat /\ k - 1 < k
  BY <1>4
<1>6. <<k - 1, k>> \in Less
  <2>1. <<k - 1, k>> \in Nat \X Nat /\ <<k - 1, k>>[1] = k - 1 /\ <<k - 1, k>>[2] = k
    BY <1>5
  <2> QED
    BY <1>1, <1>5, <2>1
<1>7. k - 1 \notin Without
  BY <1>3, <1>6
<1>8. PICK q \in Nat, b \in 0 .. N - 1 : k - 1 = q * N + b
  BY <1>5, <1>7
<1>9. PICK r \in Nat, d \in 0 .. N - 1 : q * N + b + 1 = r * N + d
  BY CountOn
<1>10. k = r * N + d
  BY <1>5, <1>8, <1>9
<1> QED
  BY <1>3, <1>10

\* Two numbers less than N apart are told from each other modulo N.
LEMMA NearDiffers ==
  ASSUME NEW N \in Nat, N > 2, NEW x \in Nat, NEW y \in Nat, x <= y, y < x + N,
         x % N = y % N
  PROVE  x = y
<1>1. PICK q \in Nat, b \in 0 .. N - 1 : x = q * N + b
  BY Quotient
<1>2. PICK r \in Nat, d \in 0 .. N - 1 : y = r * N + d
  BY Quotient
<1>3. x % N = b /\ y % N = d
  BY <1>1, <1>2
<1>4. y - x = r * N - q * N /\ q * N \in Int /\ r * N \in Int
  BY <1>1, <1>2, <1>3
<1>5. CASE q = r
  BY <1>4, <1>5
<1>6. CASE q > r
  <2>1. q - r - 1 \in Nat /\ q = r + 1 + (q - r - 1)
    BY <1>6
  <2>2. (q - r - 1) * N >= 0
    BY <2>1
  <2>3. q * N = r * N + N + (q - r - 1) * N
    BY <2>1
  <2> QED
    BY <1>4, <2>2, <2>3
<1>7. CASE q < r
  <2>1. r - q - 1 \in Nat /\ r = q + 1 + (r - q - 1)
    BY <1>7
  <2>2. (r - q - 1) * N >= 0
    BY <2>1
  <2>3. r * N = q * N + N + (r - q - 1) * N
    BY <2>1
  <2> QED
    BY <1>4, <2>2, <2>3
<1> QED
  BY <1>5, <1>6, <1>7

-----------------------------------------------------------------------------
LEMMA Initially == XmodemInit /\ punctual => IInv
<1> USE XmodemAssumption
<1> SUFFICES ASSUME XmodemInit, punctual  PROVE IInv
  OBVIOUS
<1>1. TxType
  BY DEF XmodemInit, TxType, Running
<1>2. LineInv
  BY DEF XmodemInit, LineInv, Alone, Quiet
<1>3. StoredInv
  BY DEF XmodemInit, StoredInv, Stored
<1> QED
  BY <1>1, <1>2, <1>3 DEF IInv

\* What Write does when it is called with nothing under way and a packet that
\* the target has not refused.
LEMMA WriteKeeps ==
  ASSUME NEW t, TxType, UNCHANGED <<stored, target, punctual>>, punctual,
         t \in [state : Running, num : Nat, tries : Int, read : Nat, block : Nat],
         t.read <= Blocks, t.num = t.read, t.block = t.read, t.read > 0,
         Stored = t.num - 1 \/ Stored = t.num,
         line = << >>, back' = << >>, Write(t)
  PROVE  IInv'
<1> USE XmodemAssumption
<1>1. tx' \in [state : {"SENDING", "WAIT_ACK"}, num : {t.num}, tries : Int, read : {t.read}, block : {t.block}]
  BY DEF Write
<1>2. TxType'
  BY <1>1 DEF TxType, Running
<1>3. LineInv'
  <2>1. CASE tx'.state = "SENDING"
    <3>1. line' = << >>
      BY <2>1, <1>1 DEF Write
    <3> QED
      BY <2>1, <3>1 DEF LineInv, Quiet
  <2>2. CASE tx'.state = "WAIT_ACK"
    <3>1. line' = Append(line, Header(t))
      BY <2>2 DEF Write
    <3>2. line' = <<Header(t)>>
      BY <3>1, OneElement
    <3>3. Header(t) = Header(tx')
      BY <1>1 DEF Header
    <3> QED
      BY <2>2, <3>2, <3>3 DEF LineInv, Alone, Header
  <2> QED
    BY <1>1, <2>1, <2>2
<1>4. StoredInv'
  BY <1>1 DEF StoredInv, Stored, Acked, Came
<1> QED
  BY <1>2, <1>3, <1>4 DEF IInv

LEMMA NextBlock ==
  ASSUME NEW S, NEW t \in [state : S, num : Nat, tries : Int, read : Nat, block : Nat], NEW r, NEW k
  PROVE  [t EXCEPT !.read = r, !.block = r, !.tries = k] =
           [state |-> t.state, num |-> t.num, tries |-> k, read |-> r, block |-> r]
<1> DEFINE v == [t EXCEPT !.read = r]
           w == [v EXCEPT !.block = r]
<1>1. v = [state |-> t.state, num |-> t.num, tries |-> t.tries, read |-> r, block |-> t.block]
  OBVIOUS
<1>2. w = [state |-> t.state, num |-> t.num, tries |-> t.tries, read |-> r, block |-> r]
  <2> HIDE DEF v
  <2> QED
    BY <1>1
<1>3. [w EXCEPT !.tries = k] = [state |-> t.state, num |-> t.num, tries |-> k, read |-> r, block |-> r]
  <2> HIDE DEF w
  <2> QED
    BY <1>2
<1>4. [t EXCEPT !.read = r, !.block = r, !.tries = k] = [w EXCEPT !.tries = k]
  OBVIOUS
<1> QED
  BY <1>3, <1>4

LEMMA SendNextKeeps ==
  ASSUME TxType, UNCHANGED <<stored, target, punctual>>, punctual,
         NEW t \in [state : Running, num : Nat, tries : Int, read : Nat, block : Nat],
         t.read <= Blocks, t.num = t.read + 1, Stored = t.read,
         line = << >>, SendNext(t, << >>)
  PROVE  IInv'
<1> USE XmodemAssumption
<1>1. CASE t.read = Blocks
  <2>1. /\ tx' = [t EXCEPT !.state = "EOF", !.tries = Tries]
        /\ back' = << >> /\ line' = << >>
    BY <1>1 DEF SendNext
  <2>2. TxType'
    <3>1. tx' \in [state : Running, num : Nat, tries : Int, read : Nat, block : Nat]
      <4>1. tx' = [state |-> "EOF", num |-> t.num, tries |-> Tries, read |-> t.read, block |-> t.block]
        BY <2>1
      <4>2. "EOF" \in Running /\ Tries \in Int
        BY DEF Running
      <4> QED
        BY <4>1, <4>2
    <3>2. tx'.read <= Blocks
      BY <2>1
    <3> QED
      BY <3>1, <3>2 DEF TxType, Running
  <2>3. LineInv'
    BY <2>1 DEF LineInv, Quiet
  <2>4. StoredInv'
    BY <2>1, <1>1 DEF StoredInv, Stored
  <2> QED
    BY <2>2, <2>3, <2>4 DEF IInv
<1>2. CASE t.read < Blocks
  <2> DEFINE u == [t EXCEPT !.read = @ + 1, !.block = t.read + 1, !.tries = Tries]
  <2>1. Write(u) /\ back' = << >>
    BY <1>2 DEF SendNext
  <2>2. /\ u \in [state : Running, num : Nat, tries : Int, read : Nat, block : Nat]
        /\ u.read <= Blocks /\ u.num = u.read /\ u.block = u.read /\ u.read > 0
        /\ Stored = u.num - 1 /\ u.num = t.num
    <3>1. u \in [state : Running, num : Nat, tries : Int, read : Nat, block : Nat]
      <4>1. u = [state |-> t.state, num |-> t.num, tries |-> Tries, read |-> t.read + 1, block |-> t.read + 1]
        BY NextBlock
      <4>2. Tries \in Int
        OBVIOUS
      <4> QED
        BY <4>1, <4>2
    <3>2. u.read = t.read + 1 /\ u.block = t.read + 1 /\ u.num = t.num
      OBVIOUS
    <3> HIDE DEF u
    <3> QED
      BY <1>2, <3>1, <3>2
  <2> HIDE DEF u
  <2> QED
    BY <2>1, <2>2, WriteKeeps
<1> QED
  BY <1>1, <1>2

\* What came in is one character.
LEMMA OneCharacter ==
  ASSUME LineInv, back # << >>, tx.state \in Awaiting
  PROVE  line = << >> /\ Tail(back) = << >>
<1>1. PICK p : Alone(p)
  BY DEF LineInv, Awaiting
<1>2. line = << >> /\ \E c \in Char : back = <<c>>
  BY <1>1 DEF Alone, Quiet
<1> QED
  BY <1>2, OneElement

LEMMA SenderKeeps == ASSUME IInv, Tick, punctual'  PROVE IInv'
<1> USE XmodemAssumption DEF IInv
<1>0. tx.state \in Running \cup {"SUCCESS", "FAILURE"} /\ UNCHANGED punctual
  BY DEF TxType
<1>1. CASE StartTransfer
  <2> DEFINE t == [tx EXCEPT !.num = 1]
  <2>1. line = << >> /\ Tail(back) = << >>
    BY <1>1, OneCharacter DEF StartTransfer, Came, Awaiting
  <2>2. SendNext(t, << >>) /\ UNCHANGED <<stored, target, punctual>>
    BY <1>1, <2>1, <1>0 DEF StartTransfer
  <2>3. /\ t \in [state : Running, num : Nat, tries : Int, read : Nat, block : Nat]
        /\ t.read = 0 /\ t.num = 1
    BY <1>1 DEF StartTransfer, TxType, StoredInv, Running
  <2>4. Stored = 0
    BY <1>1 DEF StartTransfer, StoredInv
  <2>5. t.read <= Blocks /\ t.num = t.read + 1
    BY <2>3
  <2> HIDE DEF t
  <2> QED
    BY <2>1, <2>2, <2>3, <2>4, <2>5, SendNextKeeps
<1>2. CASE NoStartChar
  <2>1. line = << >> /\ Tail(back) = << >>
    BY <1>2, OneCharacter DEF NoStartChar, Awaiting
  <2>2. Quiet' /\ UNCHANGED <<tx, stored>> /\ tx.state = "START"
    BY <1>2, <2>1 DEF NoStartChar, Quiet
  <2>3. LineInv'
    BY <2>2 DEF LineInv, Alone, Quiet
  <2> QED
    BY <1>0, <2>2, <2>3 DEF TxType, StoredInv, Stored, Acked, Came
<1>3. CASE SendPacket
  <2>1. line = << >> /\ back = << >> /\ Stored = tx.read /\ tx.num = tx.read + 1 /\ tx.state = "SEND"
    BY <1>3 DEF SendPacket, LineInv, StoredInv, Quiet
  <2>2. SendNext(tx, << >>) /\ UNCHANGED <<stored, target, punctual>>
    BY <1>3, <2>1, <1>0 DEF SendPacket
  <2>3. tx \in [state : Running, num : Nat, tries : Int, read : Nat, block : Nat] /\ tx.read <= Blocks
    BY <2>1 DEF TxType, Running
  <2> QED
    BY <2>1, <2>2, <2>3, SendNextKeeps
<1>4. CASE ResendPacket
  <2>1. /\ tx.state \in {"RESEND", "SENDING"} /\ line = << >> /\ back' = << >>
        /\ Write(tx) /\ UNCHANGED <<stored, target, punctual>>
    BY <1>4, <1>0 DEF ResendPacket, LineInv, Quiet
  <2>2. tx \in [state : Running, num : Nat, tries : Int, read : Nat, block : Nat] /\ tx.read <= Blocks
    BY <2>1 DEF TxType, Running
  <2> QED
    BY <2>1, <2>2, WriteKeeps DEF StoredInv
<1>5. CASE PacketAcked
  <2>1. line = << >> /\ Tail(back) = << >> /\ tx.state = "WAIT_ACK" /\ Stored = tx.num /\ tx.num = tx.read
    BY <1>5, OneCharacter DEF PacketAcked, Awaiting, Acked, Came, StoredInv
  <2>2. Quiet' /\ UNCHANGED stored
    BY <1>5, <2>1 DEF PacketAcked, Quiet
  <2>3. /\ tx' \in [state : {"SEND"}, num : {tx.num + 1}, tries : Int, read : {tx.read}, block : Nat]
        /\ tx.num \in Nat /\ tx.read \in Nat
    BY <1>5 DEF PacketAcked, TxType
  <2>4. TxType'
    BY <2>2, <2>3 DEF TxType, Running
  <2>5. LineInv'
    BY <2>2, <2>3 DEF LineInv
  <2>6. StoredInv'
    BY <2>1, <2>2, <2>3 DEF StoredInv, Stored
  <2> QED
    BY <1>0, <2>4, <2>5, <2>6
<1>6. CASE SendEot
  <2>1. /\ Quiet /\ Stored = Blocks /\ UNCHANGED <<back, stored>>
        /\ tx' \in [state : {"FINAL_ACK"}, num : {tx.num}, tries : Int, read : {tx.read}, block : Nat]
        /\ tx.num \in Nat /\ tx.read \in Nat
    BY <1>6 DEF SendEot, LineInv, StoredInv, TxType
  <2>2. line' = << >> \/ line' = <<EOT>>
    BY <1>6, <2>1, OneElement DEF SendEot, Quiet
  <2>3. LineInv'
    BY <2>1, <2>2 DEF LineInv, Alone, Quiet, EOT
  <2>4. TxType'
    BY <2>1 DEF TxType, Running
  <2> QED
    BY <1>0, <2>1, <2>3, <2>4 DEF StoredInv, Stored
<1>7. CASE FinalAck
  <2>1. line = << >>
    BY <1>7, OneCharacter DEF FinalAck, Awaiting, Acked, Came
  <2>2. /\ Stored = Blocks /\ line' = << >> /\ UNCHANGED stored
        /\ tx' \in [state : {"SUCCESS"}, num : {tx.num}, tries : Int, read : {tx.read}, block : Nat]
        /\ tx.num \in Nat /\ tx.read \in Nat
    BY <1>7, <2>1 DEF FinalAck, StoredInv, TxType
  <2>3. TxType'
    BY <2>2 DEF TxType, Running
  <2> QED
    BY <1>0, <2>2, <2>3 DEF LineInv, StoredInv, Stored
<1>8. CASE TryAgain
  <2>1. tx.state \in {"WAIT_ACK", "FINAL_ACK"} /\ NotAcked /\ UNCHANGED <<line, stored>>
    BY <1>8 DEF TryAgain
  <2>2. Quiet'
    BY <2>1, OneCharacter DEF NotAcked, Awaiting, Quiet
  <2>3. /\ tx' \in [state : {NextTry}, num : {tx.num}, tries : Int, read : {tx.read}, block : {tx.block}]
        /\ tx.num \in Nat /\ tx.read \in Nat /\ tx.block \in Nat
    <3>1. tx' = [state |-> NextTry, num |-> tx.num, tries |-> tx.tries - 1, read |-> tx.read, block |-> tx.block]
      BY <1>8 DEF TryAgain, TxType, TriesLeft
    <3>2. tx.num \in Nat /\ tx.tries \in Int /\ tx.read \in Nat /\ tx.block \in Nat
      BY DEF TxType
    <3> QED
      BY <3>1, <3>2
  <2>4. TxType'
    BY <2>2, <2>1, <2>3 DEF TxType, Running, NextTry
  <2>5. LineInv'
    BY <2>1, <2>2, <2>3 DEF LineInv, NextTry
  <2>6. StoredInv'
    BY <2>1, <2>3 DEF StoredInv, Stored, NextTry
  <2> QED
    BY <1>0, <2>3, <2>4, <2>5, <2>6
<1>9. ASSUME Cancel, line = << >>  PROVE IInv'
  <2>1. /\ tx' \in [state : {"FAILURE"}, num : {tx.num}, tries : Int, read : {tx.read}, block : Nat]
        /\ tx.num \in Nat /\ tx.read \in Nat /\ UNCHANGED <<line, stored>>
    BY <1>9 DEF Cancel, TxType
  <2>2. TxType'
    BY <2>1 DEF TxType
  <2> QED
    BY <1>0, <1>9, <2>1, <2>2 DEF LineInv, StoredInv
<1>10. CASE GiveUp
  <2>1. line = << >>
    BY <1>10, OneCharacter DEF GiveUp, NotAcked, Awaiting
  <2> QED
    BY <1>9, <1>10, <2>1 DEF GiveUp
<1>11. CASE SendFails
  <2>1. line = << >>
    BY <1>11 DEF SendFails, LineInv, Quiet
  <2> QED
    BY <1>9, <1>11, <2>1 DEF SendFails
<1> QED
  BY <1>1, <1>2, <1>3, <1>4, <1>5, <1>6, <1>7, <1>8, <1>10, <1>11 DEF Tick

\* A packet arrives: what that leaves under way, and which packet it is.
LEMMA PacketUnderWay ==
  ASSUME IInv, Arrives
  PROVE  /\ back = << >> /\ line' = << >> /\ UNCHANGED tx
         /\ \/ tx.state = "WAIT_ACK" /\ Head(line) = Header(tx) /\ Head(line) # EOT
            \/ tx.state = "FINAL_ACK" /\ Head(line) = EOT
<1> USE XmodemAssumption
<1>1. line # << >> /\ line' = Tail(line) /\ UNCHANGED tx
  BY DEF Arrives
<1>2. tx.state \in {"START", "WAIT_ACK", "FINAL_ACK"}
  BY <1>1 DEF IInv, LineInv, TxType, Running, Quiet
<1>3. tx.state # "START"
  BY <1>1 DEF IInv, LineInv
<1>4. CASE tx.state = "WAIT_ACK"
  <2>1. line = <<Header(tx)>> /\ back = << >>
    BY <1>1, <1>4 DEF IInv, LineInv, Alone, Quiet
  <2>2. Header(tx) # EOT
    BY <1>4 DEF IInv, StoredInv, Header, EOT, TxType
  <2> QED
    BY <1>1, <1>4, <2>1, <2>2, OneElement
<1>5. CASE tx.state = "FINAL_ACK"
  <2>1. line = <<EOT>> /\ back = << >>
    BY <1>1, <1>5 DEF IInv, LineInv, Alone, Quiet
  <2> QED
    BY <1>1, <1>5, <2>1, OneElement
<1> QED
  BY <1>2, <1>3, <1>4, <1>5

\* An answer is under way, or none.
LEMMA AnswerUnderWay ==
  ASSUME NEW ch \in Char, TargetAnswers(ch), back = << >>
  PROVE  \/ back' = << >>
         \/ \E c \in {ch, "other"} : c \in Char /\ back' = <<c>> /\ Head(back') = c
<1>1. CASE UNCHANGED back
  BY <1>1
<1>2. CASE \E c \in {ch, "other"} : back' = Append(back, c)
  <2>1. PICK c \in {ch, "other"} : back' = Append(back, c)
    BY <1>2
  <2>2. back' = <<c>> /\ Head(back') = c
    BY <2>1, OneElement
  <2> QED
    BY <2>2 DEF Char
<1> QED
  BY <1>1, <1>2 DEF TargetAnswers

\* The invariant, when an answer took the place of the packet.
LEMMA AnswerKeeps ==
  ASSUME IInv, UNCHANGED <<tx, punctual>>, stored' \in Seq(Nat), line' = << >>,
         tx.state \in {"WAIT_ACK", "FINAL_ACK"},
         back' = << >> \/ \E c \in Char : back' = <<c>>,
         tx.state = "WAIT_ACK" => Stored' = tx.num - 1 \/ Stored' = tx.num,
         tx.state = "WAIT_ACK" /\ Acked' => Stored' = tx.num,
         tx.state = "FINAL_ACK" => Stored' = Blocks
  PROVE  IInv'
<1>1. TxType'
  BY DEF IInv, TxType
<1>2. LineInv'
  BY DEF LineInv, Alone, Quiet
<1>3. StoredInv'
  BY DEF IInv, StoredInv
<1> QED
  BY <1>1, <1>2, <1>3 DEF IInv

\* The target takes a packet only when it is the one it has not stored yet.
LEMMA TakenIsNext ==
  ASSUME IInv, TakePacket
  PROVE  /\ tx.state = "WAIT_ACK" /\ Stored = tx.num - 1
         /\ stored' = Append(stored, Stored + 1) /\ Stored' = Stored + 1
         /\ tx.num <= Blocks
<1> USE XmodemAssumption
<1>1. tx.state = "WAIT_ACK" /\ Head(line) = Header(tx)
  BY PacketUnderWay DEF TakePacket, Wanted
<1>2. tx.num % Numbers = (Stored + 1) % Numbers
  BY <1>1 DEF TakePacket, Header, Stored
<1>3. Stored # tx.num
  <2>1. tx.num \in Nat /\ Numbers \in Nat /\ Numbers > 2
    BY DEF IInv, TxType
  <2>2. ASSUME tx.num % Numbers = (tx.num + 1) % Numbers  PROVE FALSE
    <3>1. tx.num <= tx.num + 1 /\ tx.num + 1 < tx.num + Numbers /\ tx.num + 1 \in Nat
      BY <2>1
    <3>2. tx.num = tx.num + 1
      BY ONLY <2>1, <2>2, <3>1, NearDiffers
    <3> QED
      BY <2>1, <3>2
  <2> QED
    BY <1>2, <2>2
<1>4. Stored = tx.num - 1 /\ tx.block = tx.num /\ tx.num <= Blocks /\ tx.num \in Nat
  BY <1>1, <1>3 DEF IInv, StoredInv, TxType
<1>5. stored' = Append(stored, tx.block)
  BY <1>1 DEF TakePacket, Header
<1>6. tx.block = Stored + 1
  BY <1>4
<1>7. Stored' = Stored + 1
  BY <1>5, <1>4 DEF Stored, IInv, TxType
<1> QED
  BY <1>1, <1>4, <1>5, <1>6, <1>7

LEMMA TargetKeeps == ASSUME IInv, Target, UNCHANGED punctual  PROVE IInv'
<1> USE XmodemAssumption
<1>1. CASE Ask
  <2>1. /\ line = << >> /\ back = << >> /\ tx.state \in Awaiting /\ UNCHANGED <<tx, line, stored>>
        /\ back' = <<"C">> /\ Head(back') = "C"
    BY <1>1, OneElement DEF Ask, IInv, Awaiting
  <2>2. TxType'
    BY <2>1 DEF IInv, TxType
  <2>3. LineInv'
    BY <2>1 DEF LineInv, Alone, Quiet, Awaiting, Char
  <2>4. StoredInv'
    BY <2>1 DEF IInv, StoredInv, Stored, Awaiting, Acked, Came
  <2> QED
    BY <2>1, <2>2, <2>3, <2>4 DEF IInv
<1>2. CASE Lost
  <2>1. /\ line' = << >> /\ back' = << >> /\ UNCHANGED <<tx, stored>>
        /\ tx.state \in {"WAIT_ACK", "FINAL_ACK"}
    BY <1>2, PacketUnderWay DEF Lost
  <2> QED
    BY <2>1, AnswerKeeps DEF IInv, TxType, StoredInv, Stored, Acked, Came
<1>3. CASE TakePacket
  <2>1. line' = << >> /\ back = << >> /\ UNCHANGED tx
    BY <1>3, PacketUnderWay DEF TakePacket
  <2>2. tx.state = "WAIT_ACK" /\ Stored' = tx.num /\ stored' \in Seq(Nat)
    <3>1. Stored \in Nat /\ tx.num \in Nat /\ stored \in Seq(Nat)
      BY DEF IInv, TxType, Stored
    <3>2. /\ tx.state = "WAIT_ACK" /\ Stored = tx.num - 1 /\ Stored' = Stored + 1
          /\ stored' = Append(stored, Stored + 1)
      BY <1>3, TakenIsNext
    <3>3. Stored + 1 \in Nat
      BY <3>1
    <3>4. stored' \in Seq(Nat)
      BY <3>1, <3>2, <3>3
    <3> QED
      BY <3>1, <3>2, <3>4
  <2>3. back' = << >> \/ \E c \in Char : back' = <<c>>
    BY <1>3, <2>1, AnswerUnderWay DEF TakePacket, Char
  <2> QED
    BY <2>1, <2>2, <2>3, AnswerKeeps
<1>4. CASE RefusePacket
  <2>1. line' = << >> /\ back = << >> /\ UNCHANGED <<tx, stored>> /\ tx.state = "WAIT_ACK" /\ Head(line) = Header(tx)
    BY <1>4, PacketUnderWay DEF RefusePacket, Wanted
  <2>2. stored' \in Seq(Nat) /\ Stored' = Stored /\ (Stored = tx.num - 1 \/ Stored = tx.num) /\ tx.num \in Nat
    BY <2>1 DEF IInv, TxType, StoredInv, Stored
  <2>3. CASE TargetAnswers("NAK")
    <3>1. back' = << >> \/ \E c \in {"NAK", "other"} : c \in Char /\ back' = <<c>> /\ Head(back') = c
      BY <2>1, <2>3, AnswerUnderWay DEF Char
    <3> QED
      BY <2>1, <2>2, <3>1, AnswerKeeps DEF Acked, Came
  <2>4. CASE /\ Head(line).num # (Stored + 1) % Numbers
             /\ TargetAnswers(IF Head(line).num = Stored % Numbers THEN "ACK" ELSE "CAN")
    <3>1. tx.num % Numbers # (Stored + 1) % Numbers
      BY <2>1, <2>4 DEF Header
    <3>2. Stored = tx.num
      BY <2>2, <3>1
    <3>3. PICK ch \in {"ACK", "CAN"} : TargetAnswers(ch)
      BY <2>4
    <3>4. back' = << >> \/ \E c \in {ch, "other"} : c \in Char /\ back' = <<c>> /\ Head(back') = c
      BY <2>1, <3>3, AnswerUnderWay DEF Char
    <3> QED
      BY <2>1, <2>2, <3>2, <3>4, AnswerKeeps
  <2> QED
    BY <1>4, <2>3, <2>4 DEF RefusePacket, Stored
<1>5. CASE TakeEot
  <2>1. line' = << >> /\ back = << >> /\ UNCHANGED <<tx, stored>> /\ tx.state = "FINAL_ACK"
    BY <1>5, PacketUnderWay DEF TakeEot
  <2>2. back' = << >> \/ \E c \in Char : back' = <<c>>
    BY <1>5, <2>1, AnswerUnderWay DEF TakeEot, Char
  <2> QED
    BY <2>1, <2>2, AnswerKeeps DEF IInv, TxType, StoredInv, Stored
<1> QED
  BY <1>1, <1>2, <1>3, <1>4, <1>5 DEF Target

-----------------------------------------------------------------------------
LEMMA StepKeeps == IInv /\ [XmodemNext]_xmodemVars => IInv'
<1>1. ASSUME IInv, XmodemNext  PROVE IInv'
  <2>1. UNCHANGED punctual /\ punctual'
    BY <1>1 DEF XmodemNext, IInv
  <2> QED
    BY <1>1, <2>1, SenderKeeps, TargetKeeps DEF XmodemNext
<1>2. ASSUME IInv, UNCHANGED xmodemVars  PROVE IInv'
  BY <1>2 DEF xmodemVars, IInv, TxType, LineInv, StoredInv, Alone, Quiet, Stored, Acked, Came
<1> QED
  BY <1>1, <1>2

(***************************************************************************)
(* With a punctual target the sender and the target run in lock step, for  *)
(* every length of the file, number of tries and modulus of the packet     *)
(* numbers: xbee_xmodem_tx_tick never leaves a packet or an answer behind  *)
(* that could be taken for a later one.                                    *)
(***************************************************************************)
THEOREM LockStep == XmodemSpec /\ punctual => []IInv
<1>1. XmodemInit /\ punctual => IInv
  BY Initially
<1>2. IInv /\ [XmodemNext]_xmodemVars => IInv'
  BY StepKeeps
<1> QED
  BY <1>1, <1>2, PTL DEF XmodemSpec

\* The reported outcome changes when the sender ends, and only then.
LEMMA OutcomeOf ==
  ASSUME punctual
  PROVE  Outcome = IF tx.state = "SUCCESS" THEN "success"
                   ELSE IF tx.state = "FAILURE" THEN "failure" ELSE "none"
BY DEF Outcome

LEMMA StepRefines == IInv /\ [XmodemNext]_xmodemVars => [T!Next]_(T!vars)
<1> USE XmodemAssumption
<1> SUFFICES ASSUME IInv, [XmodemNext]_xmodemVars  PROVE [T!Next]_(T!vars)
  OBVIOUS
<1>0. punctual /\ punctual'
  BY DEF IInv, XmodemNext, xmodemVars
<1>1. ASSUME UNCHANGED stored, tx.state \in Running, tx'.state \in Running  PROVE UNCHANGED T!vars
  BY <1>0, <1>1, OutcomeOf DEF T!vars, Outcome, Running
<1>2. ASSUME UNCHANGED <<tx, stored>>  PROVE UNCHANGED T!vars
  BY <1>0, <1>2 DEF T!vars, Outcome
<1>3. ASSUME UNCHANGED stored, tx.state \in Running, tx'.state = "FAILURE"  PROVE T!Fail
  BY <1>0, <1>3 DEF T!Fail, Outcome, Running
<1>4. ASSUME Tick  PROVE T!Next \/ UNCHANGED T!vars
  <2>1. UNCHANGED stored /\ tx.state \in Running
    BY <1>4 DEF Tick, StartTransfer, NoStartChar, SendPacket, ResendPacket, PacketAcked, SendEot,
                FinalAck, TryAgain, GiveUp, SendFails, Cancel, Running
  <2>2. CASE FinalAck
    <3>1. tx.state = "FINAL_ACK" /\ tx'.state = "SUCCESS" /\ Len(stored) = Blocks
      BY <2>2 DEF FinalAck, IInv, TxType, StoredInv, Stored
    <3>2. T!Succeed
      BY <1>0, <2>1, <3>1 DEF T!Succeed, Outcome
    <3> QED
      BY <3>2 DEF T!Next
  <2>3. CASE GiveUp \/ SendFails
    <3>1. tx'.state = "FAILURE"
      BY <2>3 DEF GiveUp, SendFails, Cancel, IInv, TxType
    <3> QED
      BY <2>1, <3>1, <1>3 DEF T!Next
  <2>4. CASE StartTransfer \/ NoStartChar \/ SendPacket \/ ResendPacket \/ PacketAcked \/ SendEot \/ TryAgain
    <3>1. tx'.state \in Running
      BY <2>4 DEF StartTransfer, NoStartChar, SendPacket, ResendPacket, PacketAcked, SendEot, TryAgain,
                  SendNext, Write, NextTry, Running, IInv, TxType
    <3> QED
      BY <2>1, <3>1, <1>1
  <2> QED
    BY <1>4, <2>2, <2>3, <2>4 DEF Tick
<1>5. CASE TakePacket
  <2>1. /\ UNCHANGED tx /\ stored' = Append(stored, Len(stored) + 1)
        /\ Len(stored) < Blocks
    <3>1. Stored \in Nat /\ tx.num \in Nat
      BY DEF IInv, TxType, Stored
    <3> QED
      BY <1>5, <3>1, TakenIsNext DEF TakePacket, Arrives, Stored
  <2>2. T!Deliver
    BY <1>0, <2>1 DEF T!Deliver, Outcome
  <2> QED
    BY <2>2 DEF T!Next
<1>6. CASE Ask \/ Lost \/ RefusePacket \/ TakeEot
  BY <1>6, <1>2 DEF Ask, Lost, RefusePacket, TakeEot, Arrives
<1>7. CASE UNCHANGED xmodemVars
  BY <1>7, <1>2 DEF xmodemVars
<1> QED
  BY <1>4, <1>5, <1>6, <1>7 DEF XmodemNext, Target

(***************************************************************************)
(* With a punctual target the sender implements a file transfer, whatever  *)
(* is lost or garbled: the target stores the blocks of the file in order,  *)
(* and the sender reports success only when it has them all.               *)
(***************************************************************************)
THEOREM TransferImplemented == XmodemSpec /\ punctual => ImplementsTransfer
<1>1. XmodemInit /\ punctual => T!Init
  BY DEF XmodemInit, T!Init, Outcome
<1>2. IInv /\ [XmodemNext]_xmodemVars => [T!Next]_(T!vars)
  BY StepRefines
<1> QED
  BY <1>1, <1>2, LockStep, PTL DEF XmodemSpec, ImplementsTransfer, T!Spec

-----------------------------------------------------------------------------
(* Types, of a target that is late too. *)

\* The number of the packet that is sent, or sent next, and what is read.
Numbered(t) ==
  /\ t.state = "START" => t.read = 0
  /\ t.state = "SEND" => t.num = t.read + 1
  /\ t.state \in {"RESEND", "SENDING", "WAIT_ACK"} =>
       t.num = t.read /\ t.block = t.read /\ t.read > 0

TxTypes == [state : Running \cup {"SUCCESS", "FAILURE"}, num : 0 .. Blocks + 1,
            tries : 0 .. Tries, read : 0 .. Blocks, block : 0 .. Blocks]

NumberedInv == XmodemTypeOK /\ Numbered(tx)

\* A sender is made up of its fields.
LEMMA FieldsOf ==
  ASSUME NEW t \in TxTypes
  PROVE  /\ t.state \in Running \cup {"SUCCESS", "FAILURE"} /\ t.num \in 0 .. Blocks + 1
         /\ t.tries \in 0 .. Tries /\ t.read \in 0 .. Blocks /\ t.block \in 0 .. Blocks
BY DEF TxTypes

LEMMA StateSet ==
  ASSUME NEW t \in TxTypes, NEW s \in Running \cup {"SUCCESS", "FAILURE"}
  PROVE  [t EXCEPT !.state = s] \in TxTypes
BY DEF TxTypes

LEMMA NumSet ==
  ASSUME NEW t \in TxTypes, NEW s \in Running \cup {"SUCCESS", "FAILURE"}, NEW n \in 0 .. Blocks + 1
  PROVE  [t EXCEPT !.state = s, !.num = n] \in TxTypes
BY DEF TxTypes

LEMMA TriesSet ==
  ASSUME NEW t \in TxTypes, NEW s \in Running \cup {"SUCCESS", "FAILURE"}, NEW k \in 0 .. Tries
  PROVE  [t EXCEPT !.state = s, !.tries = k] \in TxTypes
BY DEF TxTypes

LEMMA Counts == Blocks \in Nat /\ Numbers \in Nat /\ Numbers > 2 /\ Tries \in Nat \ {0}
BY XmodemAssumption

\* The states of a sender that may call Write, and what it writes.
LEMMA WriteTypes ==
  ASSUME NEW t \in TxTypes, t.num = t.read, t.block = t.read, t.read > 0, XmodemTypeOK, Write(t)
  PROVE  tx' \in TxTypes /\ Numbered(tx') /\ line' \in Seq(Packet \cup {EOT})
<1>1. line \in Seq(Packet \cup {EOT})
  BY DEF XmodemTypeOK
<1>0. ASSUME NEW s \in {"SENDING", "WAIT_ACK"}, tx' = [t EXCEPT !.state = s]
      PROVE  tx' \in TxTypes /\ Numbered(tx')
  <2>1. tx' \in TxTypes
    <3>1. s \in Running \cup {"SUCCESS", "FAILURE"}
      BY <1>0 DEF Running
    <3> QED
      BY ONLY <1>0, <3>1, StateSet, t \in TxTypes
  <2>2. tx'.state = s /\ tx'.num = t.num /\ tx'.read = t.read /\ tx'.block = t.block
    BY <1>0 DEF TxTypes
  <2> QED
    BY <2>1, <2>2 DEF Numbered
<1>2. CASE tx' = [t EXCEPT !.state = "SENDING"] /\ UNCHANGED line
  BY <1>0, <1>1, <1>2
<1>3. CASE tx' = [t EXCEPT !.state = "WAIT_ACK"] /\ line' = Append(line, Header(t))
  <2>1. t.num % Numbers \in 0 .. Numbers - 1 /\ t.block \in 1 .. Blocks
    BY Counts DEF TxTypes
  <2>2. Header(t) \in Packet
    BY <2>1 DEF Header, Packet
  <2>3. line' \in Seq(Packet \cup {EOT})
    BY <1>1, <1>3, <2>2
  <2> QED
    BY <1>0, <1>3, <2>3
<1> QED
  BY <1>2, <1>3 DEF Write

LEMMA SendNextTypes ==
  ASSUME NEW t \in TxTypes, t.num = t.read + 1, NEW chars \in Seq(Char), XmodemTypeOK,
         SendNext(t, chars)
  PROVE  /\ tx' \in TxTypes /\ Numbered(tx') /\ line' \in Seq(Packet \cup {EOT})
         /\ back' \in Seq(Char)
<1>1. CASE t.read = Blocks
  <2>1. tx' = [t EXCEPT !.state = "EOF", !.tries = Tries] /\ back' = chars /\ UNCHANGED line
    BY <1>1 DEF SendNext, TxTypes
  <2>2. tx' \in TxTypes
    <3>1. "EOF" \in Running \cup {"SUCCESS", "FAILURE"} /\ Tries \in 0 .. Tries
      BY Counts DEF Running
    <3> QED
      BY ONLY <2>1, <3>1, TriesSet, t \in TxTypes
  <2>3. tx'.state = "EOF"
    BY <2>1 DEF TxTypes
  <2>4. Numbered(tx') /\ line' \in Seq(Packet \cup {EOT})
    BY <2>1, <2>3 DEF XmodemTypeOK, Numbered
  <2> QED
    BY <2>1, <2>2, <2>4
<1>2. CASE t.read < Blocks
  <2> DEFINE u == [t EXCEPT !.read = @ + 1, !.block = t.read + 1, !.tries = Tries]
  <2>1. Write(u) /\ back' = << >>
    BY <1>2, Counts DEF SendNext, TxTypes
  <2>2. u \in TxTypes /\ u.num = u.read /\ u.block = u.read /\ u.read > 0
    <3>1. t.read + 1 \in 0 .. Blocks /\ Tries \in 0 .. Tries /\ t.read + 1 > 0
      BY <1>2, FieldsOf, Counts
    <3>2. u \in TxTypes
      BY <3>1 DEF TxTypes
    <3>3. u.read = t.read + 1 /\ u.block = t.read + 1 /\ u.num = t.num
      BY DEF TxTypes
    <3> QED
      BY <3>1, <3>2, <3>3
  <2> HIDE DEF u
  <2>3. tx' \in TxTypes /\ Numbered(tx') /\ line' \in Seq(Packet \cup {EOT})
    BY <2>1, <2>2, WriteTypes
  <2> QED
    BY <2>1, <2>3
<1> QED
  BY <1>1, <1>2, Counts DEF TxTypes

LEMMA BackTail == XmodemTypeOK /\ back # << >> => Tail(back) \in Seq(Char)
BY DEF XmodemTypeOK

LEMMA LineTail ==
  XmodemTypeOK /\ line # << >> =>
    Tail(line) \in Seq(Packet \cup {EOT}) /\ Head(line) \in Packet \cup {EOT}
BY DEF XmodemTypeOK

LEMMA TickTypes ==
  ASSUME NumberedInv, Tick, UNCHANGED punctual
  PROVE  NumberedInv'
<1>0. /\ XmodemTypeOK /\ Numbered(tx) /\ tx \in TxTypes /\ back \in Seq(Char)
      /\ line \in Seq(Packet \cup {EOT})
  BY DEF NumberedInv, XmodemTypeOK, TxTypes
<1>1. ASSUME tx' \in TxTypes, Numbered(tx'), line' \in Seq(Packet \cup {EOT}), back' \in Seq(Char),
             stored' = stored, target' \in {"asks", "takes", "done", "cancelled"}
      PROVE  NumberedInv'
  BY <1>0, <1>1 DEF NumberedInv, XmodemTypeOK, TxTypes
<1>2. target \in {"asks", "takes", "done", "cancelled"}
  BY <1>0 DEF XmodemTypeOK
<1>3. CASE StartTransfer
  <2> DEFINE t == [tx EXCEPT !.num = 1]
  <2>1. SendNext(t, Tail(back)) /\ UNCHANGED <<stored, target>> /\ Tail(back) \in Seq(Char)
    BY <1>0, <1>3, BackTail DEF StartTransfer, Came
  <2>2. t \in TxTypes /\ t.num = t.read + 1
    BY <1>0, <1>3, Counts DEF StartTransfer, TxTypes, Numbered
  <2> HIDE DEF t
  <2> QED
    BY <1>0, <1>1, <1>2, <2>1, <2>2, SendNextTypes
<1>4. CASE SendPacket
  <2>1. SendNext(tx, back) /\ UNCHANGED <<stored, target>> /\ tx.num = tx.read + 1
    BY <1>0, <1>4 DEF SendPacket, Numbered
  <2> QED
    BY <1>0, <1>1, <1>2, <2>1, SendNextTypes
<1>5. CASE ResendPacket
  <2>1. /\ Write(tx) /\ UNCHANGED <<back, stored, target>>
        /\ tx.num = tx.read /\ tx.block = tx.read /\ tx.read > 0
    BY <1>0, <1>5 DEF ResendPacket, Numbered
  <2> QED
    BY <1>0, <1>1, <1>2, <2>1, WriteTypes
<1>6. CASE NoStartChar
  <2>1. tx' = tx /\ line' = line /\ stored' = stored /\ target' = target /\ back' \in Seq(Char)
    BY <1>0, <1>6, BackTail DEF NoStartChar
  <2> QED
    BY <1>0, <1>1, <1>2, <2>1
<1>7. CASE PacketAcked
  <2>1. /\ tx.state = "WAIT_ACK" /\ tx' = [tx EXCEPT !.state = "SEND", !.num = @ + 1]
        /\ UNCHANGED <<line, stored, target>> /\ back' \in Seq(Char)
    BY <1>0, <1>7, BackTail DEF PacketAcked, Acked, Came
  <2>2. tx.num = tx.read
    BY <1>0, <2>1 DEF Numbered
  <2>3. tx' \in TxTypes /\ Numbered(tx')
    <3>1. tx.num + 1 \in 0 .. Blocks + 1 /\ "SEND" \in Running \cup {"SUCCESS", "FAILURE"}
      BY <1>0, <2>2, FieldsOf, Counts DEF Running
    <3>2. tx' \in TxTypes
      BY ONLY <1>0, <2>1, <3>1, NumSet
    <3>3. tx'.state = "SEND" /\ tx'.num = tx.num + 1 /\ tx'.read = tx.read
      BY <1>0, <2>1 DEF TxTypes
    <3> QED
      BY <2>2, <3>2, <3>3 DEF Numbered
  <2> QED
    BY <1>0, <1>1, <1>2, <2>1, <2>3
<1>8. CASE SendEot
  <2>1. /\ tx.state = "EOF" /\ tx' = [tx EXCEPT !.state = "FINAL_ACK"] /\ UNCHANGED <<back, stored, target>>
        /\ line' = line \/ line' = Append(line, EOT)
    BY <1>8 DEF SendEot
  <2>2. line' \in Seq(Packet \cup {EOT})
    BY <1>0, <2>1
  <2>3. tx' \in TxTypes /\ Numbered(tx')
    <3>1. tx' \in TxTypes
      <4>1. "FINAL_ACK" \in Running \cup {"SUCCESS", "FAILURE"}
        BY DEF Running
      <4> QED
        BY ONLY <1>0, <2>1, <4>1, StateSet
    <3>2. tx'.state = "FINAL_ACK"
      BY <1>0, <2>1 DEF TxTypes
    <3> QED
      BY <3>1, <3>2 DEF Numbered
  <2> QED
    BY <1>0, <1>1, <1>2, <2>1, <2>2, <2>3
<1>9. CASE FinalAck
  <2>1. /\ tx' = [tx EXCEPT !.state = "SUCCESS"] /\ UNCHANGED <<line, stored, target>>
        /\ back' \in Seq(Char)
    BY <1>0, <1>9, BackTail DEF FinalAck, Acked, Came
  <2>2. tx' \in TxTypes /\ Numbered(tx')
    <3>1. tx' \in TxTypes
      BY ONLY <1>0, <2>1, StateSet
    <3>2. tx'.state \in {"SUCCESS", "FAILURE"}
      BY <1>0, <2>1 DEF TxTypes
    <3> QED
      BY <3>1, <3>2 DEF Numbered
  <2> QED
    BY <1>0, <1>1, <1>2, <2>1, <2>2
<1>10. CASE TryAgain
  <2>1. /\ tx.state \in {"WAIT_ACK", "FINAL_ACK"} /\ TriesLeft > 0
        /\ tx' = [tx EXCEPT !.state = NextTry, !.tries = TriesLeft]
        /\ UNCHANGED <<line, stored, target>> /\ back' \in Seq(Char)
    BY <1>0, <1>10, BackTail DEF TryAgain, NotAcked
  <2>2. TriesLeft \in 0 .. Tries
    BY <1>0, <2>1, FieldsOf, Counts DEF TriesLeft
  <2>3. tx' \in TxTypes /\ Numbered(tx')
    <3>1. NextTry \in Running \cup {"SUCCESS", "FAILURE"}
      BY DEF NextTry, Running
    <3>2. tx' \in TxTypes
      BY ONLY <1>0, <2>1, <2>2, <3>1, TriesSet
    <3>3. /\ tx'.state = IF tx.state = "WAIT_ACK" THEN "RESEND" ELSE "EOF"
          /\ tx'.num = tx.num /\ tx'.read = tx.read /\ tx'.block = tx.block
      BY <1>0, <2>1 DEF TxTypes, NextTry
    <3> QED
      BY <1>0, <3>2, <3>3 DEF Numbered
  <2> QED
    BY <1>0, <1>1, <1>2, <2>1, <2>3
<1>11. CASE GiveUp \/ SendFails
  <2>1. /\ tx' = [tx EXCEPT !.state = "FAILURE"] /\ UNCHANGED <<line, stored>>
        /\ target' \in {"done", "cancelled"} /\ back' \in Seq(Char)
    BY <1>0, <1>11, BackTail DEF GiveUp, SendFails, Cancel, NotAcked
  <2>2. tx' \in TxTypes /\ Numbered(tx')
    <3>1. tx' \in TxTypes
      BY ONLY <1>0, <2>1, StateSet
    <3>2. tx'.state \in {"SUCCESS", "FAILURE"}
      BY <1>0, <2>1 DEF TxTypes
    <3> QED
      BY <3>1, <3>2 DEF Numbered
  <2> QED
    BY <1>0, <1>1, <2>1, <2>2
<1> QED
  BY <1>3, <1>4, <1>5, <1>6, <1>7, <1>8, <1>9, <1>10, <1>11 DEF Tick

LEMMA AnswerTypes ==
  ASSUME XmodemTypeOK, NEW ch \in Char, TargetAnswers(ch)
  PROVE  back' \in Seq(Char)
<1>1. back \in Seq(Char)
  BY DEF XmodemTypeOK
<1>2. CASE UNCHANGED back
  BY <1>1, <1>2
<1>3. CASE \E c \in {ch, "other"} : back' = Append(back, c)
  <2>1. PICK c \in Char : back' = Append(back, c)
    BY <1>3 DEF Char
  <2> QED
    BY <1>1, <2>1
<1> QED
  BY <1>2, <1>3 DEF TargetAnswers

LEMMA TargetTypes ==
  ASSUME NumberedInv, Target, UNCHANGED punctual
  PROVE  NumberedInv'
<1>0. XmodemTypeOK
  BY DEF NumberedInv
<1>1. ASSUME tx' = tx, line' \in Seq(Packet \cup {EOT}), back' \in Seq(Char),
             stored' \in Seq(1 .. Blocks), target' \in {"asks", "takes", "done", "cancelled"}
      PROVE  NumberedInv'
  BY <1>1 DEF NumberedInv, XmodemTypeOK, Numbered
<1>2. /\ target \in {"asks", "takes", "done", "cancelled"} /\ stored \in Seq(1 .. Blocks)
      /\ line \in Seq(Packet \cup {EOT}) /\ back \in Seq(Char)
  BY <1>0 DEF XmodemTypeOK
<1>3. CASE Ask
  <2>1. back' = Append(back, "C") /\ "C" \in Char /\ UNCHANGED <<tx, line, stored, target>>
    BY <1>3 DEF Ask, Char
  <2>2. back' \in Seq(Char)
    BY <1>2, <2>1
  <2> QED
    BY <1>1, <1>2, <2>1, <2>2
<1>4. Arrives => tx' = tx /\ line' \in Seq(Packet \cup {EOT}) /\ Head(line) \in Packet \cup {EOT}
  BY <1>0, LineTail DEF Arrives
<1>5. CASE Lost
  BY <1>1, <1>2, <1>4, <1>5 DEF Lost
<1>6. CASE TakePacket
  <2>1. Head(line) \in Packet /\ stored' = Append(stored, Head(line).block) /\ target' = "takes"
    BY <1>4, <1>6 DEF TakePacket, Wanted
  <2>2. stored' \in Seq(1 .. Blocks)
    BY <1>2, <2>1 DEF Packet
  <2>3. back' \in Seq(Char)
    BY <1>0, <1>6, AnswerTypes DEF TakePacket, Char
  <2> QED
    BY <1>1, <1>4, <1>6, <2>1, <2>2, <2>3 DEF TakePacket
<1>7. CASE RefusePacket
  <2>1. Arrives /\ UNCHANGED <<stored, target>> /\ \E ch \in Char : TargetAnswers(ch)
    BY <1>7 DEF RefusePacket, Char
  <2>2. back' \in Seq(Char)
    BY <1>0, <2>1, AnswerTypes
  <2> QED
    BY <1>1, <1>2, <1>4, <2>1, <2>2
<1>8. CASE TakeEot
  <2>1. Arrives /\ stored' = stored /\ target' = "done" /\ back' \in Seq(Char)
    BY <1>0, <1>8, AnswerTypes DEF TakeEot, Char
  <2> QED
    BY <1>1, <1>2, <1>4, <2>1
<1> QED
  BY <1>3, <1>5, <1>6, <1>7, <1>8 DEF Target

LEMMA TypesAtStart == XmodemInit => NumberedInv
<1> SUFFICES ASSUME XmodemInit  PROVE NumberedInv
  OBVIOUS
<1>1. tx \in TxTypes /\ Numbered(tx)
  BY Counts DEF XmodemInit, TxTypes, Running, Numbered
<1>2. line = << >> /\ back = << >> /\ stored = << >> /\ target = "asks"
  BY DEF XmodemInit
<1>3. punctual \in BOOLEAN
  BY DEF XmodemInit
<1> QED
  BY <1>1, <1>2, <1>3 DEF NumberedInv, XmodemTypeOK, TxTypes

(***************************************************************************)
(* A packet number never passes the number of blocks by more than one, no  *)
(* more blocks are read than there are, and what the target stores are     *)
(* blocks of the file, whether the target is punctual or late.             *)
(***************************************************************************)
THEOREM TypeCorrect == XmodemSpec => []XmodemTypeOK
<1>1. XmodemInit => NumberedInv
  BY TypesAtStart
<1>2. NumberedInv /\ [XmodemNext]_xmodemVars => NumberedInv'
  <2> SUFFICES ASSUME NumberedInv, [XmodemNext]_xmodemVars  PROVE NumberedInv'
    OBVIOUS
  <2>1. CASE UNCHANGED xmodemVars
    BY <2>1 DEF NumberedInv, XmodemTypeOK, Numbered, xmodemVars
  <2>2. CASE XmodemNext
    BY <2>2, TickTypes, TargetTypes DEF XmodemNext
  <2> QED
    BY <2>1, <2>2
<1>3. NumberedInv => XmodemTypeOK
  BY DEF NumberedInv
<1> QED
  BY <1>1, <1>2, <1>3, PTL DEF XmodemSpec

-----------------------------------------------------------------------------
(* A target that is late *)

Line == Packet \cup {EOT}

\* The packets on the line are in order, none of them before the last block
\* stored or after the last one read.
Sorted(l, s, r) ==
  /\ \A i \in 1 .. Len(l) : l[i] # EOT =>
       l[i].num = l[i].block % Numbers /\ s <= l[i].block /\ l[i].block <= r
  /\ \A i, j \in 1 .. Len(l) :
       i <= j /\ l[i] # EOT /\ l[j] # EOT => l[i].block <= l[j].block

OnlyPackets(l) == Len(l) <= Room /\ \A i \in 1 .. Len(l) : l[i] # EOT

\* With e more answers, the packets on the line up to block b cannot take the
\* sender, at block n, further than Room blocks past the one after b.
Ahead(n, l, s, e) ==
  \A b \in s .. n - 1, i \in 0 .. Len(l) : i = 0 \/ l[i].block <= b => n - b - 1 + i + e <= Room

HasAck(chars) == \E i \in 1 .. Len(chars) : chars[i] = "ACK"
Sending == {"RESEND", "SENDING", "WAIT_ACK"}

AheadInv ==
  /\ tx.state \in {"START", "SEND"} \cup Sending => OnlyPackets(line) /\ Ahead(tx.num, line, Stored, 0)
  /\ tx.state \in Sending /\ HasAck(back) => Ahead(tx.num, line, Stored, 1)
  /\ tx.state = "START" => line = << >> /\ stored = << >>

LateInv ==
  /\ NumberedInv
  /\ Sorted(line, Stored, tx.read)
  /\ Stored <= tx.read /\ tx.read <= Stored + Room + 1
  /\ AheadInv

\* What is on the line.
LEMMA LineElement ==
  ASSUME NEW p \in Line
  PROVE  /\ p.block \in Nat /\ p.num \in Nat
         /\ p # EOT => p.block > 0 /\ p.block <= Blocks
BY Counts DEF Line, Packet, EOT

LEMMA TailOf ==
  ASSUME NEW S, NEW l \in Seq(S), l # << >>
  PROVE  /\ Tail(l) \in Seq(S) /\ Len(Tail(l)) = Len(l) - 1 /\ Len(l) \in Nat /\ Len(l) > 0
         /\ \A i \in 1 .. Len(Tail(l)) : i + 1 \in 1 .. Len(l) /\ Tail(l)[i] = l[i + 1]
         /\ Head(l) = l[1] /\ Head(l) \in S /\ 1 \in 1 .. Len(l)
<1>1. Len(l) \in Nat /\ Len(l) > 0
  OBVIOUS
<1>2. Tail(l) \in Seq(S) /\ Len(Tail(l)) = Len(l) - 1
  OBVIOUS
<1>3. ASSUME NEW i \in 1 .. Len(Tail(l))
      PROVE  i + 1 \in 1 .. Len(l) /\ Tail(l)[i] = l[i + 1]
  BY <1>2
<1>4. Head(l) = l[1] /\ Head(l) \in S
  OBVIOUS
<1> QED
  BY <1>1, <1>2, <1>3, <1>4

LEMMA AppendOf ==
  ASSUME NEW S, NEW l \in Seq(S), NEW p \in S
  PROVE  /\ Append(l, p) \in Seq(S) /\ Len(Append(l, p)) = Len(l) + 1 /\ Len(l) \in Nat
         /\ \A i \in 1 .. Len(l) : Append(l, p)[i] = l[i]
         /\ Append(l, p)[Len(l) + 1] = p
OBVIOUS

\* The head leaves the line, and block s may have been stored.
LEMMA SortedTail ==
  ASSUME NEW l \in Seq(Line), l # << >>, NEW s \in Nat, NEW r \in Nat, Sorted(l, s, r),
         NEW s2 \in Nat, s2 = s \/ (Head(l) # EOT /\ s2 = Head(l).block)
  PROVE  Sorted(Tail(l), s2, r)
<1> DEFINE m == Tail(l)
<1>1. /\ Len(m) = Len(l) - 1 /\ Len(l) \in Nat /\ Len(l) > 0 /\ Head(l) = l[1] /\ 1 \in 1 .. Len(l)
      /\ \A i \in 1 .. Len(m) : i + 1 \in 1 .. Len(l) /\ m[i] = l[i + 1]
  BY TailOf
<1> HIDE DEF m
<1>2. \A i, j \in 1 .. Len(m) : i <= j /\ m[i] # EOT /\ m[j] # EOT => m[i].block <= m[j].block
  BY <1>1 DEF Sorted
<1>3. ASSUME NEW i \in 1 .. Len(m), m[i] # EOT
      PROVE  m[i].num = m[i].block % Numbers /\ s2 <= m[i].block /\ m[i].block <= r
  <2>1. i + 1 \in 1 .. Len(l) /\ m[i] = l[i + 1] /\ 1 <= i + 1
    BY <1>1
  <2>2. m[i].num = m[i].block % Numbers /\ s <= m[i].block /\ m[i].block <= r
    BY <1>3, <2>1 DEF Sorted
  <2>3. Head(l) # EOT => Head(l).block <= m[i].block
    BY <1>1, <1>3, <2>1 DEF Sorted
  <2> QED
    BY <2>2, <2>3
<1> QED
  BY <1>2, <1>3 DEF Sorted, m

LEMMA SortedAppend ==
  ASSUME NEW l \in Seq(Line), NEW s \in Nat, NEW r \in Nat, NEW r2 \in Nat, r <= r2, Sorted(l, s, r),
         NEW p \in Line, p # EOT => p.block = r2 /\ p.num = p.block % Numbers /\ s <= r2
  PROVE  Sorted(Append(l, p), s, r2)
<1> DEFINE m == Append(l, p)
<1>1. /\ Len(m) = Len(l) + 1 /\ Len(l) \in Nat /\ m[Len(l) + 1] = p
      /\ \A i \in 1 .. Len(l) : m[i] = l[i]
  BY AppendOf
<1> HIDE DEF m
<1>2. \A i \in 1 .. Len(l) : l[i] \in Line /\ (l[i] # EOT => l[i].block \in Nat)
  BY LineElement
<1>3. ASSUME NEW i \in 1 .. Len(m), m[i] # EOT
      PROVE  m[i].num = m[i].block % Numbers /\ s <= m[i].block /\ m[i].block <= r2
  <2>1. CASE i = Len(l) + 1
    BY <1>1, <1>3, <2>1
  <2>2. CASE i \in 1 .. Len(l)
    BY <1>1, <1>2, <1>3, <2>2 DEF Sorted
  <2> QED
    BY <1>1, <2>1, <2>2
<1>4. ASSUME NEW i \in 1 .. Len(m), NEW j \in 1 .. Len(m), i <= j, m[i] # EOT, m[j] # EOT
      PROVE  m[i].block <= m[j].block
  <2>1. CASE j = Len(l) + 1
    BY <1>1, <1>3, <1>4, <2>1
  <2>2. CASE j \in 1 .. Len(l)
    BY <1>1, <1>4, <2>2 DEF Sorted
  <2> QED
    BY <1>1, <2>1, <2>2
<1> QED
  BY <1>3, <1>4 DEF Sorted, m

LEMMA AheadLost ==
  ASSUME NEW l \in Seq(Line), l # << >>, NEW n \in Nat, NEW s \in Nat, NEW e \in Nat, Ahead(n, l, s, e)
  PROVE  Ahead(n, Tail(l), s, e)
<1>1. /\ Len(Tail(l)) = Len(l) - 1 /\ Len(l) \in Nat /\ Len(l) > 0
      /\ \A i \in 1 .. Len(Tail(l)) : i + 1 \in 1 .. Len(l) /\ Tail(l)[i] = l[i + 1]
  BY TailOf
<1>2. ASSUME NEW b \in s .. n - 1, NEW i \in 0 .. Len(Tail(l)), i = 0 \/ Tail(l)[i].block <= b
      PROVE  n - b - 1 + i + e <= Room
  <2>1. CASE i = 0
    <3>1. 0 \in 0 .. Len(l) /\ i = 0
      BY <1>1, <2>1
    <3>2. n - b - 1 + 0 + e <= Room
      BY <3>1 DEF Ahead
    <3> QED
      BY <3>1, <3>2
  <2>2. CASE i # 0
    <3>1. i + 1 \in 0 .. Len(l) /\ l[i + 1].block <= b
      BY <1>1, <1>2, <2>2
    <3>2. n - b - 1 + (i + 1) + e <= Room
      BY <3>1 DEF Ahead
    <3> QED
      BY <3>2, XmodemAssumption
  <2> QED
    BY <2>1, <2>2
<1> QED
  BY <1>2 DEF Ahead

\* The target answers a packet of a block up to the last one stored.
LEMMA AheadAnswered ==
  ASSUME NEW l \in Seq(Line), l # << >>, NEW n \in Nat, NEW s \in Nat, NEW s2 \in Nat, s <= s2,
         Head(l).block <= s2, Ahead(n, l, s, 0)
  PROVE  Ahead(n, Tail(l), s2, 1)
<1>1. /\ Len(Tail(l)) = Len(l) - 1 /\ Len(l) \in Nat /\ Len(l) > 0 /\ Head(l) = l[1] /\ Head(l) \in Line
      /\ \A i \in 1 .. Len(Tail(l)) : i + 1 \in 1 .. Len(l) /\ Tail(l)[i] = l[i + 1]
  BY TailOf
<1>0. Head(l).block \in Nat
  BY <1>1, LineElement
<1>2. ASSUME NEW b \in s2 .. n - 1, NEW i \in 0 .. Len(Tail(l)), i = 0 \/ Tail(l)[i].block <= b
      PROVE  n - b - 1 + i + 1 <= Room
  <2>0. b \in s .. n - 1
    OBVIOUS
  <2>1. i + 1 \in 0 .. Len(l) /\ l[i + 1].block <= b
    BY <1>0, <1>1, <1>2
  <2>2. n - b - 1 + (i + 1) + 0 <= Room
    BY <2>0, <2>1 DEF Ahead
  <2> QED
    BY <2>2, XmodemAssumption
<1> QED
  BY <1>2 DEF Ahead

LEMMA AheadAppend ==
  ASSUME NEW l \in Seq(Line), NEW n \in Nat, NEW s \in Nat, NEW e \in Nat, NEW p \in Line, p.block = n,
         Ahead(n, l, s, e)
  PROVE  Ahead(n, Append(l, p), s, e)
<1>1. /\ Len(Append(l, p)) = Len(l) + 1 /\ Len(l) \in Nat /\ Append(l, p)[Len(l) + 1] = p
      /\ \A i \in 1 .. Len(l) : Append(l, p)[i] = l[i]
  BY AppendOf
<1>2. ASSUME NEW b \in s .. n - 1, NEW i \in 0 .. Len(Append(l, p)), i = 0 \/ Append(l, p)[i].block <= b
      PROVE  n - b - 1 + i + e <= Room
  <2>1. i # Len(l) + 1
    BY <1>1, <1>2
  <2>2. i \in 0 .. Len(l) /\ (i = 0 \/ l[i].block <= b)
    BY <1>1, <1>2, <2>1
  <2> QED
    BY <2>2 DEF Ahead
<1> QED
  BY <1>2 DEF Ahead

\* An ACK takes the sender to the next block.
LEMMA AheadNext ==
  ASSUME NEW l \in Seq(Line), Len(l) <= Room, NEW n \in Nat, NEW s \in Nat, Ahead(n, l, s, 1)
  PROVE  Ahead(n + 1, l, s, 0)
<1>1. ASSUME NEW b \in s .. n, NEW i \in 0 .. Len(l), i = 0 \/ l[i].block <= b
      PROVE  (n + 1) - b - 1 + i + 0 <= Room
  <2>1. CASE b = n
    BY <2>1, XmodemAssumption
  <2>2. CASE b \in s .. n - 1
    <3>1. n - b - 1 + i + 1 <= Room
      BY <1>1, <2>2 DEF Ahead
    <3> QED
      BY <3>1, XmodemAssumption
  <2> QED
    BY <2>1, <2>2
<1>2. (n + 1) - 1 = n
  OBVIOUS
<1> QED
  BY <1>1, <1>2 DEF Ahead

\* How far the sender is ahead of the target.
LEMMA AheadBound ==
  ASSUME NEW n \in Nat, NEW l \in Seq(Line), NEW s \in Nat, Ahead(n, l, s, 0)
  PROVE  n <= s + Room + 1
<1>1. CASE s < n
  <2>1. s \in s .. n - 1 /\ 0 \in 0 .. Len(l)
    BY <1>1
  <2>2. n - s - 1 + 0 + 0 <= Room
    BY <2>1 DEF Ahead
  <2> QED
    BY <2>2, XmodemAssumption
<1> QED
  BY <1>1, XmodemAssumption

LEMMA AheadWeaker ==
  ASSUME NEW l \in Seq(Line), NEW n \in Nat, NEW s \in Nat, Ahead(n, l, s, 1)
  PROVE  Ahead(n, l, s, 0)
<1>1. ASSUME NEW b \in s .. n - 1, NEW i \in 0 .. Len(l), i = 0 \/ l[i].block <= b
      PROVE  n - b - 1 + i + 0 <= Room
  <2>1. n - b - 1 + i + 1 <= Room
    BY <1>1 DEF Ahead
  <2> QED
    BY <2>1, XmodemAssumption
<1> QED
  BY <1>1 DEF Ahead

\* The types of the state.
LEMMA LateTypes ==
  ASSUME NumberedInv
  PROVE  /\ tx \in TxTypes /\ tx.num \in Nat /\ tx.read \in Nat /\ tx.block \in Nat
         /\ Numbered(tx) /\ line \in Seq(Line) /\ back \in Seq(Char)
         /\ stored \in Seq(1 .. Blocks) /\ Stored \in Nat
BY DEF NumberedInv, XmodemTypeOK, TxTypes, Line, Stored

LEMMA WriteLate ==
  ASSUME NEW t \in TxTypes, t.num = t.read, t.block = t.read, t.read > 0, tx.read <= t.read,
         LateInv, NumberedInv', Write(t), stored' = stored,
         OnlyPackets(line), Ahead(t.num, line, Stored, 0),
         HasAck(back') => Ahead(t.num, line, Stored, 1)
  PROVE  LateInv'
<1>1. /\ line \in Seq(Line) /\ Stored \in Nat /\ tx.read \in Nat /\ Stored' = Stored
      /\ t.num \in Nat /\ t.read \in Nat /\ t.block \in Nat
      /\ Sorted(line, Stored, tx.read) /\ Stored <= t.read
  BY LateTypes, FieldsOf DEF LateInv, Stored
<1>2. /\ tx'.state \in {"SENDING", "WAIT_ACK"} /\ tx'.num = t.num /\ tx'.read = t.read
  BY DEF Write, TxTypes
<1>3. /\ Sorted(line', Stored, t.read) /\ OnlyPackets(line') /\ Ahead(t.num, line', Stored, 0)
      /\ HasAck(back') => Ahead(t.num, line', Stored, 1)
  <2>1. CASE line' = line
    <3>1. \A i \in 1 .. Len(line) : line[i] \in Line /\ line[i].block \in Nat
      BY <1>1, LineElement
    <3>2. Sorted(line, Stored, t.read)
      BY <1>1, <3>1 DEF Sorted
    <3> QED
      BY <2>1, <3>2
  <2>2. CASE Len(line) < Room /\ line' = Append(line, Header(t))
    <3> DEFINE p == Header(t)
    <3>1. p.block = t.num /\ p.block = t.read /\ p.num = t.num % Numbers /\ p \in Line /\ p # EOT
      <4>1. t.num % Numbers \in 0 .. Numbers - 1 /\ t.block \in 1 .. Blocks
        BY Counts, FieldsOf
      <4> QED
        BY <4>1 DEF Header, Packet, Line, EOT
    <3> HIDE DEF p
    <3>2. line' = Append(line, p)
      BY <2>2 DEF p
    <3>3. Sorted(Append(line, p), Stored, t.read)
      BY <1>1, <3>1, SortedAppend
    <3>4. OnlyPackets(Append(line, p))
      <4>1. /\ Len(Append(line, p)) = Len(line) + 1 /\ Len(line) \in Nat /\ Append(line, p)[Len(line) + 1] = p
            /\ \A i \in 1 .. Len(line) : Append(line, p)[i] = line[i]
        BY <1>1, <3>1, AppendOf
      <4> QED
        BY <2>2, <3>1, <4>1, XmodemAssumption DEF OnlyPackets
    <3>5. \A e \in {0, 1} : Ahead(t.num, line, Stored, e) => Ahead(t.num, Append(line, p), Stored, e)
      BY <1>1, <3>1, AheadAppend
    <3> QED
      BY <3>2, <3>3, <3>4, <3>5
  <2> QED
    BY <2>1, <2>2 DEF Write
<1>4. t.num <= Stored + Room + 1
  BY <1>1, AheadBound
<1>5. AheadInv'
  BY <1>1, <1>2, <1>3 DEF AheadInv, Sending
<1> QED
  BY <1>1, <1>2, <1>3, <1>4, <1>5 DEF LateInv

LEMMA SendNextLate ==
  ASSUME NEW t \in TxTypes, t.num = t.read + 1, t.read = tx.read, NEW chars,
         LateInv, NumberedInv', SendNext(t, chars), stored' = stored,
         OnlyPackets(line), Ahead(t.num, line, Stored, 0)
  PROVE  LateInv'
<1>1. CASE t.read = Blocks
  <2>1. tx' = [t EXCEPT !.state = "EOF", !.tries = Tries] /\ line' = line
    BY <1>1 DEF SendNext, TxTypes
  <2>2. tx'.state = "EOF" /\ tx'.read = tx.read /\ Stored' = Stored
    BY <2>1 DEF TxTypes, Stored
  <2>3. AheadInv'
    BY <2>2 DEF AheadInv, Sending
  <2> QED
    BY <2>1, <2>2, <2>3 DEF LateInv
<1>2. CASE t.read < Blocks
  <2> DEFINE u == [t EXCEPT !.read = @ + 1, !.block = t.read + 1, !.tries = Tries]
  <2>1. Write(u) /\ back' = << >>
    BY <1>2, Counts DEF SendNext, TxTypes
  <2>2. u \in TxTypes /\ u.num = u.read /\ u.block = u.read /\ u.read > 0 /\ u.num = t.num /\ tx.read <= u.read
    <3>1. t.read + 1 \in 0 .. Blocks /\ Tries \in 0 .. Tries /\ t.read + 1 > 0 /\ t.read \in Nat
      BY <1>2, FieldsOf, Counts
    <3>2. u \in TxTypes
      BY <3>1 DEF TxTypes
    <3>3. u.read = t.read + 1 /\ u.block = t.read + 1 /\ u.num = t.num
      BY DEF TxTypes
    <3> QED
      BY <3>1, <3>2, <3>3
  <2>3. ~HasAck(back')
    BY <2>1 DEF HasAck
  <2> HIDE DEF u
  <2> QED
    BY <2>1, <2>2, <2>3, WriteLate
<1> QED
  BY <1>1, <1>2, FieldsOf, Counts

\* The sender ended, or has only the end of the file left to send.
LEMMA EndLate ==
  ASSUME LateInv, NumberedInv', stored' = stored, tx'.read = tx.read,
         tx'.state \in {"EOF", "FINAL_ACK", "SUCCESS", "FAILURE"},
         line' = line \/ line' = Append(line, EOT)
  PROVE  LateInv'
<1>1. /\ line \in Seq(Line) /\ Stored \in Nat /\ tx.read \in Nat /\ Stored' = Stored
      /\ Sorted(line, Stored, tx.read)
  BY LateTypes DEF LateInv, Stored
<1>2. Sorted(line', Stored, tx.read)
  <2>1. EOT \in Line
    BY DEF Line
  <2>2. Sorted(Append(line, EOT), Stored, tx.read)
    <3>1. tx.read <= tx.read
      BY <1>1
    <3> QED
      BY <1>1, <2>1, <3>1, SortedAppend
  <2> QED
    BY <1>1, <2>2
<1>3. AheadInv'
  BY DEF AheadInv, Sending
<1> QED
  BY <1>1, <1>2, <1>3 DEF LateInv

LEMMA AckInTail ==
  ASSUME NEW l \in Seq(Char), l # << >>, HasAck(Tail(l))
  PROVE  HasAck(l)
BY TailOf DEF HasAck

LEMMA TickLate ==
  ASSUME LateInv, Tick, UNCHANGED punctual
  PROVE  LateInv'
<1>0. /\ NumberedInv /\ NumberedInv' /\ tx \in TxTypes /\ tx.num \in Nat /\ tx.read \in Nat /\ Numbered(tx)
      /\ line \in Seq(Line) /\ back \in Seq(Char) /\ stored \in Seq(1 .. Blocks) /\ Stored \in Nat
  BY TickTypes, LateTypes DEF LateInv
<1>1. CASE StartTransfer
  <2> DEFINE t == [tx EXCEPT !.num = 1]
  <2>1. SendNext(t, Tail(back)) /\ stored' = stored /\ tx.state = "START"
    BY <1>1 DEF StartTransfer
  <2>2. t \in TxTypes /\ t.num = t.read + 1 /\ t.num = 1 /\ t.read = tx.read
    <3>1. tx.read = 0
      BY <1>0, <2>1 DEF Numbered
    <3>2. t.num = 1 /\ t.read = 0
      BY <1>0, <3>1 DEF TxTypes
    <3>3. t \in TxTypes
      <4>1. 1 \in 0 .. Blocks + 1 /\ "START" \in Running \cup {"SUCCESS", "FAILURE"}
        BY Counts DEF Running
      <4>2. t = [tx EXCEPT !.state = "START", !.num = 1]
        BY <1>0, <2>1 DEF TxTypes
      <4> HIDE DEF t
      <4> QED
        BY ONLY <1>0, <4>1, <4>2, NumSet
    <3> QED
      BY <3>1, <3>2, <3>3
  <2>3. line = << >> /\ Stored = 0
    BY <2>1 DEF LateInv, AheadInv, Stored
  <2>4. OnlyPackets(line) /\ Ahead(1, line, Stored, 0)
    BY <2>3, XmodemAssumption DEF OnlyPackets, Ahead
  <2> HIDE DEF t
  <2> QED
    BY <1>0, <2>1, <2>2, <2>4, SendNextLate
<1>2. CASE NoStartChar
  <2>1. UNCHANGED <<tx, line, stored>> /\ Stored' = Stored /\ tx.state = "START"
    BY <1>2 DEF NoStartChar, Stored
  <2> QED
    BY <1>0, <2>1 DEF LateInv, AheadInv, Sending
<1>3. CASE SendPacket
  <2>1. SendNext(tx, back) /\ stored' = stored /\ tx.state = "SEND"
    BY <1>3 DEF SendPacket
  <2>2. tx.num = tx.read + 1 /\ OnlyPackets(line) /\ Ahead(tx.num, line, Stored, 0)
    BY <1>0, <2>1 DEF Numbered, LateInv, AheadInv
  <2> QED
    BY <1>0, <2>1, <2>2, SendNextLate
<1>4. CASE ResendPacket
  <2>1. Write(tx) /\ stored' = stored /\ back' = back /\ tx.state \in {"RESEND", "SENDING"}
    BY <1>4 DEF ResendPacket
  <2>2. /\ tx.num = tx.read /\ tx.block = tx.read /\ tx.read > 0
        /\ OnlyPackets(line) /\ Ahead(tx.num, line, Stored, 0)
        /\ HasAck(back) => Ahead(tx.num, line, Stored, 1)
    BY <1>0, <2>1 DEF Numbered, LateInv, AheadInv, Sending
  <2> QED
    BY <1>0, <2>1, <2>2, WriteLate
<1>5. CASE PacketAcked
  <2>1. /\ tx.state = "WAIT_ACK" /\ back # << >> /\ Head(back) = "ACK" /\ UNCHANGED <<line, stored>>
        /\ tx' = [tx EXCEPT !.state = "SEND", !.num = @ + 1]
    BY <1>5 DEF PacketAcked, Acked, Came
  <2>2. tx'.state = "SEND" /\ tx'.num = tx.num + 1 /\ tx'.read = tx.read /\ Stored' = Stored
    BY <1>0, <2>1 DEF TxTypes, Stored
  <2>3. HasAck(back)
    BY <1>0, <2>1, TailOf DEF HasAck
  <2>4. OnlyPackets(line) /\ Ahead(tx.num, line, Stored, 1)
    BY <2>1, <2>3 DEF LateInv, AheadInv, Sending
  <2>5. Ahead(tx.num + 1, line, Stored, 0)
    BY <1>0, <2>4, AheadNext DEF OnlyPackets
  <2>6. AheadInv'
    BY <2>1, <2>2, <2>4, <2>5 DEF AheadInv, Sending
  <2> QED
    BY <1>0, <2>1, <2>2, <2>6 DEF LateInv
<1>6. CASE SendEot
  <2>1. tx' = [tx EXCEPT !.state = "FINAL_ACK"] /\ stored' = stored /\ (line' = line \/ line' = Append(line, EOT))
    BY <1>6 DEF SendEot
  <2>2. tx'.state = "FINAL_ACK" /\ tx'.read = tx.read
    BY <1>0, <2>1 DEF TxTypes
  <2> QED
    BY <1>0, <2>1, <2>2, EndLate
<1>7. CASE FinalAck
  <2>1. tx' = [tx EXCEPT !.state = "SUCCESS"] /\ stored' = stored /\ line' = line
    BY <1>7 DEF FinalAck
  <2>2. tx'.state = "SUCCESS" /\ tx'.read = tx.read
    BY <1>0, <2>1 DEF TxTypes
  <2> QED
    BY <1>0, <2>1, <2>2, EndLate
<1>8. CASE GiveUp \/ SendFails
  <2>1. tx' = [tx EXCEPT !.state = "FAILURE"] /\ stored' = stored /\ line' = line
    BY <1>8 DEF GiveUp, SendFails, Cancel
  <2>2. tx'.state = "FAILURE" /\ tx'.read = tx.read
    BY <1>0, <2>1 DEF TxTypes
  <2> QED
    BY <1>0, <2>1, <2>2, EndLate
<1>9. CASE TryAgain
  <2>1. /\ tx.state \in {"WAIT_ACK", "FINAL_ACK"} /\ NotAcked /\ UNCHANGED <<line, stored>> /\ Stored' = Stored
        /\ tx' = [tx EXCEPT !.state = NextTry, !.tries = TriesLeft]
    BY <1>9 DEF TryAgain, Stored
  <2>2. tx'.state = NextTry /\ tx'.num = tx.num /\ tx'.read = tx.read
    BY <1>0, <2>1 DEF TxTypes
  <2>3. HasAck(back') => HasAck(back)
    BY <1>0, <2>1, AckInTail DEF NotAcked
  <2>4. CASE tx.state = "WAIT_ACK"
    <3>1. AheadInv'
      BY <2>1, <2>2, <2>3, <2>4 DEF LateInv, AheadInv, Sending, NextTry
    <3> QED
      BY <1>0, <2>1, <2>2, <3>1 DEF LateInv
  <2>5. CASE tx.state = "FINAL_ACK"
    BY <1>0, <2>1, <2>2, <2>5, EndLate DEF NextTry
  <2> QED
    BY <2>1, <2>4, <2>5
<1> QED
  BY <1>1, <1>2, <1>3, <1>4, <1>5, <1>6, <1>7, <1>8, <1>9 DEF Tick

\* What the target does with the packet at the head of the line, if it stores
\* nothing but that packet's block, and acknowledges no block after the last one.
LEMMA ArrivalLate ==
  ASSUME LateInv, Arrives, NumberedInv',
         Stored' = Stored \/ (Head(line) # EOT /\ Stored' = Head(line).block),
         HasAck(back') => HasAck(back) \/ Head(line) = EOT \/ Head(line).block <= Stored'
  PROVE  LateInv'
<1>1. /\ line # << >> /\ line' = Tail(line) /\ tx' = tx
      /\ tx.num \in Nat /\ tx.read \in Nat /\ line \in Seq(Line) /\ Stored \in Nat /\ Stored' \in Nat
      /\ Sorted(line, Stored, tx.read)
  BY LateTypes DEF Arrives, LateInv, NumberedInv, XmodemTypeOK, Stored
<1>2. /\ Len(line) \in Nat /\ Len(line) > 0 /\ 1 \in 1 .. Len(line) /\ Head(line) = line[1] /\ Head(line) \in Line
      /\ Len(Tail(line)) = Len(line) - 1
      /\ \A i \in 1 .. Len(Tail(line)) : i + 1 \in 1 .. Len(line) /\ Tail(line)[i] = line[i + 1]
  BY <1>1, TailOf
<1>3. /\ Stored <= Stored' /\ Stored' <= tx.read
  BY <1>1, <1>2 DEF Sorted, LateInv
<1>4. Sorted(line', Stored', tx.read)
  BY <1>1, SortedTail
<1>5. ASSUME tx.state \in {"START", "SEND"} \cup Sending
      PROVE  /\ OnlyPackets(line') /\ Ahead(tx.num, line', Stored', 0)
             /\ tx.state \in Sending /\ HasAck(back') => Ahead(tx.num, line', Stored', 1)
  <2>1. OnlyPackets(line) /\ Ahead(tx.num, line, Stored, 0)
    BY <1>5 DEF LateInv, AheadInv
  <2>2. Head(line) # EOT
    BY <1>2, <2>1 DEF OnlyPackets
  <2>3. OnlyPackets(line')
    <3>1. Len(Tail(line)) <= Room
      BY <1>2, <2>1, XmodemAssumption DEF OnlyPackets
    <3> QED
      BY <1>1, <1>2, <2>1, <3>1 DEF OnlyPackets
  <2>4. CASE Head(line).block <= Stored'
    <3>1. Ahead(tx.num, line', Stored', 1)
      BY <1>1, <1>3, <2>1, <2>4, AheadAnswered
    <3>2. line' \in Seq(Line)
      BY <1>1, TailOf
    <3>3. Ahead(tx.num, line', Stored', 0)
      BY <1>1, <3>1, <3>2, AheadWeaker
    <3> QED
      BY <2>3, <3>1, <3>3
  <2>5. CASE ~(Head(line).block <= Stored')
    <3>1. Stored' = Stored
      BY <1>1, <2>5
    <3>2. HasAck(back') => HasAck(back)
      BY <2>2, <2>5
    <3>3. Ahead(tx.num, line', Stored', 0)
      BY <1>1, <2>1, <3>1, AheadLost
    <3>4. Ahead(tx.num, line, Stored, 1) => Ahead(tx.num, line', Stored', 1)
      BY <1>1, <3>1, AheadLost
    <3> QED
      BY <2>3, <3>2, <3>3, <3>4 DEF LateInv, AheadInv
  <2> QED
    BY <2>4, <2>5
<1>6. tx.state # "START"
  BY <1>1 DEF LateInv, AheadInv
<1>7. AheadInv'
  BY <1>1, <1>5, <1>6 DEF AheadInv
<1>8. tx.read <= Stored' + Room + 1
  BY <1>1, <1>3, XmodemAssumption DEF LateInv
<1> QED
  BY <1>1, <1>3, <1>4, <1>7, <1>8 DEF LateInv

\* Only an ACK adds an ACK to what is under way.
LEMMA AnswerOf ==
  ASSUME back \in Seq(Char), NEW ch \in Char, TargetAnswers(ch), HasAck(back')
  PROVE  HasAck(back) \/ ch = "ACK"
<1>1. CASE UNCHANGED back
  BY <1>1
<1>2. CASE \E c \in {ch, "other"} : back' = Append(back, c)
  <2>1. PICK c \in {ch, "other"} : back' = Append(back, c)
    BY <1>2
  <2>2. /\ c \in Char /\ Len(back') = Len(back) + 1 /\ Len(back) \in Nat /\ back'[Len(back) + 1] = c
        /\ \A i \in 1 .. Len(back) : back'[i] = back[i]
    BY <2>1 DEF Char
  <2>3. PICK i \in 1 .. Len(back') : back'[i] = "ACK"
    BY DEF HasAck
  <2>4. CASE i = Len(back) + 1
    BY <2>1, <2>2, <2>3, <2>4
  <2>5. CASE i \in 1 .. Len(back)
    BY <2>2, <2>3, <2>5 DEF HasAck
  <2> QED
    BY <2>2, <2>4, <2>5
<1> QED
  BY <1>1, <1>2 DEF TargetAnswers

\* The head of the line is a packet near the last block stored.
LEMMA HeadNear ==
  ASSUME LateInv, line # << >>, Head(line) # EOT
  PROVE  /\ Head(line).block \in Nat /\ Head(line).num = Head(line).block % Numbers /\ Stored \in Nat
         /\ Stored <= Head(line).block /\ Head(line).block <= Stored + Room + 1
         /\ Head(line).block <= tx.read /\ tx.read \in 0 .. Blocks
<1>1. /\ line \in Seq(Line) /\ Stored \in Nat /\ tx.read \in Nat /\ Sorted(line, Stored, tx.read)
      /\ tx.read \in 0 .. Blocks
  BY LateTypes, FieldsOf DEF LateInv
<1>2. Head(line) = line[1] /\ Head(line) \in Line /\ 1 \in 1 .. Len(line)
  BY <1>1, TailOf
<1>3. Head(line).block \in Nat
  BY <1>2, LineElement
<1>4. /\ Head(line).num = Head(line).block % Numbers /\ Stored <= Head(line).block
      /\ Head(line).block <= tx.read
  BY <1>1, <1>2 DEF Sorted
<1> QED
  BY <1>1, <1>3, <1>4, XmodemAssumption DEF LateInv

\* A packet whose number is the one wanted is the one wanted.
LEMMA WantedIsNext ==
  ASSUME Room + 1 < Numbers, LateInv, TakePacket
  PROVE  /\ Head(line).block = Stored + 1 /\ stored' = Append(stored, Stored + 1)
         /\ Stored' = Stored + 1 /\ Stored < Blocks /\ Head(line) # EOT
<1>1. /\ line # << >> /\ Head(line) # EOT /\ Head(line).num = (Stored + 1) % Numbers
      /\ stored' = Append(stored, Head(line).block)
  BY DEF TakePacket, Arrives, Wanted, Stored
<1> DEFINE b == Head(line).block
<1>2. /\ b \in Nat /\ b % Numbers = (Stored + 1) % Numbers /\ Stored \in Nat
      /\ Stored <= b /\ b <= Stored + Room + 1 /\ b <= tx.read /\ tx.read \in 0 .. Blocks
  BY <1>1, HeadNear
<1> HIDE DEF b
<1>3. b # Stored
  <2>1. Stored <= Stored + 1 /\ Stored + 1 < Stored + Numbers /\ Stored + 1 \in Nat
    BY <1>2, Counts
  <2>2. ASSUME Stored % Numbers = (Stored + 1) % Numbers  PROVE FALSE
    <3>1. Stored = Stored + 1
      BY ONLY <1>2, <2>1, <2>2, NearDiffers, Counts
    <3> QED
      BY <1>2, <3>1
  <2> QED
    BY <1>2, <2>2
<1>4. b = Stored + 1
  <2>1. Stored + 1 <= b /\ b < Stored + 1 + Numbers /\ Stored + 1 \in Nat
    BY <1>2, <1>3, XmodemAssumption
  <2> QED
    BY <1>2, <2>1, NearDiffers, Counts
<1>5. stored \in Seq(1 .. Blocks)
  BY LateTypes DEF LateInv
<1>6. Stored < Blocks /\ Stored + 1 \in 1 .. Blocks
  BY <1>2, <1>4, XmodemAssumption
<1>7. Stored' = Stored + 1
  BY <1>1, <1>4, <1>5, <1>6 DEF b, Stored
<1> QED
  BY <1>1, <1>4, <1>6, <1>7 DEF b

LEMMA TargetLate ==
  ASSUME Room + 1 < Numbers, LateInv, Target, UNCHANGED punctual
  PROVE  LateInv'
<1>0. /\ NumberedInv' /\ back \in Seq(Char) /\ Stored \in Nat /\ tx \in TxTypes
  BY TargetTypes, LateTypes DEF LateInv
<1>1. CASE Ask
  <2>1. UNCHANGED <<tx, line, stored>> /\ Stored' = Stored /\ back' = Append(back, "C") /\ "C" \in Char
    BY <1>1 DEF Ask, Stored, Char
  <2>2. HasAck(back') => HasAck(back)
    <3>1. /\ Len(back') = Len(back) + 1 /\ Len(back) \in Nat /\ back'[Len(back) + 1] = "C"
          /\ \A i \in 1 .. Len(back) : back'[i] = back[i]
      BY <1>0, <2>1, AppendOf
    <3> QED
      BY <3>1 DEF HasAck
  <2> QED
    BY <1>0, <2>1, <2>2 DEF LateInv, AheadInv
<1>2. CASE Lost
  <2>1. Arrives /\ back' = back /\ Stored' = Stored
    BY <1>2 DEF Lost, Stored
  <2> QED
    BY <1>0, <2>1, ArrivalLate
<1>3. CASE TakePacket
  <2>1. Arrives /\ Head(line) # EOT /\ Stored' = Head(line).block /\ Stored' \in Nat
    BY <1>0, <1>3, WantedIsNext DEF TakePacket
  <2>2. Head(line).block <= Stored'
    BY <2>1
  <2> QED
    BY <1>0, <2>1, <2>2, ArrivalLate
<1>4. CASE RefusePacket
  <2>1. Arrives /\ Stored' = Stored /\ Head(line) # EOT /\ line # << >>
    BY <1>4 DEF RefusePacket, Stored, Arrives, Wanted
  <2>2. CASE TargetAnswers("NAK")
    <3>1. HasAck(back') => HasAck(back)
      BY <1>0, <2>2, AnswerOf DEF Char
    <3> QED
      BY <1>0, <2>1, <3>1, ArrivalLate
  <2>3. CASE Head(line).num # Stored % Numbers /\ TargetAnswers("CAN")
    <3>1. HasAck(back') => HasAck(back)
      BY <1>0, <2>3, AnswerOf DEF Char
    <3> QED
      BY <1>0, <2>1, <3>1, ArrivalLate
  <2>4. CASE Head(line).num = Stored % Numbers
    <3>1. /\ Head(line).block \in Nat /\ Head(line).num = Head(line).block % Numbers
          /\ Stored <= Head(line).block /\ Head(line).block < Stored + Numbers
      <4>1. /\ Head(line).block \in Nat /\ Head(line).num = Head(line).block % Numbers
            /\ Stored <= Head(line).block /\ Head(line).block <= Stored + Room + 1
        BY <2>1, HeadNear
      <4> QED
        BY <1>0, <4>1, XmodemAssumption
    <3>2. Head(line).block = Stored
      BY <1>0, <2>4, <3>1, NearDiffers, Counts
    <3>3. Head(line).block <= Stored'
      BY <1>0, <2>1, <3>2
    <3> QED
      BY <1>0, <2>1, <3>3, ArrivalLate
  <2> QED
    BY <1>4, <2>2, <2>3, <2>4 DEF RefusePacket, Stored
<1>5. CASE TakeEot
  <2>1. Arrives /\ Head(line) = EOT /\ Stored' = Stored
    BY <1>5 DEF TakeEot, Stored
  <2> QED
    BY <1>0, <2>1, ArrivalLate
<1> QED
  BY <1>1, <1>2, <1>3, <1>4, <1>5 DEF Target

LEMMA LateStart == XmodemInit => LateInv
<1> SUFFICES ASSUME XmodemInit  PROVE LateInv
  OBVIOUS
<1>1. NumberedInv
  BY TypesAtStart
<1>2. tx.state = "START" /\ tx.num = 0 /\ tx.read = 0 /\ line = << >> /\ stored = << >> /\ Stored = 0
  BY DEF XmodemInit, Stored
<1>3. Sorted(line, Stored, tx.read)
  BY <1>2 DEF Sorted
<1>4. AheadInv
  BY <1>2, XmodemAssumption DEF AheadInv, OnlyPackets, Ahead, Sending
<1> QED
  BY <1>1, <1>2, <1>3, <1>4, XmodemAssumption DEF LateInv

LEMMA LateStep ==
  ASSUME Room + 1 < Numbers, LateInv, [XmodemNext]_xmodemVars
  PROVE  LateInv'
<1>1. CASE XmodemNext
  BY <1>1, TickLate, TargetLate DEF XmodemNext
<1>2. CASE UNCHANGED xmodemVars
  <2>1. NumberedInv'
    BY <1>2 DEF xmodemVars, LateInv, NumberedInv, XmodemTypeOK
  <2>2. UNCHANGED <<tx, line, back, stored>> /\ Stored' = Stored
    BY <1>2 DEF xmodemVars, Stored
  <2> QED
    BY <2>1, <2>2 DEF LateInv, AheadInv
<1> QED
  BY <1>1, <1>2

LEMMA LateRefines ==
  ASSUME Room + 1 < Numbers, LateInv, ~punctual, [XmodemNext]_xmodemVars
  PROVE  [T!Next]_(T!vars) /\ ~punctual'
<1>0. ~punctual' /\ NumberedInv
  BY DEF XmodemNext, xmodemVars, LateInv
<1>1. Outcome = IF tx.state \in {"SUCCESS", "FAILURE"} THEN "failure" ELSE "none"
  BY DEF Outcome
<1>2. Outcome' = IF tx'.state \in {"SUCCESS", "FAILURE"} THEN "failure" ELSE "none"
  BY <1>0 DEF Outcome
<1>3. CASE Tick
  <2>1. UNCHANGED stored /\ tx.state \in Running
    BY <1>3 DEF Tick, StartTransfer, NoStartChar, SendPacket, ResendPacket, PacketAcked, SendEot,
                FinalAck, TryAgain, GiveUp, SendFails, Cancel, Running
  <2>2. Outcome = "none" /\ (Outcome' = "none" \/ Outcome' = "failure")
    BY <1>1, <1>2, <2>1 DEF Running
  <2> QED
    BY <1>0, <2>1, <2>2 DEF T!Next, T!Fail, T!vars
<1>4. CASE TakePacket
  <2>1. UNCHANGED tx /\ stored' = Append(stored, Len(stored) + 1) /\ Len(stored) < Blocks
    BY <1>4, WantedIsNext DEF TakePacket, Arrives, Stored
  <2> QED
    BY <1>0, <1>1, <1>2, <2>1 DEF T!Next, T!Deliver
<1>5. CASE Ask \/ Lost \/ RefusePacket \/ TakeEot
  <2>1. UNCHANGED <<tx, stored>>
    BY <1>5 DEF Ask, Lost, RefusePacket, TakeEot, Arrives
  <2> QED
    BY <1>0, <1>1, <1>2, <2>1 DEF T!vars
<1>6. CASE UNCHANGED xmodemVars
  <2>1. UNCHANGED <<tx, stored>>
    BY <1>6 DEF xmodemVars
  <2> QED
    BY <1>0, <1>1, <1>2, <2>1 DEF T!vars
<1> QED
  BY <1>0, <1>3, <1>4, <1>5, <1>6 DEF XmodemNext, Target

(***************************************************************************)
(* A target that is late stores the blocks of the file in order too, none  *)
(* twice and none left out, though late ACKs may take xbee_xmodem_tx_tick  *)
(* past packets that it never got, if no more than Numbers - 2 packets are *)
(* under way at once.                                                      *)
(***************************************************************************)
THEOREM LateTransferImplemented ==
  Room + 1 < Numbers => (XmodemSpec => ImplementsTransfer)
<1> SUFFICES ASSUME Room + 1 < Numbers  PROVE XmodemSpec => ImplementsTransfer
  OBVIOUS
<1>1. XmodemInit /\ ~punctual => LateInv /\ T!Init
  BY LateStart DEF XmodemInit, T!Init, Outcome
<1>2. LateInv /\ ~punctual /\ [XmodemNext]_xmodemVars => LateInv' /\ ~punctual' /\ [T!Next]_(T!vars)
  BY LateStep, LateRefines
<1>3. XmodemSpec /\ ~punctual => ImplementsTransfer
  BY <1>1, <1>2, PTL DEF XmodemSpec, ImplementsTransfer, T!Spec
<1> QED
  BY <1>3, TransferImplemented, PTL
=============================================================================
