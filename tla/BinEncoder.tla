------------------------------ MODULE BinEncoder ------------------------------
(***************************************************************************)
(* The arithmetic coder (BinEncoderBase, BinEncoder): the lower end and    *)
(* the width of the interval that stands for the bins coded so far, with   *)
(* the bytes that are ready, except for a carry that may still come, held  *)
(* back: one byte and a run of bytes 0xff after it.                        *)
(*                                                                         *)
(* The registers have their layout of the code with bytes of ByteBits      *)
(* bits instead of 8: the range has one bit more than a byte, m_Low is a   *)
(* word of four bytes.  The bytes given to the bitstream are not kept,     *)
(* only those of the last call.                                            *)
(***************************************************************************)
EXTENDS Integers, Sequences, FiniteSets, SequencesExt

CONSTANTS
  ByteBits,    \* 8 in the code
  WriteBelow,  \* m_bitsLeft at which writeOut is due, 12 in the code
  MaxBuffered  \* bound: m_numBufferedBytes

(* A step takes at most a byte from m_bitsLeft, which stays positive.      *)
ASSUME CoderAssumption ==
  /\ ByteBits \in Nat \ {0, 1} /\ MaxBuffered \in Nat \ {0}
  /\ WriteBelow \in ByteBits + 1 .. 2 * ByteBits

VARIABLES
  low,         \* m_Low
  range,       \* m_Range
  bitsLeft,    \* m_bitsLeft
  buffered,    \* m_bufferedByte
  numBuffered, \* m_numBufferedBytes
  phase,       \* coding, after the terminating bin, or finished
  written,     \* the bytes the last call gave to the bitstream, and the
  tail,        \*   value and the number of bits finish adds to them
  exact        \* what the last call does to the interval, exactly

registers == <<low, range, bitsLeft, buffered, numBuffered>>
coderVars == <<registers, phase, written, tail, exact>>

WordBits == 4 * ByteBits
ByteSize == 2 ^ ByteBits      \* 256, also the smallest range
FullByte == ByteSize - 1      \* 0xff
InitialRange == 2 * ByteSize - 2

NoTail == [value |-> 0, bits |-> 0]

(* The interval is moved by add once it is 2^shift times as wide. *)
Effect(shift, add) == [shift |-> shift, add |-> add]

CoderInit ==
  /\ low = 0
  /\ range = InitialRange
  /\ buffered = FullByte
  /\ numBuffered = 0
  /\ bitsLeft = WordBits - ByteBits - 1
  /\ phase = "coding"
  /\ written = <<>>
  /\ tail = NoTail
  /\ exact = Effect(0, 0)

(* start, and restart, for the next substream. *)
Start ==
  /\ phase = "finished"
  /\ phase' = "coding"
  /\ low' = 0
  /\ range' = InitialRange
  /\ buffered' = FullByte
  /\ numBuffered' = 0
  /\ bitsLeft' = WordBits - ByteBits - 1
  /\ written' = <<>>
  /\ tail' = NoTail
  /\ exact' = Effect(0, 0)

-----------------------------------------------------------------------------
Repeat(byte, n) == [i \in 1 .. n |-> byte]

WrongHeldBack(carry) == <<buffered + carry>> \o Repeat(FullByte, numBuffered - 1)

(* The byte held back and the run of 0xff after it, with a carry or not. *)
HeldBack(carry) ==
  <<buffered + carry>> \o Repeat((FullByte + carry) % ByteSize, numBuffered - 1)

(* writeOut: the leading byte of l, with a ninth bit that is the carry. *)
WriteOut(l, left) ==
  LET lead == l \div 2 ^ (WordBits - ByteBits - left)
      carry == lead \div ByteSize
  IN  /\ bitsLeft' = left + ByteBits
      /\ low' = l % 2 ^ (WordBits - bitsLeft')
      /\ CASE lead = FullByte ->
                /\ numBuffered' = numBuffered + 1
                /\ written' = <<>>
                /\ UNCHANGED buffered
           [] lead # FullByte /\ numBuffered > 0 ->
                /\ numBuffered' = 1
                /\ buffered' = lead % ByteSize
                /\ written' = HeldBack(carry)
           [] lead # FullByte /\ numBuffered = 0 ->
                /\ numBuffered' = 1
                /\ buffered' = lead
                /\ written' = <<>>

(* The common part of the calls: the new interval, and writeOut when due.  *)
(* It never is when shift is 0.                                            *)
Shift(shift, add, newRange) ==
  LET l == low * 2 ^ shift + add
      left == bitsLeft - shift
  IN  /\ range' = newRange
      /\ exact' = Effect(shift, add)
      /\ tail' = NoTail
      /\ IF left < WriteBelow
           THEN WriteOut(l, left)
           ELSE /\ low' = l
                /\ bitsLeft' = left
                /\ written' = <<>>
                /\ UNCHANGED <<buffered, numBuffered>>
      /\ numBuffered' <= MaxBuffered

(* A bin of a context.  Its model gives the less probable value at most    *)
(* half of the range, and at least 4 of 256.                               *)
MinLps == IF ByteBits >= 6 THEN 2 ^ (ByteBits - 6) ELSE 1
Lps == MinLps .. range \div 2

(* getRenormBitsLPS *)
RenormBits(lps) == CHOOSE n \in 0 .. ByteBits : lps * 2 ^ n \in ByteSize .. 2 * ByteSize - 1

EncodeMps(lps) ==
  /\ phase = "coding"
  /\ LET r == range - lps
     IN  IF r >= ByteSize THEN Shift(0, 0, r) ELSE Shift(1, 0, 2 * r)
  /\ UNCHANGED phase

EncodeLps(lps) ==
  /\ phase = "coding"
  /\ LET n == RenormBits(lps)
     IN  Shift(n, (range - lps) * 2 ^ n, lps * 2 ^ n)
  /\ UNCHANGED phase

(* Equally probable bins, up to a byte of them at once: one turn of the    *)
(* loops of encodeBinsEP and encodeAlignedBinsEP.                          *)
EncodeBinsEP(bins, numBins) ==
  /\ phase = "coding"
  /\ Shift(numBins, range * bins, range)
  /\ UNCHANGED phase

EncodeBinTrm(bin) ==
  /\ phase = "coding"
  /\ LET r == range - 2
     IN  CASE bin = 1 -> Shift(ByteBits - 1, r * 2 ^ (ByteBits - 1), 2 ^ ByteBits)
           [] bin = 0 /\ r >= ByteSize -> Shift(0, 0, r)
           [] bin = 0 /\ r < ByteSize -> Shift(1, 0, 2 * r)
  /\ phase' = IF bin = 1 THEN "terminated" ELSE "coding"

Align ==
  /\ phase = "coding"
  /\ range' = ByteSize
  /\ written' = <<>>
  /\ exact' = Effect(0, 0)
  /\ UNCHANGED <<low, bitsLeft, buffered, numBuffered, phase, tail>>

WrongFinish ==
  /\ phase = "terminated"
  /\ written' = IF numBuffered > 0 THEN HeldBack(0) ELSE <<>>
  /\ tail' = [value |-> low \div ByteSize, bits |-> WordBits - ByteBits - bitsLeft]
  /\ phase' = "finished"
  /\ exact' = Effect(0, 0)
  /\ UNCHANGED registers

(* What is held back, and the bits of m_Low but the last byte of them. *)
Finish ==
  /\ phase = "terminated"
  /\ LET top == 2 ^ (WordBits - bitsLeft)
         carry == low \div top
     IN  /\ written' = IF numBuffered > 0 \/ carry > 0 THEN HeldBack(carry) ELSE <<>>
         /\ tail' = [value |-> (low - carry * top) \div ByteSize,
                     bits |-> WordBits - ByteBits - bitsLeft]
  /\ phase' = "finished"
  /\ exact' = Effect(0, 0)
  /\ UNCHANGED registers

CoderNext ==
  \/ \E lps \in Lps : EncodeMps(lps) \/ EncodeLps(lps)
  \/ \E numBins \in 1 .. ByteBits : \E bins \in 0 .. 2 ^ numBins - 1 :
       EncodeBinsEP(bins, numBins)
  \/ \E bin \in {0, 1} : EncodeBinTrm(bin)
  \/ Align
  \/ Finish
  \/ Start

CoderSpec == CoderInit /\ [][CoderNext]_coderVars

-----------------------------------------------------------------------------
(* The number that bytes stand for. *)
Value(bytes) == FoldLeft(LAMBDA v, b : v * ByteSize + b, 0, bytes)

(* The number and the bits that are not written yet: the byte held back,   *)
(* the run of 0xff, and m_Low.                                             *)
HeldBits == ByteBits * numBuffered + WordBits - bitsLeft

Held ==
  Value(IF numBuffered = 0 THEN <<>> ELSE HeldBack(0)) * 2 ^ (WordBits - bitsLeft) + low

(* The registers keep the exact interval: what a call writes, followed by  *)
(* what is held back after it, is the lower end as exact arithmetic gives  *)
(* it.  No carry is lost on the way through held back bytes.               *)
ValueKept ==
  [][phase = "coding" /\ phase' # "finished" =>
       Value(written') * 2 ^ HeldBits' + Held' = Held * 2 ^ exact'.shift + exact'.add]_coderVars

(* The registers stay in their width, what is written are bytes (the CHECK *)
(* of OutputBitstream::write), and no carry can leave what is held back:   *)
(* neither the first byte of the stream nor a byte that follows a carry.   *)
CarryContained ==
  /\ range \in ByteSize .. 2 * ByteSize - 1
  /\ low < 2 ^ WordBits /\ bitsLeft \in WriteBelow .. WordBits - ByteBits - 1
  /\ \A i \in DOMAIN written : written[i] \in 0 .. FullByte
  /\ tail.value < 2 ^ tail.bits
  /\ Held + range <= 2 ^ HeldBits

(* Whatever is called, a carry stays inside what is held back, and the     *)
(* stream that finish and the alignment leave, the bits followed by a 1    *)
(* and by zeros, is a number in the final interval, so that a decoder      *)
(* reads the bins that were coded, whatever follows.                       *)
FinalBits == (Value(written) * 2 ^ tail.bits + tail.value) * ByteSize + ByteSize \div 2

EndsInInterval ==
  /\ CarryContained
  /\ phase = "finished" => FinalBits \in Held .. Held + range - 1
=============================================================================
