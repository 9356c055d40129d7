------------------------------ MODULE ByteStream ------------------------------
(***************************************************************************)
(* From the bytes of coded slices to the byte stream of the application:   *)
(* the substreams of a slice and their sizes for its header (EncSlice),    *)
(* the NAL unit with its emulation prevention (NALwrite), and the start    *)
(* codes of an access unit (VVEncImpl::xCopyAu).                           *)
(*                                                                         *)
(* A byte counts only by what the emulation prevention and the start codes *)
(* tell apart.  A substream begins aligned, so OutputBitstream is the      *)
(* sequence of its bytes.                                                  *)
(***************************************************************************)
EXTENDS Integers, Sequences, FiniteSets, SequencesExt, FiniteSetsExt

CONSTANTS
  Bytes,     \* the values of a byte of a substream
  Headers,   \* slice headers, aligned by a 1 and zeros
  OtherRbsp, \* the contents of the other NAL units, with trailing bits
  MaxBytes,  \* bound: bytes of the substreams
  MaxUnits   \* bound: NAL units

(* A sequence of bits that a 1 and zeros align does not end in a byte 0.   *)
Aligned(rbsp) == rbsp # <<>> /\ Last(rbsp) # 0

ASSUME BytesAssumption ==
  /\ Bytes \subseteq 0 .. 255 /\ 0 \in Bytes
  /\ \A rbsp \in Headers \union OtherRbsp : rbsp \in Seq(0 .. 255) /\ Aligned(rbsp)
  /\ {MaxBytes, MaxUnits} \subseteq Nat

VARIABLES
  fifo,         \* m_fifo of the substream that is written
  substreams,   \* substreamsOut: those of the slice that are complete
  sizes,        \* Slice::substreamSizes
  sliceEnds,    \* the last one is complete
  accessUnit,   \* AccessUnitList: the NAL units, and what each was made from
  payload,      \* the bytes the application has been given,
  delivered,    \*   and the NAL units in them
  numBytes      \* of the substreams so far

streamVars == <<fifo, substreams, sizes, sliceEnds, accessUnit, payload, delivered, numBytes>>

StreamInit ==
  /\ fifo = <<>>
  /\ substreams = <<>>
  /\ sizes = <<>>
  /\ sliceEnds = FALSE
  /\ accessUnit = <<>>
  /\ payload = <<>>
  /\ delivered = <<>>
  /\ numBytes = 0

-----------------------------------------------------------------------------
(* The positions in s from i on of two zeros before a byte up to 3. *)
Emulations(s, i) ==
  {j \in i .. Len(s) - 2 : s[j] = 0 /\ s[j + 1] = 0 /\ s[j + 2] <= 3}

WrongCountStartCodeEmulations(s) == Cardinality(Emulations(s, 1))

(* countStartCodeEmulations: a search goes on at that third byte. *)
CountStartCodeEmulations(s) ==
  LET Count[i \in 1 .. Len(s) + 1] ==
        IF Emulations(s, i) = {} THEN 0 ELSE 1 + Count[Min(Emulations(s, i)) + 2]
  IN  Count[1]

WrongEscape(state, v) ==
  LET emulates == state.zeroCount = 2 /\ v <= 3
      zeroCount == IF emulates THEN 0 ELSE state.zeroCount
  IN  [zeroCount |-> IF v = 0 THEN state.zeroCount + 1 ELSE 0,
       bytes |-> state.bytes \o (IF emulates THEN <<3, v>> ELSE <<v>>)]

(* The loop of write: a byte up to 3 that follows two zeros gets a 3 in    *)
(* front of it.                                                            *)
Escape(state, v) ==
  LET emulates == state.zeroCount = 2 /\ v <= 3
      zeroCount == IF emulates THEN 0 ELSE state.zeroCount
  IN  [zeroCount |-> IF v = 0 THEN zeroCount + 1 ELSE 0,
       bytes |-> state.bytes \o (IF emulates THEN <<3, v>> ELSE <<v>>)]

Escaped(rbsp) == FoldLeft(Escape, [zeroCount |-> 0, bytes |-> <<>>], rbsp)

(* The header has its layer, 0, in the first byte, and a second byte that  *)
(* is at least 1, nuh_temporal_id_plus1.                                   *)
NalHeader == <<0, 1>>

(* write: the emulation prevention begins after the header. *)
NalUnit(rbsp) ==
  NalHeader \o Escaped(rbsp).bytes \o (IF Escaped(rbsp).zeroCount > 0 THEN <<3>> ELSE <<>>)

StartCode(first, type) ==
  IF first \/ type = "parameters" THEN <<0, 0, 0, 1>> ELSE <<0, 0, 1>>

-----------------------------------------------------------------------------
Nal(type, header, parts, entries) ==
  [type |-> type, data |-> NalUnit(header \o FlattenSeq(parts)),
   header |-> header, parts |-> parts, sizes |-> entries]

(* The arithmetic coder writes a byte. *)
WriteByte(b) ==
  /\ ~sliceEnds
  /\ numBytes < MaxBytes
  /\ numBytes' = numBytes + 1
  /\ fifo' = Append(fifo, b)
  /\ UNCHANGED <<substreams, sizes, sliceEnds, accessUnit, payload, delivered>>

(* The size of a substream is for the NAL unit, with the bytes that the    *)
(* emulation prevention will add.                                          *)
SubstreamSize(s) == Len(s) + CountStartCodeEmulations(s)

(* The end of a tile, of a line of CTUs or of the slice: the last bits and *)
(* a 1, with zeros to the next byte.  The last substream has no size.      *)
EndSubstream(b, isMoreCTUsinSlice) ==
  /\ ~sliceEnds
  /\ numBytes < MaxBytes
  /\ numBytes' = numBytes + 1
  /\ LET s == Append(fifo, b)
     IN  /\ Aligned(s)
         /\ substreams' = Append(substreams, s)
         /\ sizes' = IF isMoreCTUsinSlice THEN Append(sizes, SubstreamSize(s)) ELSE sizes
  /\ fifo' = <<>>
  /\ sliceEnds' = ~isMoreCTUsinSlice
  /\ UNCHANGED <<accessUnit, payload, delivered>>

Room == Len(delivered) + Len(accessUnit) < MaxUnits

(* The slice: its header, aligned, and its substreams. *)
WriteSlice(header) ==
  /\ sliceEnds
  /\ Room
  /\ accessUnit' = Append(accessUnit, Nal("slice", header, substreams, sizes))
  /\ substreams' = <<>>
  /\ sizes' = <<>>
  /\ sliceEnds' = FALSE
  /\ UNCHANGED <<fifo, payload, delivered, numBytes>>

(* Parameter sets, before the slices of the picture, and SEI messages,     *)
(* before and after them.                                                  *)
WriteOther(type, rbsp) ==
  /\ Room
  /\ fifo = <<>> /\ substreams = <<>>
  /\ type = "parameters" => \A u \in DOMAIN accessUnit : accessUnit[u].type # "slice"
  /\ accessUnit' = Append(accessUnit, Nal(type, rbsp, <<>>, <<>>))
  /\ UNCHANGED <<fifo, substreams, sizes, sliceEnds, payload, delivered, numBytes>>

(* xCabacZeroWordPadding, to the slice just written. *)
CabacZeroWordPadding ==
  /\ accessUnit # <<>>
  /\ LET nal == Last(accessUnit)
     IN  /\ nal.type = "slice"
         /\ nal.data = NalUnit(nal.header \o FlattenSeq(nal.parts))
         /\ accessUnit' = ReplaceAt(accessUnit, Len(accessUnit),
                                    [nal EXCEPT !.data = @ \o <<0, 0, 3>>])
  /\ UNCHANGED <<fifo, substreams, sizes, sliceEnds, payload, delivered, numBytes>>

(* The application gets the access unit, the payload being large enough. *)
CopyAu ==
  /\ accessUnit # <<>>
  /\ fifo = <<>> /\ substreams = <<>>
  /\ payload' = payload \o FlattenSeq(
       [i \in DOMAIN accessUnit |->
          StartCode(i = 1, accessUnit[i].type) \o accessUnit[i].data])
  /\ delivered' = delivered \o accessUnit
  /\ accessUnit' = <<>>
  /\ UNCHANGED <<fifo, substreams, sizes, sliceEnds, numBytes>>

StreamNext ==
  \/ \E b \in Bytes : WriteByte(b) \/ EndSubstream(b, TRUE) \/ EndSubstream(b, FALSE)
  \/ \E header \in Headers : WriteSlice(header)
  \/ \E type \in {"parameters", "sei"}, rbsp \in OtherRbsp : WriteOther(type, rbsp)
  \/ CabacZeroWordPadding
  \/ CopyAu

StreamSpec == StreamInit /\ [][StreamNext]_streamVars

-----------------------------------------------------------------------------
(* What a decoder does with a NAL unit: a 3 after two zeros is dropped. *)
Unescape(state, v) ==
  IF state.zeroCount >= 2 /\ v = 3
    THEN [state EXCEPT !.zeroCount = 0]
    ELSE [zeroCount |-> IF v = 0 THEN state.zeroCount + 1 ELSE 0,
          bytes |-> Append(state.bytes, v)]

Rbsp(data) == FoldLeft(Unescape, [zeroCount |-> 0, bytes |-> <<>>], data).bytes

(* The bytes of the NAL unit from one entry point to the next. *)
Entry(nal, i) ==
  LET start == Len(NalHeader) + Len(Escaped(nal.header).bytes)
      offset == FoldLeft(LAMBDA a, b : a + b, 0, SubSeq(nal.sizes, 1, i - 1))
      end == IF i <= Len(nal.sizes) THEN start + offset + nal.sizes[i] ELSE Len(nal.data)
  IN  SubSeq(nal.data, start + offset + 1, end)

(* The sizes in the slice header lead a decoder to the substreams: what is *)
(* between two entry points is one substream, whole and without the bytes  *)
(* of another, although the sizes were counted for each substream alone    *)
(* and before the bytes went into the NAL unit.                            *)
EntryPointsExact ==
  \A u \in DOMAIN accessUnit :
    LET nal == accessUnit[u]
    IN  /\ nal.parts # <<>> => Len(nal.parts) = Len(nal.sizes) + 1
        /\ \A i \in DOMAIN nal.parts : IsPrefix(nal.parts[i], Rbsp(Entry(nal, i)))
        /\ \A i \in DOMAIN nal.sizes : nal.parts[i] = Rbsp(Entry(nal, i))

(* What a decoder does with the byte stream: a NAL unit begins after every *)
(* 0, 0, 1, and the zeros before the next one are not of it.               *)
StartCodes(s) == {i \in 1 .. Len(s) - 2 : SubSeq(s, i, i + 2) = <<0, 0, 1>>}

NalAt(s, i) ==
  LET next == {j \in StartCodes(s) : j > i}
      end == IF next = {} THEN Len(s) ELSE Min(next) - 1
      last == Max({i + 2} \union {j \in i + 3 .. end : s[j] # 0})
  IN  SubSeq(s, i + 3, last)

NalUnitsOf(s) ==
  LET starts == SetToSortSeq(StartCodes(s), <)
  IN  [k \in DOMAIN starts |-> NalAt(s, starts[k])]

(* The byte stream comes apart into the NAL units that were written, and   *)
(* each of those into its header and its contents: nothing in a NAL unit   *)
(* is taken for a start code, and no byte is added to it or lost.          *)
StreamComesApart ==
  /\ NalUnitsOf(payload) = [u \in DOMAIN delivered |-> delivered[u].data]
  /\ \A u \in DOMAIN delivered :
       LET nal == delivered[u]
       IN  IsPrefix(NalHeader \o nal.header \o FlattenSeq(nal.parts), Rbsp(nal.data))
=============================================================================
