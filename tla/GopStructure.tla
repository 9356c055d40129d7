----------------------------- MODULE GopStructure -----------------------------
(***************************************************************************)
(* The group of pictures (GOP): what GOPCfg gives a picture of a picture   *)
(* order count (POC), and which pictures it predicts from.                 *)
(*                                                                         *)
(* The configured list (m_GOPList) is in coding order: its entry i is      *)
(* picture GopOrder[i] of a GOP of pictures 1 .. GopSize, and predicts     *)
(* from the pictures GopRefs[i] before or after it (m_deltaRefPics), those *)
(* of its own GOP and the GOPs before that come earlier in the list.  With *)
(* Poc0Idr the stream starts with a picture 0 of its own; without, picture *)
(* 0 is number 1 of the first GOP.  There is no fixed intra period: the    *)
(* first picture in coding order is the one intra picture.                 *)
(***************************************************************************)
EXTENDS Integers, Sequences, FiniteSets

CONSTANTS
  GopOrder,  \* POCs within a GOP in coding order
  GopRefs,   \* GopRefs[i]: the deltas of the references of entry i
  Poc0Idr    \* m_poc0idr

GopSize == Len(GopOrder)

ASSUME GopAssumption ==
  /\ GopSize \in Nat \ {0}
  /\ {GopOrder[i] : i \in 1 .. GopSize} = 1 .. GopSize
  /\ GopOrder[1] = GopSize
  /\ \A i \in 1 .. GopSize : GopRefs[i] \subseteq Int \ {0}
  /\ \A i \in 1 .. GopSize : \A d \in GopRefs[i] :
       GopOrder[i] - d > 0 => \E j \in 1 .. i - 1 : GopOrder[j] = GopOrder[i] - d
  /\ Poc0Idr \in BOOLEAN

(* Number of a picture in its GOP, 1 .. GopSize. *)
PocInGop(poc) == ((IF Poc0Idr THEN poc - 1 ELSE poc) % GopSize) + 1

EntryOf(poc) == CHOOSE i \in 1 .. GopSize : GopOrder[i] = PocInGop(poc)

IsLeading0(poc) == Poc0Idr /\ poc = 0

(* The number of its GOP; a separate picture 0 counts to the first. *)
GopNum(poc) ==
  IF IsLeading0(poc) THEN 0 ELSE (IF Poc0Idr THEN poc - 1 ELSE poc) \div GopSize

(* m_codingNum; the pictures before the first (lead frames) have their POC. *)
CodingNum(poc) ==
  IF poc < 0 \/ IsLeading0(poc) THEN poc
  ELSE (IF Poc0Idr THEN 1 ELSE 0) + (GopNum(poc) * GopSize) + EntryOf(poc) - 1

(* m_isStartOfIntra and temporal layer 0 of an entry as it is handed out. *)
StartsIntra(poc) == IF Poc0Idr THEN poc = 0 ELSE poc = GopSize - 1

TemporalLayer0(poc) ==
  IF poc < 0 THEN (IF Poc0Idr THEN poc ELSE poc + 1) % GopSize = 0
             ELSE IsLeading0(poc) \/ EntryOf(poc) = 1

(***************************************************************************)
(* The reference picture lists.  An entry lists what it predicts from and, *)
(* going back through the coding order, all that the next entry lists:     *)
(* what one entry does not list is lost for the ones after it.  In the     *)
(* first GOPs, references to pictures that do not exist are dropped here;  *)
(* the code takes other ones that do exist where it can.                   *)
(***************************************************************************)
ActiveInGop(i) == {GopOrder[i] - d : d \in GopRefs[i]}

NeededByNextGop ==
  {r + GopSize : r \in {q \in UNION {ActiveInGop(i) : i \in 1 .. GopSize} : q < 0}}

ListedInGop[i \in 1 .. GopSize + 1] ==
  IF i > GopSize THEN NeededByNextGop
  ELSE ActiveInGop(i) \union (ListedInGop[i + 1] \ {GopOrder[i]})

Active(poc) == IF IsLeading0(poc) THEN {}
               ELSE {r + poc - PocInGop(poc) : r \in ActiveInGop(EntryOf(poc))}

Listed(poc) == IF IsLeading0(poc) THEN {}
               ELSE {r + poc - PocInGop(poc) : r \in ListedInGop[EntryOf(poc)]}

(* m_isStartOfGop *)
StartsGop(poc) == IsLeading0(poc) \/ (poc >= 0 /\ EntryOf(poc) = 1)

(* getNextGopEntry: the entry that a picture is given. *)
GopEntry(poc) ==
  [ index |-> EntryOf(poc), codingNum |-> CodingNum(poc), gopNum |-> GopNum(poc),
    isStartOfIntra |-> StartsIntra(poc), isStartOfGop |-> StartsGop(poc),
    isLayer0 |-> TemporalLayer0(poc), active |-> Active(poc), listed |-> Listed(poc) ]

(* Pictures that come before a picture in the list, but after it in POC;    *)
(* the highest temporal layer, whose number EncLib takes, has the most.     *)
NumReorder(i) ==
  LET notAfter == {j \in 1 .. GopSize : GopOrder[j] <= GopOrder[i]}
      last     == CHOOSE j \in notAfter : \A k \in notAfter : k <= j
  IN  Cardinality({j \in 1 .. last - 1 : GopOrder[j] > GopOrder[i]})

MaxNumReorder ==
  LET n == {NumReorder(i) : i \in 1 .. GopSize}
  IN  CHOOSE m \in n : \A k \in n : k <= m
=============================================================================
