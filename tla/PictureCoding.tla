---------------------------- MODULE PictureCoding ----------------------------
(***************************************************************************)
(* What a GOP encoder promises: whatever it does in parallel, a picture is *)
(* started when the pictures that it predicts from are coded, or where     *)
(* pictures overlap have been started; no more pictures are coded at a     *)
(* time than there are picture encoders; and every picture that arrives is *)
(* written, once, in coding order.  Pictures that overlap end in any       *)
(* order.  Pics is finite.                                                 *)
(***************************************************************************)
EXTENDS Integers, Sequences, FiniteSets

CONSTANTS
  Pics,        \* pictures
  Refs,        \* for each, the pictures that it predicts from
  Order,       \* for each, its place in coding order
  Limits       \* numbers of picture encoders, and whether a picture may be
               \* coded along with those it predicts from

VARIABLES
  limit,    \* one of Limits, never changed
  arrived,  \* pictures that have come
  coding,   \* pictures being coded
  coded,    \* reconstructed pictures
  written   \* the pictures written, in order

vars == <<limit, arrived, coding, coded, written>>

InWritten(p) == \E i \in 1 .. Len(written) : written[i] = p

Init == limit \in Limits /\ arrived = {} /\ coding = {} /\ coded = {} /\ written = <<>>

Arrive ==
  /\ arrived' \in SUBSET Pics /\ arrived \subseteq arrived'
  /\ UNCHANGED <<limit, coding, coded, written>>

Start(p) ==
  /\ p \in arrived \ (coding \union coded)
  /\ Cardinality(coding) < limit.encoders
  /\ Refs[p] \subseteq coded \union (IF limit.overlap THEN coding ELSE {})
  /\ coding' = coding \union {p}
  /\ UNCHANGED <<limit, arrived, coded, written>>

Finish(p) ==
  /\ p \in coding
  /\ coding' = coding \ {p}
  /\ coded' = coded \union {p}
  /\ UNCHANGED <<limit, arrived, written>>

(* A picture that a first pass leaves out counts as coded. *)
Skip(p) ==
  /\ p \in arrived \ (coding \union coded)
  /\ Refs[p] \subseteq coded
  /\ coded' = coded \union {p}
  /\ UNCHANGED <<limit, arrived, coding, written>>

Write(p) ==
  /\ p \in coded /\ ~InWritten(p)
  /\ \A q \in arrived : Order[q] < Order[p] => InWritten(q)
  /\ written' = Append(written, p)
  /\ UNCHANGED <<limit, arrived, coding, coded>>

Next == Arrive \/ \E p \in Pics : Start(p) \/ Finish(p) \/ Skip(p) \/ Write(p)

Spec ==
  /\ Init /\ [][Next]_vars
  /\ <>[](\A p \in arrived : InWritten(p))
=============================================================================
