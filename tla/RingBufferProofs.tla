-------------------------- MODULE RingBufferProofs --------------------------
(***************************************************************************)
(* What RingBuffer guarantees for every number of threads, slots and bits  *)
(* of a word: a slot is with one thread, and alloc gives up, or a count is *)
(* wrong, only for the changes that other threads made.                    *)
(***************************************************************************)
EXTENDS RingBuffer, FiniteSetTheorems, TLAPS

(* How far a search has come, and the slot it compares for: that was free  *)
(* in the word it has read.                                                *)
RoundInv(t) ==
  /\ pc[t] \in {"load", "cas", "store"} => i[t] \in 0 .. NumSlots - 1
  /\ pc[t] = "null" => i[t] = NumSlots
  /\ pc[t] = "cas" => Idx(t) \in read[t].slots /\ read[t].w = WordOf(Idx(t))

HoldInv == TypeOK /\ SlotsExact /\ \A t \in Threads : RoundInv(t)

-----------------------------------------------------------------------------
LEMMA WrappedInSlots ==
  ASSUME NEW a \in Slots, NEW n \in 0 .. NumSlots
  PROVE  Wrapped(a + n) \in Slots
BY RingAssumption DEF Slots, Wrapped

LEMMA IdxInSlots ==
  ASSUME TypeOK, NEW t \in Threads, i[t] \in 0 .. NumSlots - 1
  PROVE  Idx(t) \in Slots
<1>1. start[t] \in Slots
  BY DEF TypeOK
<1>2. i[t] \in 0 .. NumSlots
  BY RingAssumption
<1>3. QED BY <1>1, <1>2, WrappedInSlots DEF Idx

LEMMA WordIsNumber ==
  ASSUME NEW s \in Slots PROVE WordOf(s) \in Nat
BY RingAssumption DEF Slots, WordOf

LEMMA WordFoundType ==
  ASSUME TypeOK, NEW t \in Threads, Idx(t) \in Slots
  PROVE  WordFound(t) \in [w : Int, slots : SUBSET Slots]
BY WordIsNumber DEF WordFound, TypeOK

LEMMA NoWordType == NoWord \in [w : Int, slots : SUBSET Slots]
BY DEF NoWord

(* A step of a thread leaves the others where they are. *)
LEMMA OthersStay ==
  ASSUME TypeOK, NEW t \in Threads, NEW u \in Threads, u # t, Step(t)
  PROVE  pc'[u] = pc[u] /\ start'[u] = start[u] /\ i'[u] = i[u] /\ read'[u] = read[u]
BY DEF TypeOK, Step, Alloc, Call, GoTo, LoadWord, PassOver, Cas, Take, Lose, StoreHead,
       ReturnNull, Free, localVars, GetFreeCount, CountWord, ReturnCount, Return

-----------------------------------------------------------------------------
(* Types. *)

LEMMA ChangedType ==
  ASSUME TypeOK, NEW t \in Threads, NEW s \in Slots, Changed(t, s)
  PROVE  /\ free' \in [Threads -> SUBSET Slots]
         /\ touched' \in [Threads -> SUBSET Slots]
         /\ changes' \in [Threads -> Nat]
BY DEF TypeOK, Changed

LEMMA ReturnType ==
  ASSUME TypeOK, NEW t \in Threads, Return(t), head' \in Slots, UNCHANGED <<mask, calls, held>>
  PROVE  TypeOK'
<1>1. 0 \in Slots
  BY RingAssumption DEF Slots
<1>2. QED BY <1>1, NoWordType DEF TypeOK, Return, GoTo, Pcs

LEMMA CardinalityType ==
  ASSUME NEW S, S \in SUBSET Slots
  PROVE  IsFiniteSet(S) /\ Cardinality(S) \in Nat
<1>1. IsFiniteSet(Slots)
  BY FS_Interval, RingAssumption DEF Slots
<1>2. QED BY <1>1, FS_Subset, FS_CardinalityType

LEMMA TypeStep ==
  ASSUME TypeOK, NEW t \in Threads, RoundInv(t), Step(t)
  PROVE  TypeOK'
<1>1. CASE Alloc(t)
  BY <1>1 DEF Alloc, Call, GoTo, TypeOK, Pcs
<1>2. CASE LoadWord(t)
  <2>1. Idx(t) \in Slots
    BY <1>2, IdxInSlots DEF LoadWord, RoundInv
  <2>2. read' \in [Threads -> [w : Int, slots : SUBSET Slots]]
    <3>1. WordFound(t) \in [w : Int, slots : SUBSET Slots]
      BY <2>1, WordFoundType
    <3>2. CASE read' = [read EXCEPT ![t] = WordFound(t)]
      BY <3>1, <3>2 DEF TypeOK
    <3>3. CASE UNCHANGED read
      BY <3>3 DEF TypeOK
    <3>4. QED BY <1>2, <3>2, <3>3 DEF LoadWord
  <2>3. pc' \in [Threads -> Pcs] /\ i' \in [Threads -> Nat]
    <3>1. CASE GoTo(t, "cas") /\ UNCHANGED i
      BY <3>1 DEF GoTo, TypeOK, Pcs
    <3>2. CASE PassOver(t)
      BY <3>2 DEF PassOver, GoTo, TypeOK, Pcs
    <3>3. QED BY <1>2, <3>1, <3>2 DEF LoadWord
  <2>4. QED BY <1>2, <2>2, <2>3 DEF LoadWord, TypeOK, callVars
<1>3. CASE Cas(t)
  <2>1. Idx(t) \in Slots
    BY <1>3, IdxInSlots DEF Cas, RoundInv
  <2>2. CASE mask' = mask \ {Idx(t)} /\ Take(t)
    BY <1>3, <2>1, <2>2, ChangedType DEF Cas, Take, GoTo, TypeOK, Pcs
  <2>3. CASE Lose(t)
    BY <1>3, <2>3, NoWordType DEF Cas, Lose, PassOver, GoTo, TypeOK, Pcs, callVars
  <2>4. QED BY <1>3, <2>2, <2>3 DEF Cas
<1>4. CASE StoreHead(t)
  <2>1. Idx(t) \in Slots
    BY <1>4, IdxInSlots DEF StoreHead, RoundInv
  <2>2. head' \in Slots
    BY <1>4, <2>1, WrappedInSlots, RingAssumption DEF StoreHead
  <2>3. QED BY <1>4, <2>2, ReturnType DEF StoreHead
<1>5. CASE ReturnNull(t) \/ ReturnCount(t)
  <2>1. head' \in Slots
    BY <1>5 DEF ReturnNull, ReturnCount, TypeOK
  <2>2. QED BY <1>5, <2>1, ReturnType DEF ReturnNull, ReturnCount
<1>6. CASE Free(t)
  <2>1. PICK u \in Threads : \E s \in held[u] :
          mask' = mask \union {s} /\ held' = [held EXCEPT ![u] = held[u] \ {s}] /\ Changed(t, s)
    BY <1>6 DEF Free
  <2>2. PICK s \in held[u] :
          mask' = mask \union {s} /\ held' = [held EXCEPT ![u] = held[u] \ {s}] /\ Changed(t, s)
    BY <2>1
  <2>3. s \in Slots
    BY <2>2 DEF TypeOK
  <2>4. QED BY <1>6, <2>2, <2>3, ChangedType DEF Free, TypeOK, localVars
<1>7. CASE GetFreeCount(t)
  BY <1>7 DEF GetFreeCount, Call, GoTo, TypeOK, Pcs
<1>8. CASE CountWord(t)
  <2>1. FreeIn(i[t]) \in Nat
    BY CardinalityType DEF FreeIn, TypeOK
  <2>2. QED BY <1>8, <2>1 DEF CountWord, GoTo, TypeOK, Pcs, callVars
<1>9. QED BY <1>1, <1>2, <1>3, <1>4, <1>5, <1>6, <1>7, <1>8 DEF Step

-----------------------------------------------------------------------------
(* Slots are with one thread. *)

(* The thread's own round and comparison. *)
LEMMA RoundStep ==
  ASSUME TypeOK, NEW t \in Threads, RoundInv(t), Step(t)
  PROVE  RoundInv(t)'
<1>1. ASSUME PassOver(t), i[t] \in 0 .. NumSlots - 1
      PROVE  RoundInv(t)'
  BY <1>1, RingAssumption DEF PassOver, GoTo, RoundInv, TypeOK
<1>2. CASE LoadWord(t)
  <2>1. i[t] \in 0 .. NumSlots - 1
    BY <1>2 DEF LoadWord, RoundInv
  <2>2. CASE Idx(t) \in read'[t].slots /\ GoTo(t, "cas") /\ UNCHANGED i
    <3>1. read'[t].w = WordOf(Idx(t))
      BY <1>2 DEF LoadWord, WordFound, TypeOK
    <3>2. Idx(t)' = Idx(t)
      BY <1>2, <2>2 DEF LoadWord, Idx
    <3>3. QED BY <2>1, <2>2, <3>1, <3>2 DEF GoTo, RoundInv, TypeOK
  <2>3. QED BY <1>1, <1>2, <2>1, <2>2 DEF LoadWord
<1>3. CASE Cas(t)
  <2>1. i[t] \in 0 .. NumSlots - 1
    BY <1>3 DEF Cas, RoundInv
  <2>2. CASE Take(t)
    BY <2>1, <2>2 DEF Take, GoTo, RoundInv, TypeOK
  <2>3. QED BY <1>1, <1>3, <2>1, <2>2 DEF Cas, Lose
<1>4. CASE Alloc(t)
  BY <1>4, RingAssumption DEF Alloc, Call, GoTo, RoundInv, TypeOK
<1>5. CASE Free(t)
  BY <1>5 DEF Free, localVars, RoundInv, Idx
<1>6. CASE Return(t)
  BY <1>6 DEF Return, GoTo, RoundInv, TypeOK
<1>7. CASE GetFreeCount(t) \/ CountWord(t)
  <2>1. pc'[t] \in {"count", "counted"}
    BY <1>7 DEF GetFreeCount, CountWord, Call, GoTo, TypeOK
  <2>2. QED BY <2>1 DEF RoundInv
<1>8. QED BY <1>2, <1>3, <1>4, <1>5, <1>6, <1>7 DEF Step, StoreHead, ReturnNull, ReturnCount

(* What a step does to the mask and to the slots that threads hold. *)
Takes(t) ==
  /\ pc[t] = "cas" /\ pc'[t] = "store"
  /\ Idx(t) \in mask /\ mask' = mask \ {Idx(t)}
  /\ held' = [held EXCEPT ![t] = held[t] \union {Idx(t)}]
  /\ Changed(t, Idx(t))

GivesBack(t) ==
  \E u \in Threads : \E s \in held[u] :
    /\ mask' = mask \union {s}
    /\ held' = [held EXCEPT ![u] = held[u] \ {s}]
    /\ Changed(t, s)

LeavesMask(t) ==
  /\ mask' = mask /\ held' = held
  /\ \A u \in Threads \ {t} :
       free'[u] = free[u] /\ touched'[u] = touched[u] /\ changes'[u] = changes[u]

LEMMA MaskStep ==
  ASSUME TypeOK, NEW t \in Threads, RoundInv(t), Step(t)
  PROVE  Takes(t) \/ GivesBack(t) \/ LeavesMask(t)
<1>1. CASE Cas(t) /\ WordUnchanged(t) /\ mask' = mask \ {Idx(t)} /\ Take(t)
  BY <1>1 DEF Cas, WordUnchanged, Take, GoTo, Takes, RoundInv, TypeOK
<1>2. CASE Free(t)
  BY <1>2 DEF Free, GivesBack
<1>3. QED
  BY <1>1, <1>2 DEF Step, Alloc, Call, LoadWord, Cas, Lose, StoreHead, ReturnNull, Return,
     GetFreeCount, CountWord, ReturnCount, callVars, LeavesMask, TypeOK

LEMMA HeldStep ==
  ASSUME TypeOK, SlotsExact, NEW t \in Threads, RoundInv(t), Step(t)
  PROVE  SlotsExact'
<1>1. CASE Takes(t)
  <2>1. \A u \in Threads : Idx(t) \notin held[u]
    BY <1>1 DEF Takes, SlotsExact, TypeOK
  <2>2. \A u \in Threads : held'[u] = IF u = t THEN held[t] \union {Idx(t)} ELSE held[u]
    BY <1>1 DEF Takes, TypeOK
  <2>3. QED BY <1>1, <2>1, <2>2 DEF Takes, SlotsExact
<1>2. CASE GivesBack(t)
  <2>1. PICK u \in Threads : \E s \in held[u] :
          mask' = mask \union {s} /\ held' = [held EXCEPT ![u] = held[u] \ {s}]
    BY <1>2 DEF GivesBack
  <2>2. PICK s \in held[u] :
          mask' = mask \union {s} /\ held' = [held EXCEPT ![u] = held[u] \ {s}]
    BY <2>1
  <2>3. \A v \in Threads : held'[v] = IF v = u THEN held[u] \ {s} ELSE held[v]
    BY <2>2 DEF TypeOK
  <2>4. s \in Slots /\ \A v \in Threads : v # u => s \notin held[v]
    BY <2>2 DEF TypeOK, SlotsExact
  <2>5. QED BY <2>2, <2>3, <2>4 DEF SlotsExact
<1>3. CASE LeavesMask(t)
  BY <1>3 DEF LeavesMask, SlotsExact
<1>4. QED BY <1>1, <1>2, <1>3, MaskStep

LEMMA HoldStep ==
  ASSUME HoldInv, [Next]_vars
  PROVE  HoldInv'
<1>1. CASE UNCHANGED vars
  BY <1>1 DEF vars, localVars, callVars, HoldInv, TypeOK, SlotsExact, RoundInv, Idx
<1>2. ASSUME NEW t \in Threads, Step(t)
      PROVE  HoldInv'
  <2>1. TypeOK' /\ SlotsExact' /\ RoundInv(t)'
    BY <1>2, TypeStep, HeldStep, RoundStep DEF HoldInv
  <2>2. ASSUME NEW u \in Threads, u # t
        PROVE  RoundInv(u)'
    BY <1>2, <2>2, OthersStay DEF HoldInv, RoundInv, Idx
  <2>3. QED BY <2>1, <2>2 DEF HoldInv
<1>3. QED BY <1>1, <1>2 DEF Next

LEMMA HoldInit == Init => HoldInv
BY RingAssumption, NoWordType DEF Init, HoldInv, TypeOK, Pcs, SlotsExact, RoundInv, Slots

LEMMA HoldInvariant == Spec => []HoldInv
BY HoldInit, HoldStep, PTL DEF Spec

(* The cursor, the words and the counters of every thread keep their       *)
(* types, for every number of slots and bits of a word.                    *)
THEOREM TypeCorrect == Spec => []TypeOK
BY HoldInvariant, PTL DEF HoldInv

(* alloc never gives a slot out twice and none is lost, for any number of  *)
(* threads, although words are read without protection and stores of the   *)
(* cursor overtake each other.                                             *)
THEOREM SlotsHeldOnce == Spec => []SlotsExact
BY HoldInvariant, PTL DEF HoldInv

-----------------------------------------------------------------------------
(* alloc gives up only for what others do.                                 *)
(*                                                                         *)
(* A slot that was free when the search began and that nobody touched is   *)
(* passed over only when its comparison fails.  Some change of its word is *)
(* the reason for that, and no change is the reason twice: the word is     *)
(* read again after each comparison.                                       *)

Searching(t) == pc[t] \in {"load", "cas", "null"}

Passed(t) == {Wrapped(start[t] + n) : n \in 0 .. i[t] - 1}

(* The slots passed over only because a comparison failed. *)
Unpaid(t) == (free[t] \intersect Passed(t)) \ touched[t]

HasWord(t) == read[t].w # NoWord.w

(* The next comparison with this word would fail. *)
Stale(t) == HasWord(t) /\ ~WordUnchanged(t)

Pending(t) == IF Stale(t) THEN 1 ELSE 0

Untouched(t) == free[t] \ touched[t]

PaidInv(t) ==
  /\ pc[t] \in {"idle", "count", "counted"} => read[t] = NoWord
  /\ Searching(t) =>
       /\ Untouched(t) \subseteq mask
       /\ HasWord(t) => Untouched(t) \intersect SlotsOf(read[t].w) \subseteq read[t].slots
       /\ Cardinality(touched[t]) <= changes[t]
       /\ Cardinality(Unpaid(t)) + Pending(t) <= changes[t]

LEMMA UnpaidFinite ==
  ASSUME TypeOK, NEW t \in Threads
  PROVE  /\ IsFiniteSet(Unpaid(t)) /\ Cardinality(Unpaid(t)) \in Nat
         /\ IsFiniteSet(touched[t]) /\ Cardinality(touched[t]) \in Nat
         /\ changes[t] \in Nat
<1>1. touched[t] \in SUBSET Slots /\ Unpaid(t) \in SUBSET Slots
  BY DEF TypeOK, Unpaid
<1>2. QED BY <1>1, CardinalityType DEF TypeOK

(* One more slot in a set counts at most one. *)
LEMMA OneMore ==
  ASSUME NEW S, IsFiniteSet(S), NEW x, NEW T, T \subseteq S \union {x}
  PROVE  IsFiniteSet(T) /\ Cardinality(T) <= Cardinality(S) + 1 /\ Cardinality(T) \in Nat
<1>0. Cardinality(S) \in Nat
  BY FS_CardinalityType
<1>1. IsFiniteSet(S \union {x}) /\ Cardinality(S \union {x}) <= Cardinality(S) + 1
  <2>1. /\ IsFiniteSet(S \union {x})
        /\ Cardinality(S \union {x}) = IF x \in S THEN Cardinality(S) ELSE Cardinality(S) + 1
    BY FS_AddElement
  <2>2. QED BY <1>0, <2>1
<1>2. IsFiniteSet(T) /\ Cardinality(T) <= Cardinality(S \union {x})
  BY <1>1, FS_Subset
<1>3. Cardinality(T) \in Nat /\ Cardinality(S \union {x}) \in Nat /\ Cardinality(S) \in Nat
  BY <1>1, <1>2, FS_CardinalityType
<1>4. QED BY <1>1, <1>2, <1>3

(* A slot passed over is added to those passed. *)
LEMMA PassedGrows ==
  ASSUME TypeOK, NEW t \in Threads, PassOver(t), UNCHANGED start
  PROVE  Passed(t)' = Passed(t) \union {Idx(t)}
<1>1. i'[t] = i[t] + 1 /\ i[t] \in Nat /\ start'[t] = start[t]
  BY DEF PassOver, TypeOK
<1>2. Passed(t)' = {Wrapped(start[t] + n) : n \in 0 .. i[t]}
  BY <1>1 DEF Passed
<1>3. 0 .. i[t] = (0 .. i[t] - 1) \union {i[t]}
  BY <1>1
<1>4. QED BY <1>2, <1>3 DEF Passed, Idx

(* Another thread changes the mask at one slot, or not at all. *)
LEMMA PaidByOthers ==
  ASSUME TypeOK, TypeOK', NEW t \in Threads, NEW u \in Threads, u # t, RoundInv(u), Step(u),
         PaidInv(t)
  PROVE  PaidInv(t)'
<1>1. pc'[t] = pc[t] /\ start'[t] = start[t] /\ i'[t] = i[t] /\ read'[t] = read[t]
  BY OthersStay
<1>2. CASE LeavesMask(u)
  <2>1. mask' = mask /\ free'[t] = free[t] /\ touched'[t] = touched[t] /\ changes'[t] = changes[t]
    BY <1>2 DEF LeavesMask
  <2>2. Unpaid(t)' = Unpaid(t) /\ Pending(t)' = Pending(t) /\ Untouched(t)' = Untouched(t)
    BY <1>1, <2>1 DEF Unpaid, Passed, Pending, Stale, HasWord, WordUnchanged, Untouched
  <2>3. QED BY <1>1, <2>1, <2>2 DEF PaidInv, Searching, HasWord
<1>3. ASSUME NEW s \in Slots, Changed(u, s), mask \ {s} \subseteq mask'
      PROVE  PaidInv(t)'
  <2>1. CASE ~Searching(t)
    BY <1>1, <2>1 DEF PaidInv, Searching
  <2>2. CASE Searching(t)
    <3>1. /\ touched'[t] = touched[t] \union {s} /\ changes'[t] = changes[t] + 1
          /\ free'[t] = free[t]
      BY <1>3, <2>2 DEF Changed, Notices, Searching
    <3>2. Untouched(t)' = Untouched(t) \ {s}
      BY <3>1 DEF Untouched
    <3>3. Untouched(t)' \subseteq mask'
      BY <1>3, <2>2, <3>2 DEF PaidInv
    <3>4. HasWord(t)' =>
            Untouched(t)' \intersect SlotsOf(read'[t].w) \subseteq read'[t].slots
      BY <1>1, <2>2, <3>2 DEF PaidInv, HasWord
    <3>5. Cardinality(touched'[t]) <= changes'[t]
      <4>1. Cardinality(touched'[t]) <= Cardinality(touched[t]) + 1
            /\ Cardinality(touched'[t]) \in Nat
        BY <3>1, UnpaidFinite, OneMore
      <4>2. QED BY <2>2, <3>1, <4>1, UnpaidFinite DEF PaidInv
    <3>6. Cardinality(Unpaid(t)') + Pending(t)' <= changes'[t]
      <4>1. Unpaid(t)' \subseteq Unpaid(t)
        BY <1>1, <3>1 DEF Unpaid, Passed
      <4>2. Cardinality(Unpaid(t)') <= Cardinality(Unpaid(t)) /\ Cardinality(Unpaid(t)') \in Nat
        BY <4>1, UnpaidFinite, FS_Subset, FS_CardinalityType
      <4>3. Cardinality(Unpaid(t)) <= changes[t]
        BY <2>2, UnpaidFinite DEF PaidInv, Pending
      <4>4. Pending(t)' \in {0, 1}
        BY DEF Pending
      <4>5. QED BY <3>1, <4>2, <4>3, <4>4, UnpaidFinite
    <3>7. QED BY <1>1, <2>2, <3>3, <3>4, <3>5, <3>6 DEF PaidInv, Searching
  <2>3. QED BY <2>1, <2>2
<1>4. CASE Takes(u)
  BY <1>3, <1>4, IdxInSlots DEF Takes, RoundInv
<1>5. CASE GivesBack(u)
  <2>1. PICK v \in Threads : \E s \in held[v] : mask' = mask \union {s} /\ Changed(u, s)
    BY <1>5 DEF GivesBack
  <2>2. PICK s \in held[v] : mask' = mask \union {s} /\ Changed(u, s)
    BY <2>1
  <2>3. QED BY <1>3, <2>2 DEF TypeOK
<1>6. QED BY <1>2, <1>4, <1>5, MaskStep

(* The search itself pays for each slot it passes over. *)
LEMMA PaidBySearch ==
  ASSUME TypeOK, TypeOK', NEW t \in Threads, RoundInv(t), Step(t), PaidInv(t)
  PROVE  PaidInv(t)'
<1>1. CASE Alloc(t)
  <2>1. /\ i'[t] = 0 /\ free'[t] = mask /\ touched'[t] = {} /\ changes'[t] = 0
        /\ read'[t] = NoWord /\ mask' = mask /\ pc'[t] = "load"
    BY <1>1 DEF Alloc, Call, GoTo, PaidInv, TypeOK
  <2>2. Unpaid(t)' = {}
    BY <2>1 DEF Unpaid, Passed
  <2>3. ~HasWord(t)' /\ Pending(t)' = 0
    BY <2>1 DEF HasWord, Stale, Pending
  <2>4. Cardinality(Unpaid(t)') = 0 /\ Cardinality(touched'[t]) = 0
    BY <2>1, <2>2, FS_EmptySet
  <2>5. QED BY <2>1, <2>3, <2>4 DEF PaidInv, Untouched
<1>2. CASE LoadWord(t)
  <2>1. /\ mask' = mask /\ start' = start /\ free' = free /\ touched' = touched
        /\ changes' = changes /\ Searching(t) /\ Searching(t)' /\ i[t] \in 0 .. NumSlots - 1
    BY <1>2 DEF LoadWord, callVars, Searching, PassOver, GoTo, RoundInv, TypeOK
  <2>2. Idx(t) \in Slots /\ Idx(t) \in SlotsOf(WordOf(Idx(t)))
    BY <2>1, IdxInSlots DEF SlotsOf
  <2>3. read'[t].w = WordOf(Idx(t))
    BY <1>2 DEF LoadWord, WordFound, TypeOK
  <2>4. Untouched(t) \intersect SlotsOf(read'[t].w) \subseteq read'[t].slots
    <3>1. CASE read'[t] = WordFound(t)
      BY <2>1, <3>1 DEF WordFound, PaidInv
    <3>2. CASE UNCHANGED read
      <4>1. HasWord(t)
        BY <2>2, <2>3, <3>2, WordIsNumber DEF HasWord, NoWord
      <4>2. QED BY <2>1, <3>2, <4>1 DEF PaidInv
    <3>3. QED BY <1>2, <3>1, <3>2 DEF LoadWord, TypeOK
  <2>5. Pending(t)' <= Pending(t)
    <3>1. CASE read'[t] = WordFound(t)
      BY <2>1, <3>1 DEF Pending, Stale, WordUnchanged, WordFound
    <3>2. CASE UNCHANGED read
      BY <2>1, <3>2 DEF Pending, Stale, WordUnchanged, HasWord
    <3>3. QED BY <1>2, <3>1, <3>2 DEF LoadWord, TypeOK
  <2>6. Unpaid(t)' = Unpaid(t)
    <3>1. CASE UNCHANGED i
      BY <2>1, <3>1 DEF Unpaid, Passed
    <3>2. CASE PassOver(t) /\ Idx(t) \notin read'[t].slots
      <4>1. Idx(t) \notin Untouched(t)
        BY <2>2, <2>3, <2>4, <3>2
      <4>2. Passed(t)' = Passed(t) \union {Idx(t)}
        BY <2>1, <3>2, PassedGrows
      <4>3. QED BY <2>1, <4>1, <4>2 DEF Unpaid, Untouched
    <3>3. QED BY <1>2, <3>1, <3>2 DEF LoadWord
  <2>7. Cardinality(Unpaid(t)') + Pending(t)' <= changes'[t]
    BY <2>1, <2>5, <2>6, UnpaidFinite DEF PaidInv, Pending
  <2>8. QED BY <2>1, <2>4, <2>7 DEF PaidInv, Untouched, Searching
<1>3. CASE Cas(t) /\ Lose(t) /\ ~WordUnchanged(t)
  <2>1. /\ mask' = mask /\ start' = start /\ free' = free /\ touched' = touched
        /\ changes' = changes /\ Searching(t) /\ Searching(t)' /\ i[t] \in 0 .. NumSlots - 1
        /\ read'[t] = NoWord
    BY <1>3 DEF Cas, Lose, callVars, Searching, PassOver, GoTo, RoundInv, TypeOK
  <2>2. Stale(t) /\ ~HasWord(t)'
    <3>1. Idx(t) \in Slots
      BY <2>1, IdxInSlots
    <3>2. HasWord(t)
      BY <1>3, <3>1, WordIsNumber DEF Cas, RoundInv, HasWord, NoWord
    <3>3. QED BY <1>3, <2>1, <3>2 DEF Stale, HasWord
  <2>3. Pending(t) = 1 /\ Pending(t)' = 0
    BY <2>2 DEF Pending, Stale
  <2>4. Unpaid(t)' \subseteq Unpaid(t) \union {Idx(t)}
    <3>1. Passed(t)' = Passed(t) \union {Idx(t)}
      BY <1>3, <2>1, PassedGrows DEF Lose
    <3>2. QED BY <2>1, <3>1 DEF Unpaid
  <2>5. Cardinality(Unpaid(t)') <= Cardinality(Unpaid(t)) + 1 /\ Cardinality(Unpaid(t)') \in Nat
    BY <2>4, UnpaidFinite, OneMore
  <2>6. Cardinality(Unpaid(t)') + Pending(t)' <= changes'[t]
    BY <2>1, <2>3, <2>5, UnpaidFinite DEF PaidInv
  <2>7. QED BY <2>1, <2>2, <2>6 DEF PaidInv, Untouched, Searching
<1>4. CASE Take(t)
  BY <1>4 DEF Take, GoTo, PaidInv, Searching, TypeOK
<1>5. CASE Return(t)
  BY <1>5 DEF Return, GoTo, PaidInv, Searching, TypeOK
<1>6. CASE Free(t)
  BY <1>6 DEF Free, localVars, PaidInv, Searching
<1>7. CASE GetFreeCount(t) \/ CountWord(t)
  <2>1. pc'[t] \in {"count", "counted"} /\ read' = read /\ pc[t] \in {"idle", "count"}
    BY <1>7 DEF GetFreeCount, CountWord, Call, GoTo, TypeOK
  <2>2. QED BY <2>1 DEF PaidInv, Searching
<1>8. QED BY <1>1, <1>2, <1>3, <1>4, <1>5, <1>6, <1>7
      DEF Step, Cas, StoreHead, ReturnNull, ReturnCount

SearchInv == HoldInv /\ \A t \in Threads : PaidInv(t)

LEMMA SearchStep ==
  ASSUME SearchInv, [Next]_vars
  PROVE  SearchInv'
<1>1. HoldInv'
  BY HoldStep DEF SearchInv
<1>2. ASSUME NEW t \in Threads PROVE PaidInv(t)'
  <2>1. ASSUME NEW u \in Threads, Step(u) PROVE PaidInv(t)'
    BY <1>1, <2>1, PaidByOthers, PaidBySearch DEF SearchInv, HoldInv
  <2>2. CASE UNCHANGED vars
    BY <2>2 DEF vars, localVars, callVars, SearchInv, PaidInv, Searching, Untouched, HasWord,
       Unpaid, Passed, Pending, Stale, WordUnchanged
  <2>3. QED BY <2>1, <2>2 DEF Next
<1>3. QED BY <1>1, <1>2 DEF SearchInv

LEMMA SearchInvariant == Spec => []SearchInv
<1>1. Init => SearchInv
  BY HoldInit DEF Init, SearchInv, PaidInv, Searching
<1>2. QED BY <1>1, SearchStep, PTL DEF Spec

(* After a round every slot has been passed over. *)
LEMMA WholeRound ==
  ASSUME TypeOK, NEW t \in Threads, i[t] = NumSlots
  PROVE  Passed(t) = Slots
<1>1. ASSUME NEW s \in Slots
      PROVE  \E n \in 0 .. NumSlots - 1 : s = Wrapped(start[t] + n)
  <2>1. start[t] \in Slots
    BY DEF TypeOK
  <2>2. CASE s >= start[t]
    <3>1. s - start[t] \in 0 .. NumSlots - 1 /\ Wrapped(start[t] + (s - start[t])) = s
      BY <2>1, <2>2, RingAssumption DEF Slots, Wrapped
    <3>2. QED BY <3>1
  <2>3. CASE s < start[t]
    <3>1. /\ s - start[t] + NumSlots \in 0 .. NumSlots - 1
          /\ Wrapped(start[t] + (s - start[t] + NumSlots)) = s
      BY <2>1, <2>3, RingAssumption DEF Slots, Wrapped
    <3>2. QED BY <3>1
  <2>4. QED BY <2>1, <2>2, <2>3, RingAssumption DEF Slots
<1>2. ASSUME NEW n \in 0 .. NumSlots - 1
      PROVE  Wrapped(start[t] + n) \in Slots
  BY WrappedInSlots, RingAssumption DEF TypeOK
<1>3. QED BY <1>1, <1>2 DEF Passed

(* alloc returns nullptr with slots free only if other threads took or     *)
(* gave back at least half as many during the call, for any number of      *)
(* threads, slots and bits of a word, and although a compiler may keep the *)
(* word that the loop has read.                                            *)
THEOREM FailsOnlyUnderContention == Spec => []GivesUpUnderContention
<1>1. SearchInv => GivesUpUnderContention
  <2> SUFFICES ASSUME SearchInv, NEW t \in Threads, pc[t] = "null"
               PROVE  2 * changes[t] >= Cardinality(free[t])
    BY DEF GivesUpUnderContention
  <2>1. TypeOK /\ i[t] = NumSlots
    BY DEF SearchInv, HoldInv, RoundInv
  <2>2. Unpaid(t) = free[t] \ touched[t]
    BY <2>1, WholeRound DEF Unpaid, TypeOK
  <2>3. Cardinality(Unpaid(t)) <= changes[t] /\ Cardinality(touched[t]) <= changes[t]
    BY <2>1, UnpaidFinite DEF SearchInv, PaidInv, Searching, Pending
  <2>4. IsFiniteSet(free[t]) /\ Cardinality(free[t]) \in Nat
    BY <2>1, CardinalityType DEF TypeOK
  <2>5. Cardinality(free[t] \ touched[t])
          = Cardinality(free[t]) - Cardinality(free[t] \intersect touched[t])
    BY <2>4, FS_Difference
  <2>6. /\ Cardinality(free[t] \intersect touched[t]) <= Cardinality(touched[t])
        /\ Cardinality(free[t] \intersect touched[t]) \in Nat
    BY <2>1, UnpaidFinite, FS_Subset, FS_CardinalityType
  <2>7. QED BY <2>1, <2>2, <2>3, <2>4, <2>5, <2>6, UnpaidFinite
<1>2. QED BY <1>1, SearchInvariant, PTL

-----------------------------------------------------------------------------
(* getFreeCount is off by no more than what changed meanwhile: the words   *)
(* it has read are off by that, and at the end these are all words.        *)

Counting(t) == pc[t] \in {"count", "counted"}

Below(w) == {s \in mask : WordOf(s) < w}

WithinChanges(t) ==
  /\ count[t] <= Cardinality(Below(i[t])) + changes[t]
  /\ Cardinality(Below(i[t])) <= count[t] + changes[t]

CountInv(t) ==
  /\ ~Counting(t) => count[t] = 0
  /\ pc[t] = "count" => i[t] < MaskWords
  /\ pc[t] = "counted" => i[t] = MaskWords
  /\ Counting(t) => WithinChanges(t)

LEMMA BelowFinite ==
  ASSUME TypeOK, NEW w
  PROVE  IsFiniteSet(Below(w)) /\ Cardinality(Below(w)) \in Nat
<1>1. Below(w) \in SUBSET Slots
  BY DEF Below, TypeOK
<1>2. QED BY <1>1, CardinalityType

(* One more word is read. *)
LEMMA OneMoreWord ==
  ASSUME TypeOK, NEW w \in Nat
  PROVE  Cardinality(Below(w + 1)) = Cardinality(Below(w)) + FreeIn(w)
<1> DEFINE new == mask \intersect SlotsOf(w)
<1>1. \A s \in mask : WordOf(s) \in Nat /\ (s \in SlotsOf(w) <=> WordOf(s) = w)
  BY WordIsNumber DEF TypeOK, SlotsOf
<1>2. Below(w + 1) = Below(w) \union new /\ Below(w) \intersect new = {}
  BY <1>1 DEF Below
<1>3. IsFiniteSet(new) /\ Cardinality(new) \in Nat
  BY CardinalityType DEF TypeOK
<1>4. Cardinality(Below(w + 1)) = Cardinality(Below(w)) + Cardinality(new)
                                    - Cardinality(Below(w) \intersect new)
  BY <1>2, <1>3, BelowFinite, FS_Union
<1>5. Cardinality(Below(w) \intersect new) = 0
  BY <1>2, FS_EmptySet
<1>6. QED BY <1>3, <1>4, <1>5, BelowFinite DEF FreeIn

(* All words have been read. *)
LEMMA AllWords ==
  ASSUME TypeOK
  PROVE  Below(MaskWords) = mask
<1>1. ASSUME NEW s \in Slots PROVE WordOf(s) < MaskWords
  BY RingAssumption DEF Slots, WordOf, MaskWords
<1>2. QED BY <1>1 DEF Below, TypeOK

(* Another thread changes the mask at one slot, or not at all. *)
LEMMA CountByOthers ==
  ASSUME TypeOK, TypeOK', NEW t \in Threads, NEW u \in Threads, u # t, RoundInv(u), Step(u),
         CountInv(t)
  PROVE  CountInv(t)'
<1>1. pc'[t] = pc[t] /\ i'[t] = i[t] /\ count'[t] = count[t]
  BY OthersStay
     DEF TypeOK, Step, Alloc, LoadWord, Cas, StoreHead, ReturnNull, Free, localVars,
     GetFreeCount, CountWord, ReturnCount, Return
<1>2. CASE LeavesMask(u)
  <2>1. mask' = mask /\ changes'[t] = changes[t]
    BY <1>2 DEF LeavesMask
  <2>2. Below(i[t])' = Below(i[t])
    BY <1>1, <2>1 DEF Below
  <2>3. QED BY <1>1, <2>1, <2>2 DEF CountInv, Counting, WithinChanges
<1>3. ASSUME NEW s \in Slots, Changed(u, s), mask \ {s} \subseteq mask', mask' \subseteq mask \union {s}
      PROVE  CountInv(t)'
  <2>1. CASE ~Counting(t)
    BY <1>1, <2>1 DEF CountInv, Counting
  <2>2. CASE Counting(t)
    <3> DEFINE before == Below(i[t])
               after == {r \in mask' : WordOf(r) < i[t]}
    <3>1. changes'[t] = changes[t] + 1 /\ changes[t] \in Nat /\ count[t] \in Nat
      BY <1>3, <2>2 DEF Changed, Notices, Counting, TypeOK
    <3>2. Below(i[t])' = after
      BY <1>1 DEF Below
    <3>3. after \subseteq before \union {s} /\ before \subseteq after \union {s}
      BY <1>3 DEF Below
    <3>4. IsFiniteSet(before) /\ Cardinality(before) \in Nat
      BY BelowFinite
    <3> HIDE DEF before, after
    <3>5. /\ Cardinality(after) <= Cardinality(before) + 1 /\ Cardinality(after) \in Nat
          /\ IsFiniteSet(after)
      BY <3>3, <3>4, OneMore
    <3>6. Cardinality(before) <= Cardinality(after) + 1
      BY <3>3, <3>5, OneMore
    <3>7. WithinChanges(t)'
      <4>1. /\ count[t] <= Cardinality(before) + changes[t]
            /\ Cardinality(before) <= count[t] + changes[t]
        BY <2>2 DEF CountInv, WithinChanges, before
      <4>2. /\ count[t] <= Cardinality(after) + (changes[t] + 1)
            /\ Cardinality(after) <= count[t] + (changes[t] + 1)
        BY <3>1, <3>4, <3>5, <3>6, <4>1
      <4>3. QED BY <1>1, <3>1, <3>2, <4>2 DEF WithinChanges
    <3>8. QED BY <1>1, <2>2, <3>7 DEF CountInv, Counting
  <2>3. QED BY <2>1, <2>2
<1>4. CASE Takes(u)
  BY <1>3, <1>4, IdxInSlots DEF Takes, RoundInv
<1>5. CASE GivesBack(u)
  <2>1. PICK v \in Threads : \E s \in held[v] : mask' = mask \union {s} /\ Changed(u, s)
    BY <1>5 DEF GivesBack
  <2>2. PICK s \in held[v] : mask' = mask \union {s} /\ Changed(u, s)
    BY <2>1
  <2>3. s \in Slots
    BY DEF TypeOK
  <2>4. QED BY <1>3, <2>2, <2>3
<1>6. QED BY <1>2, <1>4, <1>5, MaskStep

(* The thread itself counts what it reads. *)
LEMMA CountByItself ==
  ASSUME TypeOK, NEW t \in Threads, RoundInv(t), Step(t), CountInv(t)
  PROVE  CountInv(t)'
<1>1. CASE GetFreeCount(t)
  <2>1. /\ pc[t] = "idle" /\ pc'[t] = "count" /\ i'[t] = 0 /\ changes'[t] = 0 /\ mask' = mask
        /\ count' = count
    BY <1>1 DEF GetFreeCount, Call, GoTo, TypeOK
  <2>2. Below(i[t])' = {}
    BY <2>1, WordIsNumber DEF Below, TypeOK
  <2>3. count'[t] = 0
    BY <2>1 DEF CountInv, Counting
  <2>4. Cardinality(Below(i[t])') = 0
    BY <2>2, FS_EmptySet
  <2>5. 0 < MaskWords
    BY WordIsNumber, RingAssumption DEF MaskWords, Slots
  <2>6. QED BY <2>1, <2>3, <2>4, <2>5 DEF CountInv, Counting, WithinChanges
<1>2. CASE CountWord(t)
  <2>1. /\ pc[t] = "count" /\ i'[t] = i[t] + 1 /\ i[t] \in Nat /\ mask' = mask
        /\ changes' = changes /\ count'[t] = count[t] + FreeIn(i[t])
        /\ pc'[t] = IF i[t] + 1 < MaskWords THEN "count" ELSE "counted"
    BY <1>2 DEF CountWord, GoTo, TypeOK, callVars
  <2>2. i[t] < MaskWords
    BY <2>1 DEF CountInv
  <2>3. MaskWords \in Nat
    BY WordIsNumber, RingAssumption DEF MaskWords, Slots
  <2>4. /\ pc'[t] = "counted" => i'[t] = MaskWords
        /\ pc'[t] = "count" => i'[t] < MaskWords
    BY <2>1, <2>2, <2>3
  <2>5. WithinChanges(t)'
    <3> DEFINE before == Cardinality(Below(i[t]))
               found == FreeIn(i[t])
    <3>1. Below(i[t])' = Below(i[t] + 1)
      BY <2>1 DEF Below
    <3>2. Cardinality(Below(i[t] + 1)) = before + found
      BY <2>1, OneMoreWord
    <3>3. before \in Nat /\ found \in Nat /\ changes[t] \in Nat /\ count[t] \in Nat
      BY BelowFinite, CardinalityType DEF FreeIn, TypeOK
    <3>4. count[t] <= before + changes[t] /\ before <= count[t] + changes[t]
      BY <2>1 DEF CountInv, Counting, WithinChanges
    <3>5. count'[t] = count[t] + found /\ changes'[t] = changes[t]
      BY <2>1
    <3> HIDE DEF before, found
    <3>6. QED BY <3>1, <3>2, <3>3, <3>4, <3>5 DEF WithinChanges
  <2>6. Counting(t)'
    BY <2>1 DEF Counting
  <2>7. QED BY <2>4, <2>5, <2>6 DEF CountInv
<1>3. CASE Return(t)
  BY <1>3 DEF Return, GoTo, CountInv, Counting, TypeOK
<1>4. CASE Alloc(t) \/ LoadWord(t) \/ Cas(t) \/ Free(t)
  <2>1. /\ count' = count /\ pc[t] \in {"idle", "load", "cas"}
        /\ pc'[t] \in {"idle", "load", "cas", "store", "null"}
    BY <1>4 DEF Alloc, Call, LoadWord, PassOver, Cas, Take, Lose, Free, localVars, GoTo, TypeOK
  <2>2. QED BY <2>1 DEF CountInv, Counting
<1>5. QED BY <1>1, <1>2, <1>3, <1>4 DEF Step, StoreHead, ReturnNull, ReturnCount

(* getFreeCount is off by no more than the changes that other threads made *)
(* while it counted, for any number of threads, slots and words.           *)
THEOREM CountIsClose == Spec => []CountWithinChanges
<1> DEFINE Inv == HoldInv /\ \A t \in Threads : CountInv(t)
<1>1. Init => Inv
  BY HoldInit DEF Init, CountInv, Counting
<1>2. Inv /\ [Next]_vars => Inv'
  <2> SUFFICES ASSUME Inv, [Next]_vars PROVE Inv'
    OBVIOUS
  <2>1. HoldInv'
    BY HoldStep
  <2>2. ASSUME NEW t \in Threads PROVE CountInv(t)'
    <3>1. ASSUME NEW u \in Threads, Step(u) PROVE CountInv(t)'
      BY <2>1, <3>1, CountByOthers, CountByItself DEF HoldInv
    <3>2. CASE UNCHANGED vars
      BY <3>2 DEF vars, localVars, callVars, CountInv, Counting, WithinChanges, Below
    <3>3. QED BY <3>1, <3>2 DEF Next
  <2>3. QED BY <2>1, <2>2
<1>3. Inv => CountWithinChanges
  <2> SUFFICES ASSUME Inv, NEW t \in Threads, pc[t] = "counted"
               PROVE  count[t] \in Cardinality(mask) - changes[t] .. Cardinality(mask) + changes[t]
    BY DEF CountWithinChanges
  <2>1. TypeOK /\ WithinChanges(t) /\ i[t] = MaskWords
    BY DEF HoldInv, CountInv, Counting
  <2>2. Below(i[t]) = mask
    BY <2>1, AllWords
  <2>3. Cardinality(mask) \in Nat /\ changes[t] \in Nat /\ count[t] \in Nat
    BY <2>1, CardinalityType DEF TypeOK
  <2>4. QED BY <2>1, <2>2, <2>3 DEF WithinChanges
<1>4. QED BY <1>1, <1>2, <1>3, PTL DEF Spec
=============================================================================
