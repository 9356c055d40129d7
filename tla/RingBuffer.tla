----------------------------- MODULE RingBuffer -----------------------------
(***************************************************************************)
(* RingBuffer of the scheduler: slots of one size, a bit mask of the free  *)
(* ones in words of 64 bits, and a cursor at which the next search starts. *)
(* There is no lock: alloc takes a bit with a compare-and-swap of the      *)
(* whole word, free sets one with an atomic or, and a search that loses    *)
(* its word to another thread passes over the slot.                        *)
(*                                                                         *)
(* One step here is one access to the mask or to the cursor.               *)
(***************************************************************************)
EXTENDS Integers, FiniteSets, FiniteSetsExt

CONSTANTS
  Threads,
  NumSlots,  \* m_numSlots
  WordBits,  \* bits of a word of m_pFreeMask, 64 in the code
  MaxCalls   \* bound: calls of alloc and getFreeCount

ASSUME RingAssumption ==
  NumSlots \in Nat \ {0} /\ WordBits \in Nat \ {0} /\ MaxCalls \in Nat

VARIABLES
  mask,    \* m_pFreeMask, as the set of free slots
  head,    \* m_head
  pc,      \* where each thread is in its call
  start,   \* the local variables of alloc and getFreeCount: where the search
  i,       \*   starts, its loop counter,
  read,    \*   the word it has read, and its number,
  count,   \*   and the slots counted
  calls,   \* the calls of alloc and getFreeCount so far
  held,    \* the slots each thread has been given
  free,    \* of each thread's call: the slots free at its start,
  touched, \*   the slots other threads have taken or given back since,
  changes  \*   and how often they did

localVars == <<pc, start, i, read, count>>
callVars == <<free, touched, changes>>
vars == <<mask, head, localVars, calls, held, callVars>>

Slots == 0 .. NumSlots - 1

WordOf(slot) == slot \div WordBits

MaskWords == WordOf(NumSlots - 1) + 1  \* m_maskWords

SlotsOf(w) == {s \in Slots : WordOf(s) = w}

(* What a thread has that has not read a word. *)
NoWord == [w |-> -1, slots |-> {}]

Init ==
  /\ mask = Slots
  /\ head = 0
  /\ pc = [t \in Threads |-> "idle"]
  /\ start = [t \in Threads |-> 0]
  /\ i = [t \in Threads |-> 0]
  /\ read = [t \in Threads |-> NoWord]
  /\ count = [t \in Threads |-> 0]
  /\ calls = 0
  /\ held = [t \in Threads |-> {}]
  /\ free = [t \in Threads |-> {}]
  /\ touched = [t \in Threads |-> {}]
  /\ changes = [t \in Threads |-> 0]

(* The slot a search looks at: start + i, round the end. *)
Wrapped(n) == IF n < NumSlots THEN n ELSE n - NumSlots

Idx(t) == Wrapped(start[t] + i[t])

GoTo(t, where) == pc' = [pc EXCEPT ![t] = where]

(* A thread changes the mask, which others in a call may notice. *)
Notices(u, t) == u # t /\ pc[u] # "idle"

Changed(t, slot) ==
  /\ touched' = [u \in Threads |->
                   IF Notices(u, t) THEN touched[u] \union {slot} ELSE touched[u]]
  /\ changes' = [u \in Threads |-> IF Notices(u, t) THEN changes[u] + 1 ELSE changes[u]]
  /\ UNCHANGED free

Call(t, where) ==
  /\ pc[t] = "idle" /\ calls < MaxCalls
  /\ GoTo(t, where)
  /\ i' = [i EXCEPT ![t] = 0]
  /\ calls' = calls + 1
  /\ free' = [free EXCEPT ![t] = mask]
  /\ touched' = [touched EXCEPT ![t] = {}]
  /\ changes' = [changes EXCEPT ![t] = 0]

(* What a thread leaves behind is of no use to its next call. *)
Return(t) ==
  /\ GoTo(t, "idle")
  /\ start' = [start EXCEPT ![t] = 0]
  /\ i' = [i EXCEPT ![t] = 0]
  /\ read' = [read EXCEPT ![t] = NoWord]
  /\ count' = [count EXCEPT ![t] = 0]
  /\ free' = [free EXCEPT ![t] = {}]
  /\ touched' = [touched EXCEPT ![t] = {}]
  /\ changes' = [changes EXCEPT ![t] = 0]

-----------------------------------------------------------------------------
(* alloc                                                                   *)

Alloc(t) ==
  /\ Call(t, "load")
  /\ start' = [start EXCEPT ![t] = head]
  /\ UNCHANGED <<mask, head, read, count, held>>

(* The next slot, or nullptr after a whole round. *)
PassOver(t) ==
  /\ GoTo(t, IF i[t] + 1 < NumSlots THEN "load" ELSE "null")
  /\ i' = [i EXCEPT ![t] = @ + 1]

WordFound(t) ==
  [w |-> WordOf(Idx(t)), slots |-> mask \intersect SlotsOf(WordOf(Idx(t)))]

(* m_pFreeMask[wordIdx] is read as a plain variable: a compiler may use    *)
(* what it read for the slot before, up to the next atomic access.         *)
LoadWord(t) ==
  /\ pc[t] = "load"
  /\ \/ read' = [read EXCEPT ![t] = WordFound(t)]
     \/ read[t].w = WordOf(Idx(t)) /\ UNCHANGED read
  /\ IF Idx(t) \in read'[t].slots THEN GoTo(t, "cas") /\ UNCHANGED i ELSE PassOver(t)
  /\ UNCHANGED <<mask, head, start, count, calls, held, callVars>>

Take(t) ==
  /\ held' = [held EXCEPT ![t] = @ \union {Idx(t)}]
  /\ Changed(t, Idx(t))
  /\ GoTo(t, "store")
  /\ UNCHANGED <<i, read>>

Lose(t) ==
  /\ PassOver(t)
  /\ read' = [read EXCEPT ![t] = NoWord]
  /\ UNCHANGED <<mask, held, callVars>>

(* Compares the bit it wants and stores the whole word it has read. *)
WrongCas(t) ==
  /\ pc[t] = "cas"
  /\ \/ /\ Idx(t) \in mask
        /\ mask' = (mask \ SlotsOf(read[t].w)) \union (read[t].slots \ {Idx(t)})
        /\ Take(t)
     \/ Idx(t) \notin mask /\ Lose(t)
  /\ UNCHANGED <<head, start, count, calls>>

WordUnchanged(t) == mask \intersect SlotsOf(read[t].w) = read[t].slots

(* Gives up at the first word lost to another thread. *)
WrongCasGivesUp(t) ==
  /\ pc[t] = "cas"
  /\ \/ WordUnchanged(t) /\ mask' = mask \ {Idx(t)} /\ Take(t)
     \/ ~WordUnchanged(t) /\ GoTo(t, "null") /\ UNCHANGED <<mask, i, read, held, callVars>>
  /\ UNCHANGED <<head, start, count, calls>>

(* __atomic_compare_exchange_n of the word without the slot's bit. *)
Cas(t) ==
  /\ pc[t] = "cas"
  /\ \/ WordUnchanged(t) /\ mask' = mask \ {Idx(t)} /\ Take(t)
     \/ ~WordUnchanged(t) /\ Lose(t)
  /\ UNCHANGED <<head, start, count, calls>>

(* The cursor is stored after the slot is taken, so an older store may     *)
(* come after a newer one.                                                 *)
StoreHead(t) ==
  /\ pc[t] = "store"
  /\ head' = Wrapped(Idx(t) + 1)
  /\ Return(t)
  /\ UNCHANGED <<mask, calls, held>>

ReturnNull(t) ==
  /\ pc[t] = "null"
  /\ Return(t)
  /\ UNCHANGED <<mask, head, calls, held>>

-----------------------------------------------------------------------------
(* free and getFreeCount                                                   *)

(* A slot may be given back by another thread than the one that got it,    *)
(* once that has its pointer.                                              *)
Free(t) ==
  /\ pc[t] = "idle"
  /\ \E u \in Threads : \E s \in held[u] :
       /\ pc[u] = "store" => s # Idx(u)
       /\ mask' = mask \union {s}
       /\ held' = [held EXCEPT ![u] = @ \ {s}]
       /\ Changed(t, s)
  /\ UNCHANGED <<head, localVars, calls>>

GetFreeCount(t) ==
  /\ Call(t, "count")
  /\ UNCHANGED <<mask, head, start, read, count, held>>

(* Takes every word for the first one. *)
WrongFreeIn(w) == Cardinality(mask \intersect SlotsOf(0))

FreeIn(w) == Cardinality(mask \intersect SlotsOf(w))

(* The words are read one after the other. *)
CountWord(t) ==
  /\ pc[t] = "count"
  /\ count' = [count EXCEPT ![t] = @ + FreeIn(i[t])]
  /\ i' = [i EXCEPT ![t] = @ + 1]
  /\ GoTo(t, IF i[t] + 1 < MaskWords THEN "count" ELSE "counted")
  /\ UNCHANGED <<mask, head, start, read, calls, held, callVars>>

ReturnCount(t) ==
  /\ pc[t] = "counted"
  /\ Return(t)
  /\ UNCHANGED <<mask, head, calls, held>>

-----------------------------------------------------------------------------
Step(t) ==
  \/ Alloc(t) \/ LoadWord(t) \/ Cas(t) \/ StoreHead(t) \/ ReturnNull(t)
  \/ Free(t)
  \/ GetFreeCount(t) \/ CountWord(t) \/ ReturnCount(t)

Next == \E t \in Threads : Step(t)

Spec == Init /\ [][Next]_vars

-----------------------------------------------------------------------------
(* Properties.                                                             *)

Pcs == {"idle", "load", "cas", "store", "null", "count", "counted"}

(* The state has its type. *)
TypeOK ==
  /\ mask \subseteq Slots
  /\ head \in Slots
  /\ pc \in [Threads -> Pcs]
  /\ start \in [Threads -> Slots]
  /\ i \in [Threads -> Nat]
  /\ read \in [Threads -> [w : Int, slots : SUBSET Slots]]
  /\ count \in [Threads -> Nat]
  /\ calls \in Nat
  /\ held \in [Threads -> SUBSET Slots]
  /\ free \in [Threads -> SUBSET Slots]
  /\ touched \in [Threads -> SUBSET Slots]
  /\ changes \in [Threads -> Nat]

(* Every slot is free or with one thread, whatever the order in which      *)
(* threads take, lose and give back bits of a word: no slot is given out   *)
(* twice, and none is lost because a stale word was stored.                *)
SlotsExact ==
  /\ \A s \in Slots : s \in mask <=> \A t \in Threads : s \notin held[t]
  /\ \A t, u \in Threads : t # u => held[t] \intersect held[u] = {}

(* alloc gives up while slots are free only if other threads are the       *)
(* reason: with f slots free when it was called, they must have taken or   *)
(* given back at least f / 2 since.  (One change may take a slot the       *)
(* search has not reached and make it lose the word it has.)               *)
GivesUpUnderContention ==
  \A t \in Threads :
    pc[t] = "null" => 2 * changes[t] >= Cardinality(free[t])

(* getFreeCount need not be a number of free slots there ever was, but it  *)
(* is off by no more than what changed while it counted.                   *)
CountWithinChanges ==
  \A t \in Threads :
    pc[t] = "counted" =>
      LET now == Cardinality(mask)
      IN  count[t] \in now - changes[t] .. now + changes[t]
=============================================================================
