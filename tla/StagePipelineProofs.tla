------------------------ MODULE StagePipelineProofs ------------------------
(***************************************************************************)
(* What the stages do with the input pictures, for every GOP and           *)
(* configuration.  The reference counts of their buffers are exact, and no *)
(* buffer is given to a new picture while one of a stage still reads it;   *)
(* the invariant is PipeInv.  The filter of the second stage finds all     *)
(* pictures around the one it works on; for that, FrontInv says what the   *)
(* first two stages hold.                                                  *)
(***************************************************************************)
EXTENDS StagePipeline, ListProofs, FiniteSetTheorems

-----------------------------------------------------------------------------
(* The buffers and the pictures that share them.                           *)

Stage == 1 .. LastStage

(* What GOP entries say. *)
Flags == BOOLEAN \union UNION {{Entries[idr][poc].isStartOfIntra, Entries[idr][poc].isStartOfGop} :
                                 idr \in BOOLEAN, poc \in Int}

Buffer(n) ==
  [ref : Int, poc : Int, prev : [Slots -> 0 .. n],
   isValid : BOOLEAN, isStartOfIntra : Flags, isStartOfGop : Flags]

Picture(n) ==
  [id : 1 .. n, poc : Int, prev : [Slots -> 0 .. n],
   isFlush : BOOLEAN, isInitDone : BOOLEAN, isReconstructed : BOOLEAN,
   isFinished : BOOLEAN, isReferenced : BOOLEAN, isNeeded : BOOLEAN,
   refs : SUBSET Int, refCounter : Int]

Typed(sh, l) ==
  /\ sh \in Seq(Buffer(Len(sh)))
  /\ l \in [Stage -> Seq(Picture(Len(sh)))]

(* A stage has a picture once. *)
Once(l) ==
  \A s \in Stage : \A i, j \in DOMAIN l[s] : l[s][i].id = l[s][j].id => i = j

(* Buffers that have been used have different POCs. *)
PocsDiffer(sh) == \A k, m \in DOMAIN sh : sh[k].poc = sh[m].poc => k = m

(* A link x goes x pictures back, the first one perhaps to the picture. *)
IsBack(sh, k, poc, x) ==
  k # Null => sh[k].poc \in {poc - x} \union (IF x = 1 THEN {poc} ELSE {})

(* A picture has its buffer, and the links that it still holds are those   *)
(* of its buffer.                                                          *)
Fits(sh, pic) ==
  /\ sh[pic.id].poc = pic.poc
  /\ \A x \in Slots : /\ pic.prev[x] # Null => sh[pic.id].prev[x] = pic.prev[x]
                      /\ IsBack(sh, pic.prev[x], pic.poc, x)

AllFit(sh, l) == \A s \in Stage : \A i \in DOMAIN l[s] : Fits(sh, l[s][i])

(* The uses of a buffer: by which stage, for which picture's buffer, and   *)
(* as that buffer itself (0) or as one of its links.                       *)
Use(pic, x) == IF x = 0 THEN pic.id ELSE pic.prev[x]

Uses(l, k, s, id, x) == \E i \in DOMAIN l[s] : l[s][i].id = id /\ Use(l[s][i], x) = k

UseSpace(n) == Stage \X ((1 .. n) \X (0 .. NumPrev))

UsesOf(l, n, k) == {u \in UseSpace(n) : Uses(l, k, u[1], u[2][1], u[2][2])}

Exact(sh, l) == \A k \in DOMAIN sh : sh[k].ref = Cardinality(UsesOf(l, Len(sh), k))

Sharing(sh, l) ==
  /\ Typed(sh, l)
  /\ Once(l)
  /\ PocsDiffer(sh)
  /\ AllFit(sh, l)
  /\ Exact(sh, l)

-----------------------------------------------------------------------------
(* The stages.                                                             *)

(* A picture that its stage has not passed on; last is PreProcess's        *)
(* m_lastPoc, next MCTF's m_filterPoc.                                     *)
Unsent(s, pic, last, next, g) ==
  \/ Stages[s] = "pre" /\ pic.poc > last
  \/ Stages[s] = "mctf" /\ pic.poc >= next
  \/ IsGop(s) /\ (~pic.isInitDone \/ pic.poc \in ToSet(g[s].out))

UnsentIds(l, last, next, g) ==
  [s \in Stage |-> {l[s][i].id : i \in {j \in DOMAIN l[s] : Unsent(s, l[s][j], last, next, g)}}]

(* No later stage has one of the pictures U, and they hold all their links. *)
UnsentFit(sh, l, U) ==
  \A s \in Stage : \A i \in DOMAIN l[s] : l[s][i].id \in U[s] =>
    /\ \A t \in Stage : s < t => \A j \in DOMAIN l[t] : l[t][j].id # l[s][i].id
    /\ l[s][i].prev = sh[l[s][i].id].prev

NoneLinked(pics) == \A i \in DOMAIN pics : pics[i].prev = NoLinks

(* The buffers' POCs came in before. *)
PocsPast == \A k \in DOMAIN shared : shared[k].poc < PicsRcvd

GopFields == {"lastCodingNum", "input", "todo", "chunk", "out", "busy", "picCount", "coded",
              "recOut"}

Uninitialized(pics) == {pics[i].id : i \in {j \in DOMAIN pics : ~pics[j].isInitDone}}

(* The pictures to write are there, started and not written; all that came *)
(* to an EncGOP are started, written or still to do so.                    *)
Accounted(pics, out, coded, count) ==
  /\ \A a \in DOMAIN out : \E i \in DOMAIN pics :
       pics[i].poc = out[a] /\ pics[i].isInitDone /\ ~pics[i].isFinished
  /\ \A i \in DOMAIN pics : pics[i].isFinished => pics[i].isInitDone
  /\ count = coded + Len(out) + Cardinality(Uninitialized(pics))

IsEncGop(e) ==
  /\ e = [f \in GopFields |-> e[f]]
  /\ e.out \in Seq(Int) /\ e.picCount \in Int /\ e.coded \in Int
  /\ \A a, b \in DOMAIN e.out : e.out[a] = e.out[b] => a = b

AllAccounted(g, l) ==
  /\ g = [s \in GopStages |-> g[s]]
  /\ \A s \in GopStages : IsEncGop(g[s]) /\ Accounted(l[s], g[s].out, g[s].coded, g[s].picCount)

(* The stages and the buffers they share. *)
Pipeline(sh, l, last, next, g) ==
  /\ Sharing(sh, l)
  /\ UnsentFit(sh, l, UnsentIds(l, last, next, g))
  /\ NoneLinked(l[1])
  /\ AllAccounted(g, l)

Places == {"app", "top", "run", "pre", "mctf", "la", "gop", "lists", "code", "block", "output",
           "collect", "wait", "return"}

(* Where encodePicture is, m. *)
Driving(m, l) ==
  /\ m \in [at : Places, stage : Int, flush : BOOLEAN, pending : BOOLEAN, au : Int,
            empty : BOOLEAN]
  /\ m.at = "run" => m.stage \in Stage
  /\ m.at \in {"pre", "mctf"} => m.stage \in Stage /\ Stages[m.stage] = m.at
  /\ m.at = "pre" => l[m.stage] # <<>>
  /\ m.at \in {"la", "gop", "lists", "code", "block", "output"} => m.stage \in GopStages

PipeInv ==
  /\ conf \in Configs
  /\ Pipeline(shared, list, pre.lastPoc, mctf.filterPoc, gop)
  /\ PocsPast
  /\ Driving(main, list)
  /\ pre.lastPoc \in Int /\ mctf.filterPoc \in Int /\ app.passed \in Nat

-----------------------------------------------------------------------------
(* Counting.                                                               *)

LEMMA StagesAre ==
  /\ LastStage \in 2 .. 4
  /\ Stages[1] = "pre" /\ \A s \in Stage : Stages[s] = "pre" => s = 1
  /\ \A s \in Stage : Stages[s] \in {"pre", "mctf", "la", "gop"}
  /\ \A s \in Stage : IsGop(s) <=> Stages[s] \in {"la", "gop"}
  /\ GopStages \subseteq Stage \ {1} /\ LastStage \in GopStages
<1>1. CASE conf.useMctf /\ conf.lookAhead
  <2>1. Stages = <<"pre", "mctf", "la", "gop">>
    BY <1>1 DEF Stages
  <2>2. LastStage = 4
    BY <2>1 DEF LastStage
  <2>3. Stage = {1, 2, 3, 4} /\ GopStages = {3, 4}
    BY <1>1, <2>2 DEF Stage, GopStages
  <2>4. Stages[1] = "pre" /\ Stages[2] = "mctf" /\ Stages[3] = "la" /\ Stages[4] = "gop"
    BY <2>1
  <2>5. QED BY <2>2, <2>3, <2>4 DEF IsGop, LastStage, Stage
<1>2. CASE conf.useMctf /\ ~conf.lookAhead
  <2>1. Stages = <<"pre", "mctf", "gop">>
    BY <1>2 DEF Stages
  <2>2. LastStage = 3
    BY <2>1 DEF LastStage
  <2>3. Stage = {1, 2, 3} /\ GopStages = {3}
    BY <1>2, <2>2 DEF Stage, GopStages
  <2>4. Stages[1] = "pre" /\ Stages[2] = "mctf" /\ Stages[3] = "gop"
    BY <2>1
  <2>5. QED BY <2>2, <2>3, <2>4 DEF IsGop, LastStage, Stage
<1>3. CASE ~conf.useMctf /\ conf.lookAhead
  <2>1. Stages = <<"pre", "la", "gop">>
    BY <1>3 DEF Stages
  <2>2. LastStage = 3
    BY <2>1 DEF LastStage
  <2>3. Stage = {1, 2, 3} /\ GopStages = {2, 3}
    BY <1>3, <2>2 DEF Stage, GopStages
  <2>4. Stages[1] = "pre" /\ Stages[2] = "la" /\ Stages[3] = "gop"
    BY <2>1
  <2>5. QED BY <2>2, <2>3, <2>4 DEF IsGop, LastStage, Stage
<1>4. CASE ~conf.useMctf /\ ~conf.lookAhead
  <2>1. Stages = <<"pre", "gop">>
    BY <1>4 DEF Stages
  <2>2. LastStage = 2
    BY <2>1 DEF LastStage
  <2>3. Stage = {1, 2} /\ GopStages = {2}
    BY <1>4, <2>2 DEF Stage, GopStages
  <2>4. Stages[1] = "pre" /\ Stages[2] = "gop"
    BY <2>1
  <2>5. QED BY <2>2, <2>3, <2>4 DEF IsGop, LastStage, Stage
<1>5. QED BY <1>1, <1>2, <1>3, <1>4

LEMMA SameSize ==
  ASSUME NEW S, NEW T, IsFiniteSet(T), NEW f \in [S -> T],
         \A x, y \in S : f[x] = f[y] => x = y, \A z \in T : \E x \in S : f[x] = z
  PROVE  IsFiniteSet(S) /\ Cardinality(S) = Cardinality(T)
<1>1. f \in Injection(S, T)
  BY DEF Injection, IsInjective
<1>2. f \in Surjection(S, T)
  BY DEF Surjection
<1>3. QED BY <1>1, <1>2, FS_Injection

LEMMA DisjointUnion ==
  ASSUME NEW S, NEW T, IsFiniteSet(S), IsFiniteSet(T), \A x \in S : x \notin T
  PROVE  /\ IsFiniteSet(S \union T)
         /\ Cardinality(S \union T) = Cardinality(S) + Cardinality(T)
         /\ Cardinality(S) \in Nat /\ Cardinality(T) \in Nat
<1>1. S \cap T = {}
  OBVIOUS
<1>2. QED BY <1>1, FS_Union, FS_EmptySet, FS_CardinalityType, SMTT(30)

LEMMA UseSpaceFinite ==
  ASSUME NEW n \in Nat
  PROVE  IsFiniteSet(UseSpace(n))
<1>1. IsFiniteSet(1 .. n) /\ IsFiniteSet(0 .. NumPrev) /\ IsFiniteSet(Stage)
  <2>1. LastStage \in Int /\ NumPrev \in Int
    BY StagesAre DEF NumPrev
  <2>2. QED BY <2>1, FS_Interval DEF Stage
<1>2. IsFiniteSet((1 .. n) \X (0 .. NumPrev))
  BY <1>1, FS_Product
<1>3. QED BY <1>1, <1>2, FS_Product DEF UseSpace

LEMMA UsesFinite ==
  ASSUME NEW n \in Nat, NEW l, NEW k
  PROVE  IsFiniteSet(UsesOf(l, n, k)) /\ Cardinality(UsesOf(l, n, k)) \in Nat
<1>1. UsesOf(l, n, k) \in SUBSET UseSpace(n)
  BY DEF UsesOf
<1>2. QED BY <1>1, UseSpaceFinite, FS_Subset, FS_CardinalityType

(* The pictures of a list at some places use, of themselves or by links,   *)
(* as many buffers k as there are pairs of a picture and a link to k.      *)
LEMMA IsUse ==
  ASSUME NEW n \in Nat, NEW l, NEW k, NEW s \in Stage, NEW id \in 1 .. n, NEW x \in 0 .. NumPrev
  PROVE  /\ <<s, <<id, x>>>> \in UseSpace(n)
         /\ <<s, <<id, x>>>> \in UsesOf(l, n, k) <=> Uses(l, k, s, id, x)
BY DEF UsesOf, UseSpace

(* When uses are added to those of a list of pictures.                     *)
Adds(l, m, n, k, T) ==
  /\ T \subseteq UseSpace(n)
  /\ \A s \in Stage, id \in 1 .. n, x \in 0 .. NumPrev :
       /\ Uses(m, k, s, id, x) <=> Uses(l, k, s, id, x) \/ <<s, <<id, x>>>> \in T
       /\ ~(Uses(l, k, s, id, x) /\ <<s, <<id, x>>>> \in T)

LEMMA UsesAdded ==
  ASSUME NEW n \in Nat, NEW l, NEW m, NEW k, NEW T, Adds(l, m, n, k, T)
  PROVE  /\ Cardinality(UsesOf(m, n, k)) = Cardinality(UsesOf(l, n, k)) + Cardinality(T)
         /\ Cardinality(T) \in Nat /\ IsFiniteSet(T)
<1>1. \A u \in UseSpace(n) : /\ u[1] \in Stage /\ u[2][1] \in 1 .. n /\ u[2][2] \in 0 .. NumPrev
                             /\ u = <<u[1], <<u[2][1], u[2][2]>>>>
  BY DEF UseSpace
<1>2. \A u \in UseSpace(n) :
        /\ Uses(m, k, u[1], u[2][1], u[2][2]) <=> Uses(l, k, u[1], u[2][1], u[2][2]) \/ u \in T
        /\ ~(Uses(l, k, u[1], u[2][1], u[2][2]) /\ u \in T)
  BY <1>1 DEF Adds
<1>3. UsesOf(m, n, k) = UsesOf(l, n, k) \union T
  BY <1>2 DEF UsesOf, Adds
<1>4. \A u \in UsesOf(l, n, k) : u \notin T
  BY <1>2 DEF UsesOf
<1>5. IsFiniteSet(T) /\ IsFiniteSet(UsesOf(l, n, k))
  BY UseSpaceFinite, UsesFinite, FS_Subset DEF Adds
<1>6. QED BY <1>3, <1>4, <1>5, DisjointUnion

-----------------------------------------------------------------------------
(* A picture is added to a list.                                           *)

(* What the flush flag does not change. *)
Kin(p, q) ==
  /\ q.id = p.id /\ q.poc = p.poc /\ q.prev = p.prev
  /\ (q.isInitDone <=> p.isInitDone) /\ (q.isFinished <=> p.isFinished)

InsertedAt(r, pics, pic, at) ==
  /\ Len(r) = Len(pics) + 1 /\ r[at] = pic
  /\ \A i \in 1 .. at - 1 : r[i] = pics[i]
  /\ \A i \in at .. Len(pics) : Kin(pics[i], r[i + 1])

LEMMA InsertIs ==
  ASSUME NEW s, NEW n \in Nat, NEW pics \in Seq(Picture(n)), NEW pic \in Picture(n)
  PROVE  /\ Insert(s, pics, pic).pics \in Seq(Picture(n))
         /\ \E at \in 1 .. Len(pics) + 1 : InsertedAt(Insert(s, pics, pic).pics, pics, pic, at)
<1> DEFINE later == {i \in DOMAIN pics : SortKey(s, pic.poc) < SortKey(s, pics[i].poc)}
           at == IF later = {} THEN Len(pics) + 1 ELSE CHOOSE i \in later : \A j \in later : i <= j
           mark == NonBlocking(s) /\ pic.isFlush
           tail == [i \in 1 .. Len(pics) - at + 1 |->
                      [pics[at + i - 1] EXCEPT !.isFlush = @ \/ mark]]
           head == SubSeq(pics, 1, at - 1)
           r == Append(head, pic) \o tail
<1>1. Insert(s, pics, pic).pics = r
  BY DEF Insert
<1>2. Len(pics) \in Nat /\ DOMAIN pics = 1 .. Len(pics)
  OBVIOUS
<1>3. at \in 1 .. Len(pics) + 1
  <2>1. CASE later = {}
    BY <1>2, <2>1
  <2>2. CASE later # {}
    <3>1. later \subseteq Nat /\ later \subseteq 1 .. Len(pics)
      BY <1>2
    <3>2. \E i \in later : \A j \in later : i <= j
      <4> HIDE DEF later
      <4>1. QED BY <2>2, <3>1, LeastNumber
    <3>3. at \in later
      <4> HIDE DEF later
      <4>1. QED BY <2>2, <3>2
    <3>4. QED BY <1>2, <3>1, <3>3
  <2>3. QED BY <2>1, <2>2
<1> HIDE DEF at
<1>4. mark \in BOOLEAN
  OBVIOUS
<1> HIDE DEF mark
<1>5. head \in Seq(Picture(n)) /\ Len(head) = at - 1 /\ \A i \in 1 .. at - 1 : head[i] = pics[i]
  BY <1>2, <1>3
<1>6. /\ tail \in Seq(Picture(n)) /\ Len(tail) = Len(pics) - at + 1
      /\ \A i \in 1 .. Len(pics) - at + 1 : Kin(pics[at + i - 1], tail[i])
  <2>1. \A i \in 1 .. Len(pics) - at + 1 : at + i - 1 \in 1 .. Len(pics)
    BY <1>2, <1>3
  <2>2. \A i \in 1 .. Len(pics) - at + 1 : pics[at + i - 1] \in Picture(n)
    BY <1>2, <2>1
  <2>3. \A p \in Picture(n) : /\ [p EXCEPT !.isFlush = @ \/ mark] \in Picture(n)
                              /\ Kin(p, [p EXCEPT !.isFlush = @ \/ mark])
    BY <1>4 DEF Picture, Kin
  <2>4. \A i \in 1 .. Len(pics) - at + 1 : tail[i] \in Picture(n) /\ Kin(pics[at + i - 1], tail[i])
    BY <2>2, <2>3
  <2>5. Len(pics) - at + 1 \in Nat
    BY <1>2, <1>3
  <2>6. tail \in [1 .. Len(pics) - at + 1 -> Picture(n)]
    BY <2>4
  <2>7. tail \in Seq(Picture(n)) /\ Len(tail) = Len(pics) - at + 1
    <3> HIDE DEF tail
    <3>1. QED BY <2>5, <2>6
  <2>8. QED BY <2>4, <2>7
<1> HIDE DEF head, tail
<1>7. /\ r \in Seq(Picture(n)) /\ Len(r) = Len(pics) + 1 /\ r[at] = pic
      /\ \A i \in 1 .. at - 1 : r[i] = head[i]
      /\ \A i \in 1 .. Len(pics) - at + 1 : r[at + i] = tail[i]
  <2> DEFINE h == Append(head, pic)
  <2>1. /\ h \in Seq(Picture(n)) /\ Len(h) = at /\ h[at] = pic
        /\ \A i \in 1 .. at - 1 : h[i] = head[i]
    BY <1>3, <1>5
  <2> HIDE DEF h
  <2>2. /\ h \o tail \in Seq(Picture(n)) /\ Len(h \o tail) = Len(h) + Len(tail)
        /\ \A i \in 1 .. Len(h) : (h \o tail)[i] = h[i]
        /\ \A i \in 1 .. Len(tail) : (h \o tail)[Len(h) + i] = tail[i]
    BY <1>6, <2>1, SMTT(30)
  <2>3. QED BY <1>2, <1>3, <1>6, <2>1, <2>2 DEF h
<1> HIDE DEF r
<1>8. InsertedAt(r, pics, pic, at)
  <2>1. ASSUME NEW i \in at .. Len(pics) PROVE Kin(pics[i], r[i + 1])
    <3>1. i - at + 1 \in 1 .. Len(pics) - at + 1 /\ at + (i - at + 1) - 1 = i /\ at + (i - at + 1) = i + 1
      BY <1>2, <1>3
    <3>2. QED BY <1>6, <1>7, <3>1
  <2>2. QED BY <1>5, <1>7, <2>1 DEF InsertedAt
<1>9. QED BY <1>1, <1>3, <1>7, <1>8

LEMMA ShiftIsInjective ==
  ASSUME NEW at \in Int, NEW i \in Int, NEW j \in Int, NEW a \in Int, NEW b \in Int,
         i # at, j # at, i < at => a = i, ~(i < at) => a = i - 1,
         j < at => b = j, ~(j < at) => b = j - 1, a = b
  PROVE  i = j
OBVIOUS

(* The pictures of the list that a picture is added to. *)
LEMMA InsertedMembers ==
  ASSUME NEW n \in Nat, NEW pics \in Seq(Picture(n)), NEW pic \in Picture(n),
         NEW r \in Seq(Picture(n)), NEW at \in 1 .. Len(pics) + 1, InsertedAt(r, pics, pic, at)
  PROVE  /\ \A i \in DOMAIN r : r[i] = pic \/ \E j \in DOMAIN pics : Kin(pics[j], r[i])
         /\ \A j \in DOMAIN pics : \E i \in DOMAIN r : Kin(pics[j], r[i])
         /\ \E i \in DOMAIN r : r[i] = pic
         /\ (\A i \in DOMAIN pics : pics[i].id # pic.id)
              /\ (\A i, j \in DOMAIN pics : pics[i].id = pics[j].id => i = j)
            => \A i, j \in DOMAIN r : r[i].id = r[j].id => i = j
<1> DEFINE len == Len(pics)
<1>1. /\ len \in Nat /\ DOMAIN pics = 1 .. len /\ DOMAIN r = 1 .. len + 1 /\ r[at] = pic
      /\ \A i \in 1 .. at - 1 : r[i] = pics[i]
      /\ \A i \in at .. len : Kin(pics[i], r[i + 1])
  BY DEF InsertedAt
<1> HIDE DEF len
<1>2. \A i \in 1 .. at - 1 : i \in 1 .. len /\ Kin(pics[i], r[i])
  BY <1>1 DEF Kin
<1>3. ASSUME NEW i \in 1 .. len + 1
      PROVE  i = at \/ i \in 1 .. at - 1 \/ (i - 1 \in at .. len /\ i - 1 \in 1 .. len /\ (i - 1) + 1 = i)
  BY <1>1
<1>4. \A i \in 1 .. len + 1 : i # at =>
        \E j \in 1 .. len : Kin(pics[j], r[i]) /\ (i < at => j = i) /\ (~(i < at) => j = i - 1)
  <2> SUFFICES ASSUME NEW i \in 1 .. len + 1, i # at
               PROVE  \E j \in 1 .. len : Kin(pics[j], r[i]) /\ (i < at => j = i) /\ (~(i < at) => j = i - 1)
    OBVIOUS
  <2>1. CASE i \in 1 .. at - 1
    <3>1. i < at
      BY <2>1
    <3>2. QED BY <1>2, <2>1, <3>1
  <2>2. CASE i \notin 1 .. at - 1
    <3>1. i - 1 \in at .. len /\ i - 1 \in 1 .. len /\ (i - 1) + 1 = i
      BY <1>3, <2>2
    <3>2. Kin(pics[i - 1], r[i]) /\ ~(i < at)
      BY <1>1, <3>1
    <3>3. QED BY <3>1, <3>2
  <2>3. QED BY <2>1, <2>2
<1>5. \A j \in 1 .. len : \E i \in 1 .. len + 1 : Kin(pics[j], r[i])
  <2> SUFFICES ASSUME NEW j \in 1 .. len PROVE \E i \in 1 .. len + 1 : Kin(pics[j], r[i])
    OBVIOUS
  <2>1. j \in 1 .. at - 1 \/ j \in at .. len
    BY <1>1
  <2>2. j \in 1 .. len + 1 /\ j + 1 \in 1 .. len + 1
    BY <1>1
  <2>3. QED BY <1>1, <1>2, <2>1, <2>2
<1>6. ASSUME \A x \in 1 .. len : pics[x].id # pic.id,
             \A x, y \in 1 .. len : pics[x].id = pics[y].id => x = y,
             NEW i \in 1 .. len + 1, NEW j \in 1 .. len + 1, r[i].id = r[j].id
      PROVE  i = j
  <2>1. CASE i = at \/ j = at
    <3>1. \A k \in 1 .. len + 1 : k # at => r[k].id # pic.id
      BY <1>4, <1>6 DEF Kin
    <3>2. r[at].id = pic.id
      BY <1>1
    <3>3. QED BY <1>6, <2>1, <3>1, <3>2
  <2>2. CASE i # at /\ j # at
    <3>1. PICK a \in 1 .. len : Kin(pics[a], r[i]) /\ (i < at => a = i) /\ (~(i < at) => a = i - 1)
      BY <1>4, <2>2
    <3>2. PICK b \in 1 .. len : Kin(pics[b], r[j]) /\ (j < at => b = j) /\ (~(j < at) => b = j - 1)
      BY <1>4, <2>2
    <3>3. a = b
      BY <1>6, <3>1, <3>2 DEF Kin
    <3>4. at \in Int /\ i \in Int /\ j \in Int /\ a \in Int /\ b \in Int
      BY <1>1
    <3>5. QED BY <2>2, <3>1, <3>2, <3>3, <3>4, ShiftIsInjective
  <2>3. QED BY <2>1, <2>2
<1>7. (\A i \in 1 .. len : pics[i].id # pic.id)
        /\ (\A i, j \in 1 .. len : pics[i].id = pics[j].id => i = j)
      => \A i, j \in 1 .. len + 1 : r[i].id = r[j].id => i = j
  BY <1>6
<1>8. \A i \in 1 .. len + 1 : r[i] = pic \/ \E j \in 1 .. len : Kin(pics[j], r[i])
  BY <1>1, <1>4
<1>9. \E i \in 1 .. len + 1 : r[i] = pic
  BY <1>1
<1>10. DOMAIN pics = 1 .. len /\ DOMAIN r = 1 .. len + 1
  BY <1>1
<1>11. QED BY <1>5, <1>7, <1>8, <1>9, <1>10, Zenon

-----------------------------------------------------------------------------
(* Pictures change in what does not concern the sharing of buffers.        *)

Alike(l, m) ==
  \A s \in Stage : /\ Len(m[s]) = Len(l[s])
                   /\ \A i \in DOMAIN l[s] : /\ m[s][i].id = l[s][i].id
                                             /\ m[s][i].prev = l[s][i].prev
                                             /\ m[s][i].poc = l[s][i].poc

LEMMA SlotsAre == Slots = {1, 2} /\ 0 .. NumPrev = {0, 1, 2} /\ Null = 0 /\ NumPrev = 2
BY DEF Slots, NumPrev, Null

LEMMA Lengths ==
  ASSUME NEW sh, NEW l, Typed(sh, l)
  PROVE  /\ Len(sh) \in Nat /\ DOMAIN sh = 1 .. Len(sh)
         /\ \A k \in DOMAIN sh : sh[k] \in Buffer(Len(sh))
         /\ \A s \in Stage : /\ l[s] \in Seq(Picture(Len(sh)))
                             /\ Len(l[s]) \in Nat /\ DOMAIN l[s] = 1 .. Len(l[s])
                             /\ \A i \in DOMAIN l[s] : l[s][i] \in Picture(Len(sh))
<1>1. sh \in Seq(Buffer(Len(sh))) /\ l \in [Stage -> Seq(Picture(Len(sh)))]
  BY DEF Typed
<1>2. Len(sh) \in Nat /\ DOMAIN sh = 1 .. Len(sh) /\ \A k \in DOMAIN sh : sh[k] \in Buffer(Len(sh))
  BY <1>1
<1>3. \A s \in Stage : l[s] \in Seq(Picture(Len(sh)))
  BY <1>1
<1>4. QED BY <1>2, <1>3

LEMMA AlikeShares ==
  ASSUME NEW sh, NEW l, Sharing(sh, l), NEW sh2, NEW m, Typed(sh2, m), Len(sh2) = Len(sh),
         \A k \in DOMAIN sh : sh2[k].ref = sh[k].ref /\ sh2[k].poc = sh[k].poc,
         Alike(l, m), AllFit(sh2, m)
  PROVE  Sharing(sh2, m)
<1>1. Typed(sh, l) /\ Once(l) /\ PocsDiffer(sh) /\ Exact(sh, l)
  BY DEF Sharing
<1>2. DOMAIN sh2 = DOMAIN sh
  BY <1>1, Lengths
<1>3. \A s \in Stage : /\ DOMAIN m[s] = DOMAIN l[s]
                       /\ \A i \in DOMAIN l[s] : /\ m[s][i].id = l[s][i].id
                                                 /\ m[s][i].prev = l[s][i].prev
  <2>1. \A s \in Stage : Len(m[s]) = Len(l[s]) /\ DOMAIN m[s] = 1 .. Len(m[s])
                           /\ DOMAIN l[s] = 1 .. Len(l[s])
    BY <1>1, Lengths DEF Alike
  <2>2. QED BY <2>1 DEF Alike
<1>4. Once(m)
  BY <1>1, <1>3 DEF Once
<1>5. PocsDiffer(sh2)
  BY <1>1, <1>2 DEF PocsDiffer
<1>6. ASSUME NEW k \in DOMAIN sh PROVE UsesOf(m, Len(sh), k) = UsesOf(l, Len(sh), k)
  <2>1. \A s \in Stage : \A i \in DOMAIN l[s] : \A x : Use(m[s][i], x) = Use(l[s][i], x)
    BY <1>3 DEF Use
  <2>2. ASSUME NEW s \in Stage, NEW id, NEW x PROVE Uses(m, k, s, id, x) <=> Uses(l, k, s, id, x)
    BY <1>3, <2>1, ZenonT(60) DEF Uses
  <2>3. \A u \in UseSpace(Len(sh)) : u[1] \in Stage
    BY DEF UseSpace
  <2>4. QED BY <2>2, <2>3 DEF UsesOf
<1>7. Exact(sh2, m)
  BY <1>1, <1>2, <1>6 DEF Exact
<1>8. QED BY <1>4, <1>5, <1>7 DEF Sharing

LEMMA AlikeFit ==
  ASSUME NEW sh, NEW l, Typed(sh, l), AllFit(sh, l), NEW sh2, NEW m, Alike(l, m), Typed(sh2, m),
         \A k \in DOMAIN sh : sh2[k].poc = sh[k].poc /\ sh2[k].prev = sh[k].prev
  PROVE  AllFit(sh2, m)
<1> SUFFICES ASSUME NEW s \in Stage, NEW i \in DOMAIN m[s] PROVE Fits(sh2, m[s][i])
  BY DEF AllFit
<1>1. i \in DOMAIN l[s] /\ l[s][i] \in Picture(Len(sh)) /\ DOMAIN sh = 1 .. Len(sh)
  <2>1. Len(m[s]) = Len(l[s]) /\ DOMAIN m[s] = 1 .. Len(m[s]) /\ DOMAIN l[s] = 1 .. Len(l[s])
    BY Lengths DEF Alike
  <2>2. QED BY <2>1, Lengths
<1>2. m[s][i].id = l[s][i].id /\ m[s][i].prev = l[s][i].prev /\ m[s][i].poc = l[s][i].poc
  BY <1>1 DEF Alike
<1>3. Fits(sh, l[s][i])
  BY <1>1 DEF AllFit
<1>4. /\ l[s][i].id \in DOMAIN sh
      /\ \A x \in Slots : l[s][i].prev[x] # Null => l[s][i].prev[x] \in DOMAIN sh
  BY <1>1 DEF Picture, Null
<1> DEFINE p == l[s][i]
           q == m[s][i]
<1>5. /\ q.id = p.id /\ q.prev = p.prev /\ q.poc = p.poc /\ Fits(sh, p) /\ p.id \in DOMAIN sh
      /\ \A x \in Slots : p.prev[x] # Null => p.prev[x] \in DOMAIN sh
  BY <1>2, <1>3, <1>4
<1> HIDE DEF p, q
<1>6. sh2[q.id].poc = q.poc
  BY <1>5 DEF Fits
<1>7. ASSUME NEW x \in Slots
      PROVE  /\ q.prev[x] # Null => sh2[q.id].prev[x] = q.prev[x]
             /\ IsBack(sh2, q.prev[x], q.poc, x)
  <2>1. /\ q.prev[x] # Null => sh[p.id].prev[x] = q.prev[x] /\ q.prev[x] \in DOMAIN sh
        /\ IsBack(sh, q.prev[x], q.poc, x)
    BY <1>5 DEF Fits
  <2>2. q.prev[x] # Null => sh2[q.id].prev[x] = q.prev[x]
    BY <1>5, <2>1
  <2>3. q.prev[x] # Null => sh2[q.prev[x]].poc = sh[q.prev[x]].poc
    BY <2>1
  <2>4. QED BY <2>1, <2>2, <2>3 DEF IsBack
<1>8. QED BY <1>6, <1>7 DEF Fits, q

-----------------------------------------------------------------------------
(* Pictures leave a list, or lose their links.                             *)

(* The pictures F of stage s, which use buffer k by links, and as their own. *)
LinkUses(l, n, s, F, k) ==
  {u \in UseSpace(n) : /\ u[1] = s /\ u[2][2] # 0
                       /\ \E i \in F : l[s][i].id = u[2][1] /\ l[s][i].prev[u[2][2]] = k}

OwnUses(l, n, s, F, k) ==
  {u \in UseSpace(n) : /\ u[1] = s /\ u[2][2] = 0
                       /\ \E i \in F : l[s][i].id = u[2][1] /\ l[s][i].id = k}

LEMMA LinksHeld ==
  ASSUME NEW sh, NEW l, Sharing(sh, l), NEW s \in Stage, NEW F \in SUBSET DOMAIN l[s],
         NEW k \in DOMAIN sh
  PROVE  HeldLinks(sh, {l[s][i] : i \in F}, k) = Cardinality(LinkUses(l, Len(sh), s, F, k))
<1> DEFINE P == {l[s][i] : i \in F}
           H == {h \in P \X Slots : h[1].prev[h[2]] # Null /\ sh[h[1].id].prev[h[2]] = k}
           T == LinkUses(l, Len(sh), s, F, k)
           f == [h \in H |-> <<s, <<h[1].id, h[2]>>>>]
<1>1. /\ Typed(sh, l) /\ Once(l) /\ AllFit(sh, l) /\ Len(sh) \in Nat /\ DOMAIN sh = 1 .. Len(sh)
      /\ \A i \in DOMAIN l[s] : l[s][i] \in Picture(Len(sh))
  BY Lengths DEF Sharing
<1>2. k # Null
  BY <1>1 DEF Null
<1>3. \A p \in P, x \in Slots : (p.prev[x] # Null /\ sh[p.id].prev[x] = k) <=> p.prev[x] = k
  BY <1>1, <1>2 DEF AllFit, Fits
<1>4. \A p \in P : \E i \in F : p = l[s][i] /\ p.id \in 1 .. Len(sh)
  BY <1>1 DEF Picture
<1>5. IsFiniteSet(T)
  <2>1. T \in SUBSET UseSpace(Len(sh))
    BY DEF LinkUses
  <2>2. QED BY <1>1, <2>1, UseSpaceFinite, FS_Subset
<1>6. ASSUME NEW h \in H PROVE f[h] \in T
  <2>1. h[1] \in P /\ h[2] \in Slots /\ h[1].prev[h[2]] = k
    BY <1>3
  <2>2. PICK i \in F : h[1] = l[s][i] /\ h[1].id \in 1 .. Len(sh)
    BY <1>4, <2>1
  <2>3. h[2] \in 0 .. NumPrev /\ h[2] # 0
    BY <2>1, SlotsAre
  <2>4. <<s, <<h[1].id, h[2]>>>> \in UseSpace(Len(sh))
    BY <2>2, <2>3 DEF UseSpace
  <2>5. f[h] = <<s, <<h[1].id, h[2]>>>>
    OBVIOUS
  <2>6. l[s][i].id = h[1].id /\ l[s][i].prev[h[2]] = k
    BY <2>1, <2>2
  <2>7. QED BY <2>3, <2>4, <2>5, <2>6 DEF LinkUses
<1>7. ASSUME NEW g \in H, NEW h \in H, f[g] = f[h] PROVE g = h
  <2>1. g[1].id = h[1].id /\ g[2] = h[2]
    BY <1>7
  <2>2. PICK i \in F, j \in F : g[1] = l[s][i] /\ h[1] = l[s][j]
    BY <1>4
  <2>3. i = j
    BY <1>1, <2>1, <2>2 DEF Once
  <2>4. QED BY <2>1, <2>2, <2>3
<1>8. ASSUME NEW u \in T PROVE \E h \in H : f[h] = u
  <2>1. /\ u[1] = s /\ u[2][2] # 0 /\ u \in UseSpace(Len(sh))
        /\ u = <<u[1], <<u[2][1], u[2][2]>>>> /\ u[2][2] \in 0 .. NumPrev
    BY DEF LinkUses, UseSpace
  <2>2. PICK i \in F : l[s][i].id = u[2][1] /\ l[s][i].prev[u[2][2]] = k
    BY DEF LinkUses
  <2>3. u[2][2] \in Slots
    BY <2>1, SlotsAre
  <2>4. l[s][i] \in P
    OBVIOUS
  <2> DEFINE h == <<l[s][i], u[2][2]>>
  <2>5. h \in H
    BY <1>3, <2>2, <2>3, <2>4
  <2>6. f[h] = u
    BY <2>1, <2>2, <2>5
  <2>7. QED BY <2>5, <2>6
<1>9. f \in [H -> T]
  BY <1>6
<1>10. Cardinality(H) = Cardinality(T)
  <2> HIDE DEF H, T, f
  <2>1. QED BY <1>5, <1>7, <1>8, <1>9, SameSize
<1>11. QED BY <1>10 DEF HeldLinks

LEMMA OwnHeld ==
  ASSUME NEW sh, NEW l, Sharing(sh, l), NEW s \in Stage, NEW F \in SUBSET DOMAIN l[s],
         NEW k \in DOMAIN sh
  PROVE  Cardinality({p \in {l[s][i] : i \in F} : p.id = k})
           = Cardinality(OwnUses(l, Len(sh), s, F, k))
<1> DEFINE P == {l[s][i] : i \in F}
           H == {p \in P : p.id = k}
           T == OwnUses(l, Len(sh), s, F, k)
           f == [h \in H |-> <<s, <<k, 0>>>>]
<1>1. Once(l) /\ Len(sh) \in Nat /\ DOMAIN sh = 1 .. Len(sh)
  BY Lengths DEF Sharing
<1>2. IsFiniteSet(T)
  <2>1. T \in SUBSET UseSpace(Len(sh))
    BY DEF OwnUses
  <2>2. QED BY <1>1, <2>1, UseSpaceFinite, FS_Subset
<1>3. ASSUME NEW h \in H PROVE f[h] \in T
  <2>1. PICK i \in F : h = l[s][i] /\ h.id = k
    OBVIOUS
  <2>2. <<s, <<k, 0>>>> \in UseSpace(Len(sh))
    BY <1>1, SlotsAre DEF UseSpace
  <2>3. QED BY <2>1, <2>2 DEF OwnUses
<1>4. ASSUME NEW g \in H, NEW h \in H PROVE g = h
  <2>1. PICK i \in F, j \in F : g = l[s][i] /\ h = l[s][j] /\ l[s][i].id = l[s][j].id
    OBVIOUS
  <2>2. QED BY <1>1, <2>1 DEF Once
<1>5. ASSUME NEW u \in T PROVE \E h \in H : f[h] = u
  <2>1. /\ u[1] = s /\ u[2][2] = 0 /\ u = <<u[1], <<u[2][1], u[2][2]>>>>
    BY DEF OwnUses, UseSpace
  <2>2. PICK i \in F : l[s][i].id = u[2][1] /\ l[s][i].id = k
    BY DEF OwnUses
  <2>3. l[s][i] \in H
    BY <2>2
  <2>4. QED BY <2>1, <2>2, <2>3
<1>6. f \in [H -> T]
  BY <1>3
<1>7. Cardinality(H) = Cardinality(T)
  <2>1. \A g, h \in H : f[g] = f[h] => g = h
    BY <1>4
  <2> HIDE DEF H, T, f
  <2>2. QED BY <1>2, <1>5, <1>6, <2>1, SameSize
<1>8. QED BY <1>7

(* What is left of a list. *)
LEMMA WithoutIs ==
  ASSUME NEW Item, NEW pics \in Seq(Item), NEW F
  PROVE  LET r == Without(pics, F)
         IN  /\ r \in Seq(Item)
             /\ \A i \in DOMAIN r : \E a \in DOMAIN pics \ F : r[i] = pics[a]
             /\ \A a \in DOMAIN pics \ F : \E i \in DOMAIN r : r[i] = pics[a]
             /\ \A i, j \in DOMAIN r : i < j =>
                  \E a, b \in DOMAIN pics \ F : a < b /\ r[i] = pics[a] /\ r[j] = pics[b]
<1> DEFINE d == DOMAIN pics \ F
           places == [i \in DOMAIN pics |-> i]
           left == Keep(places, d)
           r == [i \in DOMAIN left |-> pics[left[i]]]
<1>1. DOMAIN pics = 1 .. Len(pics) /\ Len(pics) \in Nat /\ d \subseteq 1 .. Len(pics)
      /\ \A i \in 1 .. Len(pics) : pics[i] \in Item
  OBVIOUS
<1>2. places \in Seq(Nat) /\ Len(places) = Len(pics) /\ \A i \in 1 .. Len(pics) : places[i] = i
  <2>1. places \in [1 .. Len(pics) -> Nat]
    BY <1>1
  <2>2. \A i \in 1 .. Len(pics) : places[i] = i
    BY <1>1
  <2>3. QED BY <1>1, <2>1, <2>2
<1>3. KeptOf(Nat, left, places, d, Len(pics))
  BY <1>2, KeepIs
<1> HIDE DEF d, left, places
<1>4. left \in Seq(Nat) /\ DOMAIN left = 1 .. Len(left) /\ Len(left) \in Nat
  BY <1>3 DEF KeptOf
<1>5. \A i \in DOMAIN left : left[i] \in d
  BY <1>2, <1>3 DEF KeptOf
<1>6. \A a \in d : \E i \in DOMAIN left : left[i] = a
  <2>1. \A a \in 1 .. Len(pics) : places[a] \in d => \E i \in DOMAIN left : left[i] = places[a]
    BY <1>3 DEF KeptOf
  <2>2. \A a \in d : a \in 1 .. Len(pics) /\ places[a] = a
    BY <1>1, <1>2
  <2>3. QED BY <2>1, <2>2
<1>7. ASSUME NEW i \in DOMAIN left, NEW j \in DOMAIN left, i < j PROVE left[i] < left[j]
  <2>1. PICK a \in 1 .. Len(pics), b \in 1 .. Len(pics) :
          a < b /\ left[i] = places[a] /\ left[j] = places[b]
    BY <1>3, <1>7, Zenon DEF KeptOf, InOrderOf
  <2>2. QED BY <1>2, <2>1
<1>8. r \in Seq(Item)
  <2>1. r \in [1 .. Len(left) -> Item]
    BY <1>1, <1>4, <1>5
  <2>2. QED BY <1>4, <2>1
<1>9. DOMAIN r = DOMAIN left /\ \A i \in DOMAIN left : r[i] = pics[left[i]]
  OBVIOUS
<1> HIDE DEF r
<1>10. \A i \in DOMAIN r : \E a \in d : r[i] = pics[a]
  BY <1>5, <1>9
<1>11. \A a \in d : \E i \in DOMAIN r : r[i] = pics[a]
  BY <1>6, <1>9
<1>12. \A i, j \in DOMAIN r : i < j => \E a, b \in d : a < b /\ r[i] = pics[a] /\ r[j] = pics[b]
  BY <1>5, <1>7, <1>9
<1>13. Without(pics, F) = r
  BY DEF Without, r, left, places, d
<1>14. QED BY <1>8, <1>10, <1>11, <1>12, <1>13 DEF d

(* The buffers with other reference counts c. *)
SameButRef(sh, r, c) ==
  /\ r \in Seq(Buffer(Len(sh))) /\ Len(r) = Len(sh) /\ DOMAIN r = DOMAIN sh
  /\ \A k \in DOMAIN sh :
       /\ r[k].ref = c[k] /\ r[k].poc = sh[k].poc /\ r[k].prev = sh[k].prev
       /\ r[k].isStartOfIntra = sh[k].isStartOfIntra /\ r[k].isStartOfGop = sh[k].isStartOfGop

LEMMA Recounted ==
  ASSUME NEW sh, sh \in Seq(Buffer(Len(sh))), NEW c \in [DOMAIN sh -> Int]
  PROVE  SameButRef(sh, [k \in DOMAIN sh |-> [sh[k] EXCEPT !.ref = c[k]]], c)
<1> DEFINE r == [k \in DOMAIN sh |-> [sh[k] EXCEPT !.ref = c[k]]]
           n == Len(sh)
<1>1. \A k \in DOMAIN sh :
        /\ r[k] \in Buffer(n)
        /\ r[k].ref = c[k] /\ r[k].poc = sh[k].poc /\ r[k].prev = sh[k].prev
        /\ r[k].isStartOfIntra = sh[k].isStartOfIntra /\ r[k].isStartOfGop = sh[k].isStartOfGop
  <2> SUFFICES ASSUME NEW k \in DOMAIN sh
               PROVE  /\ r[k] \in Buffer(n)
                      /\ r[k].ref = c[k] /\ r[k].poc = sh[k].poc /\ r[k].prev = sh[k].prev
                      /\ r[k].isStartOfIntra = sh[k].isStartOfIntra
                      /\ r[k].isStartOfGop = sh[k].isStartOfGop
    OBVIOUS
  <2>1. r[k] = [sh[k] EXCEPT !.ref = c[k]] /\ sh[k] \in Buffer(n) /\ c[k] \in Int
    OBVIOUS
  <2> HIDE DEF r, n
  <2>2. QED BY <2>1 DEF Buffer
<1>2. DOMAIN sh = 1 .. n /\ n \in Nat
  OBVIOUS
<1>3. r \in [1 .. n -> Buffer(n)]
  BY <1>1, <1>2
<1>4. r \in Seq(Buffer(n)) /\ Len(r) = n /\ DOMAIN r = 1 .. n
  <2> HIDE DEF r, n
  <2>1. QED BY <1>2, <1>3
<1>5. SameButRef(sh, r, c)
  <2> HIDE DEF r
  <2>1. QED BY <1>1, <1>2, <1>4 DEF SameButRef
<1>6. QED BY <1>5

(* releaseShared, and the pictures leave their list. *)
PicsAt(pics, places, part) ==
  places \subseteq DOMAIN pics /\ \A p : p \in part <=> \E i \in places : p = pics[i]

LEMMA RemoveShares ==
  ASSUME NEW sh, NEW l, Sharing(sh, l), NEW s \in Stage, NEW F, NEW pics, PicsAt(l[s], F, pics)
  PROVE  /\ Sharing(ReleaseShared(sh, pics), [l EXCEPT ![s] = Without(l[s], F)])
         /\ \E c : SameButRef(sh, ReleaseShared(sh, pics), c)
<1> DEFINE n == Len(sh)
           P == {l[s][i] : i \in F}
<1>0. pics = P /\ F \in SUBSET DOMAIN l[s]
  BY DEF PicsAt
<1> DEFINE left == ReleasePrev(sh, P)
           r == ReleaseShared(sh, P)
           w == Without(l[s], F)
           m == [l EXCEPT ![s] = w]
           T(k) == LinkUses(l, n, s, F, k)
           O(k) == OwnUses(l, n, s, F, k)
           b == [k \in DOMAIN sh |-> sh[k].ref - Cardinality(T(k))]
           c == [k \in DOMAIN sh |-> b[k] - Cardinality(O(k))]
<1>1. /\ Typed(sh, l) /\ Once(l) /\ PocsDiffer(sh) /\ AllFit(sh, l) /\ Exact(sh, l)
      /\ n \in Nat /\ DOMAIN sh = 1 .. n /\ sh \in Seq(Buffer(n))
      /\ \A k \in DOMAIN sh : sh[k] \in Buffer(n)
      /\ l[s] \in Seq(Picture(n)) /\ \A t \in Stage : \A i \in DOMAIN l[t] : l[t][i] \in Picture(n)
      /\ l \in [Stage -> Seq(Picture(n))]
  BY Lengths DEF Sharing, Typed
<1>2. ASSUME NEW k \in DOMAIN sh
      PROVE  /\ IsFiniteSet(T(k)) /\ IsFiniteSet(O(k)) /\ \A u \in T(k) : u \notin O(k)
             /\ Cardinality(T(k)) \in Nat /\ Cardinality(O(k)) \in Nat
             /\ T(k) \subseteq UseSpace(n) /\ O(k) \subseteq UseSpace(n)
  <2>1. T(k) \in SUBSET UseSpace(n) /\ O(k) \in SUBSET UseSpace(n)
    BY DEF LinkUses, OwnUses
  <2>2. \A u \in T(k) : u \notin O(k)
    BY DEF LinkUses, OwnUses
  <2>3. QED BY <1>1, <2>1, <2>2, UseSpaceFinite, FS_Subset, FS_CardinalityType
<1>3. b \in [DOMAIN sh -> Int] /\ c \in [DOMAIN sh -> Int]
  <2>1. \A k \in DOMAIN sh : sh[k].ref \in Int
    BY <1>1 DEF Buffer
  <2>2. QED BY <1>2, <2>1
<1>4. left = [k \in DOMAIN sh |-> [sh[k] EXCEPT !.ref = b[k]]]
  BY <1>0, LinksHeld DEF ReleasePrev
<1>5. SameButRef(sh, left, b)
  <2> HIDE DEF left, b, c
  <2>1. QED BY <1>1, <1>3, <1>4, Recounted
<1>6. r = [k \in DOMAIN left |-> [left[k] EXCEPT !.ref = c[k]]]
  <2>1. DOMAIN left = DOMAIN sh /\ \A k \in DOMAIN sh : left[k].ref = b[k]
    BY <1>5 DEF SameButRef
  <2>2. \A k \in DOMAIN sh : left[k].ref - Cardinality({p \in P : p.id = k}) = c[k]
    <3>1. \A k \in DOMAIN sh : Cardinality({p \in P : p.id = k}) = Cardinality(O(k))
      BY <1>0, OwnHeld
    <3> HIDE DEF left, b, P, O
    <3>2. QED BY <2>1, <3>1
  <2> HIDE DEF c
  <2>3. QED BY <2>1, <2>2 DEF ReleaseShared
<1>7. SameButRef(left, r, c)
  <2>1. left \in Seq(Buffer(Len(left))) /\ DOMAIN left = DOMAIN sh
    BY <1>5 DEF SameButRef
  <2> HIDE DEF left, r, c
  <2>2. QED BY <1>3, <1>6, <2>1, Recounted
<1> HIDE DEF left, r, b
<1>8. SameButRef(sh, r, c)
  BY <1>5, <1>7 DEF SameButRef
<1>9. /\ w \in Seq(Picture(n))
      /\ \A i \in DOMAIN w : \E a \in DOMAIN l[s] \ F : w[i] = l[s][a]
      /\ \A a \in DOMAIN l[s] \ F : \E i \in DOMAIN w : w[i] = l[s][a]
      /\ \A i, j \in DOMAIN w : i < j =>
           \E x, y \in DOMAIN l[s] \ F : x < y /\ w[i] = l[s][x] /\ w[j] = l[s][y]
  BY <1>1, WithoutIs
<1> HIDE DEF w
<1>10. m \in [Stage -> Seq(Picture(n))] /\ m[s] = w /\ \A t \in Stage \ {s} : m[t] = l[t]
  BY <1>1, <1>9
<1> HIDE DEF m
<1>11. Typed(r, m)
  BY <1>8, <1>10 DEF Typed, SameButRef
<1>12. Once(m)
  <2>1. ASSUME NEW i \in DOMAIN w, NEW j \in DOMAIN w, w[i].id = w[j].id, i < j PROVE FALSE
    <3>1. PICK x \in DOMAIN l[s], y \in DOMAIN l[s] : x < y /\ w[i] = l[s][x] /\ w[j] = l[s][y]
      BY <1>9, <2>1
    <3>2. x = y
      BY <1>1, <2>1, <3>1 DEF Once
    <3>3. x \in Int
      BY <1>1
    <3>4. QED BY <3>1, <3>2, <3>3
  <2>2. ASSUME NEW i \in DOMAIN w, NEW j \in DOMAIN w, w[i].id = w[j].id PROVE i = j
    <3>1. i \in Int /\ j \in Int
      BY <1>9
    <3>2. i < j \/ j < i \/ i = j
      BY <3>1
    <3>3. QED BY <2>1, <2>2, <3>2
  <2>3. QED BY <1>1, <1>10, <2>2 DEF Once
<1>13. PocsDiffer(r)
  BY <1>1, <1>8 DEF PocsDiffer, SameButRef
<1>14. AllFit(r, m)
  <2>1. \A t \in Stage : \A i \in DOMAIN l[t] : Fits(r, l[t][i])
    <3> SUFFICES ASSUME NEW t \in Stage, NEW i \in DOMAIN l[t] PROVE Fits(r, l[t][i])
      OBVIOUS
    <3>1. Fits(sh, l[t][i]) /\ l[t][i].id \in DOMAIN sh
          /\ \A x \in Slots : l[t][i].prev[x] # Null => l[t][i].prev[x] \in DOMAIN sh
      BY <1>1, SMTT(30) DEF AllFit, Picture, Null
    <3>2. QED BY <1>8, <3>1 DEF Fits, IsBack, SameButRef
  <2>2. \A i \in DOMAIN m[s] : Fits(r, m[s][i])
    BY <1>9, <1>10, <2>1
  <2>3. QED BY <1>10, <2>1, <2>2 DEF AllFit
<1>15. ASSUME NEW k \in DOMAIN sh PROVE r[k].ref = Cardinality(UsesOf(m, n, k))
  <2> DEFINE U == T(k) \union O(k)
  <2>1. U \subseteq UseSpace(n)
    BY <1>2
  <2>2. ASSUME NEW t \in Stage, NEW id \in 1 .. n, NEW x \in 0 .. NumPrev
        PROVE  /\ Uses(l, k, t, id, x) <=> Uses(m, k, t, id, x) \/ <<t, <<id, x>>>> \in U
               /\ ~(Uses(m, k, t, id, x) /\ <<t, <<id, x>>>> \in U)
    <3>1. <<t, <<id, x>>>> \in U <=> t = s /\ \E i \in F : l[s][i].id = id /\ Use(l[s][i], x) = k
      <4>1. <<t, <<id, x>>>> \in UseSpace(n)
        BY IsUse, <1>1
      <4>2. QED BY <4>1 DEF LinkUses, OwnUses, Use
    <3>2. CASE t # s
      BY <1>10, <3>1, <3>2 DEF Uses
    <3>3. CASE t = s
      <4>1. Uses(m, k, s, id, x) <=>
              \E a \in DOMAIN l[s] \ F : l[s][a].id = id /\ Use(l[s][a], x) = k
        BY <1>9, <1>10 DEF Uses
      <4>2. Uses(l, k, s, id, x) <=>
              \E a \in DOMAIN l[s] : l[s][a].id = id /\ Use(l[s][a], x) = k
        BY DEF Uses
      <4>3. \A a, i \in DOMAIN l[s] : l[s][a].id = l[s][i].id => a = i
        BY <1>1 DEF Once
      <4>4. QED BY <1>0, <3>1, <3>3, <4>1, <4>2, <4>3
    <3>4. QED BY <3>2, <3>3
  <2>3. Cardinality(U) = Cardinality(T(k)) + Cardinality(O(k))
    <3> HIDE DEF T, O
    <3>1. QED BY <1>2, DisjointUnion
  <2>4. Cardinality(UsesOf(l, n, k)) = Cardinality(UsesOf(m, n, k)) + Cardinality(U)
    <3> HIDE DEF U
    <3>1. Adds(m, l, n, k, U)
      BY <2>1, <2>2 DEF Adds
    <3>2. QED BY <1>1, <3>1, UsesAdded
  <2>5. /\ Cardinality(UsesOf(l, n, k)) \in Nat /\ Cardinality(UsesOf(m, n, k)) \in Nat
        /\ Cardinality(T(k)) \in Nat /\ Cardinality(O(k)) \in Nat
    BY <1>1, <1>2, UsesFinite
  <2>6. sh[k].ref = Cardinality(UsesOf(l, n, k))
    BY <1>1 DEF Exact
  <2>7. r[k].ref = (sh[k].ref - Cardinality(T(k))) - Cardinality(O(k))
    BY <1>8 DEF SameButRef, b
  <2> HIDE DEF U, T, O
  <2>8. QED BY <2>3, <2>4, <2>5, <2>6, <2>7
<1>16. Exact(r, m)
  BY <1>8, <1>15 DEF Exact, SameButRef
<1>17. Sharing(r, m)
  BY <1>11, <1>12, <1>13, <1>14, <1>16 DEF Sharing
<1>18. QED BY <1>0, <1>8, <1>17 DEF r, m, w

(* releasePrevBuffers, and the picture has no links any more. *)
LEMMA DropShares ==
  ASSUME NEW sh, NEW l, Sharing(sh, l), NEW s \in Stage, NEW d \in DOMAIN l[s]
  PROVE  LET m == [l EXCEPT ![s] = [l[s] EXCEPT ![d].prev = NoLinks]]
             r == ReleasePrev(sh, {l[s][d]})
         IN  /\ Sharing(r, m)
             /\ \E c : SameButRef(sh, r, c)
             /\ m \in [Stage -> Seq(Picture(Len(sh)))]
             /\ DOMAIN m[s] = DOMAIN l[s] /\ Len(m[s]) = Len(l[s])
             /\ \A t \in Stage \ {s} : m[t] = l[t]
             /\ \A i \in DOMAIN l[s] : i # d => m[s][i] = l[s][i]
             /\ m[s][d] = [l[s][d] EXCEPT !.prev = NoLinks]
<1> DEFINE n == Len(sh)
           P == {l[s][d]}
           F == {d}
           r == ReleasePrev(sh, P)
           w == [l[s] EXCEPT ![d].prev = NoLinks]
           m == [l EXCEPT ![s] = w]
           T(k) == LinkUses(l, n, s, F, k)
           b == [k \in DOMAIN sh |-> sh[k].ref - Cardinality(T(k))]
<1>1. /\ Typed(sh, l) /\ Once(l) /\ PocsDiffer(sh) /\ AllFit(sh, l) /\ Exact(sh, l)
      /\ n \in Nat /\ DOMAIN sh = 1 .. n /\ sh \in Seq(Buffer(n))
      /\ \A k \in DOMAIN sh : sh[k] \in Buffer(n)
      /\ l[s] \in Seq(Picture(n)) /\ \A t \in Stage : \A i \in DOMAIN l[t] : l[t][i] \in Picture(n)
      /\ l \in [Stage -> Seq(Picture(n))]
  BY Lengths DEF Sharing, Typed
<1>2. ASSUME NEW k \in DOMAIN sh
      PROVE  /\ IsFiniteSet(T(k)) /\ Cardinality(T(k)) \in Nat /\ T(k) \subseteq UseSpace(n)
  <2>1. T(k) \in SUBSET UseSpace(n)
    BY DEF LinkUses
  <2>2. QED BY <1>1, <2>1, UseSpaceFinite, FS_Subset, FS_CardinalityType
<1>3. b \in [DOMAIN sh -> Int]
  <2>1. \A k \in DOMAIN sh : sh[k].ref \in Int
    BY <1>1 DEF Buffer
  <2> HIDE DEF T, n
  <2>2. QED BY <1>2, <2>1
<1>4. r = [k \in DOMAIN sh |-> [sh[k] EXCEPT !.ref = b[k]]]
  <2>1. F \in SUBSET DOMAIN l[s] /\ {l[s][i] : i \in F} = P
    OBVIOUS
  <2>2. \A k \in DOMAIN sh : HeldLinks(sh, P, k) = Cardinality(T(k))
    BY <2>1, LinksHeld
  <2>3. QED BY <2>2 DEF ReleasePrev
<1>5. SameButRef(sh, r, b)
  <2> HIDE DEF r, b
  <2>1. QED BY <1>1, <1>3, <1>4, Recounted
<1> HIDE DEF r, b, P, F
<1>6. NoLinks \in [Slots -> 0 .. n] /\ \A x \in Slots : NoLinks[x] = Null
  BY <1>1 DEF NoLinks, Null
<1>7. [l[s][d] EXCEPT !.prev = NoLinks] \in Picture(n)
  <2>1. l[s][d] \in Picture(n)
    BY <1>1
  <2>2. \A p \in Picture(n), q \in [Slots -> 0 .. n] : [p EXCEPT !.prev = q] \in Picture(n)
    BY DEF Picture
  <2>3. QED BY <1>6, <2>1, <2>2
<1>8. /\ w \in Seq(Picture(n)) /\ DOMAIN w = DOMAIN l[s] /\ Len(w) = Len(l[s])
      /\ w[d] = [l[s][d] EXCEPT !.prev = NoLinks]
      /\ \A i \in DOMAIN l[s] : i # d => w[i] = l[s][i]
  <2>1. DOMAIN l[s] = 1 .. Len(l[s]) /\ Len(l[s]) \in Nat
    BY <1>1
  <2>2. w \in [1 .. Len(l[s]) -> Picture(n)]
    <3>1. \A i \in 1 .. Len(l[s]) : l[s][i] \in Picture(n)
      BY <1>1, <2>1
    <3> HIDE DEF n
    <3>2. w = [l[s] EXCEPT ![d] = [l[s][d] EXCEPT !.prev = NoLinks]]
      OBVIOUS
    <3> HIDE DEF w
    <3>3. l[s] \in [1 .. Len(l[s]) -> Picture(n)]
      BY <1>1
    <3>4. QED BY <1>7, <3>2, <3>3
  <2>3. /\ w[d] = [l[s][d] EXCEPT !.prev = NoLinks]
        /\ \A i \in DOMAIN l[s] : i # d => w[i] = l[s][i]
    OBVIOUS
  <2> HIDE DEF w
  <2>4. w \in Seq(Picture(n)) /\ DOMAIN w = 1 .. Len(l[s]) /\ Len(w) = Len(l[s])
    BY <2>1, <2>2
  <2>5. QED BY <2>1, <2>3, <2>4
<1>9. /\ w[d].id = l[s][d].id /\ w[d].poc = l[s][d].poc /\ w[d].prev = NoLinks
  BY <1>1, <1>8 DEF Picture
<1> HIDE DEF w
<1>10. m \in [Stage -> Seq(Picture(n))] /\ m[s] = w /\ \A t \in Stage \ {s} : m[t] = l[t]
  BY <1>1, <1>8
<1> HIDE DEF m
<1>11. Typed(r, m)
  BY <1>5, <1>10 DEF Typed, SameButRef
<1>12. Once(m)
  <2>1. \A i \in DOMAIN w : w[i].id = l[s][i].id
    BY <1>8, <1>9
  <2>2. \A i, j \in DOMAIN m[s] : m[s][i].id = m[s][j].id => i = j
    BY <1>1, <1>8, <1>10, <2>1, ZenonT(60) DEF Once
  <2>3. QED BY <1>1, <1>10, <2>2 DEF Once
<1>13. PocsDiffer(r)
  BY <1>1, <1>5 DEF PocsDiffer, SameButRef
<1>14. AllFit(r, m)
  <2>1. \A t \in Stage : \A i \in DOMAIN l[t] : Fits(r, l[t][i])
    <3> SUFFICES ASSUME NEW t \in Stage, NEW i \in DOMAIN l[t] PROVE Fits(r, l[t][i])
      OBVIOUS
    <3>1. Fits(sh, l[t][i]) /\ l[t][i].id \in DOMAIN sh
          /\ \A x \in Slots : l[t][i].prev[x] # Null => l[t][i].prev[x] \in DOMAIN sh
      <4>1. l[t][i] \in Picture(n) /\ Fits(sh, l[t][i])
        BY <1>1 DEF AllFit
      <4>2. QED BY <1>1, <4>1 DEF Picture, Null
    <3>2. QED BY <1>5, <3>1 DEF Fits, IsBack, SameButRef
  <2>2. Fits(r, w[d])
    BY <1>6, <1>9, <2>1, ZenonT(60) DEF Fits, IsBack
  <2>3. \A i \in DOMAIN m[s] : Fits(r, m[s][i])
    BY <1>8, <1>10, <2>1, <2>2
  <2>4. QED BY <1>10, <2>1, <2>3 DEF AllFit
<1>15. ASSUME NEW k \in DOMAIN sh PROVE r[k].ref = Cardinality(UsesOf(m, n, k))
  <2>1. ASSUME NEW t \in Stage, NEW id \in 1 .. n, NEW x \in 0 .. NumPrev
        PROVE  /\ Uses(l, k, t, id, x) <=> Uses(m, k, t, id, x) \/ <<t, <<id, x>>>> \in T(k)
               /\ ~(Uses(m, k, t, id, x) /\ <<t, <<id, x>>>> \in T(k))
    <3>1. <<t, <<id, x>>>> \in T(k) <=> t = s /\ x # 0 /\ l[s][d].id = id /\ l[s][d].prev[x] = k
      <4>1. <<t, <<id, x>>>> \in UseSpace(n)
        BY IsUse, <1>1
      <4>2. QED BY <4>1 DEF LinkUses, F
    <3>2. CASE t # s
      BY <1>10, <3>1, <3>2 DEF Uses
    <3>3. CASE t = s
      <4>1. Uses(m, k, s, id, x) <=> \E a \in DOMAIN l[s] : w[a].id = id /\ Use(w[a], x) = k
        BY <1>8, <1>10 DEF Uses
      <4>2. Uses(l, k, s, id, x) <=> \E a \in DOMAIN l[s] : l[s][a].id = id /\ Use(l[s][a], x) = k
        BY DEF Uses
      <4>3. \A a, i \in DOMAIN l[s] : l[s][a].id = l[s][i].id => a = i
        BY <1>1 DEF Once
      <4>4. \A a \in DOMAIN l[s] : w[a].id = l[s][a].id /\ (a # d => w[a] = l[s][a])
        BY <1>8, <1>9
      <4>5. x # 0 => Use(w[d], x) # k
        <5>1. x # 0 => x \in Slots
          BY SlotsAre
        <5>2. k # Null
          BY <1>1 DEF Null
        <5>3. QED BY <1>6, <1>9, <5>1, <5>2 DEF Use
      <4>6. x # 0 => Use(l[s][d], x) = l[s][d].prev[x]
        BY DEF Use
      <4>7. x = 0 => \A a \in DOMAIN l[s] : Use(w[a], x) = Use(l[s][a], x)
        BY <4>4 DEF Use
      <4>8. QED BY <3>1, <3>3, <4>1, <4>2, <4>3, <4>4, <4>5, <4>6, <4>7
    <3>4. QED BY <3>2, <3>3
  <2>2. Adds(m, l, n, k, T(k))
    BY <1>2, <2>1 DEF Adds
  <2>3. /\ Cardinality(UsesOf(l, n, k)) = Cardinality(UsesOf(m, n, k)) + Cardinality(T(k))
        /\ Cardinality(UsesOf(m, n, k)) \in Nat
    <3> HIDE DEF T
    <3>1. QED BY <1>1, <2>2, UsesAdded, UsesFinite
  <2>4. sh[k].ref = Cardinality(UsesOf(l, n, k))
    BY <1>1 DEF Exact
  <2>5. r[k].ref = sh[k].ref - Cardinality(T(k))
    BY <1>5 DEF SameButRef, b
  <2> HIDE DEF T
  <2>6. QED BY <1>2, <2>3, <2>4, <2>5
<1>16. Exact(r, m)
  BY <1>5, <1>15 DEF Exact, SameButRef
<1>17. Sharing(r, m)
  BY <1>11, <1>12, <1>13, <1>14, <1>16 DEF Sharing
<1>18. QED BY <1>5, <1>8, <1>10, <1>17 DEF r, m, w, P

-----------------------------------------------------------------------------
(* shareData, and the picture comes to a list. *)

NewUses(n, t, pic, k) ==
  {u \in UseSpace(n) : u[1] = t /\ u[2][1] = pic.id /\ Use(pic, u[2][2]) = k}

LEMMA NewUsesCounted ==
  ASSUME NEW n \in Nat, NEW t \in Stage, NEW pic \in Picture(n), NEW k \in 1 .. n
  PROVE  /\ Cardinality(NewUses(n, t, pic, k))
              = Linked(pic.prev, k) + (IF k = pic.id THEN 1 ELSE 0)
         /\ Linked(pic.prev, k) \in Nat
         /\ NewUses(n, t, pic, k) \subseteq UseSpace(n)
<1> DEFINE id == pic.id
           L == {i \in Slots : pic.prev[i] = k}
           LT == {<<t, <<id, i>>>> : i \in L}
           OT == IF k = id THEN {<<t, <<id, 0>>>>} ELSE {}
           f == [i \in L |-> <<t, <<id, i>>>>]
<1>1. id \in 1 .. n
  BY DEF Picture
<1>2. NewUses(n, t, pic, k) = LT \union OT
  <2>1. ASSUME NEW u \in UseSpace(n), u[1] = t, u[2][1] = id, Use(pic, u[2][2]) = k
        PROVE  u \in LT \union OT
    <3>1. u = <<t, <<id, u[2][2]>>>> /\ u[2][2] \in 0 .. NumPrev
      BY <2>1 DEF UseSpace
    <3>2. CASE u[2][2] = 0
      BY <2>1, <3>1, <3>2 DEF Use
    <3>3. CASE u[2][2] # 0
      <4>1. u[2][2] \in L
        BY <2>1, <3>1, <3>3, SlotsAre DEF Use
      <4>2. QED BY <3>1, <4>1
    <3>4. QED BY <3>2, <3>3
  <2>2. ASSUME NEW i \in L
        PROVE  <<t, <<id, i>>>> \in NewUses(n, t, pic, k)
    <3>1. i \in 0 .. NumPrev /\ i # 0
      BY SlotsAre
    <3>2. <<t, <<id, i>>>> \in UseSpace(n)
      BY <1>1, <3>1 DEF UseSpace
    <3>3. QED BY <3>1, <3>2 DEF NewUses, Use
  <2>3. k = id => <<t, <<id, 0>>>> \in NewUses(n, t, pic, k)
    <3>1. <<t, <<id, 0>>>> \in UseSpace(n)
      BY <1>1, SlotsAre DEF UseSpace
    <3>2. QED BY <3>1 DEF NewUses, Use
  <2>4. \A u \in NewUses(n, t, pic, k) : u \in LT \union OT
    BY <2>1 DEF NewUses
  <2>5. \A u \in LT \union OT : u \in NewUses(n, t, pic, k)
    BY <2>2, <2>3
  <2>6. QED BY <2>4, <2>5
<1>3. IsFiniteSet(LT) /\ IsFiniteSet(OT)
  <2>1. NewUses(n, t, pic, k) \in SUBSET UseSpace(n)
    BY DEF NewUses
  <2>2. IsFiniteSet(NewUses(n, t, pic, k))
    BY <2>1, UseSpaceFinite, FS_Subset
  <2>3. LT \in SUBSET (LT \union OT) /\ OT \in SUBSET (LT \union OT)
    OBVIOUS
  <2> HIDE DEF LT, OT
  <2>4. QED BY <1>2, <2>2, <2>3, FS_Subset
<1>4. Cardinality(L) = Cardinality(LT) /\ IsFiniteSet(L)
  <2>1. f \in [L -> LT] /\ \A z \in LT : \E i \in L : f[i] = z
    OBVIOUS
  <2>2. \A i, j \in L : f[i] = f[j] => i = j
    OBVIOUS
  <2> HIDE DEF L, LT, f
  <2>3. QED BY <1>3, <2>1, <2>2, SameSize
<1>5. Cardinality(OT) = IF k = id THEN 1 ELSE 0
  <2>1. CASE k = id
    <3>1. OT = {<<t, <<id, 0>>>>}
      BY <2>1
    <3>2. QED BY <2>1, <3>1, FS_Singleton
  <2>2. CASE k # id
    <3>1. OT = {}
      BY <2>2
    <3>2. QED BY <2>2, <3>1, FS_EmptySet
  <2>3. QED BY <2>1, <2>2
<1>6. \A u \in LT : u \notin OT
  <2>1. \A i \in L : i # 0
    BY SlotsAre
  <2>2. QED BY <2>1
<1>7. Cardinality(LT \union OT) = Cardinality(LT) + Cardinality(OT)
  <2> HIDE DEF LT, OT
  <2>1. QED BY <1>3, <1>6, DisjointUnion
<1>8. Linked(pic.prev, k) = Cardinality(L)
  BY DEF Linked
<1>9. Cardinality(L) \in Nat
  BY <1>4, FS_CardinalityType
<1>10. NewUses(n, t, pic, k) \subseteq UseSpace(n)
  BY DEF NewUses
<1> HIDE DEF L, LT, OT
<1>11. QED BY <1>2, <1>4, <1>5, <1>7, <1>8, <1>9, <1>10

LEMMA NewPicIs ==
  ASSUME NEW n \in Nat, NEW sh \in Seq(Buffer(n)), Len(sh) = n, NEW id \in DOMAIN sh,
         NEW flush \in BOOLEAN
  PROVE  /\ NewPic(sh, id, flush) \in Picture(n)
         /\ NewPic(sh, id, flush).id = id /\ NewPic(sh, id, flush).poc = sh[id].poc
         /\ NewPic(sh, id, flush).prev = sh[id].prev
         /\ ~NewPic(sh, id, flush).isInitDone /\ ~NewPic(sh, id, flush).isFinished
<1>1. sh[id] \in Buffer(n) /\ id \in 1 .. n
  OBVIOUS
<1>2. sh[id].poc \in Int /\ sh[id].prev \in [Slots -> 0 .. n]
  BY <1>1 DEF Buffer
<1>3. QED BY <1>1, <1>2 DEF NewPic, Picture

LEMMA AddShares ==
  ASSUME NEW sh, NEW l, Sharing(sh, l), NEW t \in Stage, NEW id \in DOMAIN sh,
         NEW flush \in BOOLEAN, \A i \in DOMAIN l[t] : l[t][i].id # id,
         \A x \in Slots : IsBack(sh, sh[id].prev[x], sh[id].poc, x)
  PROVE  LET new == Insert(t, l[t], NewPic(sh, id, flush)).pics
         IN  /\ Sharing(ShareData(sh, id), [l EXCEPT ![t] = new])
             /\ \E c : SameButRef(sh, ShareData(sh, id), c)
             /\ \E at \in 1 .. Len(l[t]) + 1 : InsertedAt(new, l[t], NewPic(sh, id, flush), at)
             /\ new \in Seq(Picture(Len(sh)))
<1> DEFINE n == Len(sh)
           pic == NewPic(sh, id, flush)
           w == Insert(t, l[t], pic).pics
           m == [l EXCEPT ![t] = w]
           r == ShareData(sh, id)
           T(k) == NewUses(n, t, pic, k)
           b == [k \in DOMAIN sh |-> sh[k].ref + Linked(sh[id].prev, k) + (IF k = id THEN 1 ELSE 0)]
<1>1. /\ Typed(sh, l) /\ Once(l) /\ PocsDiffer(sh) /\ AllFit(sh, l) /\ Exact(sh, l)
      /\ n \in Nat /\ DOMAIN sh = 1 .. n /\ sh \in Seq(Buffer(n))
      /\ \A k \in DOMAIN sh : sh[k] \in Buffer(n)
      /\ l[t] \in Seq(Picture(n)) /\ \A s \in Stage : \A i \in DOMAIN l[s] : l[s][i] \in Picture(n)
      /\ l \in [Stage -> Seq(Picture(n))]
  BY Lengths DEF Sharing, Typed
<1>2. pic \in Picture(n) /\ pic.id = id /\ pic.poc = sh[id].poc /\ pic.prev = sh[id].prev
  BY <1>1, NewPicIs
<1>3. ASSUME NEW k \in DOMAIN sh
      PROVE  /\ Cardinality(T(k)) = Linked(sh[id].prev, k) + (IF k = id THEN 1 ELSE 0)
             /\ Linked(sh[id].prev, k) \in Nat /\ T(k) \subseteq UseSpace(n)
  <2> HIDE DEF pic
  <2>1. QED BY <1>1, <1>2, NewUsesCounted, SMTT(30)
<1>4. b \in [DOMAIN sh -> Int]
  <2>1. \A k \in DOMAIN sh : sh[k].ref \in Int
    BY <1>1 DEF Buffer
  <2>2. QED BY <1>3, <2>1
<1>5. r = [k \in DOMAIN sh |-> [sh[k] EXCEPT !.ref = b[k]]]
  BY DEF ShareData
<1>6. SameButRef(sh, r, b)
  <2> HIDE DEF r, b
  <2>1. QED BY <1>1, <1>4, <1>5, Recounted
<1>7. \A k \in DOMAIN sh : b[k] = sh[k].ref + Cardinality(T(k))
  <2>1. \A k \in DOMAIN sh : sh[k].ref \in Int
    BY <1>1 DEF Buffer
  <2>2. \A k \in DOMAIN sh : b[k] = sh[k].ref + Linked(sh[id].prev, k) + (IF k = id THEN 1 ELSE 0)
    OBVIOUS
  <2> HIDE DEF b, T
  <2>3. QED BY <1>3, <2>1, <2>2
<1> HIDE DEF r, b, pic
<1>8. w \in Seq(Picture(n)) /\ \E at \in 1 .. Len(l[t]) + 1 : InsertedAt(w, l[t], pic, at)
  BY <1>1, <1>2, InsertIs
<1> HIDE DEF w
<1>9. /\ \A i \in DOMAIN w : w[i] = pic \/ \E j \in DOMAIN l[t] : Kin(l[t][j], w[i])
      /\ \A j \in DOMAIN l[t] : \E i \in DOMAIN w : Kin(l[t][j], w[i])
      /\ \E i \in DOMAIN w : w[i] = pic
      /\ \A i, j \in DOMAIN w : w[i].id = w[j].id => i = j
  <2>1. \A i \in DOMAIN l[t] : l[t][i].id # pic.id
    BY <1>2
  <2>2. \A i, j \in DOMAIN l[t] : l[t][i].id = l[t][j].id => i = j
    BY <1>1 DEF Once
  <2>3. PICK at \in 1 .. Len(l[t]) + 1 : InsertedAt(w, l[t], pic, at)
    BY <1>8
  <2>4. /\ n \in Nat /\ l[t] \in Seq(Picture(n)) /\ pic \in Picture(n) /\ w \in Seq(Picture(n))
    BY <1>1, <1>2, <1>8
  <2> HIDE DEF n
  <2>5. /\ \A i \in DOMAIN w : w[i] = pic \/ \E j \in DOMAIN l[t] : Kin(l[t][j], w[i])
        /\ \A j \in DOMAIN l[t] : \E i \in DOMAIN w : Kin(l[t][j], w[i])
        /\ \E i \in DOMAIN w : w[i] = pic
        /\ (\A i \in DOMAIN l[t] : l[t][i].id # pic.id)
             /\ (\A i, j \in DOMAIN l[t] : l[t][i].id = l[t][j].id => i = j)
           => \A i, j \in DOMAIN w : w[i].id = w[j].id => i = j
    BY <2>3, <2>4, InsertedMembers, Zenon
  <2>6. QED BY <2>1, <2>2, <2>5, Zenon
<1>10. m \in [Stage -> Seq(Picture(n))] /\ m[t] = w /\ \A s \in Stage \ {t} : m[s] = l[s]
  BY <1>1, <1>8
<1> HIDE DEF m
<1>11. Typed(r, m)
  BY <1>6, <1>10 DEF Typed, SameButRef
<1>12. Once(m)
  BY <1>1, <1>9, <1>10, ZenonT(60) DEF Once
<1>13. PocsDiffer(r)
  BY <1>1, <1>6 DEF PocsDiffer, SameButRef
<1>14. AllFit(r, m)
  <2>1. \A s \in Stage : \A i \in DOMAIN l[s] : Fits(r, l[s][i])
    <3> SUFFICES ASSUME NEW s \in Stage, NEW i \in DOMAIN l[s] PROVE Fits(r, l[s][i])
      OBVIOUS
    <3>1. l[s][i] \in Picture(n) /\ Fits(sh, l[s][i])
      BY <1>1 DEF AllFit
    <3>2. /\ l[s][i].id \in DOMAIN sh
          /\ \A x \in Slots : l[s][i].prev[x] # Null => l[s][i].prev[x] \in DOMAIN sh
      BY <1>1, <3>1 DEF Picture, Null
    <3>3. QED BY <1>6, <3>1, <3>2 DEF Fits, IsBack, SameButRef
  <2>2. Fits(r, pic)
    <3>1. \A x \in Slots : pic.prev[x] # Null => pic.prev[x] \in DOMAIN sh
      BY <1>1, <1>2 DEF Picture, Null
    <3>2. r[id].poc = pic.poc /\ r[id].prev = pic.prev
      BY <1>2, <1>6 DEF SameButRef
    <3>3. \A x \in Slots : IsBack(r, pic.prev[x], pic.poc, x)
      BY <1>2, <1>6, <3>1 DEF IsBack, SameButRef
    <3>4. QED BY <1>2, <3>2, <3>3 DEF Fits
  <2>3. \A p, q : Kin(p, q) /\ Fits(r, p) => Fits(r, q)
    BY DEF Kin, Fits
  <2>4. \A i \in DOMAIN w : Fits(r, w[i])
    BY <1>9, <2>1, <2>2, <2>3
  <2>5. QED BY <1>10, <2>1, <2>4 DEF AllFit
<1>15. ASSUME NEW k \in DOMAIN sh PROVE r[k].ref = Cardinality(UsesOf(m, n, k))
  <2>1. ASSUME NEW s \in Stage, NEW d \in 1 .. n, NEW x \in 0 .. NumPrev
        PROVE  /\ Uses(m, k, s, d, x) <=> Uses(l, k, s, d, x) \/ <<s, <<d, x>>>> \in T(k)
               /\ ~(Uses(l, k, s, d, x) /\ <<s, <<d, x>>>> \in T(k))
    <3>1. <<s, <<d, x>>>> \in T(k) <=> s = t /\ d = id /\ Use(pic, x) = k
      <4>1. <<s, <<d, x>>>> \in UseSpace(n)
        BY IsUse, <1>1
      <4>2. QED BY <1>2, <4>1 DEF NewUses
    <3>2. CASE s # t
      BY <1>10, <3>1, <3>2 DEF Uses
    <3>3. CASE s = t
      <4>1. Uses(m, k, t, d, x) <=> \E a \in DOMAIN w : w[a].id = d /\ Use(w[a], x) = k
        BY <1>10 DEF Uses
      <4>2. Uses(l, k, t, d, x) <=> \E a \in DOMAIN l[t] : l[t][a].id = d /\ Use(l[t][a], x) = k
        BY DEF Uses
      <4>3. \A p, q : Kin(p, q) => q.id = p.id /\ Use(q, x) = Use(p, x)
        BY DEF Kin, Use
      <4>4. (\E a \in DOMAIN w : w[a].id = d /\ Use(w[a], x) = k) <=>
              \/ \E a \in DOMAIN l[t] : l[t][a].id = d /\ Use(l[t][a], x) = k
              \/ pic.id = d /\ Use(pic, x) = k
        BY <1>9, <4>3
      <4>5. QED BY <1>2, <3>1, <3>3, <4>1, <4>2, <4>4
    <3>4. QED BY <3>2, <3>3
  <2>2. Adds(l, m, n, k, T(k))
    BY <1>3, <2>1 DEF Adds
  <2>3. /\ Cardinality(UsesOf(m, n, k)) = Cardinality(UsesOf(l, n, k)) + Cardinality(T(k))
    <3> HIDE DEF T
    <3>1. QED BY <1>1, <2>2, UsesAdded
  <2>4. sh[k].ref = Cardinality(UsesOf(l, n, k))
    BY <1>1 DEF Exact
  <2>5. r[k].ref = sh[k].ref + Cardinality(T(k))
    BY <1>6, <1>7 DEF SameButRef
  <2> HIDE DEF T
  <2>6. QED BY <2>3, <2>4, <2>5
<1>16. Exact(r, m)
  BY <1>6, <1>15 DEF Exact, SameButRef
<1>17. Sharing(r, m)
  BY <1>11, <1>12, <1>13, <1>14, <1>16 DEF Sharing
<1>18. QED BY <1>6, <1>8, <1>17 DEF r, m, w, pic

-----------------------------------------------------------------------------
(* An input picture gets a buffer that no stage uses, or a new one. *)

LEMMA LargerTypes ==
  ASSUME NEW n \in Nat, NEW N \in Nat, n <= N
  PROVE  Buffer(n) \subseteq Buffer(N) /\ Picture(n) \subseteq Picture(N)
<1>1. 0 .. n \subseteq 0 .. N /\ 1 .. n \subseteq 1 .. N
  OBVIOUS
<1>2. [Slots -> 0 .. n] \subseteq [Slots -> 0 .. N]
  BY <1>1
<1>3. Buffer(n) \subseteq Buffer(N)
  BY <1>2 DEF Buffer
<1>4. Picture(n) \subseteq Picture(N)
  BY <1>1, <1>2 DEF Picture
<1>5. QED BY <1>3, <1>4

Unread(l, id) ==
  \A s \in Stage : \A i \in DOMAIN l[s] : l[s][i].id # id /\ \A x \in Slots : l[s][i].prev[x] # id

LEMMA UnusedIsUnread ==
  ASSUME NEW sh, NEW l, Sharing(sh, l), NEW id \in 1 .. Len(sh) + 1,
         id \in DOMAIN sh => sh[id].ref = 0
  PROVE  Unread(l, id)
<1> DEFINE n == Len(sh)
<1>1. /\ Exact(sh, l) /\ n \in Nat /\ DOMAIN sh = 1 .. n
      /\ \A s \in Stage : \A i \in DOMAIN l[s] : l[s][i] \in Picture(n)
  BY Lengths DEF Sharing
<1> SUFFICES ASSUME NEW s \in Stage, NEW i \in DOMAIN l[s]
             PROVE  l[s][i].id # id /\ \A x \in Slots : l[s][i].prev[x] # id
  BY DEF Unread
<1>2. l[s][i].id \in 1 .. n /\ \A x \in Slots : l[s][i].prev[x] \in 0 .. n
  BY <1>1 DEF Picture
<1>3. CASE id = n + 1
  BY <1>1, <1>2, <1>3
<1>4. CASE id \in 1 .. n
  <2>1. Cardinality(UsesOf(l, n, id)) = 0
    BY <1>1, <1>4 DEF Exact
  <2>2. UsesOf(l, n, id) = {}
    BY <1>1, <2>1, UsesFinite, FS_EmptySet
  <2>3. \A x \in 0 .. NumPrev : ~Uses(l, id, s, l[s][i].id, x)
    BY <1>1, <1>2, <2>2, IsUse, ZenonT(60)
  <2>4. \A x \in 0 .. NumPrev : Use(l[s][i], x) # id
    BY <2>3 DEF Uses
  <2>5. Use(l[s][i], 0) = l[s][i].id /\ \A x \in Slots : Use(l[s][i], x) = l[s][i].prev[x]
    BY SlotsAre DEF Use
  <2>6. 0 \in 0 .. NumPrev /\ Slots \subseteq 0 .. NumPrev
    BY SlotsAre
  <2>7. QED BY <2>4, <2>5, <2>6
<1>5. QED BY <1>1, <1>3, <1>4

LEMMA FreshBuffer ==
  ASSUME NEW sh, NEW l, Sharing(sh, l), NEW id \in 1 .. Len(sh) + 1, Unread(l, id),
         NEW buf, buf \in Buffer(Len(sh)), buf.ref = 0, buf.prev = NoLinks,
         \A k \in DOMAIN sh : sh[k].poc # buf.poc
  PROVE  LET sh2 == IF id \in DOMAIN sh THEN [sh EXCEPT ![id] = buf] ELSE Append(sh, buf)
         IN  /\ Sharing(sh2, l) /\ id \in DOMAIN sh2 /\ sh2[id] = buf
             /\ DOMAIN sh2 = DOMAIN sh \union {id}
             /\ \A k \in DOMAIN sh : k # id => sh2[k] = sh[k]
<1> DEFINE n == Len(sh)
           sh2 == IF id \in DOMAIN sh THEN [sh EXCEPT ![id] = buf] ELSE Append(sh, buf)
           N == Len(sh2)
<1>1. /\ Typed(sh, l) /\ Once(l) /\ PocsDiffer(sh) /\ AllFit(sh, l) /\ Exact(sh, l)
      /\ n \in Nat /\ DOMAIN sh = 1 .. n /\ sh \in Seq(Buffer(n))
      /\ \A k \in DOMAIN sh : sh[k] \in Buffer(n)
      /\ \A s \in Stage : \A i \in DOMAIN l[s] : l[s][i] \in Picture(n)
      /\ l \in [Stage -> Seq(Picture(n))] /\ \A s \in Stage : l[s] \in Seq(Picture(n))
  BY Lengths DEF Sharing, Typed
<1>2. /\ sh2 \in Seq(Buffer(n)) /\ N \in Nat /\ n <= N /\ sh2[id] = buf
      /\ DOMAIN sh2 = DOMAIN sh \union {id} /\ DOMAIN sh2 = 1 .. N
      /\ \A k \in DOMAIN sh : k # id => sh2[k] = sh[k]
  <2>1. CASE id \in DOMAIN sh
    <3>1. sh2 = [sh EXCEPT ![id] = buf]
      BY <2>1
    <3> HIDE DEF sh2, n
    <3>2. QED BY <1>1, <2>1, <3>1
  <2>2. CASE id \notin DOMAIN sh
    <3>1. sh2 = Append(sh, buf) /\ id = n + 1
      <4>1. sh2 = Append(sh, buf)
        BY <2>2
      <4> HIDE DEF sh2
      <4>2. QED BY <1>1, <2>2, <4>1
    <3>2. sh2 \in Seq(Buffer(n)) /\ Len(sh2) = n + 1 /\ DOMAIN sh2 = 1 .. n + 1 /\ sh2[n + 1] = buf
          /\ \A k \in 1 .. n : sh2[k] = sh[k]
      <4> HIDE DEF sh2
      <4>1. QED BY <1>1, <3>1
    <3> HIDE DEF sh2, n
    <3>3. QED BY <1>1, <2>2, <3>1, <3>2
  <2>3. QED BY <2>1, <2>2
<1> HIDE DEF sh2
<1>3. Buffer(n) \subseteq Buffer(N) /\ Picture(n) \subseteq Picture(N)
  BY <1>1, <1>2, LargerTypes
<1>4. Typed(sh2, l)
  <2>1. sh2 \in Seq(Buffer(N))
    BY <1>2, <1>3
  <2>2. l \in [Stage -> Seq(Picture(N))]
    BY <1>1, <1>3
  <2>3. QED BY <2>1, <2>2 DEF Typed
<1>5. PocsDiffer(sh2)
  BY <1>1, <1>2 DEF PocsDiffer
<1>6. AllFit(sh2, l)
  <2> SUFFICES ASSUME NEW s \in Stage, NEW i \in DOMAIN l[s] PROVE Fits(sh2, l[s][i])
    BY DEF AllFit
  <2>1. /\ l[s][i] \in Picture(n) /\ Fits(sh, l[s][i])
        /\ l[s][i].id # id /\ \A x \in Slots : l[s][i].prev[x] # id
    BY <1>1 DEF AllFit, Unread
  <2>2. /\ l[s][i].id \in DOMAIN sh
        /\ \A x \in Slots : l[s][i].prev[x] # Null => l[s][i].prev[x] \in DOMAIN sh
    BY <1>1, <2>1 DEF Picture, Null
  <2>3. QED BY <1>2, <2>1, <2>2 DEF Fits, IsBack
<1>7. Exact(sh2, l)
  <2> SUFFICES ASSUME NEW k \in DOMAIN sh2 PROVE sh2[k].ref = Cardinality(UsesOf(l, N, k))
    BY DEF Exact
  <2>1. CASE k = id
    <3>1. \A s \in Stage, i \in 1 .. N, x \in 0 .. NumPrev : ~Uses(l, k, s, i, x)
      BY <2>1, SlotsAre DEF Unread, Uses, Use
    <3>2. UsesOf(l, N, k) = {}
      BY <3>1 DEF UsesOf, UseSpace
    <3>3. QED BY <1>2, <2>1, <3>2, FS_EmptySet
  <2>2. CASE k # id
    <3>1. k \in DOMAIN sh /\ sh2[k] = sh[k]
      BY <1>2, <2>2
    <3>2. \A s \in Stage : \A i, x : Uses(l, k, s, i, x) => i \in 1 .. n
      BY <1>1 DEF Uses, Picture
    <3>3. 1 .. n \subseteq 1 .. N
      BY <1>1, <1>2
    <3>4. UsesOf(l, N, k) = UsesOf(l, n, k)
      BY <3>2, <3>3 DEF UsesOf, UseSpace
    <3>5. QED BY <1>1, <3>1, <3>4 DEF Exact
  <2>3. QED BY <2>1, <2>2
<1>8. Sharing(sh2, l)
  BY <1>1, <1>4, <1>5, <1>6, <1>7 DEF Sharing
<1>9. QED BY <1>2, <1>8 DEF sh2

-----------------------------------------------------------------------------
(* A picture goes to another stage. *)

SameBuffers(sh, r) ==
  /\ Len(r) = Len(sh) /\ DOMAIN r = DOMAIN sh
  /\ \A k \in DOMAIN sh : r[k].poc = sh[k].poc /\ r[k].prev = sh[k].prev

(* Stage t, or none (0), has taken the picture id from the state st. *)
Added(st, r, id, t, flush) ==
  /\ r = [shared |-> r.shared, list |-> r.list, picCount |-> r.picCount, failed |-> r.failed]
  /\ Sharing(r.shared, r.list)
  /\ SameBuffers(st.shared, r.shared)
  /\ \A u \in Stage \ {t} : r.list[u] = st.list[u]
  /\ t # 0 => \E at \in 1 .. Len(st.list[t]) + 1 :
                InsertedAt(r.list[t], st.list[t], NewPic(st.shared, id, flush), at)
  /\ \A n \in GopStages : r.picCount[n] = st.picCount[n] + (IF n = t THEN 1 ELSE 0)

LEMMA AddFirst ==
  ASSUME NEW sh, NEW l, NEW f, NEW c \in [GopStages -> Int], Sharing(sh, l),
         NEW s \in 1 .. LastStage + 1, NEW id \in DOMAIN sh, NEW flush \in BOOLEAN,
         \A u \in s .. LastStage : \A i \in DOMAIN l[u] : l[u][i].id # id,
         \A x \in Slots : IsBack(sh, sh[id].prev[x], sh[id].poc, x)
  PROVE  LET st == [shared |-> sh, list |-> l, failed |-> f, picCount |-> c]
         IN  \E t \in {0} \union (s .. LastStage) :
               /\ Added(st, AddPicSorted(st, id, s, flush), id, t, flush)
               /\ s <= LastStage /\ Takes(s, sh[id].poc) => t = s
<1> DEFINE st == [shared |-> sh, list |-> l, failed |-> f, picCount |-> c]
           r == AddPicSorted(st, id, s, flush)
           takers == {t \in s .. LastStage : Takes(t, sh[id].poc)}
           t == CHOOSE x \in takers : \A y \in takers : x <= y
<1>1. LastStage \in Int /\ s .. LastStage \subseteq Stage /\ Stage \subseteq Nat
  BY StagesAre DEF Stage
<1>2. CASE takers = {}
  <2>1. r = st
    BY <1>2 DEF AddPicSorted
  <2>2. SameBuffers(sh, sh)
    BY DEF SameBuffers
  <2>3. \A n \in GopStages : c[n] + (IF n = 0 THEN 1 ELSE 0) = c[n]
    <3>1. \A n \in GopStages : n # 0
      BY <1>1, StagesAre DEF Stage
    <3>2. QED BY <3>1
  <2>4. Added(st, st, id, 0, flush)
    BY <2>2, <2>3 DEF Added
  <2>5. s <= LastStage => ~Takes(s, sh[id].poc)
    BY <1>1, <1>2
  <2>6. QED BY <2>1, <2>4, <2>5
<1>3. CASE takers # {}
  <2>1. t \in takers
    <3>1. takers \subseteq Nat
      BY <1>1
    <3> HIDE DEF takers
    <3>2. \E x \in takers : \A y \in takers : x <= y
      BY <1>3, <3>1, LeastNumber
    <3>3. QED BY <3>2
  <2>2. t \in s .. LastStage /\ t \in Stage /\ t # 0
    <3> HIDE DEF t
    <3>1. QED BY <1>1, <2>1 DEF Stage
  <2>10. s <= LastStage /\ Takes(s, sh[id].poc) => t = s
    <3> SUFFICES ASSUME s <= LastStage, Takes(s, sh[id].poc) PROVE t = s
      OBVIOUS
    <3>1. s \in takers /\ takers \subseteq Nat /\ takers # {}
      BY <1>1
    <3> HIDE DEF takers
    <3>2. \E x \in takers : \A y \in takers : x <= y
      BY <3>1, LeastNumber
    <3>3. \A y \in takers : t <= y
      BY <3>2
    <3> HIDE DEF t
    <3>4. QED BY <1>1, <2>2, <3>1, <3>3
  <2> DEFINE new == Insert(t, l[t], NewPic(sh, id, flush))
  <2>3. r = [shared |-> ShareData(sh, id), list |-> [l EXCEPT ![t] = new.pics],
             picCount |-> [n \in GopStages |-> c[n] + (IF n = t THEN 1 ELSE 0)],
             failed |-> f \union new.failed]
    BY <1>3 DEF AddPicSorted
  <2> HIDE DEF t, r, takers
  <2>4. /\ Sharing(ShareData(sh, id), [l EXCEPT ![t] = new.pics])
        /\ \E b : SameButRef(sh, ShareData(sh, id), b)
        /\ \E at \in 1 .. Len(l[t]) + 1 : InsertedAt(new.pics, l[t], NewPic(sh, id, flush), at)
    BY <2>2, AddShares
  <2>5. SameBuffers(sh, ShareData(sh, id))
    BY <2>4 DEF SameButRef, SameBuffers
  <2> HIDE DEF new
  <2>6. /\ r.shared = ShareData(sh, id) /\ r.list = [l EXCEPT ![t] = new.pics]
        /\ r.picCount = [n \in GopStages |-> c[n] + (IF n = t THEN 1 ELSE 0)]
        /\ r = [shared |-> r.shared, list |-> r.list, picCount |-> r.picCount, failed |-> r.failed]
    BY <2>3
  <2>7. r.list[t] = new.pics /\ \A u \in Stage \ {t} : r.list[u] = l[u]
    <3>1. DOMAIN l = Stage
      BY DEF Sharing, Typed
    <3>2. QED BY <2>2, <2>6, <3>1
  <2>8. Added(st, r, id, t, flush)
    BY <2>2, <2>4, <2>5, <2>6, <2>7 DEF Added
  <2>9. QED BY <2>2, <2>8, <2>10 DEF r
<1>4. QED BY <1>2, <1>3

LEMMA AddIs ==
  ASSUME NEW sh, NEW l, NEW f, NEW c \in [GopStages -> Int], Sharing(sh, l),
         NEW s \in 1 .. LastStage + 1, NEW id \in DOMAIN sh, NEW flush \in BOOLEAN,
         \A u \in s .. LastStage : \A i \in DOMAIN l[u] : l[u][i].id # id,
         \A x \in Slots : IsBack(sh, sh[id].prev[x], sh[id].poc, x)
  PROVE  LET st == [shared |-> sh, list |-> l, failed |-> f, picCount |-> c]
         IN  \E t \in {0} \union (s .. LastStage) :
               Added(st, AddPicSorted(st, id, s, flush), id, t, flush)
BY AddFirst

(* What becomes of the pictures of stage s when the one at place done, if  *)
(* any, goes on to stage t, if any, and those at the places free leave.    *)
Passed(sh, l, c, r, done, free, s, t, flush) ==
  /\ "shared" \in DOMAIN r /\ "list" \in DOMAIN r
  /\ Sharing(r.shared, r.list)
  /\ SameBuffers(sh, r.shared)
  /\ \A u \in Stage \ {s, t} : r.list[u] = l[u]
  /\ \A i \in DOMAIN r.list[s] : \E a \in DOMAIN l[s] \ free :
       r.list[s][i] = IF a = done THEN [l[s][a] EXCEPT !.prev = NoLinks] ELSE l[s][a]
  /\ \A a \in DOMAIN l[s] \ free : \E i \in DOMAIN r.list[s] :
       r.list[s][i] = IF a = done THEN [l[s][a] EXCEPT !.prev = NoLinks] ELSE l[s][a]
  /\ t # 0 => /\ done # Null
              /\ \E at \in 1 .. Len(l[t]) + 1 :
                   InsertedAt(r.list[t], l[t], NewPic(sh, l[s][done].id, flush), at)
  /\ \A n \in GopStages : r.picCount[n] = c[n] + (IF n = t THEN 1 ELSE 0)

(* The two halves of Forward.                                              *)
Held(l, s, done) == IF done = Null THEN l[s] ELSE [l[s] EXCEPT ![done].prev = NoLinks]

Sent(sh, l, f, c, s, done, flush) ==
  IF done = Null THEN [shared |-> sh, list |-> l, failed |-> f, picCount |-> c]
  ELSE AddPicSorted([shared |-> ReleasePrev(sh, {l[s][done]}),
                     list |-> [l EXCEPT ![s] = Held(l, s, done)],
                     failed |-> f, picCount |-> c], l[s][done].id, s + 1, flush)

FreedFrom(r, sent, held, free, s) ==
  r = [sent EXCEPT !.shared = ReleaseShared(sent.shared, {held[i] : i \in free}),
                   !.list = [sent.list EXCEPT ![s] = Without(held, free)]]

LEMMA ForwardOpens ==
  ASSUME NEW sh, NEW l, NEW f, NEW c, NEW s, NEW done, NEW free, NEW flush
  PROVE  FreedFrom(Forward([shared |-> sh, list |-> l, failed |-> f, picCount |-> c],
                           done, free, s, flush),
                   Sent(sh, l, f, c, s, done, flush), Held(l, s, done), free, s)
<1> DEFINE st == [shared |-> sh, list |-> l, failed |-> f, picCount |-> c]
           r == Forward(st, done, free, s, flush)
           pics == l[s]
           held == IF done = Null THEN pics ELSE [pics EXCEPT ![done].prev = NoLinks]
           sh1 == ReleasePrev(sh, {pics[done]})
           l1 == [l EXCEPT ![s] = held]
           st1 == [shared |-> sh1, list |-> l1, failed |-> f, picCount |-> c]
           sent == IF done = Null THEN st ELSE AddPicSorted(st1, pics[done].id, s + 1, flush)
<1>1. [st EXCEPT !.shared = ReleasePrev(st.shared, {pics[done]}), !.list[s] = held]
        = [shared |-> ReleasePrev(st.shared, {pics[done]}), list |-> [st.list EXCEPT ![s] = held],
           failed |-> f, picCount |-> c]
  <2> DEFINE X == ReleasePrev(st.shared, {pics[done]})
             q == [st EXCEPT !.shared = X]
  <2>1. q = [shared |-> X, list |-> l, failed |-> f, picCount |-> c]
    <3> HIDE DEF X
    <3>1. QED OBVIOUS
  <2>2. [q EXCEPT !.list[s] = held]
          = [shared |-> X, list |-> [l EXCEPT ![s] = held], failed |-> f, picCount |-> c]
    <3> HIDE DEF X, held, q
    <3>1. QED BY <2>1
  <2>3. st.list = l
    OBVIOUS
  <2>4. [st EXCEPT !.shared = X, !.list[s] = held] = [q EXCEPT !.list[s] = held]
    <3> HIDE DEF X, held
    <3>1. QED OBVIOUS
  <2> HIDE DEF X, held, st, q
  <2>5. QED BY <2>2, <2>3, <2>4 DEF X
<1>2. st.shared = sh /\ st.list = l
  OBVIOUS
<1>3. Forward(st, done, free, s, flush) =
        LET p == st.list[s]
            h == IF done = Null THEN p ELSE [p EXCEPT ![done].prev = NoLinks]
            se == IF done = Null THEN st
                  ELSE AddPicSorted([st EXCEPT !.shared = ReleasePrev(st.shared, {p[done]}),
                                               !.list[s] = h],
                                    p[done].id, s + 1, flush)
        IN  [se EXCEPT !.shared = ReleaseShared(se.shared, {h[i] : i \in free}),
                       !.list = [se.list EXCEPT ![s] = Without(h, free)]]
  BY DEF Forward
<1>4. sent = IF done = Null THEN st
             ELSE AddPicSorted([st EXCEPT !.shared = ReleasePrev(st.shared, {pics[done]}),
                                          !.list[s] = held],
                               pics[done].id, s + 1, flush)
  BY <1>1, <1>2
<1>5. st.list[s] = pics
  OBVIOUS
<1>6. FreedFrom(r, sent, held, free, s)
  <2> HIDE DEF st, sent
  <2>1. r = [sent EXCEPT !.shared = ReleaseShared(sent.shared, {held[i] : i \in free}),
                         !.list = [sent.list EXCEPT ![s] = Without(held, free)]]
    BY <1>3, <1>4, <1>5
  <2> HIDE DEF r, held
  <2>2. QED BY <2>1 DEF FreedFrom
<1>7. sent = Sent(sh, l, f, c, s, done, flush) /\ held = Held(l, s, done)
  <2>1. held = Held(l, s, done)
    BY DEF Held
  <2> HIDE DEF held
  <2>2. QED BY <2>1 DEF Sent
<1>8. r = Forward([shared |-> sh, list |-> l, failed |-> f, picCount |-> c], done, free, s, flush)
  OBVIOUS
<1> HIDE DEF r, sent, held
<1>9. QED BY <1>6, <1>7, <1>8

LEMMA ForwardIs ==
  ASSUME NEW sh, NEW l, NEW f, NEW c \in [GopStages -> Int], Sharing(sh, l),
         NEW s \in Stage, NEW done, done = Null \/ done \in DOMAIN l[s],
         NEW free \in SUBSET DOMAIN l[s], NEW flush \in BOOLEAN,
         done # Null =>
           /\ \A u \in s + 1 .. LastStage : \A i \in DOMAIN l[u] : l[u][i].id # l[s][done].id
           /\ \A x \in Slots : IsBack(sh, sh[l[s][done].id].prev[x], sh[l[s][done].id].poc, x)
  PROVE  LET st == [shared |-> sh, list |-> l, failed |-> f, picCount |-> c]
         IN  \E t \in {0} \union (s + 1 .. LastStage) :
               Passed(sh, l, c, Forward(st, done, free, s, flush), done, free, s, t, flush)
<1> DEFINE st == [shared |-> sh, list |-> l, failed |-> f, picCount |-> c]
           pics == l[s]
           held == IF done = Null THEN pics ELSE [pics EXCEPT ![done].prev = NoLinks]
           sh1 == ReleasePrev(sh, {pics[done]})
           l1 == [l EXCEPT ![s] = held]
           st1 == [shared |-> sh1, list |-> l1, failed |-> f, picCount |-> c]
           sent == IF done = Null THEN st ELSE AddPicSorted(st1, pics[done].id, s + 1, flush)
           r == Forward(st, done, free, s, flush)
<1>1. /\ s \in Nat /\ s > 0 /\ LastStage \in Nat /\ s + 1 \in 1 .. LastStage + 1
      /\ s + 1 .. LastStage \subseteq Stage \ {s} /\ l \in [Stage -> Seq(Picture(Len(sh)))]
      /\ 0 \notin Stage /\ s \notin s + 1 .. LastStage
  BY StagesAre DEF Stage, Sharing, Typed
<1>2. r = [sent EXCEPT !.shared = ReleaseShared(sent.shared, {held[i] : i \in free}),
                       !.list = [sent.list EXCEPT ![s] = Without(held, free)]]
  <2>1. sent = Sent(sh, l, f, c, s, done, flush) /\ held = Held(l, s, done)
    <3>1. held = Held(l, s, done)
      BY DEF Held
    <3> HIDE DEF held
    <3>2. QED BY <3>1 DEF Sent
  <2>2. r = Forward([shared |-> sh, list |-> l, failed |-> f, picCount |-> c], done, free, s, flush)
    OBVIOUS
  <2> HIDE DEF r, sent, held
  <2>3. FreedFrom(r, sent, held, free, s)
    BY <2>1, <2>2, ForwardOpens
  <2>4. QED BY <2>3 DEF FreedFrom
<1> HIDE DEF r
<1>3. \E t \in {0} \union (s + 1 .. LastStage) :
        /\ t # 0 => done # Null
        /\ sent = [shared |-> sent.shared, list |-> sent.list, picCount |-> sent.picCount,
                   failed |-> sent.failed]
        /\ Sharing(sent.shared, sent.list)
        /\ SameBuffers(sh, sent.shared)
        /\ sent.list[s] = held
        /\ \A u \in Stage \ {s, t} : sent.list[u] = l[u]
        /\ t # 0 => \E at \in 1 .. Len(l[t]) + 1 :
                      InsertedAt(sent.list[t], l[t], NewPic(sh, pics[done].id, flush), at)
        /\ \A n \in GopStages : sent.picCount[n] = c[n] + (IF n = t THEN 1 ELSE 0)
  <2>1. CASE done = Null
    <3>1. sent = st /\ held = pics
      BY <2>1
    <3>2. \A n \in GopStages : n # 0
      BY <1>1, StagesAre
    <3>3. SameBuffers(sh, sh)
      BY DEF SameBuffers
    <3>4. st.shared = sh /\ st.list = l /\ st.picCount = c /\ st.failed = f
      OBVIOUS
    <3> HIDE DEF sent, held
    <3>5. QED BY <3>1, <3>2, <3>3, <3>4
  <2>2. CASE done # Null
    <3> DEFINE id == pics[done].id
    <3>1. /\ Sharing(sh1, l1) /\ \E b : SameButRef(sh, sh1, b)
          /\ l1[s] = held /\ \A u \in Stage \ {s} : l1[u] = l[u]
      <4>1. held = [l[s] EXCEPT ![done].prev = NoLinks]
        BY <2>2
      <4>2. l1 = [l EXCEPT ![s] = [l[s] EXCEPT ![done].prev = NoLinks]]
        BY <4>1
      <4>3. l1[s] = held /\ \A u \in Stage \ {s} : l1[u] = l[u]
        BY <1>1
      <4>4. done \in DOMAIN l[s]
        BY <2>2
      <4> HIDE DEF l1, held
      <4>5. QED BY <4>2, <4>3, <4>4, DropShares, ZenonT(60)
    <3>2. SameBuffers(sh, sh1)
      BY <3>1 DEF SameButRef, SameBuffers
    <3>3. id \in DOMAIN sh
      <4>1. pics[done] \in Picture(Len(sh)) /\ DOMAIN sh = 1 .. Len(sh)
        BY <2>2, Lengths DEF Sharing
      <4>2. QED BY <4>1 DEF Picture
    <3>4. sent = AddPicSorted(st1, id, s + 1, flush)
      BY <2>2
    <3>5. \A u \in s + 1 .. LastStage : \A i \in DOMAIN l1[u] : l1[u][i].id # id
      BY <1>1, <2>2, <3>1
    <3>6. \A x \in Slots : IsBack(sh1, sh1[id].prev[x], sh1[id].poc, x)
      <4>1. \A x \in Slots : sh[id].prev[x] # Null => sh[id].prev[x] \in DOMAIN sh
        <5>1. sh[id] \in Buffer(Len(sh)) /\ DOMAIN sh = 1 .. Len(sh)
          BY <3>3, Lengths DEF Sharing
        <5>2. QED BY <5>1, SMTT(30) DEF Buffer, Null
      <4>2. QED BY <2>2, <3>2, <3>3, <4>1 DEF SameBuffers, IsBack
    <3>7. id \in DOMAIN sh1
      BY <3>2, <3>3 DEF SameBuffers
    <3> HIDE DEF sent, l1, sh1, held
    <3>8. PICK t \in {0} \union (s + 1 .. LastStage) : Added(st1, sent, id, t, flush)
      <4> HIDE DEF id
      <4>1. QED BY <1>1, <3>1, <3>4, <3>5, <3>6, <3>7, AddIs
    <3>9. NewPic(sh1, id, flush) = NewPic(sh, id, flush)
      BY <3>2, <3>3 DEF NewPic, SameBuffers
    <3>10. st1.shared = sh1 /\ st1.list = l1 /\ st1.picCount = c
      OBVIOUS
    <3> HIDE DEF st1, id
    <3>11. SameBuffers(sh, sent.shared)
      BY <3>2, <3>8, <3>10 DEF Added, SameBuffers
    <3>12. t # s /\ (t # 0 => t \in Stage \ {s})
      BY <1>1
    <3>13. sent.list[s] = held /\ \A u \in Stage \ {s, t} : sent.list[u] = l[u]
      BY <3>1, <3>8, <3>10, <3>12 DEF Added
    <3>14. t # 0 => l1[t] = l[t]
      BY <3>1, <3>12
    <3>15. QED BY <2>2, <3>8, <3>9, <3>10, <3>11, <3>13, <3>14 DEF Added, id
  <2>3. QED BY <2>1, <2>2
<1>4. /\ DOMAIN held = DOMAIN l[s]
      /\ \A a \in DOMAIN l[s] :
           held[a] = IF a = done THEN [l[s][a] EXCEPT !.prev = NoLinks] ELSE l[s][a]
  <2>1. 0 \notin DOMAIN l[s]
    <3>1. DOMAIN l[s] = 1 .. Len(l[s])
      BY Lengths DEF Sharing
    <3>2. QED BY <3>1
  <2>2. QED BY <2>1 DEF Null
<1> HIDE DEF sent, held, st
<1>5. PICK t \in {0} \union (s + 1 .. LastStage) :
        /\ t # 0 => done # Null
        /\ sent = [shared |-> sent.shared, list |-> sent.list, picCount |-> sent.picCount,
                   failed |-> sent.failed]
        /\ Sharing(sent.shared, sent.list)
        /\ SameBuffers(sh, sent.shared)
        /\ sent.list[s] = held
        /\ \A u \in Stage \ {s, t} : sent.list[u] = l[u]
        /\ t # 0 => \E at \in 1 .. Len(l[t]) + 1 :
                      InsertedAt(sent.list[t], l[t], NewPic(sh, pics[done].id, flush), at)
        /\ \A n \in GopStages : sent.picCount[n] = c[n] + (IF n = t THEN 1 ELSE 0)
  BY <1>3
<1>6. /\ r.shared = ReleaseShared(sent.shared, {sent.list[s][i] : i \in free})
      /\ r.list = [sent.list EXCEPT ![s] = Without(sent.list[s], free)]
      /\ r.picCount = sent.picCount /\ "shared" \in DOMAIN r /\ "list" \in DOMAIN r
  BY <1>2, <1>5
<1>7. /\ Sharing(r.shared, r.list) /\ \E b : SameButRef(sent.shared, r.shared, b)
  <2>1. free \in SUBSET DOMAIN sent.list[s]
    BY <1>4, <1>5
  <2> DEFINE P == {sent.list[s][i] : i \in free}
             A == ReleaseShared(sent.shared, P)
             B == [sent.list EXCEPT ![s] = Without(sent.list[s], free)]
  <2>2. Sharing(A, B) /\ \E b : SameButRef(sent.shared, A, b)
    <3>1. PicsAt(sent.list[s], free, P)
      BY <2>1 DEF PicsAt
    <3>2. Sharing(sent.shared, sent.list) /\ s \in Stage
      BY <1>5
    <3> HIDE DEF P
    <3>3. QED BY <3>1, <3>2, RemoveShares
  <2>3. r.shared = A /\ r.list = B
    BY <1>6
  <2> HIDE DEF A, B
  <2>4. QED BY <2>2, <2>3
<1>8. SameBuffers(sh, r.shared)
  BY <1>5, <1>7 DEF SameBuffers, SameButRef
<1>9. r.list[s] = Without(held, free) /\ \A u \in Stage \ {s} : r.list[u] = sent.list[u]
  <2>1. DOMAIN sent.list = Stage
    BY <1>5 DEF Sharing, Typed
  <2>2. QED BY <1>5, <1>6, <2>1
<1>10. /\ \A i \in DOMAIN r.list[s] : \E a \in DOMAIN held \ free : r.list[s][i] = held[a]
       /\ \A a \in DOMAIN held \ free : \E i \in DOMAIN r.list[s] : r.list[s][i] = held[a]
  <2>1. sent.list[s] \in Seq(Picture(Len(sent.shared)))
    BY <1>5, Lengths DEF Sharing
  <2>2. held \in Seq(Picture(Len(sent.shared)))
    BY <1>5, <2>1
  <2>3. QED BY <1>9, <2>2, WithoutIs
<1>11. t # s /\ (t # 0 => t \in Stage \ {s})
  BY <1>1
<1>12. Passed(sh, l, c, r, done, free, s, t, flush)
  BY <1>4, <1>5, <1>6, <1>7, <1>8, <1>9, <1>10, <1>11 DEF Passed
<1>13. QED BY <1>12 DEF r, st

(* A picture that goes on is not yet sent from where it comes to. *)
LEMMA PassedUnsent ==
  ASSUME NEW sh, NEW l, NEW c, NEW r, NEW s \in Stage, NEW done, NEW free, NEW flush \in BOOLEAN,
         NEW t \in {0} \union (s + 1 .. LastStage), NEW U, NEW V,
         Sharing(sh, l), Passed(sh, l, c, r, done, free, s, t, flush), UnsentFit(sh, l, U),
         done = Null \/ done \in DOMAIN l[s],
         done # Null => /\ l[s][done].id \notin U[s]
                        /\ \A u \in Stage : s < u =>
                             \A i \in DOMAIN l[u] : l[u][i].id # l[s][done].id,
         \A u \in Stage : \A i \in DOMAIN r.list[u] : r.list[u][i].id \in V[u] =>
           \/ r.list[u][i].id \in U[u]
           \/ u = t /\ r.list[u][i].id = l[s][done].id
  PROVE  /\ UnsentFit(r.shared, r.list, V)
         /\ NoneLinked(l[1]) => NoneLinked(r.list[1])
<1> DEFINE d == l[s][done].id
           new == NewPic(sh, d, flush)
<1>1. /\ Stage \subseteq Int /\ s + 1 .. LastStage \subseteq Stage
      /\ 1 \in Stage /\ \A u \in Stage : u # 0 /\ 1 <= u
      /\ t # 0 => t \in Stage /\ t # s /\ s < t /\ t # 1
  BY StagesAre DEF Stage
<1>2. /\ Len(sh) \in Nat /\ sh \in Seq(Buffer(Len(sh))) /\ DOMAIN sh = 1 .. Len(sh)
      /\ \A u \in Stage : /\ l[u] \in Seq(Picture(Len(sh))) /\ DOMAIN l[u] = 1 .. Len(l[u])
                          /\ \A i \in DOMAIN l[u] : l[u][i] \in Picture(Len(sh))
                          /\ \A i \in DOMAIN l[u] : l[u][i].id \in DOMAIN sh
  <2>1. /\ Len(sh) \in Nat /\ sh \in Seq(Buffer(Len(sh))) /\ DOMAIN sh = 1 .. Len(sh)
        /\ \A u \in Stage : /\ l[u] \in Seq(Picture(Len(sh))) /\ DOMAIN l[u] = 1 .. Len(l[u])
                            /\ \A i \in DOMAIN l[u] : l[u][i] \in Picture(Len(sh))
    BY Lengths DEF Sharing, Typed
  <2>2. QED BY <2>1 DEF Picture
<1>3. t # 0 => /\ done # Null /\ d \in DOMAIN sh /\ new \in Picture(Len(sh))
               /\ new.id = d /\ new.prev = sh[d].prev
  <2>1. t # 0 => done # Null /\ done \in DOMAIN l[s]
    BY DEF Passed
  <2>2. QED BY <1>2, <2>1, NewPicIs
<1> HIDE DEF new
<1>4. t # 0 => \A i \in DOMAIN r.list[t] :
                 r.list[t][i] = new \/ \E j \in DOMAIN l[t] : Kin(l[t][j], r.list[t][i])
  <2> SUFFICES ASSUME t # 0
               PROVE  \A i \in DOMAIN r.list[t] :
                        r.list[t][i] = new \/ \E j \in DOMAIN l[t] : Kin(l[t][j], r.list[t][i])
    OBVIOUS
  <2>1. PICK at \in 1 .. Len(l[t]) + 1 : InsertedAt(r.list[t], l[t], new, at)
    BY DEF Passed, new
  <2>2. /\ r.list[t] \in Seq(Picture(Len(r.shared)))
        /\ Len(r.shared) = Len(sh)
    BY <1>1, Lengths DEF Passed, Sharing, SameBuffers
  <2> DEFINE n == Len(sh)
  <2>3. /\ n \in Nat /\ l[t] \in Seq(Picture(n)) /\ new \in Picture(n)
        /\ r.list[t] \in Seq(Picture(n))
    BY <1>1, <1>2, <1>3, <2>2
  <2> HIDE DEF n
  <2>4. QED BY <2>1, <2>3, InsertedMembers
(* What a stage then has, it had before, but for the picture taken. *)
<1>5. ASSUME NEW u \in Stage, NEW i \in DOMAIN r.list[u]
      PROVE  \/ u = t /\ r.list[u][i] = new
             \/ \E j \in DOMAIN l[u] : /\ l[u][j].id = r.list[u][i].id
                                       /\ u # s => r.list[u][i].prev = l[u][j].prev
                                       /\ u = s => /\ j = done => r.list[u][i].prev = NoLinks
                                                   /\ j # done => r.list[u][i].prev = l[u][j].prev
  <2>1. CASE u = t
    <3>1. t # 0 /\ t # s
      BY <1>1, <2>1
    <3>2. r.list[t][i] = new \/ \E j \in DOMAIN l[t] : Kin(l[t][j], r.list[t][i])
      BY <1>4, <2>1, <3>1
    <3>3. QED BY <2>1, <3>1, <3>2 DEF Kin
  <2>2. CASE u = s
    <3>1. PICK a \in DOMAIN l[s] :
            r.list[s][i] = IF a = done THEN [l[s][a] EXCEPT !.prev = NoLinks] ELSE l[s][a]
      BY <2>2 DEF Passed
    <3>2. l[s][a] \in Picture(Len(sh))
      BY <1>2
    <3>3. /\ [l[s][a] EXCEPT !.prev = NoLinks].id = l[s][a].id
          /\ [l[s][a] EXCEPT !.prev = NoLinks].prev = NoLinks
      BY <3>2 DEF Picture
    <3>4. QED BY <2>2, <3>1, <3>3
  <2>3. CASE u # s /\ u # t
    <3>1. r.list[u] = l[u]
      BY <2>3 DEF Passed
    <3>2. QED BY <2>3, <3>1
  <2>4. QED BY <2>1, <2>2, <2>3
<1>6. ASSUME NEW u \in Stage, NEW i \in DOMAIN r.list[u], r.list[u][i].id \in V[u]
      PROVE  /\ \A v \in Stage : u < v => \A j \in DOMAIN r.list[v] : r.list[v][j].id # r.list[u][i].id
             /\ r.list[u][i].prev = r.shared[r.list[u][i].id].prev
  <2> DEFINE id == r.list[u][i].id
  <2>1. CASE u = t /\ r.list[u][i] = new
    <3>1. t # 0 /\ id = d /\ d \in DOMAIN sh
      BY <1>1, <1>3, <2>1
    <3>2. r.shared[d].prev = new.prev
      BY <1>3, <3>1 DEF Passed, SameBuffers
    <3>3. ASSUME NEW v \in Stage, u < v, NEW j \in DOMAIN r.list[v] PROVE r.list[v][j].id # id
      <4>1. v # t /\ v # s /\ s < v
        BY <1>1, <2>1, <3>1, <3>3
      <4>2. r.list[v] = l[v]
        BY <4>1 DEF Passed
      <4>3. QED BY <1>3, <3>1, <3>3, <4>1, <4>2
    <3>4. QED BY <2>1, <3>1, <3>2, <3>3
  <2>2. CASE ~(u = t /\ r.list[u][i] = new)
    <3>1. PICK j \in DOMAIN l[u] :
            /\ l[u][j].id = id
            /\ u # s => r.list[u][i].prev = l[u][j].prev
            /\ u = s => /\ j = done => r.list[u][i].prev = NoLinks
                        /\ j # done => r.list[u][i].prev = l[u][j].prev
      BY <1>5, <2>2
    <3>2. id \in U[u]
      <4>1. CASE u = t /\ id = d
        <5>1. t # 0 /\ s < u
          BY <1>1, <4>1
        <5>2. QED BY <1>3, <3>1, <4>1, <5>1
      <4>2. QED BY <1>6, <4>1
    <3>3. /\ \A v \in Stage : u < v => \A k \in DOMAIN l[v] : l[v][k].id # id
          /\ l[u][j].prev = sh[id].prev
      BY <3>1, <3>2 DEF UnsentFit
    <3>4. id \in DOMAIN sh
      BY <1>2, <3>1
    <3>5. u = s => j # done
      <4> SUFFICES ASSUME u = s, j = done PROVE FALSE
        OBVIOUS
      <4>1. done # Null
        BY <1>2 DEF Null
      <4>2. QED BY <3>1, <3>2, <4>1
    <3>6. r.list[u][i].prev = sh[id].prev
      BY <3>1, <3>3, <3>5
    <3>7. r.list[u][i].prev = r.shared[id].prev
      BY <3>4, <3>6 DEF Passed, SameBuffers
    <3>8. ASSUME NEW v \in Stage, u < v, NEW k \in DOMAIN r.list[v], r.list[v][k].id = id PROVE FALSE
      <4>1. v = t /\ r.list[v][k] = new
        BY <1>5, <3>3, <3>8
      <4>2. t # 0 /\ id = d /\ done # Null /\ done \in DOMAIN l[s]
        BY <1>1, <1>3, <3>8, <4>1
      <4>3. u < s \/ u = s \/ s < u
        BY <1>1
      <4>4. CASE u < s
        BY <3>3, <4>2, <4>4
      <4>5. CASE u = s
        BY <3>2, <4>2, <4>5
      <4>6. CASE s < u
        BY <3>1, <4>2, <4>6
      <4>7. QED BY <4>3, <4>4, <4>5, <4>6
    <3>9. QED BY <3>7, <3>8
  <2>3. QED BY <2>1, <2>2
<1>7. UnsentFit(r.shared, r.list, V)
  BY <1>6 DEF UnsentFit
<1>8. NoneLinked(l[1]) => NoneLinked(r.list[1])
  <2>1. 1 # t
    BY <1>1
  <2>2. QED BY <1>1, <1>5, <2>1 DEF NoneLinked
<1>9. QED BY <1>7, <1>8

(* What the accounts of an EncGOP are about. *)
Like(p, q) ==
  /\ q.id = p.id /\ q.poc = p.poc
  /\ (q.isInitDone <=> p.isInitDone) /\ (q.isFinished <=> p.isFinished)

LEMMA UninitializedIs ==
  ASSUME NEW pics, NEW id
  PROVE  id \in Uninitialized(pics) <=> \E i \in DOMAIN pics : pics[i].id = id /\ ~pics[i].isInitDone
BY DEF Uninitialized

LEMMA UninitializedFinite ==
  ASSUME NEW n \in Nat, NEW pics \in Seq(Picture(n))
  PROVE  IsFiniteSet(Uninitialized(pics)) /\ Cardinality(Uninitialized(pics)) \in Nat
<1>1. \A i \in DOMAIN pics : pics[i].id \in 1 .. n
  <2>1. \A i \in DOMAIN pics : pics[i] \in Picture(n)
    OBVIOUS
  <2>2. QED BY <2>1 DEF Picture
<1>2. Uninitialized(pics) \in SUBSET (1 .. n)
  BY <1>1 DEF Uninitialized
<1>3. IsFiniteSet(1 .. n)
  BY FS_Interval
<1>4. QED BY <1>2, <1>3, FS_Subset, FS_CardinalityType

LEMMA AccountedLeft ==
  ASSUME NEW n \in Nat, NEW pics \in Seq(Picture(n)), NEW r \in Seq(Picture(n)), NEW free,
         NEW out \in Seq(Int), NEW coded, NEW count, Accounted(pics, out, coded, count),
         \A i \in DOMAIN r : \E a \in DOMAIN pics \ free : Like(pics[a], r[i]),
         \A a \in DOMAIN pics \ free : \E i \in DOMAIN r : Like(pics[a], r[i]),
         \A a \in DOMAIN pics : a \in free =>
           pics[a].isInitDone /\ \A b \in DOMAIN out : out[b] # pics[a].poc
  PROVE  Accounted(r, out, coded, count)
<1>1. Uninitialized(r) = Uninitialized(pics)
  <2>1. ASSUME NEW id \in Uninitialized(r) PROVE id \in Uninitialized(pics)
    <3>1. PICK i \in DOMAIN r : r[i].id = id /\ ~r[i].isInitDone
      BY UninitializedIs
    <3>2. PICK a \in DOMAIN pics \ free : Like(pics[a], r[i])
      OBVIOUS
    <3>3. pics[a].id = id /\ ~pics[a].isInitDone
      BY <3>1, <3>2 DEF Like
    <3>4. QED BY <3>3, UninitializedIs
  <2>2. ASSUME NEW id \in Uninitialized(pics) PROVE id \in Uninitialized(r)
    <3>1. PICK a \in DOMAIN pics : pics[a].id = id /\ ~pics[a].isInitDone
      BY UninitializedIs
    <3>2. PICK i \in DOMAIN r : Like(pics[a], r[i])
      BY <3>1
    <3>3. r[i].id = id /\ ~r[i].isInitDone
      BY <3>1, <3>2 DEF Like
    <3>4. QED BY <3>3, UninitializedIs
  <2>3. QED BY <2>1, <2>2
<1>2. ASSUME NEW a \in DOMAIN out
      PROVE  \E i \in DOMAIN r : r[i].poc = out[a] /\ r[i].isInitDone /\ ~r[i].isFinished
  <2>1. PICK i \in DOMAIN pics : pics[i].poc = out[a] /\ pics[i].isInitDone /\ ~pics[i].isFinished
    BY DEF Accounted
  <2>2. PICK j \in DOMAIN r : Like(pics[i], r[j])
    BY <2>1
  <2>3. r[j].poc = out[a] /\ r[j].isInitDone /\ ~r[j].isFinished
    BY <2>1, <2>2 DEF Like
  <2>4. QED BY <2>3
<1>3. \A i \in DOMAIN r : r[i].isFinished => r[i].isInitDone
  BY DEF Accounted, Like
<1>4. QED BY <1>1, <1>2, <1>3 DEF Accounted

LEMMA OneMore ==
  ASSUME NEW A, NEW B, NEW e, e \in A, \A x : x \in A => x \in B \union {e},
         \A x : x \in B => x \in A
  PROVE  A = B \union {e}
OBVIOUS

LEMMA AccountedInsert ==
  ASSUME NEW n \in Nat, NEW pics \in Seq(Picture(n)), NEW r \in Seq(Picture(n)),
         NEW new \in Picture(n), NEW at \in 1 .. Len(pics) + 1, InsertedAt(r, pics, new, at),
         ~new.isInitDone, ~new.isFinished, \A i \in DOMAIN pics : pics[i].id # new.id,
         NEW out \in Seq(Int), NEW coded \in Int, NEW count \in Int,
         Accounted(pics, out, coded, count)
  PROVE  Accounted(r, out, coded, count + 1)
<1>1. /\ \A i \in DOMAIN r : r[i] = new \/ \E j \in DOMAIN pics : Kin(pics[j], r[i])
      /\ \A j \in DOMAIN pics : \E i \in DOMAIN r : Kin(pics[j], r[i])
      /\ \E i \in DOMAIN r : r[i] = new
  BY InsertedMembers
<1>2. Uninitialized(r) = Uninitialized(pics) \union {new.id}
  <2>1. ASSUME NEW id \in Uninitialized(r) PROVE id \in Uninitialized(pics) \union {new.id}
    <3>1. PICK i \in DOMAIN r : r[i].id = id /\ ~r[i].isInitDone
      BY UninitializedIs
    <3>2. CASE r[i] = new
      BY <3>1, <3>2
    <3>3. CASE \E j \in DOMAIN pics : Kin(pics[j], r[i])
      <4>1. PICK j \in DOMAIN pics : Kin(pics[j], r[i])
        BY <3>3
      <4>2. pics[j].id = id /\ ~pics[j].isInitDone
        BY <3>1, <4>1 DEF Kin
      <4>3. QED BY <4>2, UninitializedIs
    <3>4. QED BY <1>1, <3>2, <3>3
  <2>2. ASSUME NEW id \in Uninitialized(pics) PROVE id \in Uninitialized(r)
    <3>1. PICK a \in DOMAIN pics : pics[a].id = id /\ ~pics[a].isInitDone
      BY UninitializedIs
    <3>2. PICK i \in DOMAIN r : Kin(pics[a], r[i])
      BY <1>1
    <3>3. r[i].id = id /\ ~r[i].isInitDone
      BY <3>1, <3>2 DEF Kin
    <3>4. QED BY <3>3, UninitializedIs
  <2>3. new.id \in Uninitialized(r)
    BY <1>1, UninitializedIs
  <2>4. \A id : id \in Uninitialized(r) => id \in Uninitialized(pics) \union {new.id}
    BY <2>1
  <2>5. \A id : id \in Uninitialized(pics) => id \in Uninitialized(r)
    BY <2>2
  <2>6. QED BY <2>3, <2>4, <2>5, OneMore
<1>3. new.id \notin Uninitialized(pics)
  <2>1. \A id \in Uninitialized(pics) : \E i \in DOMAIN pics : pics[i].id = id
    BY UninitializedIs
  <2>2. QED BY <2>1
<1>4. Cardinality(Uninitialized(r)) = Cardinality(Uninitialized(pics)) + 1
  BY <1>2, <1>3, UninitializedFinite, FS_AddElement
<1>5. ASSUME NEW a \in DOMAIN out
      PROVE  \E i \in DOMAIN r : r[i].poc = out[a] /\ r[i].isInitDone /\ ~r[i].isFinished
  <2>1. PICK i \in DOMAIN pics : pics[i].poc = out[a] /\ pics[i].isInitDone /\ ~pics[i].isFinished
    BY DEF Accounted
  <2>2. PICK j \in DOMAIN r : Kin(pics[i], r[j])
    BY <1>1
  <2>3. r[j].poc = out[a] /\ r[j].isInitDone /\ ~r[j].isFinished
    BY <2>1, <2>2 DEF Kin
  <2>4. QED BY <2>3
<1>6. \A i \in DOMAIN r : r[i].isFinished => r[i].isInitDone
  BY <1>1 DEF Accounted, Kin
<1>7. count + 1 = coded + Len(out) + Cardinality(Uninitialized(r))
  <2>1. count = coded + Len(out) + Cardinality(Uninitialized(pics))
    BY DEF Accounted
  <2>2. Len(out) \in Nat /\ Cardinality(Uninitialized(pics)) \in Nat
    BY UninitializedFinite
  <2>3. QED BY <1>4, <2>1, <2>2
<1>8. QED BY <1>5, <1>6, <1>7 DEF Accounted

(* The picture at place done, if any, is no longer unsent, and no later    *)
(* stage has it; those at the places free are through.                     *)
Passable(sh, l, last, next, g, s, done, free) ==
  /\ done = Null \/ done \in DOMAIN l[s]
  /\ free \subseteq DOMAIN l[s]
  /\ done # Null =>
       /\ ~Unsent(s, l[s][done], last, next, g)
       /\ \A u \in Stage : s < u => \A i \in DOMAIN l[u] : l[u][i].id # l[s][done].id
       /\ \A x \in Slots : IsBack(sh, sh[l[s][done].id].prev[x], sh[l[s][done].id].poc, x)
  /\ s \in GopStages => \A a \in DOMAIN l[s] : a \in free =>
       l[s][a].isInitDone /\ \A b \in DOMAIN g[s].out : g[s].out[b] # l[s][a].poc

Counts(g) == [u \in GopStages |-> g[u].picCount]

LEMMA PassedAccounted ==
  ASSUME NEW sh, NEW l, NEW r, NEW s \in Stage, NEW done, NEW free, NEW flush \in BOOLEAN,
         NEW t \in {0} \union (s + 1 .. LastStage), NEW last, NEW next, NEW g,
         Sharing(sh, l), AllAccounted(g, l), Passable(sh, l, last, next, g, s, done, free),
         Passed(sh, l, Counts(g), r, done, free, s, t, flush)
  PROVE  \A u \in GopStages : Accounted(r.list[u], g[u].out, g[u].coded, r.picCount[u])
<1> DEFINE c == Counts(g)
<1>1. /\ done = Null \/ done \in DOMAIN l[s]
      /\ done # Null => \A u \in Stage : s < u => \A i \in DOMAIN l[u] : l[u][i].id # l[s][done].id
      /\ s \in GopStages => \A a \in DOMAIN l[s] : a \in free =>
           l[s][a].isInitDone /\ \A b \in DOMAIN g[s].out : g[s].out[b] # l[s][a].poc
  BY DEF Passable
<1>2. \A u \in GopStages : /\ g[u].out \in Seq(Int) /\ g[u].coded \in Int /\ c[u] \in Int
                            /\ Accounted(l[u], g[u].out, g[u].coded, c[u])
  BY DEF AllAccounted, IsEncGop, Counts
<1>3. Passed(sh, l, c, r, done, free, s, t, flush)
  OBVIOUS
<1> HIDE DEF c
<1> SUFFICES ASSUME NEW u \in GopStages
             PROVE  Accounted(r.list[u], g[u].out, g[u].coded, r.picCount[u])
  OBVIOUS
<1> DEFINE n == Len(sh)
<1>4. /\ u \in Stage /\ (t # 0 => t \in Stage /\ t # s /\ s < t) /\ u # 0
  BY StagesAre DEF Stage
<1>5. /\ n \in Nat /\ l[u] \in Seq(Picture(n)) /\ r.list[u] \in Seq(Picture(n))
      /\ sh \in Seq(Buffer(n)) /\ DOMAIN sh = 1 .. n
      /\ \A i \in DOMAIN l[u] : l[u][i] \in Picture(n)
  BY <1>4, Lengths DEF Passed, Sharing, Typed, SameBuffers
<1>6. /\ g[u].out \in Seq(Int) /\ g[u].coded \in Int /\ c[u] \in Int
      /\ Accounted(l[u], g[u].out, g[u].coded, c[u])
  BY <1>2
<1>7. r.picCount[u] = c[u] + (IF u = t THEN 1 ELSE 0)
  BY <1>3 DEF Passed
<1>8. CASE u = t
  <2> DEFINE d == l[s][done].id
             new == NewPic(sh, d, flush)
  <2>1. done # Null /\ done \in DOMAIN l[s] /\ t # 0
    BY <1>1, <1>3, <1>4, <1>8 DEF Passed
  <2>2. d \in DOMAIN sh
    <3>1. l[s][done] \in Picture(n)
      BY <2>1, Lengths DEF Sharing
    <3>2. QED BY <1>5, <3>1 DEF Picture
  <2>3. new \in Picture(n) /\ new.id = d /\ ~new.isInitDone /\ ~new.isFinished
    BY <1>5, <2>2, NewPicIs
  <2>4. PICK at \in 1 .. Len(l[u]) + 1 : InsertedAt(r.list[u], l[u], new, at)
    BY <1>3, <1>4, <1>8 DEF Passed
  <2>5. \A i \in DOMAIN l[u] : l[u][i].id # new.id
    BY <1>1, <1>4, <1>8, <2>1, <2>3
  <2> HIDE DEF n, new
  <2>6. Accounted(r.list[u], g[u].out, g[u].coded, c[u] + 1)
    BY <1>5, <1>6, <2>3, <2>4, <2>5, AccountedInsert
  <2>7. QED BY <1>7, <1>8, <2>6
<1>9. CASE u = s
  <2>1. \A p \in Picture(n) : Like(p, p) /\ Like(p, [p EXCEPT !.prev = NoLinks])
    BY DEF Like, Picture
  <2>2. \A a \in DOMAIN l[s] :
          Like(l[s][a], IF a = done THEN [l[s][a] EXCEPT !.prev = NoLinks] ELSE l[s][a])
    BY <1>5, <1>9, <2>1
  <2>3. /\ \A i \in DOMAIN r.list[s] : \E a \in DOMAIN l[s] \ free : Like(l[s][a], r.list[s][i])
        /\ \A a \in DOMAIN l[s] \ free : \E i \in DOMAIN r.list[s] : Like(l[s][a], r.list[s][i])
    <3> DEFINE held(a) == IF a = done THEN [l[s][a] EXCEPT !.prev = NoLinks] ELSE l[s][a]
    <3>1. /\ \A i \in DOMAIN r.list[s] : \E a \in DOMAIN l[s] \ free : r.list[s][i] = held(a)
          /\ \A a \in DOMAIN l[s] \ free : \E i \in DOMAIN r.list[s] : r.list[s][i] = held(a)
      BY <1>3 DEF Passed
    <3>2. \A a \in DOMAIN l[s] : Like(l[s][a], held(a))
      BY <2>2
    <3> HIDE DEF held
    <3>3. QED BY <3>1, <3>2
  <2>4. \A a \in DOMAIN l[s] : a \in free =>
          l[s][a].isInitDone /\ \A b \in DOMAIN g[s].out : g[s].out[b] # l[s][a].poc
    BY <1>1, <1>9
  <2> HIDE DEF n
  <2>5. Accounted(r.list[s], g[s].out, g[s].coded, c[s])
    BY <1>5, <1>6, <1>9, <2>3, <2>4, AccountedLeft
  <2>6. u # t
    BY <1>4, <1>9
  <2>7. QED BY <1>6, <1>7, <1>9, <2>5, <2>6
<1>10. CASE u # t /\ u # s
  <2>1. r.list[u] = l[u]
    BY <1>3, <1>4, <1>10 DEF Passed
  <2>2. QED BY <1>6, <1>7, <1>10, <2>1
<1>11. QED BY <1>8, <1>9, <1>10

-----------------------------------------------------------------------------
(* A step of the encoder.  Its configuration does not change, and so       *)
(* neither do the stages.                                                  *)

LEMMA SameStages ==
  ASSUME conf' = conf
  PROVE  Stages' = Stages /\ LastStage' = LastStage /\ Stage' = Stage /\ GopStages' = GopStages
<1>1. Stages' = Stages
  BY DEF Stages
<1>2. LastStage' = LastStage
  BY <1>1 DEF LastStage
<1>3. QED BY <1>1, <1>2 DEF Stage, GopStages

LEMMA SharingNext ==
  ASSUME conf' = conf, Sharing(shared', list')
  PROVE  Sharing(shared, list)'
<1>1. Stage' = Stage
  BY SameStages
<1>2. Typed(shared, list)' /\ Once(list)' /\ PocsDiffer(shared)' /\ AllFit(shared, list)'
  BY <1>1 DEF Sharing, Typed, Once, PocsDiffer, AllFit, Fits, IsBack, Picture, Buffer
<1>3. ASSUME NEW k PROVE UsesOf(list, Len(shared), k)' = UsesOf(list', Len(shared'), k)
  <2>1. UseSpace(Len(shared))' = UseSpace(Len(shared'))
    BY <1>1 DEF UseSpace
  <2>2. QED BY <2>1 DEF UsesOf, Uses, Use
<1>4. Exact(shared, list)'
  BY <1>3 DEF Exact, Sharing
<1>5. QED BY <1>2, <1>4 DEF Sharing

LEMMA PipelineNext ==
  ASSUME conf' = conf, Pipeline(shared', list', pre'.lastPoc, mctf'.filterPoc, gop')
  PROVE  Pipeline(shared, list, pre.lastPoc, mctf.filterPoc, gop)'
<1>1. Stage' = Stage /\ Stages' = Stages /\ GopStages' = GopStages
  BY SameStages
<1>2. Sharing(shared, list)'
  BY SharingNext DEF Pipeline
<1>3. UnsentIds(list, pre.lastPoc, mctf.filterPoc, gop)'
        = UnsentIds(list', pre'.lastPoc, mctf'.filterPoc, gop')
  BY <1>1 DEF UnsentIds, Unsent, IsGop
<1>4. UnsentFit(shared, list, UnsentIds(list, pre.lastPoc, mctf.filterPoc, gop))'
  BY <1>1, <1>3 DEF Pipeline, UnsentFit
<1>5. NoneLinked(list[1])' /\ AllAccounted(gop, list)'
  BY <1>1 DEF Pipeline, NoneLinked, AllAccounted, IsEncGop, Accounted, Uninitialized
<1>6. QED BY <1>2, <1>4, <1>5 DEF Pipeline

LEMMA NextInv ==
  ASSUME PipeInv, conf' = conf, Pipeline(shared', list', pre'.lastPoc, mctf'.filterPoc, gop'),
         PocsPast', Driving(main', list'),
         pre'.lastPoc \in Int, mctf'.filterPoc \in Int, app'.passed \in Nat
  PROVE  PipeInv'
<1>1. Stage' = Stage /\ Stages' = Stages /\ GopStages' = GopStages
  BY SameStages
<1>2. Driving(main, list)'
  BY <1>1 DEF Driving
<1>3. conf' \in Configs
  BY DEF PipeInv
<1>4. QED BY <1>2, <1>3, PipelineNext DEF PipeInv

(* The encoder's thread goes on, and does nothing to the stages.           *)
LEMMA IdleInv ==
  ASSUME PipeInv, UNCHANGED <<conf, shared, list, pre, mctf, gop>>, app'.passed = app.passed,
         Driving(main', list)
  PROVE  PipeInv'
<1>1. PocsPast'
  BY DEF PipeInv, PocsPast, PicsRcvd
<1>2. QED BY <1>1, NextInv DEF PipeInv

LEMMA CallDrives ==
  ASSUME NEW flush \in BOOLEAN, Call(flush)
  PROVE  Driving(main', list)
BY DEF Call, Driving, Places, NoPic

LEMMA EncodeInv ==
  ASSUME PipeInv, Encode
  PROVE  PipeInv'
<1>1. Driving(main', list)
  BY CallDrives DEF Encode
<1>2. app'.passed = app.passed
  BY DEF Encode
<1>3. QED BY <1>1, <1>2, IdleInv DEF Encode

LEMMA FlushInv ==
  ASSUME PipeInv, Flush
  PROVE  PipeInv'
<1>1. Driving(main', list)
  BY CallDrives DEF Flush
<1>2. app'.passed = app.passed
  BY DEF Flush
<1>3. QED BY <1>1, <1>2, IdleInv DEF Flush

LEMMA StopEncodingInv ==
  ASSUME PipeInv, StopEncoding
  PROVE  PipeInv'
<1>1. main' = [main EXCEPT !.at = main'.at] /\ main'.at \in {"output", "block"} /\ main.at = "code"
  BY DEF StopEncoding, PipeInv, Driving
<1>2. Driving(main', list)
  BY <1>1 DEF PipeInv, Driving, Places
<1>3. QED BY <1>2, IdleInv DEF StopEncoding

LEMMA WakeUpInv ==
  ASSUME PipeInv, WakeUp
  PROVE  PipeInv'
<1>1. CASE main.at = "wait"
  <2>1. main' = [main EXCEPT !.at = "top"]
    BY <1>1 DEF WakeUp, PipeInv, Driving
  <2>2. Driving(main', list)
    BY <2>1 DEF PipeInv, Driving, Places
  <2>3. QED BY <2>2, IdleInv DEF WakeUp
<1>2. CASE main.at = "block"
  <2>1. main' = [main EXCEPT !.at = "code"]
    BY <1>2 DEF WakeUp, PipeInv, Driving
  <2>2. Driving(main', list)
    BY <1>2, <2>1 DEF PipeInv, Driving, Places
  <2>3. QED BY <2>2, IdleInv DEF WakeUp
<1>3. QED BY <1>1, <1>2 DEF WakeUp

LEMMA CollectInv ==
  ASSUME PipeInv, Collect
  PROVE  PipeInv'
<1>1. /\ main' = [main EXCEPT !.au = NoPic, !.stage = 0, !.at = main'.at]
      /\ main'.at \in {"return", "wait", "top"}
  BY DEF Collect, PipeInv, Driving
<1>2. Driving(main', list)
  <2> DEFINE at == main'.at
  <2>1. main' = [main EXCEPT !.au = NoPic, !.stage = 0, !.at = at] /\ at \in {"return", "wait", "top"}
    BY <1>1
  <2> HIDE DEF at
  <2>2. at \in Places /\ NoPic \in Int
    BY <2>1 DEF Places, NoPic
  <2>3. main' \in [at : Places, stage : Int, flush : BOOLEAN, pending : BOOLEAN, au : Int,
                   empty : BOOLEAN]
    <3> DEFINE Main == [at : Places, stage : Int, flush : BOOLEAN, pending : BOOLEAN, au : Int,
                        empty : BOOLEAN]
               one == [main EXCEPT !.au = NoPic]
               two == [one EXCEPT !.stage = 0]
    <3>1. one \in Main
      BY <2>2 DEF PipeInv, Driving
    <3>2. two \in Main
      <4> HIDE DEF one
      <4>1. QED BY <3>1
    <3>3. [two EXCEPT !.at = at] \in Main
      <4> HIDE DEF two
      <4>1. QED BY <2>2, <3>2
    <3>4. main' = [two EXCEPT !.at = at]
      BY <2>1
    <3>5. QED BY <3>3, <3>4
  <2>4. main'.at = at
    BY <2>1 DEF PipeInv, Driving
  <2>5. QED BY <2>1, <2>3, <2>4 DEF Driving
<1>3. QED BY <1>2, IdleInv DEF Collect

LEMMA ReturnInv ==
  ASSUME PipeInv, Return
  PROVE  PipeInv'
<1>1. UNCHANGED <<conf, shared, list, pre, mctf, gop>>
  BY DEF Return
<1>2. CASE Call(TRUE) /\ UNCHANGED app
  <2>1. Driving(main', list)
    BY <1>2, CallDrives
  <2>2. QED BY <1>1, <1>2, <2>1, IdleInv
<1>3. CASE main' = [main EXCEPT !.at = "app"] /\ app'.passed = app.passed
  <2>1. Driving(main', list)
    BY <1>3 DEF PipeInv, Driving, Places
  <2>2. QED BY <1>1, <1>3, <2>1, IdleInv
<1>4. (Call(TRUE) /\ UNCHANGED app)
        \/ (main' = [main EXCEPT !.at = "app"] /\ app'.passed = app.passed)
  <2> DEFINE out   == auList.started /\ auList.aus # <<>>
             aus   == IF out THEN Tail(auList.aus) ELSE auList.aus
             empty == main.empty /\ aus = <<>>
             again == ~Final /\ main.flush /\ ~empty
  <2>1. CASE again
    BY <2>1 DEF Return
  <2>2. CASE ~again
    <3>1. /\ main' = [main EXCEPT !.at = "app"]
          /\ \E fits \in {TRUE, ~conf.smallPayload} :
               app' = [app EXCEPT
                         !.got   = IF out /\ Final /\ fits THEN Append(@, Head(auList.aus)) ELSE @,
                         !.done  = empty /\ app.state # "ENCODING",
                         !.state = IF empty /\ @ = "FLUSHING" THEN "FINALIZED" ELSE @]
      BY <2>2 DEF Return
    <3> HIDE DEF out, empty
    <3>2. QED BY <3>1
  <2>3. QED BY <2>1, <2>2
<1>5. QED BY <1>2, <1>3, <1>4

(* The steps that leave the pictures where they are.                       *)
LEMMA UnsentIdIs ==
  ASSUME NEW l, Once(l), NEW s \in Stage, NEW i \in DOMAIN l[s], NEW last, NEW next, NEW g
  PROVE  l[s][i].id \in UnsentIds(l, last, next, g)[s] <=> Unsent(s, l[s][i], last, next, g)
<1>1. UnsentIds(l, last, next, g)[s]
        = {l[s][j].id : j \in {k \in DOMAIN l[s] : Unsent(s, l[s][k], last, next, g)}}
  BY DEF UnsentIds
<1>2. \A j \in DOMAIN l[s] : l[s][j].id = l[s][i].id => j = i
  BY DEF Once
<1>3. QED BY <1>1, <1>2

LEMMA AlikeUnsent ==
  ASSUME NEW sh, NEW l, NEW m, Alike(l, m), NEW U, NEW V, UnsentFit(sh, l, U), NoneLinked(l[1]),
         \A s \in Stage : DOMAIN m[s] = DOMAIN l[s],
         \A s \in Stage : \A i \in DOMAIN m[s] : m[s][i].id \in V[s] => l[s][i].id \in U[s]
  PROVE  UnsentFit(sh, m, V) /\ NoneLinked(m[1])
<1>1. NoneLinked(m[1])
  BY StagesAre DEF Alike, NoneLinked, Stage
<1>2. ASSUME NEW s \in Stage, NEW i \in DOMAIN m[s], m[s][i].id \in V[s]
      PROVE  /\ \A t \in Stage : s < t => \A j \in DOMAIN m[t] : m[t][j].id # m[s][i].id
             /\ m[s][i].prev = sh[m[s][i].id].prev
  BY <1>2 DEF Alike, UnsentFit
<1>3. QED BY <1>1, <1>2 DEF UnsentFit

LEMMA LookInv ==
  ASSUME PipeInv, UNCHANGED <<conf, shared, pre, mctf>>, app'.passed = app.passed,
         list' \in [Stage -> Seq(Picture(Len(shared)))], Alike(list, list'),
         \A s \in Stage : \A i \in DOMAIN list'[s] :
           Unsent(s, list'[s][i], pre.lastPoc, mctf.filterPoc, gop')
             => Unsent(s, list[s][i], pre.lastPoc, mctf.filterPoc, gop),
         AllAccounted(gop', list'), Driving(main', list')
  PROVE  PipeInv'
<1>1. Sharing(shared, list) /\ Typed(shared, list) /\ Typed(shared, list')
  BY DEF PipeInv, Pipeline, Sharing, Typed
<1>2. Sharing(shared, list')
  BY <1>1, AlikeShares, AlikeFit DEF Sharing
<1>3. \A s \in Stage : DOMAIN list'[s] = DOMAIN list[s]
  BY <1>1, Lengths DEF Alike
<1> DEFINE U == UnsentIds(list, pre.lastPoc, mctf.filterPoc, gop)
           V == UnsentIds(list', pre.lastPoc, mctf.filterPoc, gop')
<1>4. ASSUME NEW s \in Stage, NEW i \in DOMAIN list'[s], list'[s][i].id \in V[s]
      PROVE  list[s][i].id \in U[s]
  <2>1. Unsent(s, list'[s][i], pre.lastPoc, mctf.filterPoc, gop')
    BY <1>2, <1>4, UnsentIdIs DEF Sharing
  <2>2. Unsent(s, list[s][i], pre.lastPoc, mctf.filterPoc, gop)
    BY <2>1
  <2>3. QED BY <1>1, <1>3, <2>2, UnsentIdIs DEF Sharing
<1>5. UnsentFit(shared, list, U) /\ NoneLinked(list[1])
  BY DEF PipeInv, Pipeline
<1> HIDE DEF U, V
<1>6. UnsentFit(shared, list', V) /\ NoneLinked(list'[1])
  BY <1>3, <1>4, <1>5, AlikeUnsent
<1>7. Pipeline(shared', list', pre'.lastPoc, mctf'.filterPoc, gop')
  BY <1>2, <1>6 DEF Pipeline, V
<1>8. PocsPast'
  BY DEF PipeInv, PocsPast, PicsRcvd
<1>9. QED BY <1>7, <1>8, NextInv DEF PipeInv

(* Those that change nothing of what is accounted for, either.             *)
SameAccount(g, h) ==
  /\ h = [s \in GopStages |-> h[s]]
  /\ \A s \in GopStages : /\ IsEncGop(h[s])
                          /\ h[s].out = g[s].out /\ h[s].coded = g[s].coded
                          /\ h[s].picCount = g[s].picCount

AllLike(l, m) ==
  \A s \in Stage : \A i \in DOMAIN l[s] : Like(l[s][i], m[s][i]) /\ m[s][i].prev = l[s][i].prev

LEMMA LikeAccounted ==
  ASSUME NEW n \in Nat, NEW l \in [Stage -> Seq(Picture(n))], NEW m \in [Stage -> Seq(Picture(n))],
         \A s \in Stage : DOMAIN m[s] = DOMAIN l[s], AllLike(l, m),
         NEW g, NEW h, AllAccounted(g, l), SameAccount(g, h)
  PROVE  AllAccounted(h, m)
<1>1. ASSUME NEW s \in GopStages
      PROVE  Accounted(m[s], h[s].out, h[s].coded, h[s].picCount)
  <2>1. s \in Stage /\ l[s] \in Seq(Picture(n)) /\ m[s] \in Seq(Picture(n))
    BY StagesAre
  <2>2. /\ g[s].out \in Seq(Int) /\ Accounted(l[s], g[s].out, g[s].coded, g[s].picCount)
        /\ h[s].out = g[s].out /\ h[s].coded = g[s].coded /\ h[s].picCount = g[s].picCount
    BY DEF AllAccounted, IsEncGop, SameAccount
  <2> DEFINE none == {}
             p == l[s]
             q == m[s]
             out == g[s].out
             coded == g[s].coded
             count == g[s].picCount
  <2>3. /\ \A i \in DOMAIN q : \E a \in DOMAIN p \ none : Like(p[a], q[i])
        /\ \A a \in DOMAIN p \ none : \E i \in DOMAIN q : Like(p[a], q[i])
        /\ \A a \in DOMAIN p : a \in none =>
             p[a].isInitDone /\ \A b \in DOMAIN out : out[b] # p[a].poc
        /\ p \in Seq(Picture(n)) /\ q \in Seq(Picture(n))
        /\ out \in Seq(Int) /\ Accounted(p, out, coded, count)
    BY <2>1, <2>2 DEF AllLike
  <2>4. Accounted(q, out, coded, count)
    <3> HIDE DEF none, p, q, out, coded, count
    <3>1. QED BY <2>3, AccountedLeft
  <2>5. QED BY <2>2, <2>4
<1>2. QED BY <1>1 DEF AllAccounted, SameAccount

LEMMA LikeInv ==
  ASSUME PipeInv, UNCHANGED <<conf, shared, pre, mctf>>, app'.passed = app.passed,
         list' \in [Stage -> Seq(Picture(Len(shared)))],
         \A s \in Stage : Len(list'[s]) = Len(list[s]), AllLike(list, list'),
         SameAccount(gop, gop'), Driving(main', list')
  PROVE  PipeInv'
<1>1. Typed(shared, list)
  BY DEF PipeInv, Pipeline, Sharing
<1>2. \A s \in Stage : DOMAIN list'[s] = DOMAIN list[s]
  BY <1>1, Lengths
<1>3. Alike(list, list')
  BY DEF Alike, AllLike, Like
<1>4. AllAccounted(gop', list')
  BY <1>1, <1>2, Lengths, LikeAccounted DEF PipeInv, Pipeline, Typed
<1>5. ASSUME NEW s \in Stage, NEW i \in DOMAIN list'[s],
             Unsent(s, list'[s][i], pre.lastPoc, mctf.filterPoc, gop')
      PROVE  Unsent(s, list[s][i], pre.lastPoc, mctf.filterPoc, gop)
  <2>1. Like(list[s][i], list'[s][i])
    BY <1>2 DEF AllLike
  <2>2. IsGop(s) => gop'[s].out = gop[s].out
    BY DEF IsGop, SameAccount
  <2>3. QED BY <1>5, <2>1, <2>2 DEF Unsent, Like
<1>6. QED BY <1>3, <1>4, <1>5, LookInv

LEMMA NextStageDrives ==
  ASSUME NEW l, Driving(main, l), main.stage \in Stage, NEW pics, NextStage(pics), NEW m
  PROVE  Driving(main', m)
<1> DEFINE Main == [at : Places, stage : Int, flush : BOOLEAN, pending : BOOLEAN, au : Int,
                    empty : BOOLEAN]
           at == IF main.stage < LastStage THEN "run" ELSE "collect"
           one == [main EXCEPT !.at = at]
           two == [one EXCEPT !.stage = @ + 1]
<1>1. main \in Main /\ LastStage \in Int
  BY StagesAre DEF Driving
<1>2. at \in Places
  BY DEF Places
<1>3. one \in Main /\ one.at = at /\ one.stage = main.stage
  <2> HIDE DEF at
  <2>1. QED BY <1>1, <1>2
<1>4. two \in Main /\ two.at = at /\ two.stage = main.stage + 1
  <2> HIDE DEF one, at
  <2>1. QED BY <1>3
<1>5. main' \in Main /\ main'.at = at /\ main'.stage = main.stage + 1
  <2>1. main' = [two EXCEPT !.empty = @ /\ pics = <<>>]
    BY DEF NextStage
  <2> HIDE DEF two, at
  <2>2. QED BY <1>4, <2>1
<1>6. at \in {"run", "collect"} /\ (at = "run" => main.stage + 1 \in Stage)
  BY <1>1 DEF Stage
<1> HIDE DEF at
<1>7. QED BY <1>5, <1>6 DEF Driving

LEMMA AtDrives ==
  ASSUME NEW l, Driving(main, l), NEW at \in Places, main' = [main EXCEPT !.at = at], NEW m,
         at # "run",
         at \in {"pre", "mctf"} => main.stage \in Stage /\ Stages[main.stage] = at,
         at = "pre" => m[main.stage] # <<>>,
         at \in {"la", "gop", "lists", "code", "block", "output"} => main.stage \in GopStages
  PROVE  Driving(main', m)
<1>1. main' \in [at : Places, stage : Int, flush : BOOLEAN, pending : BOOLEAN, au : Int,
                 empty : BOOLEAN]
  BY DEF Driving
<1>2. main'.at = at /\ main'.stage = main.stage
  BY DEF Driving
<1>3. QED BY <1>1, <1>2 DEF Driving

LEMMA MarkedIs ==
  ASSUME NEW n \in Nat, NEW pics \in Seq(Picture(n)), NEW s
  PROVE  /\ Marked(s, pics) \in Seq(Picture(n)) /\ Len(Marked(s, pics)) = Len(pics)
         /\ \A i \in DOMAIN pics : /\ Like(pics[i], Marked(s, pics)[i])
                                   /\ Marked(s, pics)[i].prev = pics[i].prev
<1> DEFINE q == Marked(s, pics)
<1>1. DOMAIN pics = 1 .. Len(pics) /\ Len(pics) \in Nat /\ \A i \in DOMAIN pics : pics[i] \in Picture(n)
  OBVIOUS
<1>2. \A i \in DOMAIN pics : \E b \in BOOLEAN : q[i] = [pics[i] EXCEPT !.isFlush = b]
  <2>1. CASE NonBlocking(s)
    <3>1. \A i \in DOMAIN pics :
            q[i] = [pics[i] EXCEPT !.isFlush = pics[i].isFlush \/ i = Len(pics)]
      BY <2>1 DEF Marked
    <3>2. \A i \in DOMAIN pics : (pics[i].isFlush \/ i = Len(pics)) \in BOOLEAN
      OBVIOUS
    <3>3. QED BY <3>1, <3>2
  <2>2. CASE ~NonBlocking(s)
    BY <2>2 DEF Marked
  <2>3. QED BY <2>1, <2>2
<1>3. ASSUME NEW p \in Picture(n), NEW b \in BOOLEAN, NEW r, r = [p EXCEPT !.isFlush = b]
      PROVE  r \in Picture(n) /\ Like(p, r) /\ r.prev = p.prev
  BY <1>3 DEF Picture, Like
<1>4. \A i \in DOMAIN pics : q[i] \in Picture(n) /\ Like(pics[i], q[i]) /\ q[i].prev = pics[i].prev
  <2> HIDE DEF q
  <2> SUFFICES ASSUME NEW i \in DOMAIN pics
               PROVE  q[i] \in Picture(n) /\ Like(pics[i], q[i]) /\ q[i].prev = pics[i].prev
    OBVIOUS
  <2>1. PICK b \in BOOLEAN : q[i] = [pics[i] EXCEPT !.isFlush = b]
    BY <1>2
  <2>2. pics[i] \in Picture(n)
    BY <1>1
  <2>3. QED BY <1>3, <2>1, <2>2
<1>5. q = [i \in DOMAIN pics |-> q[i]]
  BY DEF Marked
<1> HIDE DEF q
<1>6. q \in [1 .. Len(pics) -> Picture(n)]
  BY <1>1, <1>4, <1>5
<1>7. q \in Seq(Picture(n)) /\ Len(q) = Len(pics)
  BY <1>1, <1>6
<1>8. QED BY <1>4, <1>7 DEF q

LEMMA RunStageInv ==
  ASSUME PipeInv, RunStage
  PROVE  PipeInv'
<1> DEFINE s == main.stage
           n == Len(shared)
           first == main.flush /\ ~seenFlush[s]
           pics == IF first THEN Marked(s, list[s]) ELSE list[s]
           runs == Len(pics) >= MinQueueSize(s) \/ (pics # <<>> /\ main.flush)
<1>1. /\ main.at = "run" /\ UNCHANGED <<conf, shared, pre, mctf, gop, app>>
      /\ list' = [list EXCEPT ![s] = pics]
      /\ IF runs THEN main' = [main EXCEPT !.at = Stages[s]] ELSE NextStage(pics)
  BY DEF RunStage
<1>2. s \in Stage /\ Driving(main, list)
  BY <1>1 DEF PipeInv, Driving
<1>3. list \in [Stage -> Seq(Picture(n))] /\ n \in Nat /\ list[s] \in Seq(Picture(n))
  BY <1>2, Lengths DEF PipeInv, Pipeline, Sharing, Typed
<1>4. pics \in Seq(Picture(n)) /\ Len(pics) = Len(list[s])
      /\ \A i \in DOMAIN list[s] : Like(list[s][i], pics[i]) /\ pics[i].prev = list[s][i].prev
  <2>1. \A i \in DOMAIN list[s] : Like(list[s][i], list[s][i])
    BY DEF Like
  <2>2. QED BY <1>3, <2>1, MarkedIs
<1>5. Driving(main', list')
  <2>1. CASE runs
    <3>1. Stages[s] \in {"pre", "mctf", "la", "gop"} /\ (IsGop(s) <=> Stages[s] \in {"la", "gop"})
      BY <1>2, StagesAre
    <3>2. Stages[s] \in Places /\ Stages[s] # "run"
      BY <3>1 DEF Places
    <3>3. ASSUME Stages[s] = "pre" PROVE list'[s] # <<>>
      <4>1. ~IsGop(s) /\ Stages[s] # "mctf"
        BY <3>1, <3>3
      <4>2. MinQueueSize(s) = 1
        BY <4>1, Zenon DEF MinQueueSize
      <4>3. pics # <<>>
        <5> HIDE DEF pics
        <5>1. QED BY <1>4, <2>1, <4>2
      <4>4. QED BY <1>1, <1>2, <1>3, <4>3
    <3>4. Stages[s] \in {"la", "gop", "lists", "code", "block", "output"} => s \in GopStages
      BY <3>1 DEF IsGop
    <3>5. QED BY <1>1, <1>2, <2>1, <3>2, <3>3, <3>4, AtDrives
  <2>2. CASE ~runs
    BY <1>1, <1>2, <2>2, NextStageDrives
  <2>3. QED BY <2>1, <2>2
<1> HIDE DEF pics
<1>6. /\ list' \in [Stage -> Seq(Picture(n))]
      /\ \A u \in Stage : Len(list'[u]) = Len(list[u])
  BY <1>1, <1>2, <1>3, <1>4
<1>7. AllLike(list, list')
  <2>1. ASSUME NEW u \in Stage, NEW i \in DOMAIN list[u]
        PROVE  Like(list[u][i], list'[u][i]) /\ list'[u][i].prev = list[u][i].prev
    <3>1. CASE u = s
      BY <1>1, <1>3, <1>4, <3>1
    <3>2. CASE u # s
      BY <1>1, <1>3, <3>2 DEF Like
    <3>3. QED BY <3>1, <3>2
  <2>2. QED BY <2>1 DEF AllLike
<1>8. SameAccount(gop, gop')
  BY <1>1 DEF PipeInv, Pipeline, AllAccounted, SameAccount
<1>9. QED BY <1>1, <1>5, <1>6, <1>7, <1>8, LikeInv

LEMMA GetListsInv ==
  ASSUME PipeInv, GetLists
  PROVE  PipeInv'
<1> DEFINE s == main.stage
           at == IF gop'[s].todo = <<>> THEN "output" ELSE "code"
<1>1. /\ UNCHANGED <<conf, shared, list, pre, mctf, app>>
      /\ gop' = [gop EXCEPT ![s] = Listing(s)]
      /\ main' = [main EXCEPT !.at = at]
  BY DEF GetLists
<1>2. s \in GopStages /\ Driving(main, list) /\ AllAccounted(gop, list)
  BY DEF GetLists, AtGop, PipeInv, Pipeline, Driving
<1>3. /\ IsEncGop(Listing(s)) /\ Listing(s).out = gop[s].out /\ Listing(s).coded = gop[s].coded
      /\ Listing(s).picCount = gop[s].picCount
  <2>1. IsEncGop(gop[s])
    BY <1>2 DEF AllAccounted
  <2>2. \E todo, chunk, input :
          Listing(s) = [gop[s] EXCEPT !.todo = todo, !.chunk = chunk, !.input = input]
    <3>1. gop[s] = [gop[s] EXCEPT !.todo = gop[s].todo, !.chunk = gop[s].chunk,
                                  !.input = gop[s].input]
      BY <2>1 DEF IsEncGop, GopFields
    <3>2. CASE Listing(s) = gop[s]
      <4>1. Listing(s) = [gop[s] EXCEPT !.todo = gop[s].todo, !.chunk = gop[s].chunk,
                                        !.input = gop[s].input]
        BY <3>1, <3>2
      <4>2. QED BY <4>1
    <3>3. CASE ~(gop[s].todo # <<>> \/ gop[s].input = <<>>) /\ ~LockStep(s)
      <4>1. Listing(s) = [gop[s] EXCEPT !.todo = gop[s].input, !.input = <<>>]
        BY <3>3 DEF Listing
      <4>2. Listing(s) = [gop[s] EXCEPT !.todo = gop[s].input, !.chunk = gop[s].chunk,
                                        !.input = <<>>]
        BY <2>1, <4>1 DEF IsEncGop, GopFields
      <4>3. QED BY <4>2
    <3>4. CASE ~(gop[s].todo # <<>> \/ gop[s].input = <<>>) /\ LockStep(s) /\ ~(gop[s].chunk # <<>>)
      <4> DEFINE chunk == NextChunk(s)
                 input == SelectSeq(gop[s].input, LAMBDA p : p \notin ToSet(chunk))
      <4>1. Listing(s) = [gop[s] EXCEPT !.todo = chunk, !.chunk = chunk, !.input = input]
        BY <3>4 DEF Listing
      <4>2. QED BY <4>1
    <3>5. \/ Listing(s) = gop[s]
          \/ ~(gop[s].todo # <<>> \/ gop[s].input = <<>>) /\ ~LockStep(s)
          \/ ~(gop[s].todo # <<>> \/ gop[s].input = <<>>) /\ LockStep(s) /\ ~(gop[s].chunk # <<>>)
      BY Zenon DEF Listing
    <3>6. QED BY <3>2, <3>3, <3>4, <3>5
  <2>3. PICK todo, chunk, input :
          Listing(s) = [gop[s] EXCEPT !.todo = todo, !.chunk = chunk, !.input = input]
    BY <2>2
  <2>4. QED BY <2>1, <2>3 DEF IsEncGop, GopFields
<1>4. SameAccount(gop, gop')
  <2>1. gop' = [t \in GopStages |-> gop'[t]]
    BY <1>1, <1>2 DEF AllAccounted
  <2>2. \A t \in GopStages : gop'[t] = IF t = s THEN Listing(s) ELSE gop[t]
    BY <1>1, <1>2 DEF AllAccounted
  <2>3. QED BY <1>2, <1>3, <2>1, <2>2 DEF SameAccount, AllAccounted
<1>5. Driving(main', list')
  <2>1. at \in Places /\ at \in {"output", "code"}
    BY DEF Places
  <2> HIDE DEF at
  <2>2. QED BY <1>1, <1>2, <2>1, AtDrives
<1>6. AllLike(list, list')
  BY <1>1 DEF AllLike, Like
<1>7. list' \in [Stage -> Seq(Picture(Len(shared)))]
  BY <1>1 DEF PipeInv, Pipeline, Sharing, Typed
<1>8. QED BY <1>1, <1>4, <1>5, <1>6, <1>7, LikeInv

(* A picture is marked as reconstructed.                                   *)
MarksReconstructed(l, s, i, m) == m = [l EXCEPT ![s][i].isReconstructed = TRUE]

LEMMA ReconstructedIs ==
  ASSUME NEW sh, NEW l, Typed(sh, l), NEW s \in Stage, NEW i,
         NEW m, MarksReconstructed(l, s, i, m)
  PROVE  /\ Typed(sh, m) /\ AllLike(l, m)
         /\ \A u \in Stage : Len(m[u]) = Len(l[u])
<1> DEFINE n == Len(sh)
           q == [l[s] EXCEPT ![i].isReconstructed = TRUE]
<1>0. n \in Nat /\ l \in [Stage -> Seq(Picture(n))]
  BY Lengths DEF Typed
<1>1. m = [l EXCEPT ![s] = q]
  BY DEF MarksReconstructed
<1> HIDE DEF n
<1>2. DOMAIN l[s] = 1 .. Len(l[s]) /\ Len(l[s]) \in Nat /\ \A j \in DOMAIN l[s] : l[s][j] \in Picture(n)
  BY <1>0
<1>3. q = [j \in DOMAIN l[s] |-> q[j]]
  OBVIOUS
<1>4. \A j \in DOMAIN l[s] : q[j] = IF j = i THEN [l[s][j] EXCEPT !.isReconstructed = TRUE] ELSE l[s][j]
  OBVIOUS
<1>5. ASSUME NEW p \in Picture(n), NEW r, r = [p EXCEPT !.isReconstructed = TRUE]
      PROVE  r \in Picture(n) /\ Like(p, r) /\ r.prev = p.prev
  BY <1>5 DEF Picture, Like
<1>6. \A j \in DOMAIN l[s] : q[j] \in Picture(n) /\ Like(l[s][j], q[j]) /\ q[j].prev = l[s][j].prev
  <2> HIDE DEF q
  <2>1. ASSUME NEW j \in DOMAIN l[s]
        PROVE  q[j] \in Picture(n) /\ Like(l[s][j], q[j]) /\ q[j].prev = l[s][j].prev
    <3>1. CASE j = i
      BY <1>2, <1>4, <1>5, <3>1
    <3>2. CASE j # i
      BY <1>2, <1>4, <3>2 DEF Like
    <3>3. QED BY <3>1, <3>2
  <2>2. QED BY <2>1
<1> HIDE DEF q
<1>7. q \in [1 .. Len(l[s]) -> Picture(n)]
  BY <1>2, <1>3, <1>6
<1>8. q \in Seq(Picture(n)) /\ Len(q) = Len(l[s])
  BY <1>2, <1>7
<1>9. m \in [Stage -> Seq(Picture(n))] /\ m[s] = q /\ \A u \in Stage : u # s => m[u] = l[u]
  BY <1>0, <1>1, <1>8
<1>10. \A u \in Stage : Len(m[u]) = Len(l[u])
  BY <1>8, <1>9
<1>11. ASSUME NEW u \in Stage, NEW j \in DOMAIN l[u]
       PROVE  Like(l[u][j], m[u][j]) /\ m[u][j].prev = l[u][j].prev
  <2>1. CASE u = s
    BY <1>6, <1>9, <2>1
  <2>2. CASE u # s
    BY <1>9, <2>2 DEF Like
  <2>3. QED BY <2>1, <2>2
<1>12. Typed(sh, m)
  BY <1>9 DEF Typed, n
<1>13. QED BY <1>10, <1>11, <1>12 DEF AllLike

LEMMA ReconstructInv ==
  ASSUME PipeInv, NEW t \in GopStages, NEW poc \in gop[t].busy, Reconstruct(t, poc)
  PROVE  PipeInv'
<1> DEFINE i == IndexOf(t, poc)
           at == CASE main.at = "wait" /\ t = LastStage -> "top"
                   [] main.at = "block" /\ t = main.stage -> "code"
                   [] OTHER -> main.at
<1>1. /\ UNCHANGED <<conf, shared, pre, mctf, app>>
      /\ gop' = [gop EXCEPT ![t].busy = @ \ {poc}]
      /\ MarksReconstructed(list, t, i, list')
      /\ main' = [main EXCEPT !.at = at]
  BY DEF Reconstruct, MarksReconstructed
<1>2. t \in Stage /\ Driving(main, list) /\ AllAccounted(gop, list) /\ Typed(shared, list)
  BY Lengths, StagesAre DEF PipeInv, Pipeline, Sharing
<1>3. /\ Typed(shared, list') /\ AllLike(list, list')
      /\ \A u \in Stage : Len(list'[u]) = Len(list[u])
  <2> HIDE DEF at, i
  <2>1. QED BY <1>1, <1>2, ReconstructedIs
<1>4. SameAccount(gop, gop')
  <2>1. gop' = [u \in GopStages |-> gop'[u]]
    BY <1>1, <1>2 DEF AllAccounted
  <2>2. \A u \in GopStages :
          gop'[u] = IF u = t THEN [gop[t] EXCEPT !.busy = @ \ {poc}] ELSE gop[u]
    BY <1>1, <1>2 DEF AllAccounted
  <2>3. IsEncGop(gop[t])
    BY <1>2 DEF AllAccounted
  <2>4. /\ IsEncGop(gop'[t]) /\ gop'[t].out = gop[t].out /\ gop'[t].coded = gop[t].coded
        /\ gop'[t].picCount = gop[t].picCount
    BY <2>2, <2>3 DEF IsEncGop, GopFields
  <2>5. QED BY <1>2, <2>1, <2>2, <2>4 DEF SameAccount, AllAccounted
<1>5. Driving(main', list')
  <2>1. CASE main.at = "wait" /\ t = LastStage
    <3>1. main' = [main EXCEPT !.at = "top"] /\ "top" \in Places
      BY <1>1, <2>1, Zenon DEF Places
    <3>2. QED BY <1>2, <3>1, AtDrives
  <2>2. CASE main.at = "block" /\ t = main.stage
    <3>1. main' = [main EXCEPT !.at = "code"] /\ "code" \in Places
      BY <1>1, <2>2, Zenon DEF Places
    <3>2. QED BY <1>2, <2>2, <3>1, AtDrives
  <2>3. CASE ~(main.at = "wait" /\ t = LastStage) /\ ~(main.at = "block" /\ t = main.stage)
    <3>1. main' = [main EXCEPT !.at = main.at]
      BY <1>1, <2>3, Zenon
    <3>2. main' = main
      BY <1>2, <3>1 DEF Driving
    <3>3. \A u \in Stage : list[u] # <<>> => list'[u] # <<>>
      BY <1>2, <1>3, Lengths
    <3>4. QED BY <1>2, <3>2, <3>3 DEF Driving
  <2>4. QED BY <2>1, <2>2, <2>3
<1>6. list' \in [Stage -> Seq(Picture(Len(shared)))]
  BY <1>3 DEF Typed
<1> HIDE DEF at
<1>7. QED BY <1>1, <1>3, <1>4, <1>5, <1>6, LikeInv

LEMMA EncodePicInv ==
  ASSUME PipeInv, EncodePic
  PROVE  PipeInv'
<1> DEFINE s == main.stage
           poc == Head(ReadyPics(s))
           i == IndexOf(s, poc)
           inPool == StageParallel /\ ~LeftOut(s, poc)
           todo == SelectSeq(gop[s].todo, LAMBDA p : p # poc)
           busy == IF inPool THEN gop[s].busy \union {poc} ELSE gop[s].busy
<1>1. /\ UNCHANGED <<conf, shared, pre, mctf, main, app>> /\ main.at = "code"
      /\ gop' = [gop EXCEPT ![s].todo = todo, ![s].busy = busy]
      /\ list' = IF inPool THEN list ELSE [list EXCEPT ![s][i].isReconstructed = TRUE]
  BY DEF EncodePic
<1>2. /\ s \in GopStages /\ s \in Stage
      /\ Driving(main, list) /\ AllAccounted(gop, list) /\ Typed(shared, list)
  BY <1>1, Lengths, StagesAre DEF PipeInv, Pipeline, Sharing, Driving
<1>3. /\ Typed(shared, list') /\ AllLike(list, list')
      /\ \A u \in Stage : Len(list'[u]) = Len(list[u])
  <2>1. CASE list' = list
    <3>1. AllLike(list, list')
      BY <2>1 DEF AllLike, Like
    <3>2. QED BY <1>2, <2>1, <3>1
  <2>2. CASE list' = [list EXCEPT ![s][i].isReconstructed = TRUE]
    <3>1. MarksReconstructed(list, s, i, list')
      BY <2>2 DEF MarksReconstructed
    <3> HIDE DEF i, s
    <3>2. QED BY <1>2, <3>1, ReconstructedIs
  <2>3. QED BY <1>1, <2>1, <2>2
<1> HIDE DEF todo, busy
<1>4. SameAccount(gop, gop')
  <2>1. gop' = [t \in GopStages |-> gop'[t]]
    BY <1>1, <1>2 DEF AllAccounted
  <2>2. \A t \in GopStages :
          gop'[t] = IF t = s THEN [gop[s] EXCEPT !.todo = todo, !.busy = busy] ELSE gop[t]
    BY <1>1, <1>2 DEF AllAccounted
  <2>3. IsEncGop(gop[s])
    BY <1>2 DEF AllAccounted
  <2>4. /\ IsEncGop(gop'[s]) /\ gop'[s].out = gop[s].out /\ gop'[s].coded = gop[s].coded
        /\ gop'[s].picCount = gop[s].picCount
    BY <1>2, <2>2, <2>3 DEF IsEncGop, GopFields
  <2>5. QED BY <1>2, <2>1, <2>2, <2>4 DEF SameAccount, AllAccounted
<1>5. Driving(main', list')
  BY <1>1, <1>2 DEF Driving
<1>6. list' \in [Stage -> Seq(Picture(Len(shared)))]
  BY <1>3 DEF Typed
<1>7. QED BY <1>1, <1>3, <1>4, <1>5, <1>6, LikeInv

(* The next picture is started.                                            *)
LEMMA PocIsOwn ==
  ASSUME NEW sh, NEW l, Sharing(sh, l), NEW s \in Stage, NEW i \in DOMAIN l[s],
         NEW u \in Stage, NEW j \in DOMAIN l[u]
  PROVE  (l[s][i].poc = l[u][j].poc) <=> (l[s][i].id = l[u][j].id)
<1>1. l[s][i].id \in DOMAIN sh /\ l[u][j].id \in DOMAIN sh
  BY Lengths DEF Sharing, Picture
<1>2. sh[l[s][i].id].poc = l[s][i].poc /\ sh[l[u][j].id].poc = l[u][j].poc
  BY DEF Sharing, AllFit, Fits
<1>3. QED BY <1>1, <1>2 DEF Sharing, PocsDiffer

LEMMA InitPicIs ==
  ASSUME NEW n \in Nat, NEW pics \in Seq(Picture(n)), NEW pic, NEW intra
  PROVE  LET q == InitPic(pics, pic, intra)
         IN  /\ q \in Seq(Picture(n)) /\ Len(q) = Len(pics) /\ DOMAIN q = DOMAIN pics
             /\ \A i \in DOMAIN pics :
                  /\ q[i].id = pics[i].id /\ q[i].poc = pics[i].poc /\ q[i].prev = pics[i].prev
                  /\ q[i].isFinished <=> pics[i].isFinished
                  /\ q[i].isInitDone <=> pics[i].isInitDone \/ pics[i].poc = pic.poc
<1> DEFINE refs == IF intra THEN {}
                   ELSE {r \in Active(pic.poc) : \E x \in ToSet(pics) : x.poc = r /\ x.isReferenced}
           q == InitPic(pics, pic, intra)
           IsIt(p, r) == /\ r.id = p.id /\ r.poc = p.poc /\ r.prev = p.prev
                         /\ r.isFinished <=> p.isFinished
                         /\ r.isInitDone <=> p.isInitDone \/ p.poc = pic.poc
           mine(p) == [p EXCEPT !.isInitDone = TRUE, !.isReferenced = TRUE, !.refs = refs]
           other(p) == [p EXCEPT !.isReferenced =
                                   @ /\ (p.isInitDone => p.poc \in Entry(pic.poc).listed),
                                 !.refCounter = @ + (IF p.poc \in refs THEN 1 ELSE 0)]
<1>1. DOMAIN pics = 1 .. Len(pics) /\ Len(pics) \in Nat /\ \A i \in DOMAIN pics : pics[i] \in Picture(n)
  OBVIOUS
<1>2. refs \in SUBSET Int
  <2>1. \A x \in ToSet(pics) : x \in Picture(n)
    BY <1>1 DEF ToSet
  <2>2. \A x \in ToSet(pics) : x.poc \in Int
    BY <2>1 DEF Picture
  <2>3. QED BY <2>2
<1>3. q = [i \in DOMAIN pics |-> IF pics[i].poc = pic.poc THEN mine(pics[i]) ELSE other(pics[i])]
  BY DEF InitPic
<1> HIDE DEF refs
<1>4. ASSUME NEW p \in Picture(n), NEW r, p.poc = pic.poc, r = mine(p)
      PROVE  r \in Picture(n) /\ IsIt(p, r)
  BY <1>2, <1>4 DEF Picture
<1>5. ASSUME NEW p \in Picture(n), NEW r, p.poc # pic.poc, r = other(p)
      PROVE  r \in Picture(n) /\ IsIt(p, r)
  <2> DEFINE b == p.isReferenced /\ (p.isInitDone => p.poc \in Entry(pic.poc).listed)
             c == p.refCounter + (IF p.poc \in refs THEN 1 ELSE 0)
  <2>1. b \in BOOLEAN /\ c \in Int
    BY DEF Picture
  <2>2. r = [p EXCEPT !.isReferenced = b, !.refCounter = c]
    BY <1>5
  <2> HIDE DEF b, c
  <2>3. r \in Picture(n)
    BY <2>1, <2>2 DEF Picture
  <2>4. QED BY <1>5, <2>2, <2>3 DEF Picture
<1>6. ASSUME NEW i \in DOMAIN pics
      PROVE  q[i] \in Picture(n) /\ IsIt(pics[i], q[i])
  <2>1. q[i] = IF pics[i].poc = pic.poc THEN mine(pics[i]) ELSE other(pics[i])
    BY <1>3
  <2> HIDE DEF q, IsIt, mine, other
  <2>2. QED BY <1>1, <1>4, <1>5, <2>1
<1>7. q = [i \in 1 .. Len(pics) |-> q[i]]
  BY <1>1, <1>3
<1> HIDE DEF q
<1>8. q \in [1 .. Len(pics) -> Picture(n)]
  BY <1>1, <1>6, <1>7
<1>9. q \in Seq(Picture(n)) /\ Len(q) = Len(pics) /\ DOMAIN q = DOMAIN pics
  BY <1>1, <1>8
<1>10. QED BY <1>6, <1>9 DEF q

(* In the pictures r the one at place k is started.                        *)
Starts(pics, r, k) ==
  /\ k \in DOMAIN pics /\ ~pics[k].isInitDone /\ DOMAIN r = DOMAIN pics
  /\ \A i, j \in DOMAIN pics : pics[i].poc = pics[j].poc \/ pics[i].id = pics[j].id => i = j
  /\ \A i \in DOMAIN pics :
       /\ r[i].id = pics[i].id /\ r[i].poc = pics[i].poc
       /\ r[i].isFinished <=> pics[i].isFinished
       /\ r[i].isInitDone <=> pics[i].isInitDone \/ pics[i].poc = pics[k].poc

LEMMA InitAccounted ==
  ASSUME NEW n \in Nat, NEW pics \in Seq(Picture(n)), NEW r \in Seq(Picture(n)),
         NEW k, Starts(pics, r, k),
         NEW out \in Seq(Int), NEW coded \in Int, NEW count \in Int,
         Accounted(pics, out, coded, count)
  PROVE  /\ Accounted(r, Append(out, pics[k].poc), coded, count)
         /\ \A a \in DOMAIN out : out[a] # pics[k].poc
<1> DEFINE poc == pics[k].poc
           later == Append(out, poc)
<1>0. pics[k] \in Picture(n)
  BY DEF Starts
<1> USE DEF Starts
<1>1. Len(out) \in Nat /\ DOMAIN out = 1 .. Len(out) /\ poc \in Int
  BY <1>0 DEF Picture
<1>2. /\ later \in Seq(Int) /\ Len(later) = Len(out) + 1 /\ DOMAIN later = 1 .. Len(out) + 1
      /\ later[Len(out) + 1] = poc /\ \A a \in DOMAIN out : later[a] = out[a]
  BY <1>1
<1> HIDE DEF later, poc
<1>3. ASSUME NEW a \in DOMAIN later
      PROVE  \E i \in DOMAIN r : r[i].poc = later[a] /\ r[i].isInitDone /\ ~r[i].isFinished
  <2>1. CASE a \in DOMAIN out
    <3>1. PICK i \in DOMAIN pics : pics[i].poc = out[a] /\ pics[i].isInitDone /\ ~pics[i].isFinished
      BY <2>1 DEF Accounted
    <3>2. r[i].poc = out[a] /\ r[i].isInitDone /\ ~r[i].isFinished
      BY <3>1
    <3>3. QED BY <1>2, <2>1, <3>2
  <2>2. CASE a = Len(out) + 1
    <3>1. ~pics[k].isFinished
      BY DEF Accounted
    <3>2. r[k].poc = poc /\ r[k].isInitDone /\ ~r[k].isFinished
      BY <3>1 DEF poc
    <3>3. QED BY <1>2, <2>2, <3>2
  <2>3. QED BY <1>1, <1>2, <2>1, <2>2
<1>4. \A i \in DOMAIN r : r[i].isFinished => r[i].isInitDone
  BY DEF Accounted
<1>5. Uninitialized(r) = Uninitialized(pics) \ {pics[k].id}
  <2>1. ASSUME NEW id
        PROVE  id \in Uninitialized(r) <=> id \in Uninitialized(pics) /\ id # pics[k].id
    <3>1. id \in Uninitialized(r) <=> \E i \in DOMAIN r : r[i].id = id /\ ~r[i].isInitDone
      BY UninitializedIs
    <3>2. id \in Uninitialized(pics) <=> \E i \in DOMAIN pics : pics[i].id = id /\ ~pics[i].isInitDone
      BY UninitializedIs
    <3>3. \A i \in DOMAIN pics : (r[i].id = id /\ ~r[i].isInitDone)
                                   <=> (pics[i].id = id /\ ~pics[i].isInitDone /\ id # pics[k].id)
      OBVIOUS
    <3>4. QED BY <3>1, <3>2, <3>3
  <2>2. QED BY <2>1
<1>6. pics[k].id \in Uninitialized(pics)
  <2>1. \E i \in DOMAIN pics : pics[i].id = pics[k].id /\ ~pics[i].isInitDone
    OBVIOUS
  <2>2. QED BY <2>1 DEF Uninitialized
<1>7. count = coded + Len(later) + Cardinality(Uninitialized(r))
  <2>1. count = coded + Len(out) + Cardinality(Uninitialized(pics))
    BY DEF Accounted
  <2>2. IsFiniteSet(Uninitialized(pics)) /\ Cardinality(Uninitialized(pics)) \in Nat
    BY UninitializedFinite
  <2> DEFINE U == Uninitialized(pics)
             R == Uninitialized(r)
             e == pics[k].id
  <2>3. R = U \ {e} /\ e \in U /\ IsFiniteSet(U)
    BY <1>5, <1>6, <2>2
  <2> HIDE DEF Starts, U, R, e
  <2>4. Cardinality(R) = Cardinality(U) - 1
    BY <2>3, FS_RemoveElement
  <2> USE DEF U, R
  <2>5. QED BY <1>1, <1>2, <2>1, <2>2, <2>4
<1>8. Accounted(r, later, coded, count)
  BY <1>3, <1>4, <1>7 DEF Accounted
<1>9. ASSUME NEW a \in DOMAIN out, out[a] = poc PROVE FALSE
  <2>1. PICK i \in DOMAIN pics : pics[i].poc = out[a] /\ pics[i].isInitDone /\ ~pics[i].isFinished
    BY DEF Accounted
  <2>2. i = k
    BY <1>9, <2>1 DEF poc
  <2>3. QED BY <2>1, <2>2
<1>10. QED BY <1>8, <1>9 DEF later, poc

LEMMA InitNextPicInv ==
  ASSUME PipeInv, InitNextPic
  PROVE  PipeInv'
<1> DEFINE n == Len(shared)
           s == main.stage
           k == NextToInit(s)
           pic == list[s][k]
           intra == shared[pic.id].isStartOfIntra
           q == InitPic(list[s], pic, intra)
           at == IF StageParallel THEN main.at ELSE "lists"
           out == Append(gop[s].out, pic.poc)
           input == Append(gop[s].input, pic.poc)
           num == CodingNum(pic.poc)
<1>1. /\ UNCHANGED <<conf, shared, pre, mctf, app>> /\ AtGop /\ k # 0
      /\ list' = [list EXCEPT ![s] = q]
      /\ gop' = [gop EXCEPT ![s].lastCodingNum = num, ![s].input = input, ![s].out = out]
      /\ main' = [main EXCEPT !.at = at]
  BY DEF InitNextPic
<1>2. /\ s \in GopStages /\ s \in Stage /\ IsGop(s) /\ n \in Nat
      /\ Driving(main, list) /\ AllAccounted(gop, list) /\ Sharing(shared, list)
  BY <1>1, Lengths, StagesAre DEF PipeInv, Pipeline, Sharing, Driving, AtGop, IsGop
<1>3. /\ list \in [Stage -> Seq(Picture(n))] /\ list[s] \in Seq(Picture(n)) /\ Len(list[s]) \in Nat
      /\ DOMAIN list[s] = 1 .. Len(list[s]) /\ \A i \in DOMAIN list[s] : list[s][i] \in Picture(n)
  BY <1>2, Lengths DEF Sharing, Typed
<1>4. k \in DOMAIN list[s] /\ ~pic.isInitDone
  <2> DEFINE rest == {i \in DOMAIN list[s] : ~list[s][i].isInitDone}
  <2>1. rest # {} /\ k = Min(rest)
    BY <1>1 DEF NextToInit
  <2>2. rest \subseteq Nat
    BY <1>3
  <2>3. Min(rest) \in rest
    <3> HIDE DEF rest
    <3>1. \E m \in rest : \A j \in rest : m <= j
      BY <2>1, <2>2, LeastNumber
    <3>2. QED BY <3>1, Zenon DEF Min
  <2>4. QED BY <2>1, <2>3
<1>5. \A i, j \in DOMAIN list[s] :
        list[s][i].poc = list[s][j].poc \/ list[s][i].id = list[s][j].id => i = j
  BY <1>2, PocIsOwn DEF Sharing, Once
<1>6. /\ q \in Seq(Picture(n)) /\ Len(q) = Len(list[s]) /\ DOMAIN q = DOMAIN list[s]
      /\ \A i \in DOMAIN list[s] :
           /\ q[i].id = list[s][i].id /\ q[i].poc = list[s][i].poc /\ q[i].prev = list[s][i].prev
           /\ q[i].isFinished <=> list[s][i].isFinished
           /\ q[i].isInitDone <=> list[s][i].isInitDone \/ list[s][i].poc = pic.poc
  <2> DEFINE p == list[s]
             x == pic
             y == intra
  <2>1. n \in Nat /\ p \in Seq(Picture(n))
    BY <1>2, <1>3
  <2> HIDE DEF p, x, y, n
  <2>2. /\ InitPic(p, x, y) \in Seq(Picture(n)) /\ Len(InitPic(p, x, y)) = Len(p)
        /\ DOMAIN InitPic(p, x, y) = DOMAIN p
        /\ \A i \in DOMAIN p :
             LET r == InitPic(p, x, y)[i]
             IN  /\ r.id = p[i].id /\ r.poc = p[i].poc /\ r.prev = p[i].prev
                 /\ r.isFinished <=> p[i].isFinished
                 /\ r.isInitDone <=> p[i].isInitDone \/ p[i].poc = x.poc
    BY <2>1, InitPicIs
  <2>3. QED BY <2>2 DEF p, x, y, n
<1>7. /\ gop[s].out \in Seq(Int) /\ gop[s].coded \in Int /\ gop[s].picCount \in Int
      /\ Accounted(list[s], gop[s].out, gop[s].coded, gop[s].picCount) /\ IsEncGop(gop[s])
      /\ pic.poc \in Int
  BY <1>2, <1>3, <1>4 DEF AllAccounted, IsEncGop, Picture
<1> HIDE DEF k, intra, q, at, num
<1>8. Accounted(q, out, gop[s].coded, gop[s].picCount) /\ \A a \in DOMAIN gop[s].out : gop[s].out[a] # pic.poc
  <2> DEFINE p == list[s]
             o == gop[s].out
             coded == gop[s].coded
             count == gop[s].picCount
  <2>1. /\ n \in Nat /\ p \in Seq(Picture(n)) /\ q \in Seq(Picture(n)) /\ k \in DOMAIN p
        /\ ~p[k].isInitDone /\ DOMAIN q = DOMAIN p
        /\ o \in Seq(Int) /\ coded \in Int /\ count \in Int /\ Accounted(p, o, coded, count)
    BY <1>2, <1>3, <1>4, <1>6, <1>7
  <2>2. \A i, j \in DOMAIN p : p[i].poc = p[j].poc \/ p[i].id = p[j].id => i = j
    BY <1>5
  <2>3. \A i \in DOMAIN p :
          /\ q[i].id = p[i].id /\ q[i].poc = p[i].poc
          /\ q[i].isFinished <=> p[i].isFinished
          /\ q[i].isInitDone <=> p[i].isInitDone \/ p[i].poc = p[k].poc
    BY <1>6
  <2> HIDE DEF p, o, coded, count, n
  <2>4. Starts(p, q, k)
    BY <2>1, <2>2, <2>3 DEF Starts
  <2>5. Accounted(q, Append(o, p[k].poc), coded, count) /\ \A a \in DOMAIN o : o[a] # p[k].poc
    BY <2>1, <2>4, InitAccounted
  <2>6. QED BY <2>5 DEF p, o, coded, count
<1>9. /\ out \in Seq(Int) /\ \A a, b \in DOMAIN out : out[a] = out[b] => a = b
      /\ ToSet(out) = ToSet(gop[s].out) \union {pic.poc}
  <2> DEFINE o == gop[s].out
             p == pic.poc
  <2>1. /\ Len(o) \in Nat /\ DOMAIN o = 1 .. Len(o) /\ o \in Seq(Int) /\ p \in Int
        /\ \A a, b \in DOMAIN o : o[a] = o[b] => a = b
        /\ \A a \in DOMAIN o : o[a] # p
    <3>1. o \in Seq(Int) /\ p \in Int /\ \A a \in DOMAIN o : o[a] # p
      BY <1>7, <1>8
    <3>2. \A a, b \in DOMAIN o : o[a] = o[b] => a = b
      BY <1>7 DEF IsEncGop
    <3> HIDE DEF o, p
    <3>3. QED BY <3>1, <3>2
  <2> HIDE DEF o, p
  <2>2. /\ Append(o, p) \in Seq(Int) /\ DOMAIN Append(o, p) = 1 .. Len(o) + 1
        /\ Append(o, p)[Len(o) + 1] = p /\ \A a \in DOMAIN o : Append(o, p)[a] = o[a]
    BY <2>1
  <2>3. \A a, b \in 1 .. Len(o) + 1 : Append(o, p)[a] = Append(o, p)[b] => a = b
    BY <2>1, <2>2
  <2>4. ToSet(Append(o, p)) = ToSet(o) \union {p}
    BY <2>1, <2>2 DEF ToSet
  <2>5. QED BY <2>2, <2>3, <2>4 DEF o, p
<1> HIDE DEF out, input
<1>10. AllAccounted(gop', list')
  <2>1. gop' = [u \in GopStages |-> gop'[u]]
    BY <1>1, <1>2 DEF AllAccounted
  <2>2. \A u \in GopStages :
          gop'[u] = IF u = s THEN [gop[s] EXCEPT !.lastCodingNum = num, !.input = input, !.out = out]
                    ELSE gop[u]
    BY <1>1, <1>2 DEF AllAccounted
  <2>3. /\ IsEncGop(gop'[s]) /\ gop'[s].out = out /\ gop'[s].coded = gop[s].coded
        /\ gop'[s].picCount = gop[s].picCount
    BY <1>2, <1>7, <1>9, <2>2 DEF IsEncGop, GopFields
  <2>4. list'[s] = q /\ \A u \in GopStages : u # s => list'[u] = list[u]
    BY <1>1, <1>2, <1>3, StagesAre
  <2>5. QED BY <1>2, <1>8, <2>1, <2>2, <2>3, <2>4 DEF AllAccounted
<1>11. /\ list' \in [Stage -> Seq(Picture(n))] /\ list'[s] = q
       /\ \A u \in Stage : u # s => list'[u] = list[u]
  BY <1>1, <1>2, <1>3, <1>6
<1>12. Alike(list, list')
  BY <1>6, <1>11 DEF Alike
<1>13. ASSUME NEW u \in Stage, NEW i \in DOMAIN list'[u],
              Unsent(u, list'[u][i], pre.lastPoc, mctf.filterPoc, gop')
       PROVE  Unsent(u, list[u][i], pre.lastPoc, mctf.filterPoc, gop)
  <2>1. CASE u # s
    <3>1. u \in GopStages => gop'[u] = gop[u]
      BY <1>1, <1>2, <2>1 DEF AllAccounted
    <3>2. QED BY <1>11, <1>13, <2>1, <3>1 DEF Unsent, IsGop
  <2>2. CASE u = s
    <3>1. gop'[s].out = out
      BY <1>1, <1>2, <1>7 DEF AllAccounted, IsEncGop, GopFields
    <3>2. CASE i = k
      BY <1>2, <1>4, <2>2, <3>2 DEF Unsent
    <3>3. CASE i # k
      <4>1. list[s][i].poc # pic.poc /\ i \in DOMAIN list[s]
        BY <1>4, <1>5, <1>6, <1>11, <2>2, <3>3
      <4>2. (~q[i].isInitDone <=> ~list[s][i].isInitDone) /\ q[i].poc = list[s][i].poc
        BY <1>6, <4>1
      <4>3. q[i].poc \in ToSet(out) <=> list[s][i].poc \in ToSet(gop[s].out)
        BY <1>9, <4>1, <4>2
      <4>4. QED BY <1>2, <1>11, <1>13, <2>2, <3>1, <4>2, <4>3 DEF Unsent
    <3>4. QED BY <3>2, <3>3
  <2>3. QED BY <2>1, <2>2
<1>14. Driving(main', list')
  <2>1. at \in {"la", "gop", "lists"}
    BY <1>1 DEF at, AtGop
  <2>2. at \in Places
    BY <2>1 DEF Places
  <2>3. QED BY <1>1, <1>2, <2>1, <2>2, AtDrives
<1>15. QED BY <1>1, <1>10, <1>11, <1>12, <1>13, <1>14, LookInv

(* The stages are made anew.                                               *)
LEMMA FreshPipeline ==
  Pipeline(Fresh.shared, Fresh.list, Fresh.pre.lastPoc, Fresh.mctf.filterPoc, Fresh.gop)
<1> DEFINE sh == <<>>
           l == [s \in Stage |-> <<>>]
           e == [lastCodingNum |-> -1, input |-> <<>>, todo |-> <<>>, chunk |-> <<>>,
                 out |-> <<>>, busy |-> {}, picCount |-> 0, coded |-> 0, recOut |-> 0]
           g == [s \in GopStages |-> e]
<1>1. Fresh.shared = sh /\ Fresh.list = l /\ Fresh.gop = g
  BY DEF Fresh, Stage
<1>2. /\ Len(sh) = 0 /\ DOMAIN sh = {} /\ \A s \in Stage : l[s] = <<>> /\ DOMAIN l[s] = {}
  OBVIOUS
<1>3. Typed(sh, l)
  BY DEF Typed
<1>4. Sharing(sh, l)
  BY <1>2, <1>3 DEF Sharing, Once, PocsDiffer, AllFit, Exact
<1>5. \A U : UnsentFit(sh, l, U)
  BY <1>2 DEF UnsentFit
<1>6. NoneLinked(l[1])
  BY <1>2, StagesAre DEF NoneLinked, Stage
<1>7. IsEncGop(e)
  BY DEF IsEncGop, GopFields
<1>8. Accounted(<<>>, <<>>, 0, 0)
  <2>1. Uninitialized(<<>>) = {}
    BY DEF Uninitialized
  <2>2. QED BY <2>1, FS_EmptySet DEF Accounted
<1>9. AllAccounted(g, l)
  <2>1. \A s \in GopStages : g[s] = e /\ l[s] = <<>>
    BY <1>2, StagesAre
  <2>2. e.out = <<>> /\ e.coded = 0 /\ e.picCount = 0
    OBVIOUS
  <2>3. g = [s \in GopStages |-> g[s]]
    OBVIOUS
  <2> HIDE DEF g, l, e
  <2>4. QED BY <1>7, <1>8, <2>1, <2>2, <2>3 DEF AllAccounted
<1> HIDE DEF sh, l, g, e
<1>10. QED BY <1>1, <1>4, <1>5, <1>6, <1>9 DEF Pipeline

LEMMA InitInv == Init => PipeInv
<1> SUFFICES ASSUME Init PROVE PipeInv
  OBVIOUS
<1>1. conf \in Configs /\ conf.leadFrames \in Nat
  BY PipelineAssumption DEF Init
<1>2. Pipeline(shared, list, pre.lastPoc, mctf.filterPoc, gop)
  BY FreshPipeline DEF Init
<1>3. PocsPast
  BY DEF Init, Fresh, PocsPast
<1>4. Driving(main, list)
  BY DEF Init, Driving, Places, NoPic
<1>5. pre.lastPoc \in Int /\ mctf.filterPoc \in Int /\ app.passed \in Nat
  BY DEF Init, Fresh, NoPic
<1>6. QED BY <1>1, <1>2, <1>3, <1>4, <1>5 DEF PipeInv

LEMMA InitPassInv ==
  ASSUME PipeInv, InitPass
  PROVE  PipeInv'
<1>1. /\ shared' = Fresh.shared /\ list' = Fresh.list /\ pre' = Fresh.pre /\ mctf' = Fresh.mctf
      /\ gop' = Fresh.gop /\ UNCHANGED <<conf, main>> /\ main.at = "app"
      /\ app' = [app EXCEPT !.state = "INITIALIZED", !.passed = 0, !.done = FALSE]
  BY DEF InitPass
<1>2. Pipeline(shared', list', pre'.lastPoc, mctf'.filterPoc, gop')
  BY <1>1, FreshPipeline
<1>3. PocsPast'
  BY <1>1 DEF Fresh, PocsPast
<1>4. Driving(main', list')
  BY <1>1 DEF PipeInv, Driving
<1>5. pre'.lastPoc \in Int /\ mctf'.filterPoc \in Int /\ app'.passed \in Nat
  BY <1>1 DEF Fresh, NoPic
<1>6. QED BY <1>1, <1>2, <1>3, <1>4, <1>5, NextInv

-----------------------------------------------------------------------------
(* The steps in which a stage passes a picture on.                         *)

LEMMA ForwardPasses ==
  ASSUME NEW sh, NEW l, NEW last, NEW next, NEW g, Pipeline(sh, l, last, next, g), NEW f,
         NEW s \in Stage, NEW done, NEW free, NEW flush \in BOOLEAN,
         Passable(sh, l, last, next, g, s, done, free)
  PROVE  \E t \in {0} \union (s + 1 .. LastStage) :
           Passed(sh, l, Counts(g),
                  Forward([shared |-> sh, list |-> l, failed |-> f, picCount |-> Counts(g)],
                          done, free, s, flush), done, free, s, t, flush)
<1> DEFINE c == Counts(g)
<1>1. c \in [GopStages -> Int]
  BY DEF Pipeline, AllAccounted, IsEncGop, Counts
<1>2. Sharing(sh, l) /\ (done = Null \/ done \in DOMAIN l[s]) /\ free \in SUBSET DOMAIN l[s]
  BY DEF Pipeline, Passable
<1>3. done # Null =>
        /\ \A u \in s + 1 .. LastStage : \A i \in DOMAIN l[u] : l[u][i].id # l[s][done].id
        /\ \A x \in Slots : IsBack(sh, sh[l[s][done].id].prev[x], sh[l[s][done].id].poc, x)
  <2>1. \A u \in s + 1 .. LastStage : u \in Stage /\ s < u
    BY StagesAre DEF Stage
  <2>2. QED BY <2>1 DEF Passable
<1> HIDE DEF c
<1>4. \E t \in {0} \union (s + 1 .. LastStage) :
        Passed(sh, l, c, Forward([shared |-> sh, list |-> l, failed |-> f, picCount |-> c],
                                 done, free, s, flush), done, free, s, t, flush)
  BY <1>1, <1>2, <1>3, ForwardIs
<1>5. QED BY <1>4 DEF c

SameOuts(g, h) == \A u \in GopStages : h[u].out = g[u].out

IsForward(r, sh, l, f, g, done, free, s, flush) ==
  r = Forward([shared |-> sh, list |-> l, failed |-> f, picCount |-> Counts(g)],
              done, free, s, flush)

LEMMA PassedUnsentIds ==
  ASSUME NEW sh, NEW l, NEW c, NEW r, NEW s \in Stage, NEW done, NEW free, NEW flush \in BOOLEAN,
         NEW t \in {0} \union (s + 1 .. LastStage), NEW last, NEW next, NEW g, NEW h,
         Sharing(sh, l), Passed(sh, l, c, r, done, free, s, t, flush),
         Passable(sh, l, last, next, g, s, done, free), SameOuts(g, h),
         NEW u \in Stage, NEW i \in DOMAIN r.list[u],
         r.list[u][i].id \in UnsentIds(r.list, last, next, h)[u]
  PROVE  \/ r.list[u][i].id \in UnsentIds(l, last, next, g)[u]
         \/ u = t /\ r.list[u][i].id = l[s][done].id
<1> DEFINE n == Len(sh)
           p == r.list[u][i]
           SameFor(a) == l[u][a].id = p.id /\ l[u][a].poc = p.poc
                           /\ (l[u][a].isInitDone <=> p.isInitDone)
<1>1. Unsent(u, p, last, next, h)
  BY UnsentIdIs DEF Passed, Sharing
<1>2. ASSUME NEW a \in DOMAIN l[u], SameFor(a)
      PROVE  p.id \in UnsentIds(l, last, next, g)[u]
  <2>1. Unsent(u, l[u][a], last, next, g)
    BY <1>1, <1>2 DEF Unsent, IsGop, SameOuts
  <2>2. l[u][a].id \in UnsentIds(l, last, next, g)[u]
    BY <2>1, UnsentIdIs DEF Sharing
  <2>3. QED BY <1>2, <2>2
<1>3. (t # 0 => t \in Stage /\ t # s) /\ u # 0
  BY StagesAre DEF Stage
<1>4. /\ n \in Nat /\ l[u] \in Seq(Picture(n)) /\ r.list[u] \in Seq(Picture(n)) /\ l[s] \in Seq(Picture(n))
      /\ sh \in Seq(Buffer(n)) /\ DOMAIN sh = 1 .. n
      /\ \A a \in DOMAIN l[s] : l[s][a] \in Picture(n)
  BY Lengths DEF Passed, Sharing, Typed, SameBuffers
<1>5. CASE u = t
  <2> DEFINE d == l[s][done].id
             new == NewPic(sh, d, flush)
  <2>1. done # Null /\ done \in DOMAIN l[s] /\ t # 0
    BY <1>3, <1>5 DEF Passed, Passable
  <2>2. d \in DOMAIN sh
    <3>1. l[s][done] \in Picture(n)
      BY <1>4, <2>1
    <3>2. QED BY <1>4, <3>1 DEF Picture
  <2>3. new \in Picture(n) /\ new.id = d
    BY <1>4, <2>2, NewPicIs
  <2>4. PICK at \in 1 .. Len(l[u]) + 1 : InsertedAt(r.list[u], l[u], new, at)
    BY <1>3, <1>5 DEF Passed
  <2> HIDE DEF new, n
  <2>5. p = new \/ \E j \in DOMAIN l[u] : Kin(l[u][j], p)
    BY <1>4, <2>3, <2>4, InsertedMembers
  <2>6. CASE p = new
    BY <1>5, <2>3, <2>6
  <2>7. CASE \E j \in DOMAIN l[u] : Kin(l[u][j], p)
    <3>1. PICK j \in DOMAIN l[u] : Kin(l[u][j], p)
      BY <2>7
    <3>2. SameFor(j)
      BY <3>1 DEF Kin
    <3>3. QED BY <1>2, <3>2
  <2>8. QED BY <2>5, <2>6, <2>7
<1>6. CASE u = s
  <2>1. PICK a \in DOMAIN l[s] \ free :
          p = IF a = done THEN [l[s][a] EXCEPT !.prev = NoLinks] ELSE l[s][a]
    BY <1>6 DEF Passed
  <2>2. l[s][a] \in Picture(n)
    BY <1>4
  <2>3. SameFor(a)
    BY <1>6, <2>1, <2>2 DEF Picture
  <2>4. QED BY <1>2, <1>6, <2>3
<1>7. CASE u # t /\ u # s
  <2>1. r.list[u] = l[u]
    BY <1>7 DEF Passed
  <2>2. i \in DOMAIN l[u] /\ SameFor(i)
    BY <2>1
  <2>3. QED BY <1>2, <2>2
<1>8. QED BY <1>5, <1>6, <1>7

LEMMA ForwardPipeline ==
  ASSUME NEW sh, NEW l, NEW last, NEW next, NEW g, Pipeline(sh, l, last, next, g), NEW f,
         NEW s \in Stage, NEW done, NEW free, NEW flush \in BOOLEAN,
         Passable(sh, l, last, next, g, s, done, free),
         NEW r, IsForward(r, sh, l, f, g, done, free, s, flush)
  PROVE  Pipeline(r.shared, r.list, last, next, Counted(r, g)) /\ SameBuffers(sh, r.shared)
<1> DEFINE c == Counts(g)
           h == Counted(r, g)
           U == UnsentIds(l, last, next, g)
           V == UnsentIds(r.list, last, next, h)
<1>1. PICK t \in {0} \union (s + 1 .. LastStage) : Passed(sh, l, c, r, done, free, s, t, flush)
  BY ForwardPasses DEF IsForward
<1>2. \A u \in GopStages : c[u] = g[u].picCount /\ c[u] \in Int
  BY DEF Counts, Pipeline, AllAccounted, IsEncGop
<1> HIDE DEF c
<1>3. Sharing(sh, l) /\ Sharing(r.shared, r.list) /\ SameBuffers(sh, r.shared)
  BY <1>1 DEF Pipeline, Passed
<1>4. /\ done = Null \/ done \in DOMAIN l[s]
      /\ done # Null => \A u \in Stage : s < u => \A i \in DOMAIN l[u] : l[u][i].id # l[s][done].id
      /\ done # Null => l[s][done].id \notin U[s]
  <2>1. done # Null => ~Unsent(s, l[s][done], last, next, g)
    BY DEF Passable
  <2>2. done # Null => done \in DOMAIN l[s]
    BY DEF Passable
  <2>3. done # Null => l[s][done].id \notin U[s]
    BY <1>3, <2>1, <2>2, UnsentIdIs DEF Sharing
  <2>4. QED BY <2>3 DEF Passable
<1>5. \A u \in GopStages : r.picCount[u] \in Int
  <2>1. \A u \in GopStages : r.picCount[u] = c[u] + (IF u = t THEN 1 ELSE 0)
    BY <1>1 DEF Passed
  <2>2. QED BY <1>2, <2>1
<1>6. /\ h = [u \in GopStages |-> h[u]]
      /\ \A u \in GopStages : h[u] = [g[u] EXCEPT !.picCount = r.picCount[u]]
  BY DEF Counted
<1> HIDE DEF h
<1>7. ASSUME NEW u \in GopStages
      PROVE  /\ IsEncGop(h[u]) /\ h[u].out = g[u].out /\ h[u].coded = g[u].coded
             /\ h[u].picCount = r.picCount[u]
  <2>1. IsEncGop(g[u])
    BY DEF Pipeline, AllAccounted
  <2>2. QED BY <1>5, <1>6, <2>1 DEF IsEncGop, GopFields
<1>8. AllAccounted(h, r.list)
  <2>1. AllAccounted(g, l)
    BY DEF Pipeline
  <2> HIDE DEF U, V
  <2>2. \A u \in GopStages : Accounted(r.list[u], g[u].out, g[u].coded, r.picCount[u])
    BY <1>1, <1>3, <2>1, PassedAccounted DEF c
  <2>3. QED BY <1>6, <1>7, <2>2 DEF AllAccounted
<1>9. \A u \in Stage : \A i \in DOMAIN r.list[u] : r.list[u][i].id \in V[u] =>
        r.list[u][i].id \in U[u] \/ (u = t /\ r.list[u][i].id = l[s][done].id)
  <2>1. SameOuts(g, h)
    BY <1>7 DEF SameOuts
  <2> HIDE DEF U, V
  <2>2. ASSUME NEW u \in Stage, NEW i \in DOMAIN r.list[u], r.list[u][i].id \in V[u]
        PROVE  r.list[u][i].id \in U[u] \/ (u = t /\ r.list[u][i].id = l[s][done].id)
    <3> USE DEF U, V
    <3>1. r.list[u][i].id \in UnsentIds(r.list, last, next, h)[u]
      BY <2>2
    <3>2. Passed(sh, l, c, r, done, free, s, t, flush) /\ Sharing(sh, l)
      BY <1>1, <1>3
    <3>3. Passable(sh, l, last, next, g, s, done, free)
      OBVIOUS
    <3> HIDE DEF U, V
    <3>4. \/ r.list[u][i].id \in UnsentIds(l, last, next, g)[u]
          \/ u = t /\ r.list[u][i].id = l[s][done].id
      BY ONLY s \in Stage, flush \in BOOLEAN, t \in {0} \union (s + 1 .. LastStage), u \in Stage,
              i \in DOMAIN r.list[u], <2>1, <3>1, <3>2, <3>3, PassedUnsentIds
    <3>5. QED BY <3>4 DEF U
  <2>3. QED BY <2>2
<1> HIDE DEF U, V
<1>10. UnsentFit(sh, l, U) /\ NoneLinked(l[1])
  BY DEF Pipeline, U
<1>11. UnsentFit(r.shared, r.list, V) /\ NoneLinked(r.list[1])
  BY <1>1, <1>3, <1>4, <1>9, <1>10, PassedUnsent
<1>12. Pipeline(r.shared, r.list, last, next, h)
  BY <1>3, <1>8, <1>11 DEF Pipeline, V
<1>13. QED BY <1>3, <1>12 DEF h

(* The loop of a stage before the last one.                                *)
LEMMA ForwardFails ==
  ASSUME NEW sh, NEW l, NEW last, NEW next, NEW g, Pipeline(sh, l, last, next, g), NEW f,
         NEW s \in Stage, NEW done, NEW free, NEW flush \in BOOLEAN,
         Passable(sh, l, last, next, g, s, done, free),
         NEW r, IsForward(r, sh, l, f, g, done, free, s, flush), NEW what
  PROVE  [r EXCEPT !.failed = what].shared = r.shared /\ [r EXCEPT !.failed = what].list = r.list
<1>1. "shared" \in DOMAIN r /\ "list" \in DOMAIN r
  BY ForwardPasses DEF IsForward, Passed
<1>2. QED BY <1>1

SamePocs(sh, r) == DOMAIN r = DOMAIN sh /\ \A k \in DOMAIN sh : r[k].poc = sh[k].poc

LEMMA ProceedInv ==
  ASSUME PipeInv, UNCHANGED <<conf, app>>, main.stage \in Stage, NEW st, Proceed(st),
         SamePocs(shared, st.shared), pre'.lastPoc \in Int, mctf'.filterPoc \in Int,
         main.at \in {"pre", "mctf"},
         Pipeline(st.shared, st.list, pre'.lastPoc, mctf'.filterPoc, Counted(st, gop))
  PROVE  PipeInv'
<1>1. /\ shared' = st.shared /\ list' = st.list /\ gop' = Counted(st, gop)
      /\ IF main.flush /\ st.list[main.stage] # <<>> THEN UNCHANGED main
         ELSE NextStage(st.list[main.stage])
  BY DEF Proceed, Continue
<1>2. Pipeline(shared', list', pre'.lastPoc, mctf'.filterPoc, gop')
  BY <1>1
<1>3. PocsPast'
  <2>1. \A k \in DOMAIN shared : shared[k].poc < PicsRcvd
    BY DEF PipeInv, PocsPast
  <2>2. PicsRcvd' = PicsRcvd
    BY DEF PicsRcvd
  <2>3. QED BY <1>1, <2>1, <2>2 DEF PocsPast, SamePocs
<1>4. Driving(main', list')
  <2>1. CASE main.flush /\ st.list[main.stage] # <<>>
    BY <1>1, <2>1 DEF PipeInv, Driving
  <2>2. CASE ~(main.flush /\ st.list[main.stage] # <<>>)
    BY <1>1, <2>2, NextStageDrives DEF PipeInv
  <2>3. QED BY <2>1, <2>2
<1>5. QED BY <1>2, <1>3, <1>4, NextInv DEF PipeInv

LEMMA CountedAsIs ==
  ASSUME PipeInv
  PROVE  /\ Counted(Pipe, gop) = gop /\ Pipe.picCount = Counts(gop)
         /\ Pipe = [shared |-> shared, list |-> list, failed |-> failed, picCount |-> Counts(gop)]
<1>1. AllAccounted(gop, list)
  BY DEF PipeInv, Pipeline
<1>2. \A s \in GopStages : [gop[s] EXCEPT !.picCount = gop[s].picCount] = gop[s]
  BY <1>1 DEF AllAccounted, IsEncGop, GopFields
<1>3. \A s \in GopStages : Pipe.picCount[s] = gop[s].picCount
  BY DEF Pipe
<1>4. Counted(Pipe, gop) = [s \in GopStages |-> gop[s]]
  BY <1>2, <1>3 DEF Counted
<1>5. QED BY <1>1, <1>4 DEF AllAccounted, Pipe, Counts

LEMMA PipeWith ==
  ASSUME PipeInv, NEW sh, NEW l, NEW f
  PROVE  /\ [Pipe EXCEPT !.shared = sh, !.failed = f]
              = [shared |-> sh, list |-> list, failed |-> f, picCount |-> Counts(gop)]
         /\ [Pipe EXCEPT !.shared = sh]
              = [shared |-> sh, list |-> list, failed |-> failed, picCount |-> Counts(gop)]
         /\ [Pipe EXCEPT !.failed = f]
              = [shared |-> shared, list |-> list, failed |-> f, picCount |-> Counts(gop)]
<1> DEFINE c == Counts(gop)
           p == [shared |-> shared, list |-> list, failed |-> failed, picCount |-> c]
<1>1. Pipe = p
  BY CountedAsIs
<1>2. [p EXCEPT !.shared = sh, !.failed = f]
         = [shared |-> sh, list |-> list, failed |-> f, picCount |-> c]
  <2> HIDE DEF c
  <2>1. [p EXCEPT !.shared = sh, !.failed = f] = [[p EXCEPT !.shared = sh] EXCEPT !.failed = f]
    OBVIOUS
  <2>2. [p EXCEPT !.shared = sh] = [shared |-> sh, list |-> list, failed |-> failed, picCount |-> c]
    OBVIOUS
  <2>3. [[shared |-> sh, list |-> list, failed |-> failed, picCount |-> c] EXCEPT !.failed = f]
          = [shared |-> sh, list |-> list, failed |-> f, picCount |-> c]
    OBVIOUS
  <2>4. QED BY <2>1, <2>2, <2>3
<1>3. [p EXCEPT !.shared = sh] = [shared |-> sh, list |-> list, failed |-> failed, picCount |-> c]
  <2> HIDE DEF c
  <2>1. QED OBVIOUS
<1>4. [p EXCEPT !.failed = f] = [shared |-> shared, list |-> list, failed |-> f, picCount |-> c]
  <2> HIDE DEF c
  <2>1. QED OBVIOUS
<1>5. QED BY <1>1, <1>2, <1>3, <1>4

(* Stages go on, and less is unsent.                                       *)
LEMMA PipelineLater ==
  ASSUME NEW sh, NEW l, NEW last \in Int, NEW next \in Int, NEW g, Pipeline(sh, l, last, next, g),
         NEW last2 \in Int, NEW next2 \in Int, last <= last2, next <= next2
  PROVE  Pipeline(sh, l, last2, next2, g)
<1> DEFINE U == UnsentIds(l, last, next, g)
           V == UnsentIds(l, last2, next2, g)
<1>1. Sharing(sh, l) /\ Once(l) /\ UnsentFit(sh, l, U)
  BY DEF Pipeline, Sharing
<1>2. ASSUME NEW s \in Stage, NEW i \in DOMAIN l[s], l[s][i].id \in V[s]
      PROVE  l[s][i].id \in U[s]
  <2>1. Unsent(s, l[s][i], last2, next2, g)
    BY <1>1, <1>2, UnsentIdIs
  <2>2. l[s][i].poc \in Int
    BY <1>1, Lengths DEF Sharing, Picture
  <2>3. Unsent(s, l[s][i], last, next, g)
    BY <2>1, <2>2 DEF Unsent
  <2>4. QED BY <1>1, <2>3, UnsentIdIs
<1> HIDE DEF U, V
<1>3. UnsentFit(sh, l, V)
  BY <1>1, <1>2 DEF UnsentFit
<1>4. QED BY <1>3 DEF Pipeline, V

LEMMA UnsentIsFirst ==
  ASSUME NEW sh, NEW l, NEW last, NEW next, NEW g, Pipeline(sh, l, last, next, g),
         NEW s \in Stage, NEW i \in DOMAIN l[s], Unsent(s, l[s][i], last, next, g)
  PROVE  /\ \A u \in Stage : s < u => \A j \in DOMAIN l[u] : l[u][j].id # l[s][i].id
         /\ l[s][i].prev = sh[l[s][i].id].prev
         /\ \A x \in Slots : IsBack(sh, sh[l[s][i].id].prev[x], sh[l[s][i].id].poc, x)
<1>1. l[s][i].id \in UnsentIds(l, last, next, g)[s]
  BY UnsentIdIs DEF Pipeline, Sharing
<1>2. /\ \A u \in Stage : s < u => \A j \in DOMAIN l[u] : l[u][j].id # l[s][i].id
      /\ l[s][i].prev = sh[l[s][i].id].prev
  BY <1>1 DEF Pipeline, UnsentFit
<1>3. \A x \in Slots : IsBack(sh, l[s][i].prev[x], l[s][i].poc, x) /\ sh[l[s][i].id].poc = l[s][i].poc
  BY DEF Pipeline, Sharing, AllFit, Fits
<1>4. QED BY <1>2, <1>3

(* The loop of a stage goes round without a picture.                       *)
LEMMA IdleProceeds ==
  ASSUME PipeInv, UNCHANGED <<conf, app, pre, mctf>>, main.at \in {"pre", "mctf"}, Proceed(Pipe)
  PROVE  PipeInv'
<1>1. Pipe.shared = shared /\ Pipe.list = list /\ Counted(Pipe, gop) = gop
  BY CountedAsIs DEF Pipe
<1>2. SamePocs(shared, Pipe.shared)
  BY <1>1 DEF SamePocs
<1>3. main.stage \in Stage
  BY DEF PipeInv, Driving
<1>4. Pipeline(Pipe.shared, Pipe.list, pre'.lastPoc, mctf'.filterPoc, Counted(Pipe, gop))
  BY <1>1 DEF PipeInv
<1> DEFINE st == Pipe
<1> HIDE DEF st
<1>5. Proceed(st) /\ SamePocs(shared, st.shared)
      /\ Pipeline(st.shared, st.list, pre'.lastPoc, mctf'.filterPoc, Counted(st, gop))
  BY <1>2, <1>4 DEF st
<1>6. QED BY <1>3, <1>5, ProceedInv DEF PipeInv

LEMMA ProcessMctfInv ==
  ASSUME PipeInv, ProcessMctf
  PROVE  PipeInv'
<1> DEFINE s == main.stage
           n == Len(shared)
           pics == list[s]
           poc == mctf.filterPoc
           due == /\ poc <= Last(pics).poc
                  /\ conf.framesToEncode = 0 \/ poc < conf.framesToEncode
           at == {i \in DOMAIN pics : pics[i].poc = poc}
           done == IF due /\ at # {} THEN CHOOSE i \in at : TRUE ELSE Null
           old == {i \in DOMAIN pics : pics[i].poc <= poc - conf.mctfRange}
           f == failed \union Check(due /\ at = {}, "picture filter error")
           st == [shared |-> shared, list |-> list, failed |-> f, picCount |-> Counts(gop)]
           r == Forward(st, done, old, s, main.flush)
<1>1. main.at = "mctf" /\ UNCHANGED <<conf, pre, app>>
  BY DEF ProcessMctf
<1>2. /\ s \in Stage /\ Stages[s] = "mctf" /\ poc \in Int /\ pre.lastPoc \in Int
      /\ main.flush \in BOOLEAN /\ Pipeline(shared, list, pre.lastPoc, poc, gop)
  BY <1>1 DEF PipeInv, Driving
<1>3. CASE MctfIdle
  <2>1. Proceed(Pipe) /\ UNCHANGED mctf
    BY <1>3 DEF ProcessMctf
  <2>2. QED BY <1>1, <2>1, IdleProceeds
<1>4. CASE ~MctfIdle
  <2>1. Proceed(r) /\ mctf' = [filterPoc |-> poc + 1, lastIn |-> Last(pics).poc]
    <3>1. MctfNext(s)
      BY <1>4 DEF ProcessMctf
    <3>2. [Pipe EXCEPT !.failed = f] = st
      BY PipeWith
    <3>3. QED BY <3>1, <3>2 DEF MctfNext, Pipe
  <2>2. ~IsGop(s)
    BY <1>2, StagesAre
  <2>3. Pipeline(shared, list, pre.lastPoc, poc + 1, gop)
    BY <1>2, PipelineLater
  <2>4. ASSUME done # Null
        PROVE  /\ done \in DOMAIN list[s] /\ list[s][done].poc = poc
               /\ Unsent(s, list[s][done], pre.lastPoc, poc, gop)
               /\ ~Unsent(s, list[s][done], pre.lastPoc, poc + 1, gop)
    <3>1. at # {} /\ done = CHOOSE i \in at : TRUE
      BY <2>4
    <3>2. done \in at
      <4> HIDE DEF at
      <4>1. QED BY <3>1
    <3>3. done \in DOMAIN list[s] /\ list[s][done].poc = poc
      BY <3>2
    <3> HIDE DEF done
    <3>4. QED BY <1>2, <2>2, <3>3 DEF Unsent
  <2> HIDE DEF done
  <2>5. done # Null =>
          /\ \A u \in Stage : s < u => \A i \in DOMAIN list[u] : list[u][i].id # list[s][done].id
          /\ \A x \in Slots : IsBack(shared, shared[list[s][done].id].prev[x],
                                     shared[list[s][done].id].poc, x)
    BY <1>2, <2>4, UnsentIsFirst, SMTT(30)
  <2>6. Passable(shared, list, pre.lastPoc, poc + 1, gop, s, done, old)
    BY <2>2, <2>4, <2>5 DEF Passable, IsGop
  <2>7. Pipeline(r.shared, r.list, pre.lastPoc, poc + 1, Counted(r, gop)) /\ SameBuffers(shared, r.shared)
    <3> DEFINE last == pre.lastPoc
               next == poc + 1
               flush == main.flush
    <3>1. /\ IsForward(r, shared, list, f, gop, done, old, s, flush)
          /\ s \in Stage /\ flush \in BOOLEAN
          /\ Pipeline(shared, list, last, next, gop)
          /\ Passable(shared, list, last, next, gop, s, done, old)
      BY <1>2, <2>3, <2>6 DEF IsForward
    <3> HIDE DEF f, old, s, poc, r, due, at, last, next, flush
    <3>2. Pipeline(r.shared, r.list, last, next, Counted(r, gop)) /\ SameBuffers(shared, r.shared)
      BY <3>1, ForwardPipeline
    <3>3. QED BY <3>2 DEF last, next
  <2> HIDE DEF r
  <2>10. SamePocs(shared, r.shared)
    BY <2>7 DEF SameBuffers, SamePocs
  <2>8. pre'.lastPoc = pre.lastPoc /\ mctf'.filterPoc = poc + 1 /\ poc + 1 \in Int
    BY <1>1, <1>2, <2>1
  <2>9. QED BY <1>1, <1>2, <2>1, <2>7, <2>8, <2>10, ProceedInv
<1>5. QED BY <1>3, <1>4

-----------------------------------------------------------------------------
(* PreProcess.                                                             *)

LEMMA PrevLinksBack ==
  ASSUME NEW sh, NEW l, Sharing(sh, l), NEW s \in Stage, NEW k \in DOMAIN l[s],
         NEW links, links = PrevLinks(l[s], l[s][k])
  PROVE  /\ links \in [Slots -> 0 .. Len(sh)]
         /\ \A x \in Slots : IsBack(sh, links[x], l[s][k].poc, x)
<1> DEFINE n == Len(sh)
           pics == l[s]
           pic == l[s][k]
           at(x) == {i \in DOMAIN pics : pics[i].poc = pic.poc - x}
           link(x) == IF \A j \in 1 .. x : at(j) # {} THEN pics[CHOOSE i \in at(x) : TRUE].id
                      ELSE IF x = 1 THEN pic.id ELSE Null
<1>1. /\ n \in Nat /\ DOMAIN sh = 1 .. n /\ \A i \in DOMAIN pics : pics[i] \in Picture(n)
      /\ \A i \in DOMAIN pics : sh[pics[i].id].poc = pics[i].poc
  BY Lengths DEF Sharing, AllFit, Fits
<1>2. \A i \in DOMAIN pics : pics[i].id \in 0 .. n /\ pics[i].id \in DOMAIN sh /\ pics[i].poc \in Int
  BY <1>1 DEF Picture
<1>3. ASSUME NEW x \in Slots
      PROVE  link(x) \in 0 .. n /\ IsBack(sh, link(x), pic.poc, x)
  <2>1. x \in 1 .. x /\ x \in Int
    BY SlotsAre
  <2>2. CASE \A j \in 1 .. x : at(j) # {}
    <3>1. at(x) # {}
      BY <2>1, <2>2
    <3> DEFINE i == CHOOSE j \in at(x) : TRUE
    <3>2. i \in at(x)
      <4> HIDE DEF at
      <4>1. QED BY <3>1
    <3>3. i \in DOMAIN pics /\ pics[i].poc = pic.poc - x
      BY <3>2
    <3>4. link(x) = pics[i].id
      BY <2>2
    <3> HIDE DEF i, link
    <3>5. link(x) \in 0 .. n /\ sh[link(x)].poc = pic.poc - x
      BY <1>1, <1>2, <3>3, <3>4
    <3> HIDE DEF at, pics, pic
    <3>6. QED BY <3>5 DEF IsBack
  <2>3. CASE ~(\A j \in 1 .. x : at(j) # {}) /\ x = 1
    <3>1. link(x) = pic.id
      BY <2>3
    <3> HIDE DEF link, at
    <3>2. QED BY <1>1, <1>2, <2>3, <3>1 DEF IsBack
  <2>4. CASE ~(\A j \in 1 .. x : at(j) # {}) /\ x # 1
    <3>1. link(x) = Null
      BY <2>4
    <3> HIDE DEF link, at
    <3>2. QED BY <1>1, <3>1 DEF IsBack, Null
  <2>5. QED BY <2>2, <2>3, <2>4
<1>4. links = [x \in Slots |-> link(x)]
  BY DEF PrevLinks
<1> HIDE DEF link
<1>5. QED BY <1>3, <1>4

(* In the buffers e the buffer id, if any, has got other links. *)
Relinks(sh, e, id, links) ==
  /\ e \in Seq(Buffer(Len(sh))) /\ Len(e) = Len(sh) /\ DOMAIN e = DOMAIN sh
  /\ \A j \in DOMAIN sh : /\ e[j].ref = sh[j].ref /\ e[j].poc = sh[j].poc
                          /\ e[j].prev = IF j = id THEN links ELSE sh[j].prev

LEMMA RelinkedSharing ==
  ASSUME NEW sh, NEW l, Sharing(sh, l), NEW e, NEW id, NEW links, Relinks(sh, e, id, links),
         \A s \in Stage : \A i \in DOMAIN l[s] : l[s][i].id = id => l[s][i].prev = NoLinks
  PROVE  Sharing(e, l)
<1> DEFINE n == Len(sh)
<1>1. /\ n \in Nat /\ DOMAIN sh = 1 .. n
      /\ \A s \in Stage : \A i \in DOMAIN l[s] : l[s][i] \in Picture(n)
  BY Lengths DEF Sharing
<1>2. Typed(e, l)
  BY DEF Sharing, Typed, Relinks
<1>3. Alike(l, l)
  BY DEF Alike
<1>4. AllFit(e, l)
  <2> SUFFICES ASSUME NEW s \in Stage, NEW i \in DOMAIN l[s] PROVE Fits(e, l[s][i])
    BY DEF AllFit
  <2>1. Fits(sh, l[s][i]) /\ l[s][i].id \in DOMAIN sh
        /\ \A x \in Slots : l[s][i].prev[x] # Null => l[s][i].prev[x] \in DOMAIN sh
    BY <1>1 DEF Sharing, AllFit, Picture, Null
  <2>2. \A x \in Slots : IsBack(e, l[s][i].prev[x], l[s][i].poc, x)
    BY <2>1 DEF Fits, IsBack, Relinks
  <2>3. \A x \in Slots : l[s][i].prev[x] # Null => e[l[s][i].id].prev[x] = l[s][i].prev[x]
    BY <2>1 DEF Fits, Relinks, NoLinks
  <2>4. QED BY <2>1, <2>2, <2>3 DEF Fits, Relinks
<1>5. QED BY <1>2, <1>3, <1>4, AlikeShares DEF Relinks

LEMMA TaggedPipeline ==
  ASSUME NEW sh, NEW l, NEW last, NEW next, NEW g, Pipeline(sh, l, last, next, g),
         NEW e, Relinks(sh, e, Null, NoLinks)
  PROVE  Pipeline(e, l, last, next, g)
<1> DEFINE U == UnsentIds(l, last, next, g)
<1>1. /\ Sharing(sh, l)
      /\ \A s \in Stage : \A i \in DOMAIN l[s] : l[s][i].id # Null /\ l[s][i].id \in DOMAIN sh
  <2>1. Sharing(sh, l)
    BY DEF Pipeline
  <2>2. /\ Len(sh) \in Nat /\ DOMAIN sh = 1 .. Len(sh)
        /\ \A s \in Stage : \A i \in DOMAIN l[s] : l[s][i] \in Picture(Len(sh))
    BY <2>1, Lengths DEF Sharing
  <2>3. QED BY <2>1, <2>2 DEF Picture, Null
<1>2. Sharing(e, l)
  BY <1>1, RelinkedSharing
<1>3. UnsentFit(e, l, U)
  <2>1. UnsentFit(sh, l, U)
    BY DEF Pipeline
  <2> HIDE DEF U
  <2>2. QED BY <1>1, <2>1 DEF UnsentFit, Relinks
<1>4. QED BY <1>2, <1>3 DEF Pipeline

LEMMA RelinkedPipeline ==
  ASSUME NEW sh, NEW l, NEW last \in Int, NEW next, NEW g, Pipeline(sh, l, last, next, g),
         NEW k \in DOMAIN l[1], l[1][k].poc > last,
         NEW links, \A x \in Slots : IsBack(sh, links[x], l[1][k].poc, x),
         NEW e, Relinks(sh, e, l[1][k].id, links), NEW free, free \in SUBSET DOMAIN l[1]
  PROVE  /\ Pipeline(e, l, l[1][k].poc, next, g)
         /\ Passable(e, l, l[1][k].poc, next, g, 1, k, free)
<1> DEFINE n == Len(sh)
           id == l[1][k].id
           poc == l[1][k].poc
           U == UnsentIds(l, last, next, g)
           V == UnsentIds(l, poc, next, g)
<1>1. /\ Sharing(sh, l) /\ Once(l) /\ 1 \in Stage /\ Stages[1] = "pre" /\ ~IsGop(1)
      /\ \A s \in Stage : Stages[s] = "pre" => s = 1
      /\ \A s \in Stage : s # 1 => 1 < s
  BY StagesAre DEF Pipeline, Sharing, Stage, IsGop
<1>2. /\ n \in Nat /\ DOMAIN sh = 1 .. n /\ k # Null
      /\ \A s \in Stage : \A i \in DOMAIN l[s] : l[s][i] \in Picture(n)
  BY <1>1, Lengths DEF Sharing, Null
<1>3. /\ poc \in Int /\ id \in DOMAIN sh
      /\ \A s \in Stage : \A i \in DOMAIN l[s] : l[s][i].id \in DOMAIN sh /\ l[s][i].poc \in Int
  BY <1>1, <1>2 DEF Picture
<1>4. Unsent(1, l[1][k], last, next, g) /\ ~Unsent(1, l[1][k], poc, next, g)
  BY <1>1, <1>3 DEF Unsent
<1>5. \A s \in Stage : 1 < s => \A i \in DOMAIN l[s] : l[s][i].id # id
  BY <1>1, <1>4, UnsentIsFirst
<1>6. \A s \in Stage : \A i \in DOMAIN l[s] : l[s][i].id = id => l[s][i].prev = NoLinks
  BY <1>1, <1>5 DEF Pipeline, NoneLinked
<1>7. Sharing(e, l)
  BY <1>1, <1>6, RelinkedSharing
<1>8. UnsentFit(e, l, V)
  <2>1. UnsentFit(sh, l, U)
    BY DEF Pipeline
  <2>2. ASSUME NEW s \in Stage, NEW i \in DOMAIN l[s], l[s][i].id \in V[s]
        PROVE  l[s][i].id \in U[s] /\ l[s][i].id # id
    <3>1. Unsent(s, l[s][i], poc, next, g)
      BY <1>1, <2>2, UnsentIdIs
    <3>2. Unsent(s, l[s][i], last, next, g)
      BY <1>3, <3>1 DEF Unsent
    <3>3. l[s][i].id \in U[s]
      BY <1>1, <3>2, UnsentIdIs
    <3>4. l[s][i].id # id
      <4>1. CASE s = 1
        <5>1. i # k
          BY <1>4, <3>1, <4>1
        <5>2. QED BY <1>1, <4>1, <5>1 DEF Once
      <4>2. CASE s # 1
        BY <1>1, <1>5, <4>2
      <4>3. QED BY <4>1, <4>2
    <3>5. QED BY <3>3, <3>4
  <2> HIDE DEF U, V, id, poc
  <2>3. QED BY <1>3, <2>1, <2>2 DEF UnsentFit, Relinks, id
<1>9. Pipeline(e, l, poc, next, g)
  BY <1>7, <1>8 DEF Pipeline
<1>10. \A x \in Slots : IsBack(e, e[id].prev[x], e[id].poc, x)
  <2>1. sh[id].poc = poc
    BY <1>1 DEF Sharing, AllFit, Fits
  <2>2. e[id].poc = poc /\ e[id].prev = links /\ e \in Seq(Buffer(n)) /\ DOMAIN e = 1 .. n
    BY <1>2, <1>3, <2>1 DEF Relinks
  <2>3. e[id] \in Buffer(n)
    BY <1>2, <1>3, <2>2
  <2>4. links \in [Slots -> 0 .. n]
    BY <2>2, <2>3 DEF Buffer
  <2>5. \A x \in Slots : links[x] # Null => links[x] \in DOMAIN sh
    BY <1>2, <2>4 DEF Null
  <2>6. \A x \in Slots : IsBack(sh, links[x], poc, x)
    OBVIOUS
  <2>7. \A j \in DOMAIN sh : e[j].poc = sh[j].poc
    BY DEF Relinks
  <2> HIDE DEF id, poc
  <2>8. ASSUME NEW x \in Slots PROVE IsBack(e, links[x], poc, x)
    BY <2>5, <2>6, <2>7 DEF IsBack
  <2>9. QED BY <2>2, <2>8
<1>11. Passable(e, l, poc, next, g, 1, k, free)
  BY <1>1, <1>2, <1>4, <1>5, <1>10 DEF Passable, IsGop
<1>12. QED BY <1>9, <1>11

LEMMA EntryFlags ==
  ASSUME NEW idr \in BOOLEAN, NEW poc \in Int
  PROVE  Entries[idr][poc].isStartOfIntra \in Flags /\ Entries[idr][poc].isStartOfGop \in Flags
<1> DEFINE both(x, y) == {Entries[x][y].isStartOfIntra, Entries[x][y].isStartOfGop}
<1>1. Flags = BOOLEAN \union UNION {both(x, y) : x \in BOOLEAN, y \in Int}
  BY DEF Flags
<1>2. Entries[idr][poc].isStartOfIntra \in both(idr, poc)
      /\ Entries[idr][poc].isStartOfGop \in both(idr, poc)
  OBVIOUS
<1> HIDE DEF both
<1>3. both(idr, poc) \in {both(x, y) : x \in BOOLEAN, y \in Int}
  OBVIOUS
<1>4. QED BY <1>1, <1>2, <1>3

LEMMA PreProcessInv ==
  ASSUME PipeInv, main.at = "pre", UNCHANGED <<conf, mctf, app>>, PreProcessNext(main.stage),
         Last(list[main.stage]).poc > pre.lastPoc
  PROVE  PipeInv'
<1> DEFINE n == Len(shared)
           s == main.stage
           k == Len(list[s])
           pic == Last(list[s])
           id == pic.id
           poc == pic.poc
           entry == Entry(poc)
           links == IF conf.visAct /\ ~IsLeadTrail(poc) THEN PrevLinks(list[s], pic)
                    ELSE shared[id].prev
           e == [shared EXCEPT ![id].isValid = TRUE, ![id].prev = links,
                               ![id].isStartOfIntra = entry.isStartOfIntra,
                               ![id].isStartOfGop = entry.isStartOfGop]
           what == Check(pre.nextPoc # poc, "gop entry of another picture")
           f == failed \union what
           free == UnusedPics(list[s])
           st == [shared |-> e, list |-> list, failed |-> f, picCount |-> Counts(gop)]
           r == Forward(st, k, free, s, main.flush)
<1>1. /\ s = 1 /\ 1 \in Stage /\ list[1] # <<>> /\ main.flush \in BOOLEAN
      /\ Pipeline(shared, list, pre.lastPoc, mctf.filterPoc, gop) /\ Sharing(shared, list)
      /\ pre.lastPoc \in Int /\ mctf.filterPoc \in Int
  BY StagesAre DEF PipeInv, Driving, Pipeline, Stage
<1>2. /\ n \in Nat /\ DOMAIN shared = 1 .. n /\ shared \in Seq(Buffer(n))
      /\ list[1] \in Seq(Picture(n)) /\ k \in DOMAIN list[1] /\ list[1][k] \in Picture(n)
      /\ \A j \in DOMAIN shared : shared[j] \in Buffer(n)
  <2>1. Typed(shared, list)
    BY <1>1 DEF Sharing
  <2>2. list[1] \in Seq(Picture(n)) /\ k \in Nat /\ DOMAIN list[1] = 1 .. k
    BY <1>1, <2>1, Lengths
  <2>3. k # 0
    BY <1>1, <2>2
  <2>4. QED BY <1>1, <2>1, <2>2, <2>3, Lengths DEF Typed
<1>0. poc > pre.lastPoc
  OBVIOUS
<1>3. pic = list[1][k] /\ id \in DOMAIN shared /\ poc \in Int /\ shared[id] \in Buffer(n)
  <2>1. pic = list[1][k]
    BY <1>1, <1>2 DEF Last
  <2> HIDE DEF pic, k
  <2>2. QED BY <1>2, <2>1 DEF Picture
<1>4. Proceed(r) /\ pre'.lastPoc = poc
  <2>1. /\ Proceed(Forward([Pipe EXCEPT !.shared = e, !.failed = @ \union what], k, free, s, main.flush))
        /\ pre' = [lastPoc |-> poc, nextPoc |-> pre.nextPoc + 1]
    BY DEF PreProcessNext
  <2>2. [Pipe EXCEPT !.shared = e, !.failed = @ \union what] = st
    <3> HIDE DEF e, what
    <3>1. [Pipe EXCEPT !.shared = e, !.failed = @ \union what] = [Pipe EXCEPT !.shared = e, !.failed = f]
      BY DEF Pipe
    <3> HIDE DEF f
    <3>2. [Pipe EXCEPT !.shared = e, !.failed = f] = st
      BY PipeWith
    <3>3. QED BY <3>1, <3>2
  <2> HIDE DEF e, what, free, f, k, st, poc
  <2>3. QED BY <2>1, <2>2
<1>5. /\ links \in [Slots -> 0 .. n]
      /\ \A x \in Slots : IsBack(shared, links[x], poc, x)
  <2> HIDE DEF pic, k
  <2>1. CASE links = PrevLinks(list[s], pic)
    <3>1. links = PrevLinks(list[1], list[1][k])
      BY <1>1, <1>3, <2>1
    <3> HIDE DEF links
    <3>2. QED BY <1>1, <1>2, <1>3, <3>1, PrevLinksBack
  <2>2. CASE links = shared[id].prev
    <3> HIDE DEF links
    <3>1. Unsent(1, list[1][k], pre.lastPoc, mctf.filterPoc, gop)
      BY <1>0, <1>1, <1>3, StagesAre DEF Unsent
    <3>4. \A x \in Slots : IsBack(shared, shared[list[1][k].id].prev[x],
                                  shared[list[1][k].id].poc, x)
      BY <1>1, <1>2, <3>1, UnsentIsFirst
    <3>5. shared[list[1][k].id].poc = list[1][k].poc
      BY <1>1, <1>2 DEF Sharing, AllFit, Fits
    <3>2. /\ \A x \in Slots : IsBack(shared, shared[id].prev[x], shared[id].poc, x)
          /\ shared[id].poc = poc
      BY <1>3, <3>4, <3>5
    <3>3. QED BY <1>3, <2>2, <3>2 DEF Buffer
  <2>3. QED BY <2>1, <2>2
<1>6. entry.isStartOfIntra \in Flags /\ entry.isStartOfGop \in Flags
  <2>1. conf.poc0Idr \in BOOLEAN
    BY PipelineAssumption DEF PipeInv
  <2> HIDE DEF poc
  <2>3. QED BY <1>3, <2>1, EntryFlags DEF Entry
<1> HIDE DEF links, entry, pic
<1>7. Relinks(shared, e, id, links)
  <2> DEFINE b == [shared[id] EXCEPT !.isValid = TRUE, !.prev = links,
                                     !.isStartOfIntra = entry.isStartOfIntra,
                                     !.isStartOfGop = entry.isStartOfGop]
  <2>1. e = [shared EXCEPT ![id] = b]
    BY <1>2, <1>3
  <2>2. b \in Buffer(n) /\ b.ref = shared[id].ref /\ b.poc = shared[id].poc /\ b.prev = links
    <3> DEFINE one == [shared[id] EXCEPT !.isValid = TRUE]
               two == [one EXCEPT !.prev = links]
               three == [two EXCEPT !.isStartOfIntra = entry.isStartOfIntra]
    <3>1. one \in Buffer(n) /\ one.ref = shared[id].ref /\ one.poc = shared[id].poc
      BY <1>3 DEF Buffer
    <3>2. two \in Buffer(n) /\ two.ref = shared[id].ref /\ two.poc = shared[id].poc /\ two.prev = links
      <4> HIDE DEF one
      <4>1. QED BY <1>5, <3>1 DEF Buffer
    <3>3. /\ three \in Buffer(n) /\ three.ref = shared[id].ref /\ three.poc = shared[id].poc
          /\ three.prev = links
      <4> HIDE DEF two
      <4>1. QED BY <1>6, <3>2 DEF Buffer
    <3>4. b = [three EXCEPT !.isStartOfGop = entry.isStartOfGop]
      OBVIOUS
    <3> HIDE DEF three, b
    <3>5. QED BY <1>6, <3>3, <3>4 DEF Buffer
  <2> HIDE DEF b, e, id, n
  <2>3. /\ e \in Seq(Buffer(n)) /\ Len(e) = Len(shared) /\ DOMAIN e = DOMAIN shared
        /\ \A j \in DOMAIN shared : e[j] = IF j = id THEN b ELSE shared[j]
    BY <1>2, <1>3, <2>1, <2>2
  <2>4. QED BY <2>2, <2>3 DEF Relinks, n
<1>8. free \in SUBSET DOMAIN list[1]
  <2>1. free \in SUBSET DOMAIN list[s]
    BY DEF UnusedPics
  <2> HIDE DEF free, s
  <2>2. QED BY <1>1, <2>1
<1>9. /\ Pipeline(e, list, poc, mctf.filterPoc, gop)
      /\ Passable(e, list, poc, mctf.filterPoc, gop, 1, k, free)
  <2> DEFINE last == pre.lastPoc
             next == mctf.filterPoc
  <2>4. list[1][k].id = id /\ list[1][k].poc = poc
    BY <1>3
  <2>1. /\ Pipeline(shared, list, last, next, gop) /\ last \in Int /\ list[1][k].poc > last
        /\ k \in DOMAIN list[1] /\ Relinks(shared, e, list[1][k].id, links)
        /\ \A x \in Slots : IsBack(shared, links[x], list[1][k].poc, x)
        /\ free \in SUBSET DOMAIN list[1]
    <3> HIDE DEF id, poc, e, free, k
    <3>1. QED BY <1>0, <1>1, <1>2, <1>5, <1>7, <1>8, <2>4
  <2> HIDE DEF last, next, e, free, k, id, poc
  <2>2. /\ Pipeline(e, list, list[1][k].poc, next, gop)
        /\ Passable(e, list, list[1][k].poc, next, gop, 1, k, free)
    BY <2>1, RelinkedPipeline
  <2>3. QED BY <1>3, <2>2 DEF next, poc
<1>10. Pipeline(r.shared, r.list, poc, mctf.filterPoc, Counted(r, gop)) /\ SameBuffers(e, r.shared)
  <2> DEFINE next == mctf.filterPoc
             flush == main.flush
  <2>1. /\ IsForward(r, e, list, f, gop, k, free, s, flush)
        /\ s \in Stage /\ flush \in BOOLEAN
        /\ Pipeline(e, list, poc, next, gop) /\ Passable(e, list, poc, next, gop, s, k, free)
    <3>1. IsForward(r, e, list, f, gop, k, free, s, flush)
      BY DEF IsForward
    <3> HIDE DEF f, free, e, r, k, poc
    <3>2. QED BY <1>1, <1>9, <3>1
  <2> HIDE DEF f, free, e, r, k, poc, next, flush, s
  <2>2. Pipeline(r.shared, r.list, poc, next, Counted(r, gop)) /\ SameBuffers(e, r.shared)
    BY <2>1, ForwardPipeline
  <2>3. QED BY <2>2 DEF next
<1> HIDE DEF r, e
<1>11. SamePocs(shared, r.shared)
  BY <1>7, <1>10 DEF Relinks, SameBuffers, SamePocs
<1>12. QED BY <1>1, <1>3, <1>4, <1>10, <1>11, ProceedInv

(* The loop ends with a flush: the pictures left all leave.                *)
LEMMA FixStartIs ==
  ASSUME PipeInv, NEW pics
  PROVE  Relinks(shared, FixStartOfLastGop(pics), Null, NoLinks)
<1> DEFINE n == Len(shared)
           e == FixStartOfLastGop(pics)
           start == {pics[i] : i \in StartOfLastGop(pics)}
           first(pic) == ~conf.poc0Idr /\ GopNum(pic.poc) = 0
           gopHere(k) == \E pic \in start : pic.id = k
           intraHere(k) == \E pic \in start : pic.id = k /\ first(pic)
           tagged(b, x, y) == [b EXCEPT !.isStartOfGop = @ \/ x, !.isStartOfIntra = @ \/ y]
<1>1. /\ n \in Nat /\ DOMAIN shared = 1 .. n /\ shared \in Seq(Buffer(n))
      /\ \A k \in DOMAIN shared : shared[k] \in Buffer(n) /\ k # Null
  <2>1. Typed(shared, list)
    BY DEF PipeInv, Pipeline, Sharing
  <2>2. QED BY <2>1, Lengths DEF Typed, Null
<1>2. ASSUME NEW b \in Buffer(n), NEW x \in BOOLEAN, NEW y \in BOOLEAN
      PROVE  /\ tagged(b, x, y) \in Buffer(n) /\ tagged(b, x, y).ref = b.ref
             /\ tagged(b, x, y).poc = b.poc /\ tagged(b, x, y).prev = b.prev
  <2> DEFINE u == b.isStartOfGop \/ x
             v == b.isStartOfIntra \/ y
             c == [b EXCEPT !.isStartOfGop = u, !.isStartOfIntra = v]
  <2>1. u \in BOOLEAN /\ v \in BOOLEAN
    OBVIOUS
  <2>2. u \in Flags /\ v \in Flags
    BY <2>1 DEF Flags
  <2>3. tagged(b, x, y) = c
    OBVIOUS
  <2> HIDE DEF u, v
  <2>4. c \in Buffer(n) /\ c.ref = b.ref /\ c.poc = b.poc /\ c.prev = b.prev
    BY <2>2 DEF Buffer
  <2> HIDE DEF c, tagged
  <2>5. QED BY <2>3, <2>4
<1>3. e = [k \in DOMAIN shared |-> tagged(shared[k], gopHere(k), intraHere(k))]
  BY DEF FixStartOfLastGop
<1>4. \A k \in DOMAIN shared : gopHere(k) \in BOOLEAN /\ intraHere(k) \in BOOLEAN
  OBVIOUS
<1> HIDE DEF gopHere, intraHere, tagged
<1>5. ASSUME NEW k \in DOMAIN shared
      PROVE  /\ e[k] \in Buffer(n) /\ e[k].ref = shared[k].ref /\ e[k].poc = shared[k].poc
             /\ e[k].prev = shared[k].prev
  <2>1. e[k] = tagged(shared[k], gopHere(k), intraHere(k))
    BY <1>3
  <2> HIDE DEF e
  <2>2. QED BY <1>1, <1>2, <1>4, <2>1
<1>6. e = [k \in 1 .. n |-> e[k]]
  BY <1>1, <1>3
<1> HIDE DEF e
<1>7. e \in [1 .. n -> Buffer(n)]
  BY <1>1, <1>5, <1>6
<1>8. e \in Seq(Buffer(n)) /\ Len(e) = n /\ DOMAIN e = DOMAIN shared
  <2> HIDE DEF n
  <2>1. QED BY <1>1, <1>7
<1>9. QED BY <1>1, <1>5, <1>8 DEF Relinks, e

LEMMA PreEndsInv ==
  ASSUME PipeInv, main.at = "pre", UNCHANGED <<conf, pre, mctf, app>>,
         Proceed(Forward([Pipe EXCEPT !.shared = FixStartOfLastGop(list[main.stage])],
                         Null, DOMAIN list[main.stage], main.stage, main.flush))
  PROVE  PipeInv'
<1> DEFINE s == main.stage
           e == FixStartOfLastGop(list[s])
           free == DOMAIN list[s]
           f == failed
           last == pre.lastPoc
           next == mctf.filterPoc
           flush == main.flush
           none == Null
           st == [shared |-> e, list |-> list, failed |-> f, picCount |-> Counts(gop)]
           r == Forward(st, none, free, s, flush)
<1>1. /\ s = 1 /\ s \in Stage /\ ~IsGop(s) /\ main.flush \in BOOLEAN
      /\ Pipeline(shared, list, last, next, gop) /\ last \in Int /\ next \in Int
  BY StagesAre DEF PipeInv, Driving, Stage, IsGop
<1>2. Proceed(r)
  <2>1. [Pipe EXCEPT !.shared = e] = st
    BY PipeWith
  <2>2. QED BY <2>1
<1>3. Relinks(shared, e, Null, NoLinks)
  BY FixStartIs
<1>4. Pipeline(e, list, last, next, gop)
  <2> HIDE DEF e, last, next
  <2>1. QED BY <1>1, <1>3, TaggedPipeline
<1>5. Passable(e, list, last, next, gop, s, none, free)
  BY <1>1 DEF Passable, IsGop
<1>6. IsForward(r, e, list, f, gop, none, free, s, flush)
  BY DEF IsForward
<1> HIDE DEF e, free, f, last, next, none, st, r
<1>7. Pipeline(r.shared, r.list, last, next, Counted(r, gop)) /\ SameBuffers(e, r.shared)
  <2> HIDE DEF s, flush
  <2>1. s \in Stage /\ flush \in BOOLEAN
    BY <1>1 DEF flush
  <2>2. QED BY <1>4, <1>5, <1>6, <2>1, ForwardPipeline
<1>8. SamePocs(shared, r.shared)
  BY <1>3, <1>7 DEF Relinks, SameBuffers, SamePocs
<1>9. pre'.lastPoc = last /\ mctf'.filterPoc = next
  BY DEF last, next
<1>10. QED BY <1>1, <1>2, <1>7, <1>8, <1>9, ProceedInv

LEMMA ProcessPreInv ==
  ASSUME PipeInv, ProcessPre
  PROVE  PipeInv'
<1>1. main.at = "pre" /\ UNCHANGED <<conf, mctf, app>>
  BY DEF ProcessPre
<1> DEFINE s == main.stage
           newer == Last(list[s]).poc > pre.lastPoc
           ends == Proceed(Forward([Pipe EXCEPT !.shared = FixStartOfLastGop(list[s])],
                                   Null, DOMAIN list[s], s, main.flush)) /\ UNCHANGED pre
           next == PreProcessNext(s)
           idle == Proceed(Pipe) /\ UNCHANGED pre
<1>2. (CASE newer -> next [] PreIdle -> idle [] OTHER -> ends)
  BY DEF ProcessPre
<1>3. (newer /\ next) \/ idle \/ ends
  <2> HIDE DEF newer, ends, next, idle
  <2>1. QED BY <1>2, Zenon
<1> HIDE DEF newer, ends, next, idle
<1>4. CASE newer /\ next
  BY <1>1, <1>4, PreProcessInv DEF newer, next
<1>5. CASE idle
  BY <1>1, <1>5, IdleProceeds DEF idle
<1>6. CASE ends
  BY <1>1, <1>6, PreEndsInv DEF ends
<1>7. QED BY <1>3, <1>4, <1>5, <1>6

-----------------------------------------------------------------------------
(* The input picture.                                                      *)

LEMMA FreshUnsent ==
  ASSUME NEW sh, NEW l, NEW last, NEW next, NEW g, Pipeline(sh, l, last, next, g),
         NEW id \in 1 .. Len(sh) + 1, Unread(l, id), NEW e, Sharing(e, l),
         \A k \in DOMAIN sh : k # id => e[k] = sh[k]
  PROVE  Pipeline(e, l, last, next, g)
<1> DEFINE U == UnsentIds(l, last, next, g)
<1>1. \A s \in Stage : \A i \in DOMAIN l[s] : l[s][i].id \in DOMAIN sh /\ l[s][i].id # id
  <2>1. /\ DOMAIN sh = 1 .. Len(sh)
        /\ \A s \in Stage : \A i \in DOMAIN l[s] : l[s][i] \in Picture(Len(sh))
    BY Lengths DEF Pipeline, Sharing
  <2>2. QED BY <2>1 DEF Picture, Unread
<1>2. UnsentFit(sh, l, U)
  BY DEF Pipeline
<1> HIDE DEF U
<1>3. UnsentFit(e, l, U)
  BY <1>1, <1>2 DEF UnsentFit
<1>4. QED BY <1>3 DEF Pipeline, U

(* The first stage has taken a picture with a buffer that nobody read. *)
LEMMA TakenPipeline ==
  ASSUME NEW sh, NEW l, NEW last, NEW next, NEW g, Pipeline(sh, l, last, next, g),
         NEW id \in DOMAIN sh, Unread(l, id), sh[id].prev = NoLinks, NEW flush \in BOOLEAN,
         NEW st, st.shared = sh, st.list = l, NEW r, Added(st, r, id, 1, flush)
  PROVE  Pipeline(r.shared, r.list, last, next, g)
<1> DEFINE n == Len(sh)
           U == UnsentIds(l, last, next, g)
           V == UnsentIds(r.list, last, next, g)
           new == NewPic(sh, id, flush)
<1>1. /\ Sharing(sh, l) /\ Sharing(r.shared, r.list) /\ Once(l) /\ Once(r.list)
      /\ SameBuffers(sh, r.shared) /\ 1 \in Stage /\ ~IsGop(1)
      /\ \A u \in Stage : u # 1 => r.list[u] = l[u] /\ 1 < u
      /\ \E at \in 1 .. Len(l[1]) + 1 : InsertedAt(r.list[1], l[1], new, at)
  BY StagesAre DEF Pipeline, Sharing, Added, Stage, IsGop
<1>2. /\ n \in Nat /\ DOMAIN sh = 1 .. n /\ sh \in Seq(Buffer(n))
      /\ l[1] \in Seq(Picture(n)) /\ r.list[1] \in Seq(Picture(n))
  <2>1. Typed(sh, l) /\ Typed(r.shared, r.list) /\ Len(r.shared) = n
    BY <1>1 DEF Sharing, SameBuffers
  <2>2. QED BY <1>1, <2>1, Lengths DEF Typed
<1>3. /\ new \in Picture(n) /\ new.id = id /\ new.prev = NoLinks
  BY <1>2, NewPicIs
<1>4. PICK at \in 1 .. Len(l[1]) + 1 : InsertedAt(r.list[1], l[1], new, at)
  BY <1>1
<1> HIDE DEF new
<1>5. \A i \in DOMAIN r.list[1] :
        r.list[1][i] = new \/ \E j \in DOMAIN l[1] : Kin(l[1][j], r.list[1][i])
  <2> HIDE DEF n
  <2>1. QED BY <1>2, <1>3, <1>4, InsertedMembers
<1>6. UnsentFit(sh, l, U) /\ NoneLinked(l[1])
  BY DEF Pipeline
<1>7. \A s \in Stage : \A i \in DOMAIN l[s] : l[s][i].id \in DOMAIN sh /\ l[s][i].id # id
  <2>1. \A s \in Stage : \A i \in DOMAIN l[s] : l[s][i] \in Picture(n)
    BY <1>1, Lengths DEF Sharing
  <2>2. QED BY <1>2, <2>1 DEF Picture, Unread
<1>8. ASSUME NEW s \in Stage, NEW i \in DOMAIN r.list[s], r.list[s][i].id \in V[s]
      PROVE  \/ /\ s = 1 /\ r.list[s][i] = new
             \/ \E j \in DOMAIN l[s] : /\ l[s][j].id \in U[s] /\ l[s][j].id = r.list[s][i].id
                                       /\ l[s][j].prev = r.list[s][i].prev
  <2>1. Unsent(s, r.list[s][i], last, next, g)
    BY <1>1, <1>8, UnsentIdIs
  <2>2. CASE s = 1 /\ r.list[s][i] = new
    BY <2>2
  <2>3. CASE s = 1 /\ r.list[s][i] # new
    <3>1. PICK j \in DOMAIN l[s] : Kin(l[s][j], r.list[s][i])
      BY <1>5, <2>3
    <3>2. Unsent(s, l[s][j], last, next, g)
      BY <2>1, <3>1 DEF Unsent, Kin
    <3>3. l[s][j].id \in U[s]
      BY <1>1, <3>2, UnsentIdIs
    <3> HIDE DEF U
    <3>4. QED BY <3>1, <3>3 DEF Kin
  <2>4. CASE s # 1
    <3>1. r.list[s] = l[s]
      BY <1>1, <2>4
    <3>2. Unsent(s, l[s][i], last, next, g) /\ i \in DOMAIN l[s]
      BY <2>1, <3>1
    <3>3. l[s][i].id \in U[s]
      BY <1>1, <3>2, UnsentIdIs
    <3> HIDE DEF U
    <3>4. QED BY <3>1, <3>2, <3>3
  <2>5. QED BY <2>2, <2>3, <2>4
<1> HIDE DEF U, V
<1>9. ASSUME NEW s \in Stage, NEW i \in DOMAIN r.list[s], r.list[s][i].id \in V[s]
      PROVE  /\ \A t \in Stage : s < t => \A j \in DOMAIN r.list[t] : r.list[t][j].id # r.list[s][i].id
             /\ r.list[s][i].prev = r.shared[r.list[s][i].id].prev
  <2>0. \A t \in Stage : s < t => t # 1
    BY <1>1 DEF Stage
  <2>1. CASE s = 1 /\ r.list[s][i] = new
    <3>1. r.shared[id].prev = NoLinks
      BY <1>1 DEF SameBuffers
    <3>2. QED BY <1>1, <1>3, <1>7, <2>0, <2>1, <3>1
  <2>2. CASE \E j \in DOMAIN l[s] : /\ l[s][j].id \in U[s] /\ l[s][j].id = r.list[s][i].id
                                    /\ l[s][j].prev = r.list[s][i].prev
    <3>1. PICK j \in DOMAIN l[s] : /\ l[s][j].id \in U[s] /\ l[s][j].id = r.list[s][i].id
                                   /\ l[s][j].prev = r.list[s][i].prev
      BY <2>2
    <3>2. /\ \A t \in Stage : s < t => \A k \in DOMAIN l[t] : l[t][k].id # l[s][j].id
          /\ l[s][j].prev = sh[l[s][j].id].prev
      BY <1>6, <3>1 DEF UnsentFit
    <3>3. sh[l[s][j].id].prev = r.shared[l[s][j].id].prev
      BY <1>1, <1>7 DEF SameBuffers
    <3>4. \A t \in Stage : s < t => r.list[t] = l[t]
      BY <1>1, <2>0
    <3>5. \A t \in Stage : s < t => \A k \in DOMAIN r.list[t] : r.list[t][k].id # r.list[s][i].id
      BY <3>1, <3>2, <3>4
    <3>6. r.list[s][i].prev = r.shared[r.list[s][i].id].prev
      BY <3>1, <3>2, <3>3
    <3>7. QED BY <3>5, <3>6
  <2>3. QED BY <1>8, <1>9, <2>1, <2>2
<1>10. UnsentFit(r.shared, r.list, V)
  BY <1>9 DEF UnsentFit
<1>11. NoneLinked(r.list[1])
  BY <1>3, <1>5, <1>6 DEF NoneLinked, Kin
<1>12. AllAccounted(g, r.list)
  <2>1. \A u \in GopStages : r.list[u] = l[u]
    BY <1>1, StagesAre
  <2>2. QED BY <2>1 DEF Pipeline, AllAccounted
<1>13. QED BY <1>1, <1>10, <1>11, <1>12 DEF Pipeline, V

LEMMA FreePicSharedIs ==
  ASSUME PipeInv
  PROVE  \/ FreePicShared = Null
         \/ /\ FreePicShared \in 1 .. Len(shared) + 1
            /\ FreePicShared \in DOMAIN shared => shared[FreePicShared].ref = 0
<1>1. Len(shared) \in Nat /\ DOMAIN shared = 1 .. Len(shared)
  BY Lengths DEF PipeInv, Pipeline, Sharing
<1>2. CASE Unused # {}
  <2> DEFINE k == CHOOSE i \in Unused : \A j \in Unused : i <= j
  <2>1. \E i \in Unused : \A j \in Unused : i <= j
    <3>1. Unused \subseteq Nat
      BY <1>1 DEF Unused
    <3>2. QED BY <1>2, <3>1, LeastNumber
  <2>2. k \in Unused
    BY <2>1
  <2>3. FreePicShared = k
    BY <1>2 DEF FreePicShared
  <2> HIDE DEF k
  <2>4. QED BY <1>1, <2>2, <2>3 DEF Unused
<1>3. CASE Unused = {}
  <2>1. FreePicShared = Null \/ FreePicShared = Len(shared) + 1
    BY <1>3 DEF FreePicShared
  <2>2. QED BY <1>1, <2>1
<1>4. QED BY <1>2, <1>3

LEMMA TakeInputInv ==
  ASSUME PipeInv, TakeInput
  PROVE  PipeInv'
<1> DEFINE n == Len(shared)
           id == IF main.pending THEN FreePicShared ELSE Null
           buf == Reused
           sh == IF id \in DOMAIN shared THEN [shared EXCEPT ![id] = buf] ELSE Append(shared, buf)
           flush == main.flush
           st == AddPicSorted([Pipe EXCEPT !.shared = sh], id, 1, flush)
           rcvd == IF id = Null THEN PicsRcvd ELSE PicsRcvd + 1
           last == pre.lastPoc
           next == mctf.filterPoc
<1>1. /\ Continue(IF id = Null THEN Pipe ELSE st)
      /\ app' = [app EXCEPT !.passed = IF id = Null THEN @ ELSE @ + 1]
      /\ main' = [main EXCEPT !.at = "run", !.stage = 1, !.pending = @ /\ id = Null,
                              !.empty = rcvd > 0 \/ main.flush]
      /\ UNCHANGED <<conf, pre, mctf, gop>>
  BY DEF TakeInput
<1>2. /\ Pipeline(shared, list, last, next, gop) /\ Sharing(shared, list) /\ flush \in BOOLEAN
      /\ last \in Int /\ next \in Int /\ conf \in Configs /\ conf.leadFrames \in Nat
      /\ app.passed \in Nat /\ PicsRcvd \in Int /\ PicsRcvd >= -conf.leadFrames
  BY PipelineAssumption DEF PipeInv, Pipeline, Driving, PicsRcvd
<1>3. /\ n \in Nat /\ DOMAIN shared = 1 .. n
  BY <1>2, Lengths DEF Sharing
<1>4. \A l : Driving(main', l)
  <2> DEFINE Main == [at : Places, stage : Int, flush : BOOLEAN, pending : BOOLEAN, au : Int,
                      empty : BOOLEAN]
             b == main.pending /\ id = Null
             c == rcvd > 0 \/ main.flush
             one == [main EXCEPT !.at = "run"]
             two == [one EXCEPT !.stage = 1]
             three == [two EXCEPT !.pending = b]
  <2>1. main \in Main /\ "run" \in Places
    BY DEF PipeInv, Driving, Places
  <2>2. one \in Main /\ one.at = "run"
    BY <2>1
  <2>3. two \in Main /\ two.at = "run" /\ two.stage = 1 /\ two.pending = main.pending
    <3> HIDE DEF one
    <3>1. one.pending = main.pending
      BY <2>1 DEF one
    <3>2. QED BY <2>2, <3>1
  <2>4. b \in BOOLEAN /\ c \in BOOLEAN
    BY <2>1
  <2>5. three \in Main /\ three.at = "run" /\ three.stage = 1
    <3> HIDE DEF two, b
    <3>1. QED BY <2>3, <2>4
  <2>6. main' = [three EXCEPT !.empty = c]
    <3> HIDE DEF c
    <3>1. main' = [main EXCEPT !.at = "run", !.stage = 1, !.pending = @ /\ id = Null, !.empty = c]
      BY <1>1 DEF c
    <3> HIDE DEF id
    <3>2. QED BY <2>1, <3>1
  <2> HIDE DEF three, c
  <2>7. main' \in Main /\ main'.at = "run" /\ main'.stage = 1
    BY <2>4, <2>5, <2>6
  <2>8. 1 \in Stage
    BY StagesAre DEF Stage
  <2>9. QED BY <2>7, <2>8 DEF Driving
<1>5. CASE id = Null
  <2>1. shared' = shared /\ list' = list
    BY <1>1, <1>5, CountedAsIs DEF Continue
  <2>2. app'.passed = app.passed
    <3> HIDE DEF id
    <3>1. QED BY <1>1, <1>5
  <2>3. QED BY <1>1, <1>4, <2>1, <2>2, IdleInv
<1>6. CASE id # Null
  <2>1. /\ id \in 1 .. n + 1
        /\ id \in DOMAIN shared => shared[id].ref = 0
    BY <1>6, FreePicSharedIs
  <2>2. shared' = st.shared /\ list' = st.list
    BY <1>1, <1>6 DEF Continue
  <2>3. app'.passed = app.passed + 1
    <3> HIDE DEF id
    <3>1. QED BY <1>1, <1>6
  <2> HIDE DEF id
  <2>4. Unread(list, id)
    BY <1>2, <2>1, UnusedIsUnread
  <2>5. /\ buf \in Buffer(n) /\ buf.ref = 0 /\ buf.prev = NoLinks /\ buf.poc = PicsRcvd
    BY <1>2, <1>3 DEF Reused, Buffer, NoLinks, Null, Flags
  <2>6. \A k \in DOMAIN shared : shared[k].poc # buf.poc
    <3>1. \A k \in DOMAIN shared : shared[k] \in Buffer(n)
      BY <1>2, Lengths DEF Sharing
    <3>2. \A k \in DOMAIN shared : shared[k].poc \in Int /\ shared[k].poc < PicsRcvd
      BY <3>1 DEF PipeInv, PocsPast, Buffer
    <3> HIDE DEF buf
    <3>3. QED BY <1>2, <2>5, <3>2
  <2> HIDE DEF buf
  <2>7. /\ Sharing(sh, list) /\ id \in DOMAIN sh /\ sh[id] = buf
        /\ DOMAIN sh = DOMAIN shared \union {id}
        /\ \A k \in DOMAIN shared : k # id => sh[k] = shared[k]
    <3> DEFINE x == shared
               l == list
               y == IF id \in DOMAIN x THEN [x EXCEPT ![id] = buf] ELSE Append(x, buf)
    <3>1. /\ Sharing(x, l) /\ id \in 1 .. Len(x) + 1 /\ Unread(l, id)
          /\ buf \in Buffer(Len(x)) /\ buf.ref = 0 /\ buf.prev = NoLinks
          /\ \A k \in DOMAIN x : x[k].poc # buf.poc
      BY <1>2, <2>1, <2>4, <2>5, <2>6
    <3> HIDE DEF x, l
    <3>2. /\ Sharing(y, l) /\ id \in DOMAIN y /\ y[id] = buf
          /\ DOMAIN y = DOMAIN x \union {id}
          /\ \A k \in DOMAIN x : k # id => y[k] = x[k]
      BY <3>1, FreshBuffer
    <3>3. y = sh
      BY DEF x
    <3> HIDE DEF y, sh
    <3>4. QED BY <3>2, <3>3 DEF x, l
  <2> HIDE DEF sh
  <2>8. Pipeline(sh, list, last, next, gop)
    <3> HIDE DEF last, next
    <3>1. QED BY <1>2, <2>1, <2>4, <2>7, FreshUnsent
  <2> DEFINE c == Counts(gop)
             f == failed
             st0 == [shared |-> sh, list |-> list, failed |-> f, picCount |-> c]
  <2>9. st = AddPicSorted(st0, id, 1, flush)
    <3>1. [Pipe EXCEPT !.shared = sh] = st0
      BY PipeWith
    <3>2. QED BY <3>1
  <2>10. c \in [GopStages -> Int]
    BY <1>2 DEF Pipeline, AllAccounted, IsEncGop, Counts
  <2>11. Takes(1, sh[id].poc) /\ 1 <= LastStage /\ 1 \in 1 .. LastStage + 1
    <3>1. ~IsGop(1) /\ Stages[1] = "pre" /\ 1 \in Stage /\ LastStage \in 2 .. 4
      BY StagesAre DEF IsGop, Stage
    <3>2. StartPoc(1) = -conf.leadFrames
      BY <3>1 DEF StartPoc
    <3>3. QED BY <1>2, <2>5, <2>7, <3>1, <3>2 DEF Takes
  <2>12. /\ \A u \in 1 .. LastStage : \A i \in DOMAIN list[u] : list[u][i].id # id
         /\ \A x \in Slots : IsBack(sh, sh[id].prev[x], sh[id].poc, x)
    BY <2>4, <2>5, <2>7 DEF Unread, Stage, IsBack, NoLinks
  <2> HIDE DEF st, c, f
  <2>13. Added(st0, st, id, 1, flush)
    <3> DEFINE l == list
               one == 1
    <3>1. /\ c \in [GopStages -> Int] /\ Sharing(sh, l) /\ one \in 1 .. LastStage + 1
          /\ id \in DOMAIN sh /\ flush \in BOOLEAN
          /\ \A u \in one .. LastStage : \A i \in DOMAIN l[u] : l[u][i].id # id
          /\ \A x \in Slots : IsBack(sh, sh[id].prev[x], sh[id].poc, x)
          /\ one <= LastStage /\ Takes(one, sh[id].poc)
      BY <1>2, <2>7, <2>10, <2>11, <2>12
    <3> HIDE DEF l, one, flush
    <3>2. \E t \in {0} \union (one .. LastStage) :
            /\ Added([shared |-> sh, list |-> l, failed |-> f, picCount |-> c],
                     AddPicSorted([shared |-> sh, list |-> l, failed |-> f, picCount |-> c],
                                  id, one, flush), id, t, flush)
            /\ one <= LastStage /\ Takes(one, sh[id].poc) => t = one
      BY <3>1, AddFirst
    <3>3. Added([shared |-> sh, list |-> l, failed |-> f, picCount |-> c],
                AddPicSorted([shared |-> sh, list |-> l, failed |-> f, picCount |-> c],
                             id, one, flush), id, one, flush)
      BY <3>1, <3>2
    <3>4. QED BY <2>9, <3>3 DEF l, one
  <2>14. st0.shared = sh /\ st0.list = list
    OBVIOUS
  <2> HIDE DEF st0
  <2>15. Pipeline(st.shared, st.list, last, next, gop)
    <3>1. sh[id].prev = NoLinks
      BY <2>5, <2>7
    <3> HIDE DEF last, next, flush
    <3>2. flush \in BOOLEAN
      BY <1>2 DEF flush
    <3>3. QED BY <2>4, <2>7, <2>8, <2>13, <2>14, <3>1, <3>2, TakenPipeline
  <2>16. PocsPast'
    <3>1. DOMAIN st.shared = DOMAIN sh /\ \A k \in DOMAIN sh : st.shared[k].poc = sh[k].poc
      BY <2>13, <2>14 DEF Added, SameBuffers
    <3>2. \A k \in DOMAIN sh : sh[k].poc \in Int /\ sh[k].poc < PicsRcvd + 1
      <4>1. \A k \in DOMAIN shared : shared[k] \in Buffer(n)
        BY <1>2, Lengths DEF Sharing
      <4>2. \A k \in DOMAIN shared : shared[k].poc \in Int /\ shared[k].poc < PicsRcvd
        BY <4>1 DEF PipeInv, PocsPast, Buffer
      <4>3. QED BY <1>2, <2>5, <2>7, <4>2
    <3>3. PicsRcvd' = PicsRcvd + 1
      BY <1>1, <1>2, <2>3 DEF PicsRcvd
    <3>4. QED BY <2>2, <3>1, <3>2, <3>3 DEF PocsPast
  <2>17. app'.passed \in Nat
    BY <1>2, <2>3
  <2>18. QED BY <1>1, <1>2, <1>4, <2>2, <2>15, <2>16, <2>17, NextInv
<1>7. QED BY <1>5, <1>6

-----------------------------------------------------------------------------
(* A picture is written.                                                   *)

LEMMA HeadIs ==
  ASSUME PipeInv, NEW s \in GopStages, gop[s].out # <<>>
  PROVE  LET h == Head(gop[s].out)
             d == IndexOf(s, h)
         IN  /\ h \in Int /\ h = gop[s].out[1] /\ 1 \in DOMAIN gop[s].out
             /\ d \in DOMAIN list[s] /\ list[s][d].poc = h /\ list[s][d].isInitDone
<1> DEFINE out == gop[s].out
           h == Head(out)
           d == IndexOf(s, h)
<1>1. /\ Sharing(shared, list) /\ s \in Stage /\ out \in Seq(Int) /\ out # <<>>
      /\ Accounted(list[s], out, gop[s].coded, gop[s].picCount)
  BY StagesAre DEF PipeInv, Pipeline, AllAccounted, IsEncGop
<1>2. h \in Int /\ h = out[1] /\ 1 \in DOMAIN out
  <2> HIDE DEF out
  <2>1. QED BY <1>1
<1> HIDE DEF out, h
<1>3. PICK i \in DOMAIN list[s] : list[s][i].poc = h /\ list[s][i].isInitDone
  BY <1>1, <1>2 DEF Accounted
<1>4. d \in DOMAIN list[s] /\ list[s][d].poc = h
  BY <1>3 DEF IndexOf
<1> HIDE DEF d
<1>5. d = i
  <2>1. \A a, b \in DOMAIN list[s] : list[s][a].id = list[s][b].id => a = b
    BY <1>1 DEF Sharing, Once
  <2>2. list[s][d].id = list[s][i].id
    BY <1>1, <1>3, <1>4, PocIsOwn
  <2>3. QED BY <1>3, <1>4, <2>1, <2>2
<1>6. QED BY <1>2, <1>3, <1>4, <1>5 DEF out, h, d

(* The pictures q are pics, but if w, the one with POC h is written. *)
Writes(pics, q, w, h) ==
  /\ DOMAIN q = DOMAIN pics /\ Len(q) = Len(pics)
  /\ \A i \in DOMAIN pics :
       /\ q[i].id = pics[i].id /\ q[i].poc = pics[i].poc /\ q[i].prev = pics[i].prev
       /\ q[i].isInitDone <=> pics[i].isInitDone
       /\ q[i].isFinished <=> pics[i].isFinished \/ (w /\ pics[i].poc = h)

IsLeft(left, s, out) ==
  left = [i \in DOMAIN Written(s) |->
            [Written(s)[i] EXCEPT !.isNeeded = @ /\ Written(s)[i].poc \notin out]]

OwnPocs(pics) == \A i, j \in DOMAIN pics : pics[i].poc = pics[j].poc => i = j

LEMMA WrittenIs ==
  ASSUME PipeInv, NEW s \in GopStages, NEW out, NEW left, IsLeft(left, s, out)
  PROVE  /\ left \in Seq(Picture(Len(shared)))
         /\ Writes(list[s], left, CanWrite(s), Head(gop[s].out))
<1> DEFINE n == Len(shared)
           pics == list[s]
           h == Head(gop[s].out)
           w == CanWrite(s)
           p == Written(s)
           Changed(x, y, v) == /\ y.id = x.id /\ y.poc = x.poc /\ y.prev = x.prev
                               /\ y.isInitDone <=> x.isInitDone
                               /\ y.isFinished <=> x.isFinished \/ (v /\ x.poc = h)
<1>1. /\ n \in Nat /\ pics \in Seq(Picture(n)) /\ Len(pics) \in Nat /\ DOMAIN pics = 1 .. Len(pics)
      /\ \A i \in DOMAIN pics : pics[i] \in Picture(n)
  BY Lengths, StagesAre DEF PipeInv, Pipeline, Sharing
<1>2. /\ DOMAIN p = DOMAIN pics
      /\ \A i \in DOMAIN pics : p[i] \in Picture(n) /\ Changed(pics[i], p[i], w)
  <2>1. CASE ~w
    <3>1. p = pics
      BY <2>1 DEF Written
    <3>2. QED BY <1>1, <2>1, <3>1
  <2>2. CASE w
    <3> DEFINE o == PicOf(s, h)
               fin(x) == [x EXCEPT !.isFinished = @ \/ x.poc = o.poc,
                                   !.refCounter = @ - (IF x.poc \in o.refs THEN 1 ELSE 0)]
    <3>1. p = [i \in DOMAIN pics |-> fin(pics[i])]
      BY <2>2 DEF Written
    <3>2. o.poc = h
      <4>1. gop[s].out # <<>>
        BY <2>2 DEF CanWrite, NextWritable
      <4>2. QED BY <4>1, HeadIs DEF PicOf
    <3> HIDE DEF o, h
    <3>3. ASSUME NEW x \in Picture(n)
          PROVE  fin(x) \in Picture(n) /\ Changed(x, fin(x), TRUE)
      <4> DEFINE f == x.isFinished \/ x.poc = h
                 c == x.refCounter - (IF x.poc \in o.refs THEN 1 ELSE 0)
      <4>1. f \in BOOLEAN /\ c \in Int
        BY DEF Picture
      <4>2. fin(x) = [x EXCEPT !.isFinished = f, !.refCounter = c]
        BY <3>2
      <4> HIDE DEF fin, c
      <4>3. fin(x) \in Picture(n)
        <5> HIDE DEF f
        <5>1. QED BY <4>1, <4>2 DEF Picture
      <4>4. QED BY <4>2, <4>3 DEF Picture
    <3> HIDE DEF fin, Changed
    <3>4. w = TRUE
      BY <2>2 DEF CanWrite, NextWritable
    <3> HIDE DEF w
    <3>5. QED BY <1>1, <3>1, <3>3, <3>4
  <2>3. QED BY <2>1, <2>2
<1> HIDE DEF w, h, p
<1> DEFINE need(x) == [x EXCEPT !.isNeeded = @ /\ x.poc \notin out]
<1>3. left = [i \in DOMAIN pics |-> need(p[i])]
  BY <1>2 DEF p, IsLeft
<1>4. ASSUME NEW x \in Picture(n)
      PROVE  /\ need(x) \in Picture(n)
             /\ need(x).id = x.id /\ need(x).poc = x.poc /\ need(x).prev = x.prev
             /\ need(x).isInitDone = x.isInitDone /\ need(x).isFinished = x.isFinished
  <2> DEFINE b == x.isNeeded /\ x.poc \notin out
  <2>1. b \in BOOLEAN
    BY DEF Picture
  <2>2. need(x) = [x EXCEPT !.isNeeded = b]
    OBVIOUS
  <2> HIDE DEF b, need
  <2>3. QED BY <2>1, <2>2 DEF Picture
<1> HIDE DEF need
<1>5. ASSUME NEW i \in DOMAIN pics
      PROVE  left[i] \in Picture(n) /\ Changed(pics[i], left[i], w)
  <2>1. left[i] = need(p[i]) /\ p[i] \in Picture(n) /\ Changed(pics[i], p[i], w)
    BY <1>2, <1>3
  <2> DEFINE x == p[i]
             y == left[i]
  <2>2. y = need(x) /\ x \in Picture(n)
    BY <2>1
  <2> HIDE DEF x, y
  <2>3. /\ y \in Picture(n)
        /\ y.id = x.id /\ y.poc = x.poc /\ y.prev = x.prev
        /\ y.isInitDone = x.isInitDone /\ y.isFinished = x.isFinished
    BY <1>4, <2>2
  <2>4. QED BY <2>1, <2>3 DEF x, y
<1>6. left \in [1 .. Len(pics) -> Picture(n)]
  BY <1>1, <1>3, <1>5
<1>7. left \in Seq(Picture(n)) /\ Len(left) = Len(pics) /\ DOMAIN left = DOMAIN pics
  <2> HIDE DEF pics, n
  <2>1. QED BY <1>1, <1>6
<1>8. Writes(pics, left, w, h)
  BY <1>5, <1>7 DEF Writes
<1>9. QED BY <1>7, <1>8 DEF w, h

(* The accounts when it is. *)
LEMMA OutAccounted ==
  ASSUME NEW n \in Nat, NEW pics \in Seq(Picture(n)), NEW q \in Seq(Picture(n)),
         NEW out \in Seq(Int), NEW coded \in Int, NEW count \in Int,
         Accounted(pics, out, coded, count), IsInjective(out), OwnPocs(pics),
         out # <<>>, Writes(pics, q, TRUE, Head(out))
  PROVE  /\ Tail(out) \in Seq(Int) /\ IsInjective(Tail(out))
         /\ \A x : x \in ToSet(Tail(out)) => x \in ToSet(out) /\ x # Head(out)
         /\ Accounted(q, Tail(out), coded + 1, count)
<1> DEFINE h == Head(out)
           t == Tail(out)
<1>1. /\ t \in Seq(Int) /\ Len(out) \in Nat /\ Len(out) > 0 /\ DOMAIN out = 1 .. Len(out)
      /\ Len(t) = Len(out) - 1 /\ DOMAIN t = 1 .. Len(out) - 1 /\ h = out[1]
      /\ \A a \in 1 .. Len(out) - 1 : t[a] = out[a + 1]
  OBVIOUS
<1> HIDE DEF h, t
<1>2. ASSUME NEW a \in DOMAIN t
      PROVE  t[a] # h /\ t[a] = out[a + 1] /\ a + 1 \in DOMAIN out
  <2>1. a \in 1 .. Len(out) - 1 /\ a \in Int
    BY <1>1
  <2> DEFINE m == Len(out)
  <2>0. m \in Nat /\ m > 0 /\ a \in 1 .. m - 1
    BY <1>1, <2>1
  <2> HIDE DEF m
  <2>00. a + 1 \in 1 .. m /\ 1 \in 1 .. m /\ a + 1 # 1
    BY <2>0
  <2>2. a + 1 \in 1 .. Len(out) /\ 1 \in 1 .. Len(out) /\ a + 1 # 1
    BY <2>00 DEF m
  <2>3. \A b, c \in DOMAIN out : out[b] = out[c] => b = c
    BY DEF IsInjective
  <2>4. t[a] = out[a + 1] /\ out[a + 1] # out[1]
    BY <1>1, <2>1, <2>2, <2>3
  <2>5. QED BY <1>1, <2>2, <2>4
<1>3. IsInjective(t)
  <2>1. \A b, c \in DOMAIN out : out[b] = out[c] => b = c
    BY DEF IsInjective
  <2>2. ASSUME NEW a \in DOMAIN t, NEW b \in DOMAIN t, t[a] = t[b] PROVE a = b
    <3>1. a + 1 = b + 1
      BY <1>2, <2>1, <2>2
    <3>2. QED BY <1>1, <3>1
  <2>3. QED BY <2>2 DEF IsInjective
<1>4. \A x : x \in ToSet(t) => x \in ToSet(out) /\ x # h
  BY <1>2 DEF ToSet
<1>5. ASSUME NEW a \in DOMAIN t
      PROVE  \E i \in DOMAIN q : q[i].poc = t[a] /\ q[i].isInitDone /\ ~q[i].isFinished
  <2>1. PICK i \in DOMAIN pics : pics[i].poc = out[a + 1] /\ pics[i].isInitDone /\ ~pics[i].isFinished
    BY <1>2 DEF Accounted
  <2>2. i \in DOMAIN q /\ q[i].poc = t[a] /\ q[i].isInitDone /\ ~q[i].isFinished
    BY <1>2, <2>1 DEF Writes, h
  <2>3. QED BY <2>2
<1>6. \A i \in DOMAIN q : q[i].isFinished => q[i].isInitDone
  <2>1. 1 \in DOMAIN out
    BY <1>1
  <2>2. PICK k \in DOMAIN pics : pics[k].poc = out[1] /\ pics[k].isInitDone
    BY <2>1 DEF Accounted
  <2>3. \A i \in DOMAIN pics : pics[i].poc = h => pics[i].isInitDone
    BY <1>1, <2>2 DEF OwnPocs
  <2>4. QED BY <2>3 DEF Writes, Accounted, h
<1>7. Uninitialized(q) = Uninitialized(pics)
  <2>1. ASSUME NEW id PROVE id \in Uninitialized(q) <=> id \in Uninitialized(pics)
    <3>1. id \in Uninitialized(q) <=> \E i \in DOMAIN q : q[i].id = id /\ ~q[i].isInitDone
      BY UninitializedIs
    <3>2. id \in Uninitialized(pics) <=> \E i \in DOMAIN pics : pics[i].id = id /\ ~pics[i].isInitDone
      BY UninitializedIs
    <3>3. \A i \in DOMAIN pics : /\ q[i].id = pics[i].id
                                 /\ q[i].isInitDone <=> pics[i].isInitDone
      BY DEF Writes
    <3>4. DOMAIN q = DOMAIN pics
      BY DEF Writes
    <3>5. QED BY <3>1, <3>2, <3>3, <3>4
  <2>2. QED BY <2>1
<1>8. count = coded + 1 + Len(t) + Cardinality(Uninitialized(q))
  <2>1. count = coded + Len(out) + Cardinality(Uninitialized(pics))
    BY DEF Accounted
  <2>2. Cardinality(Uninitialized(pics)) \in Nat
    BY UninitializedFinite
  <2>3. QED BY <1>1, <1>7, <2>1, <2>2
<1>9. Accounted(q, t, coded + 1, count)
  BY <1>5, <1>6, <1>8 DEF Accounted
<1>10. QED BY <1>1, <1>3, <1>4, <1>9 DEF h, t

LEMMA ReleasableIs ==
  ASSUME NEW n \in Nat, NEW q \in Seq(Picture(n)), NEW s, NEW out \in Seq(Int), NEW coded \in Int,
         gop[s].picCount \in Int, Accounted(q, out, coded, gop[s].picCount), OwnPocs(q),
         NEW a \in Releasable(q, s, coded)
  PROVE  a \in DOMAIN q /\ q[a].isInitDone /\ \A b \in DOMAIN out : out[b] # q[a].poc
<1>1. /\ a \in DOMAIN q
      /\ q[a].isFinished \/ coded >= gop[s].picCount
  BY DEF Releasable
<1>2. CASE q[a].isFinished
  <2>1. q[a].isInitDone
    BY <1>1, <1>2 DEF Accounted
  <2>2. ASSUME NEW b \in DOMAIN out, out[b] = q[a].poc PROVE FALSE
    <3>1. PICK i \in DOMAIN q : q[i].poc = out[b] /\ ~q[i].isFinished
      BY DEF Accounted
    <3>2. i = a
      BY <1>1, <2>2, <3>1 DEF OwnPocs
    <3>3. QED BY <1>2, <3>1, <3>2
  <2>3. QED BY <1>1, <2>1, <2>2
<1>3. CASE coded >= gop[s].picCount
  <2> DEFINE U == Uninitialized(q)
             count == gop[s].picCount
  <2>1. IsFiniteSet(U) /\ Cardinality(U) \in Nat
    BY UninitializedFinite
  <2>2. Len(out) \in Nat /\ DOMAIN out = 1 .. Len(out) /\ count \in Int /\ coded >= count
        /\ count = coded + Len(out) + Cardinality(U)
    BY <1>3 DEF Accounted
  <2> HIDE DEF U, count
  <2>3. Len(out) = 0 /\ Cardinality(U) = 0
    BY <2>1, <2>2
  <2>4. U = {}
    BY <2>1, <2>3, FS_EmptySet
  <2>5. q[a].isInitDone
    BY <1>1, <2>4, UninitializedIs DEF U
  <2>6. DOMAIN out = {}
    BY <2>2, <2>3
  <2>7. QED BY <1>1, <2>5, <2>6
<1>4. QED BY <1>1, <1>2, <1>3

(* The stages when stage s has written a picture, if it can. *)
LEMMA WrittenPipeline ==
  ASSUME PipeInv, NEW s \in GopStages, NEW rec, NEW out,
         NEW left, IsLeft(left, s, out),
         NEW l, l = [list EXCEPT ![s] = left],
         NEW g, g = [gop EXCEPT ![s] = [AfterWrite(s) EXCEPT !.recOut = @ + rec]],
         NEW done, done = IF CanWrite(s) THEN IndexOf(s, Head(gop[s].out)) ELSE Null,
         NEW free, free = Releasable(left, s, AfterWrite(s).coded)
  PROVE  /\ Pipeline(shared, l, pre.lastPoc, mctf.filterPoc, g)
         /\ Passable(shared, l, pre.lastPoc, mctf.filterPoc, g, s, done, free)
         /\ Counts(g) = Counts(gop)
<1> DEFINE n == Len(shared)
           last == pre.lastPoc
           next == mctf.filterPoc
           old == gop[s].out
           h == Head(old)
           w == CanWrite(s)
           coded == gop[s].coded
           count == gop[s].picCount
           after == AfterWrite(s)
           U == UnsentIds(list, last, next, gop)
           V == UnsentIds(l, last, next, g)
<1>1. /\ s \in Stage /\ IsGop(s) /\ n \in Nat /\ w \in BOOLEAN
      /\ Pipeline(shared, list, last, next, gop) /\ Sharing(shared, list) /\ AllAccounted(gop, list)
      /\ Once(list) /\ Typed(shared, list) /\ last \in Int /\ next \in Int
  BY StagesAre, Lengths DEF PipeInv, Pipeline, Sharing, IsGop, CanWrite, NextWritable
<1>2. /\ list \in [Stage -> Seq(Picture(n))] /\ list[s] \in Seq(Picture(n))
      /\ gop = [u \in GopStages |-> gop[u]]
  BY <1>1 DEF Typed, AllAccounted
<1>3. /\ IsEncGop(gop[s]) /\ old \in Seq(Int) /\ coded \in Int /\ count \in Int
      /\ Accounted(list[s], old, coded, count) /\ IsInjective(old)
  BY <1>1 DEF AllAccounted, IsEncGop, IsInjective
<1>4. left \in Seq(Picture(n)) /\ Writes(list[s], left, w, h)
  BY WrittenIs
<1>5. /\ l \in [Stage -> Seq(Picture(n))] /\ l[s] = left /\ \A u \in Stage : u # s => l[u] = list[u]
  <2> HIDE DEF n
  <2>1. QED BY <1>1, <1>2, <1>4
<1>6. OwnPocs(list[s])
  BY <1>1, PocIsOwn DEF Once, OwnPocs
<1>7. /\ Alike(list, l) /\ \A u \in Stage : DOMAIN l[u] = DOMAIN list[u]
  BY <1>1, <1>4, <1>5 DEF Alike, Writes
<1>8. /\ Typed(shared, l) /\ Sharing(shared, l)
  <2>1. Typed(shared, l)
    BY <1>1, <1>5 DEF Typed
  <2>2. AllFit(shared, list)
    BY <1>1 DEF Sharing
  <2>3. QED BY <1>1, <1>7, <2>1, <2>2, AlikeFit, AlikeShares
<1> DEFINE out2 == IF w THEN Tail(old) ELSE old
           coded2 == IF w THEN coded + 1 ELSE coded
<1>9. /\ out2 \in Seq(Int) /\ coded2 \in Int /\ IsInjective(out2)
      /\ \A x : x \in ToSet(out2) => x \in ToSet(old)
      /\ w => \A x : x \in ToSet(out2) => x # h
      /\ Accounted(left, out2, coded2, count)
  <2>1. CASE w
    <3>1. old # <<>>
      BY <2>1 DEF CanWrite, NextWritable
    <3> DEFINE p == list[s]
    <3>2. Writes(p, left, TRUE, h)
      BY <1>4, <2>1
    <3>3. p \in Seq(Picture(n)) /\ Accounted(p, old, coded, count) /\ OwnPocs(p)
      BY <1>2, <1>3, <1>6
    <3>6. n \in Nat /\ left \in Seq(Picture(n))
      BY <1>1, <1>4
    <3> HIDE DEF p, n, old, coded, count
    <3>4. /\ Tail(old) \in Seq(Int) /\ IsInjective(Tail(old))
          /\ \A x : x \in ToSet(Tail(old)) => x \in ToSet(old) /\ x # h
          /\ Accounted(left, Tail(old), coded + 1, count)
      BY <1>3, <3>1, <3>2, <3>3, <3>6, OutAccounted
    <3> HIDE DEF h, w
    <3>5. QED BY <1>3, <2>1, <3>4
  <2>2. CASE ~w
    <3> DEFINE p == list[s]
               none == {}
    <3>1. /\ \A i \in DOMAIN left : \E a \in DOMAIN p \ none : Like(p[a], left[i])
          /\ \A a \in DOMAIN p \ none : \E i \in DOMAIN left : Like(p[a], left[i])
      BY <1>4, <2>2 DEF Writes, Like
    <3>2. p \in Seq(Picture(n)) /\ Accounted(p, old, coded, count) /\ \A a \in DOMAIN p : a \notin none
      BY <1>2, <1>3
    <3> HIDE DEF p, n, old, coded, count, none
    <3>3. Accounted(left, old, coded, count)
      BY <1>1, <1>3, <1>4, <3>1, <3>2, AccountedLeft
    <3> HIDE DEF h, w
    <3>4. QED BY <1>3, <2>2, <3>3
  <2>3. QED BY <2>1, <2>2
<1>10. /\ after.out = out2 /\ after.coded = coded2 /\ after.picCount = count
       /\ after = [f \in GopFields |-> after[f]]
  <2> DEFINE e == gop[s]
             c == IF e.chunk # <<>> /\ Head(e.chunk) = h THEN <<>> ELSE e.chunk
  <2>1. CASE w
    <3>1. after = [e EXCEPT !.out = Tail(old), !.coded = coded + 1, !.chunk = c]
      BY <2>1 DEF AfterWrite
    <3>2. e = [f \in GopFields |-> e[f]] /\ old = e.out /\ coded = e.coded /\ count = e.picCount
      BY <1>3 DEF IsEncGop
    <3> HIDE DEF e, c, after, w, h, old, coded, count
    <3>3. QED BY <2>1, <3>1, <3>2 DEF GopFields
  <2>2. CASE ~w
    <3>1. after = e
      BY <2>2 DEF AfterWrite
    <3>2. e = [f \in GopFields |-> e[f]] /\ old = e.out /\ coded = e.coded /\ count = e.picCount
      BY <1>3 DEF IsEncGop
    <3> HIDE DEF e, c, after, w, h, old, coded, count
    <3>3. QED BY <2>2, <3>1, <3>2 DEF GopFields
  <2>3. QED BY <2>1, <2>2
<1> HIDE DEF after, out2, coded2
<1>11. /\ g = [u \in GopStages |-> g[u]]
       /\ \A u \in GopStages : u # s => g[u] = gop[u]
       /\ g[s].out = out2 /\ g[s].coded = coded2 /\ g[s].picCount = count
       /\ g[s] = [f \in GopFields |-> g[s][f]]
  <2>1. /\ g = [u \in GopStages |-> g[u]] /\ \A u \in GopStages : u # s => g[u] = gop[u]
        /\ g[s] = [after EXCEPT !.recOut = @ + rec]
    BY <1>2 DEF after
  <2> HIDE DEF count
  <2>2. QED BY <1>10, <2>1 DEF GopFields
<1>12. AllAccounted(g, l)
  <2>1. IsEncGop(g[s])
    BY <1>3, <1>9, <1>11 DEF IsEncGop, IsInjective
  <2>2. ASSUME NEW u \in GopStages
        PROVE  IsEncGop(g[u]) /\ Accounted(l[u], g[u].out, g[u].coded, g[u].picCount)
    <3>1. CASE u = s
      BY <1>5, <1>9, <1>11, <2>1, <3>1
    <3>2. CASE u # s
      BY <1>1, <1>5, <1>11, <3>2, StagesAre DEF AllAccounted
    <3>3. QED BY <3>1, <3>2
  <2>3. QED BY <1>11, <2>2 DEF AllAccounted
<1>13. ASSUME NEW u \in Stage, NEW i \in DOMAIN l[u], Unsent(u, l[u][i], last, next, g)
       PROVE  Unsent(u, list[u][i], last, next, gop)
  <2>1. CASE u # s
    <3>1. u \in GopStages => g[u] = gop[u]
      BY <1>11, <2>1
    <3>2. QED BY <1>5, <1>13, <2>1, <3>1 DEF Unsent, IsGop
  <2>2. CASE u = s
    <3>1. /\ l[u][i].poc = list[u][i].poc
          /\ l[u][i].isInitDone <=> list[u][i].isInitDone
      BY <1>4, <1>5, <2>2 DEF Writes
    <3>2. l[u][i].poc \in ToSet(g[u].out) => list[u][i].poc \in ToSet(gop[u].out)
      BY <1>9, <1>11, <2>2, <3>1
    <3>3. QED BY <1>13, <3>1, <3>2 DEF Unsent
  <2>3. QED BY <2>1, <2>2
<1>14. UnsentFit(shared, l, V) /\ NoneLinked(l[1])
  <2>1. UnsentFit(shared, list, U) /\ NoneLinked(list[1])
    BY <1>1 DEF Pipeline
  <2>2. ASSUME NEW u \in Stage, NEW i \in DOMAIN l[u], l[u][i].id \in V[u]
        PROVE  list[u][i].id \in U[u]
    <3>0. Once(l) /\ i \in DOMAIN list[u]
      BY <1>7, <1>8 DEF Sharing
    <3> HIDE DEF last, next
    <3>00. l[u][i].id \in UnsentIds(l, last, next, g)[u]
      BY <2>2 DEF V
    <3>01. u \in Stage /\ i \in DOMAIN l[u] /\ Once(l)
      BY <3>0
    <3> HIDE DEF V, U
    <3>1. Unsent(u, l[u][i], last, next, g)
      BY ONLY <3>00, <3>01, UnsentIdIs
    <3> USE DEF U
    <3>2. Unsent(u, list[u][i], last, next, gop)
      BY <1>13, <3>1
    <3>3. QED BY <1>1, <3>0, <3>2, UnsentIdIs
  <2> HIDE DEF U, V
  <2>3. QED BY <1>7, <2>1, <2>2, AlikeUnsent
<1>15. Pipeline(shared, l, last, next, g)
  BY <1>8, <1>12, <1>14 DEF Pipeline
<1>16. done # Null =>
         /\ done \in DOMAIN l[s]
         /\ ~Unsent(s, l[s][done], last, next, g)
         /\ \A u \in Stage : s < u => \A i \in DOMAIN l[u] : l[u][i].id # l[s][done].id
         /\ \A x \in Slots : IsBack(shared, shared[l[s][done].id].prev[x], shared[l[s][done].id].poc, x)
  <2> SUFFICES ASSUME done # Null
               PROVE  /\ done \in DOMAIN l[s]
                      /\ ~Unsent(s, l[s][done], last, next, g)
                      /\ \A u \in Stage : s < u => \A i \in DOMAIN l[u] : l[u][i].id # l[s][done].id
                      /\ \A x \in Slots : IsBack(shared, shared[l[s][done].id].prev[x],
                                                 shared[l[s][done].id].poc, x)
    OBVIOUS
  <2>1. w /\ done = IndexOf(s, h)
    OBVIOUS
  <2>2. old # <<>>
    BY <2>1 DEF CanWrite, NextWritable
  <2>3. /\ done \in DOMAIN list[s] /\ list[s][done].poc = h /\ list[s][done].isInitDone
        /\ h = old[1] /\ 1 \in DOMAIN old
    BY <2>1, <2>2, HeadIs
  <2> HIDE DEF h, w
  <2>4. h \in ToSet(old)
    BY <2>3 DEF ToSet
  <2>5. Unsent(s, list[s][done], last, next, gop)
    BY <1>1, <2>3, <2>4 DEF Unsent
  <2>6. /\ \A u \in Stage : s < u => \A j \in DOMAIN list[u] : list[u][j].id # list[s][done].id
        /\ \A x \in Slots : IsBack(shared, shared[list[s][done].id].prev[x],
                                   shared[list[s][done].id].poc, x)
    BY <1>1, <2>3, <2>5, UnsentIsFirst, ZenonT(60)
  <2>7. /\ l[s][done].id = list[s][done].id /\ l[s][done].poc = h /\ l[s][done].isInitDone
        /\ done \in DOMAIN l[s]
    BY <1>4, <1>5, <2>3 DEF Writes
  <2>8. h \notin ToSet(out2)
    BY <1>9, <2>1
  <2>9. ~Unsent(s, l[s][done], last, next, g)
    <3>1. Stages[s] # "pre" /\ Stages[s] # "mctf"
      BY <1>1, StagesAre
    <3>2. QED BY <1>11, <2>7, <2>8, <3>1 DEF Unsent
  <2>10. \A u \in Stage : s < u => u # s
    BY <1>1, StagesAre DEF Stage
  <2>11. ASSUME NEW u \in Stage, s < u, NEW i \in DOMAIN l[u]
         PROVE  l[u][i].id # l[s][done].id
    <3>1. l[u] = list[u]
      BY <1>5, <2>10, <2>11
    <3>2. QED BY <2>6, <2>7, <2>11, <3>1
  <2>12. QED BY <2>6, <2>7, <2>9, <2>11
<1>17. ASSUME NEW a \in free
       PROVE  /\ a \in DOMAIN l[s] /\ l[s][a].isInitDone
              /\ \A b \in DOMAIN g[s].out : g[s].out[b] # l[s][a].poc
  <2>1. a \in Releasable(left, s, coded2)
    BY <1>10 DEF after
  <2>2. OwnPocs(left)
    BY <1>4, <1>6 DEF Writes, OwnPocs
  <2>3. /\ a \in DOMAIN left /\ left[a].isInitDone /\ \A b \in DOMAIN out2 : out2[b] # left[a].poc
    <3>1. n \in Nat /\ left \in Seq(Picture(n)) /\ out2 \in Seq(Int) /\ coded2 \in Int
          /\ gop[s].picCount \in Int /\ Accounted(left, out2, coded2, gop[s].picCount)
      BY <1>1, <1>3, <1>4, <1>9
    <3> HIDE DEF n
    <3>2. QED BY <2>1, <2>2, <3>1, ReleasableIs
  <2>4. QED BY <1>5, <1>11, <2>3
<1>18. Passable(shared, l, last, next, g, s, done, free)
  BY <1>16, <1>17 DEF Passable
<1>19. Counts(g) = Counts(gop)
  <2>1. \A u \in GopStages : g[u].picCount = gop[u].picCount
    BY <1>11
  <2>2. QED BY <2>1 DEF Counts
<1>20. QED BY <1>15, <1>18, <1>19

LEMMA WrittenOutIs ==
  ASSUME PipeInv, NEW s \in GopStages, NEW out, out = GivenOut(s), NEW left, IsLeft(left, s, out),
         NEW l, l = [list EXCEPT ![s] = left],
         NEW g, Counts(g) = Counts(gop),
         NEW coded, NEW done, done = IF CanWrite(s) THEN IndexOf(s, Head(gop[s].out)) ELSE Null,
         NEW free, free = Releasable(left, s, coded)
  PROVE  IsForward(WrittenOut(s, coded), shared, l, failed, g, done, free, s, main.flush)
<1> DEFINE c == Counts(gop)
           p == [shared |-> shared, list |-> list, failed |-> failed, picCount |-> c]
           q == [shared |-> shared, list |-> l, failed |-> failed, picCount |-> c]
<1>1. WrittenOut(s, coded) = Forward([Pipe EXCEPT !.list[s] = left], done, free, s, main.flush)
  BY DEF WrittenOut, IsLeft
<1>2. Pipe = p
  BY CountedAsIs
<1>3. [p EXCEPT !.list[s] = left] = q
  <2>1. p.list = list
    OBVIOUS
  <2>2. [p EXCEPT !.list = [p.list EXCEPT ![s] = left]] = q
    <3> HIDE DEF c
    <3>1. [p EXCEPT !.list = l] = q
      OBVIOUS
    <3> HIDE DEF p
    <3>2. QED BY <2>1, <3>1
  <2> HIDE DEF p, q
  <2>3. QED BY <2>2
<1> HIDE DEF p
<1>4. QED BY <1>1, <1>2, <1>3 DEF IsForward

LEMMA NewAuIs ==
  ASSUME PipeInv, NEW s \in GopStages
  PROVE  NewAu(s) \in Int
<1>1. CASE CanWrite(s)
  <2>1. gop[s].out # <<>>
    BY <1>1 DEF CanWrite, NextWritable
  <2>2. Head(gop[s].out) \in Int
    BY <2>1, HeadIs
  <2>3. QED BY <2>2 DEF NewAu, NoPic
<1>2. CASE ~CanWrite(s)
  BY <1>2 DEF NewAu, NoPic
<1>3. QED BY <1>1, <1>2

LEMMA OutputDrives ==
  ASSUME NEW l, Driving(main, l), main.stage \in GopStages, main.stage \in Stage,
         NEW pics, NEW la \in BOOLEAN, NEW au \in Int, NEW m,
         IF la
           THEN IF main.flush /\ pics # <<>>
                  THEN main' = [main EXCEPT !.at = "la"] ELSE NextStage(pics)
           ELSE main' = [main EXCEPT !.at = "collect", !.empty = @ /\ pics = <<>>, !.au = au]
  PROVE  Driving(main', m)
<1>1. CASE la /\ main.flush /\ pics # <<>>
  BY <1>1, AtDrives DEF Places
<1>2. CASE la /\ ~(main.flush /\ pics # <<>>)
  BY <1>2, NextStageDrives
<1>3. CASE ~la
  <2> DEFINE Main == [at : Places, stage : Int, flush : BOOLEAN, pending : BOOLEAN, au : Int,
                      empty : BOOLEAN]
             one == [main EXCEPT !.at = "collect"]
             two == [one EXCEPT !.empty = @ /\ pics = <<>>]
             none == pics = <<>>
  <2>1. main \in Main /\ "collect" \in Places
    BY DEF Driving, Places
  <2>2. one \in Main /\ one.at = "collect"
    BY <2>1
  <2>3. two \in Main /\ two.at = "collect"
    <3> HIDE DEF one
    <3>1. QED BY <2>2
  <2>4. main' = [two EXCEPT !.au = au]
    BY <1>3, <2>1
  <2> HIDE DEF two
  <2>5. main' \in Main /\ main'.at = "collect"
    BY <2>3, <2>4
  <2>6. QED BY <2>5 DEF Driving
<1>4. QED BY <1>1, <1>2, <1>3

LEMMA OutputInv ==
  ASSUME PipeInv, Output
  PROVE  PipeInv'
<1> DEFINE s == main.stage
           out == GivenOut(s)
           left == [i \in DOMAIN Written(s) |->
                      [Written(s)[i] EXCEPT !.isNeeded = @ /\ Written(s)[i].poc \notin out]]
           rec == Len(RecYuv(s))
           l == [list EXCEPT ![s] = left]
           coded == AfterWrite(s).coded
           g == [gop EXCEPT ![s] = [AfterWrite(s) EXCEPT !.recOut = @ + rec]]
           done == IF CanWrite(s) THEN IndexOf(s, Head(gop[s].out)) ELSE Null
           free == Releasable(left, s, coded)
           r == WrittenOut(s, coded)
           last == pre.lastPoc
           next == mctf.filterPoc
           flush == main.flush
           f == failed
           what == r.failed \union
                     Check(\E x \in ToSet(NewStats(s)) : NoSource(x), "miss stats data")
           pics == r.list[s]
<1>1. /\ Continue([r EXCEPT !.failed = what])
      /\ gop' = Counted(r, g)
      /\ IF Stages[s] = "la"
           THEN IF main.flush /\ pics # <<>>
                  THEN main' = [main EXCEPT !.at = "la"] ELSE NextStage(pics)
           ELSE main' = [main EXCEPT !.at = "collect", !.empty = @ /\ pics = <<>>, !.au = NewAu(s)]
      /\ app' = [app EXCEPT !.rec = @ \o RecYuv(s)]
      /\ UNCHANGED <<conf, pre, mctf>> /\ main.at = "output"
  BY DEF Output
<1>2. /\ s \in GopStages /\ s \in Stage /\ flush \in BOOLEAN /\ last \in Int /\ next \in Int
      /\ Driving(main, list)
  BY <1>1, StagesAre DEF PipeInv, Driving
<1>3. IsLeft(left, s, out)
  BY DEF IsLeft
<1>4. /\ Pipeline(shared, l, last, next, g)
      /\ Passable(shared, l, last, next, g, s, done, free)
      /\ Counts(g) = Counts(gop)
  <2>1. /\ l = [list EXCEPT ![s] = left]
        /\ g = [gop EXCEPT ![s] = [AfterWrite(s) EXCEPT !.recOut = @ + rec]]
        /\ done = IF CanWrite(s) THEN IndexOf(s, Head(gop[s].out)) ELSE Null
        /\ free = Releasable(left, s, AfterWrite(s).coded)
    OBVIOUS
  <2> HIDE DEF l, g, done, free, left, out, s, rec, coded
  <2>2. QED BY <1>2, <1>3, <2>1, WrittenPipeline
<1>5. IsForward(r, shared, l, f, g, done, free, s, flush)
  <2>1. /\ l = [list EXCEPT ![s] = left] /\ out = GivenOut(s)
        /\ done = IF CanWrite(s) THEN IndexOf(s, Head(gop[s].out)) ELSE Null
        /\ free = Releasable(left, s, coded)
    OBVIOUS
  <2> HIDE DEF l, g, done, free, left, out, s, rec, coded
  <2>2. QED BY <1>2, <1>3, <1>4, <2>1, WrittenOutIs
<1> HIDE DEF r, l, g, done, free, left, out, rec, coded
<1>6. Pipeline(r.shared, r.list, last, next, Counted(r, g)) /\ SameBuffers(shared, r.shared)
  <2> HIDE DEF s, last, next, flush, f
  <2>1. QED BY <1>2, <1>4, <1>5, ForwardPipeline
<1>7. shared' = r.shared /\ list' = r.list
  <2> HIDE DEF s, last, next, flush, f, what
  <2>1. [r EXCEPT !.failed = what].shared = r.shared /\ [r EXCEPT !.failed = what].list = r.list
    BY <1>2, <1>4, <1>5, ForwardFails
  <2>2. QED BY <1>1, <2>1 DEF Continue
<1>8. Pipeline(shared', list', pre'.lastPoc, mctf'.filterPoc, gop')
  BY <1>1, <1>6, <1>7
<1>9. app'.passed = app.passed
  <2> DEFINE all == app.rec \o RecYuv(s)
  <2>1. app' = [app EXCEPT !.rec = all]
    BY <1>1
  <2> HIDE DEF all, s, r, what, pics
  <2>2. QED BY ONLY <2>1
<1>10. PocsPast'
  <2>1. \A k \in DOMAIN shared : shared[k].poc < PicsRcvd
    BY DEF PipeInv, PocsPast
  <2>2. PicsRcvd' = PicsRcvd
    BY <1>1, <1>9 DEF PicsRcvd
  <2>3. QED BY <1>6, <1>7, <2>1, <2>2 DEF PocsPast, SameBuffers
<1>11. Driving(main', list')
  <2> DEFINE la == Stages[s] = "la"
  <2>1. NewAu(s) \in Int
    BY <1>2, NewAuIs
  <2>2. QED BY <1>1, <1>2, <2>1, OutputDrives
<1>12. app'.passed \in Nat /\ pre'.lastPoc \in Int /\ mctf'.filterPoc \in Int
  BY <1>1, <1>9 DEF PipeInv
<1>13. QED BY <1>1, <1>8, <1>10, <1>11, <1>12, NextInv

-----------------------------------------------------------------------------
(* Every step.                                                             *)

LEMMA StepInv == PipeInv /\ [Next]_vars => PipeInv'
<1> SUFFICES ASSUME PipeInv, [Next]_vars PROVE PipeInv'
  OBVIOUS
<1>1. CASE Encode
  BY <1>1, EncodeInv
<1>2. CASE Flush
  BY <1>2, FlushInv
<1>3. CASE TakeInput
  BY <1>3, TakeInputInv
<1>4. CASE RunStage
  BY <1>4, RunStageInv
<1>5. CASE ProcessPre
  BY <1>5, ProcessPreInv
<1>6. CASE ProcessMctf
  BY <1>6, ProcessMctfInv
<1>7. CASE InitNextPic
  BY <1>7, InitNextPicInv
<1>8. CASE GetLists
  BY <1>8, GetListsInv
<1>9. CASE EncodePic
  BY <1>9, EncodePicInv
<1>10. CASE StopEncoding
  BY <1>10, StopEncodingInv
<1>11. CASE Output
  BY <1>11, OutputInv
<1>12. CASE Collect
  BY <1>12, CollectInv
<1>13. CASE Return
  BY <1>13, ReturnInv
<1>14. CASE InitPass
  BY <1>14, InitPassInv
<1>15. ASSUME NEW s \in GopStages, NEW poc \in gop[s].busy, Reconstruct(s, poc)
       PROVE  PipeInv'
  BY <1>15, ReconstructInv
<1>16. CASE WakeUp
  BY <1>16, WakeUpInv
<1>17. CASE UNCHANGED vars
  <2>1. /\ UNCHANGED <<conf, shared, list, pre, mctf, gop>> /\ main' = main
        /\ app'.passed = app.passed
    BY <1>17 DEF vars
  <2>2. Driving(main', list)
    BY <2>1 DEF PipeInv
  <2>3. QED BY <2>1, <2>2, IdleInv
<1>18. QED BY <1>1, <1>2, <1>3, <1>4, <1>5, <1>6, <1>7, <1>8, <1>9, <1>10, <1>11, <1>12, <1>13,
              <1>14, <1>15, <1>16, <1>17 DEF Next, MainStep

(* In every state the stages and the buffers they share fit together, for  *)
(* every GOP and configuration.                                            *)
THEOREM StagesFit == Spec => []PipeInv
<1>1. PipeInv /\ [Next]_vars => PipeInv'
  BY StepInv
<1>2. QED BY InitInv, <1>1, PTL DEF Spec

(* A picture of a stage has its own buffer, and what it links to are the   *)
(* pictures just before it in the video: no buffer is reused too early.    *)
THEOREM LinksStayIntact == Spec => []LinksIntact
<1>1. PipeInv => LinksIntact
  <2> SUFFICES ASSUME PipeInv, NEW s \in 1 .. LastStage, NEW pic \in ToSet(list[s])
               PROVE  /\ shared[pic.id].poc = pic.poc
                      /\ \A i \in Slots : pic.prev[i] # Null =>
                           shared[pic.prev[i]].poc
                             \in {pic.poc - i} \union (IF i = 1 THEN {pic.poc} ELSE {})
    BY DEF LinksIntact
  <2>1. PICK i \in DOMAIN list[s] : pic = list[s][i]
    BY DEF ToSet
  <2>2. Fits(shared, pic)
    BY <2>1 DEF PipeInv, Pipeline, Sharing, AllFit, Stage
  <2>3. QED BY <2>2 DEF Fits, IsBack
<1>2. QED BY <1>1, StagesFit, PTL

(* The uses of a buffer, by the places of the pictures in the lists. *)
PlacesOf(l) == UNION {{s} \X (DOMAIN l[s]) \X (0 .. NumPrev) : s \in Stage}

UseAt(l, u) == LET pic == l[u[1]][u[2]] IN IF u[3] = 0 THEN pic.id ELSE pic.prev[u[3]]

UsersOf(l, k) == {u \in PlacesOf(l) : UseAt(l, u) = k}

LEMMA UsersCounted ==
  ASSUME NEW sh, NEW l, Sharing(sh, l), NEW k
  PROVE  Cardinality(UsersOf(l, k)) = Cardinality(UsesOf(l, Len(sh), k))
<1> DEFINE n == Len(sh)
           S == UsersOf(l, k)
           T == UsesOf(l, n, k)
           f == [u \in S |-> <<u[1], <<l[u[1]][u[2]].id, u[3]>>>>]
<1>1. /\ n \in Nat /\ Once(l)
      /\ \A s \in Stage : \A i \in DOMAIN l[s] : l[s][i].id \in 1 .. n
  BY Lengths DEF Sharing, Picture
<1>2. ASSUME NEW u \in S
      PROVE  /\ u[1] \in Stage /\ u[2] \in DOMAIN l[u[1]] /\ u[3] \in 0 .. NumPrev
             /\ u = <<u[1], u[2], u[3]>>
             /\ Use(l[u[1]][u[2]], u[3]) = k
  <2>1. PICK s \in Stage : u \in {s} \X (DOMAIN l[s]) \X (0 .. NumPrev)
    BY DEF UsersOf, PlacesOf
  <2>2. u[1] = s /\ u[2] \in DOMAIN l[s] /\ u[3] \in 0 .. NumPrev /\ u = <<u[1], u[2], u[3]>>
    BY <2>1
  <2>3. UseAt(l, u) = k
    BY DEF UsersOf
  <2>4. QED BY <2>2, <2>3 DEF UseAt, Use
<1>3. ASSUME NEW s \in Stage, NEW i \in DOMAIN l[s], NEW x \in 0 .. NumPrev, Use(l[s][i], x) = k
      PROVE  <<s, i, x>> \in S
  <2>1. <<s, i, x>> \in {s} \X (DOMAIN l[s]) \X (0 .. NumPrev)
    OBVIOUS
  <2>2. <<s, i, x>> \in PlacesOf(l)
    BY <2>1 DEF PlacesOf
  <2>3. UseAt(l, <<s, i, x>>) = k
    BY <1>3 DEF UseAt, Use
  <2>4. QED BY <2>2, <2>3 DEF UsersOf
<1> HIDE DEF S
<1>4. ASSUME NEW u \in S
      PROVE  f[u] \in T
  <2> DEFINE s == u[1]
             id == l[u[1]][u[2]].id
             x == u[3]
  <2>1. s \in Stage /\ id \in 1 .. n /\ x \in 0 .. NumPrev /\ Uses(l, k, s, id, x)
    BY <1>1, <1>2 DEF Uses
  <2>2. f[u] = <<s, <<id, x>>>>
    OBVIOUS
  <2> HIDE DEF s, id, x, f, n
  <2>3. <<s, <<id, x>>>> \in T
    BY <1>1, <2>1, IsUse
  <2>4. QED BY <2>2, <2>3
<1>5. IsFiniteSet(T)
  BY <1>1, UsesFinite
<1> HIDE DEF T
<1>6. f \in [S -> T]
  BY <1>4
<1>7. ASSUME NEW u \in S, NEW v \in S, f[u] = f[v]
      PROVE  u = v
  <2>1. f[u] = <<u[1], <<l[u[1]][u[2]].id, u[3]>>>> /\ f[v] = <<v[1], <<l[v[1]][v[2]].id, v[3]>>>>
    OBVIOUS
  <2>2. u[1] = v[1] /\ u[3] = v[3] /\ l[u[1]][u[2]].id = l[v[1]][v[2]].id
    BY <1>7, <2>1
  <2>3. u[2] = v[2]
    BY <1>1, <1>2, <2>2 DEF Once
  <2>4. QED BY <1>2, <2>2, <2>3
<1>8. ASSUME NEW z \in T
      PROVE  \E u \in S : f[u] = z
  <2>1. /\ z \in UseSpace(n) /\ Uses(l, k, z[1], z[2][1], z[2][2])
    BY DEF T, UsesOf
  <2>2. /\ z[1] \in Stage /\ z[2][2] \in 0 .. NumPrev
        /\ z = <<z[1], <<z[2][1], z[2][2]>>>>
    BY <2>1 DEF UseSpace
  <2>3. PICK i \in DOMAIN l[z[1]] : l[z[1]][i].id = z[2][1] /\ Use(l[z[1]][i], z[2][2]) = k
    BY <2>1 DEF Uses
  <2> DEFINE u == <<z[1], i, z[2][2]>>
  <2>4. u \in S
    BY <1>3, <2>2, <2>3
  <2>5. f[u] = <<z[1], <<z[2][1], z[2][2]>>>>
    BY <2>3, <2>4
  <2>6. QED BY <2>2, <2>4, <2>5
<1> HIDE DEF f
<1>9. Cardinality(S) = Cardinality(T)
  BY <1>5, <1>6, <1>7, <1>8, SameSize
<1>10. QED BY <1>9 DEF S, T

(* Reference counts are exact: a buffer is used as often as it is counted, *)
(* so that it is free when no stage has or reads it, and only then.        *)
THEOREM RefCountsStayExact == Spec => []RefCountsExact
<1>1. PipeInv => RefCountsExact
  <2> SUFFICES ASSUME PipeInv, NEW k \in Ids
               PROVE  shared[k].ref = Cardinality(UsersOf(list, k))
    BY DEF RefCountsExact, UsersOf, PlacesOf, UseAt, Stage
  <2>1. Sharing(shared, list)
    BY DEF PipeInv, Pipeline
  <2>2. shared[k].ref = Cardinality(UsesOf(list, Len(shared), k))
    BY <2>1 DEF Sharing, Exact, Ids
  <2>3. QED BY <2>1, <2>2, UsersCounted
<1>2. QED BY <1>1, StagesFit, PTL

-----------------------------------------------------------------------------
(* What the first stages hand on, in the order of the video.               *)

Ascends(pics) == \A i, j \in DOMAIN pics : i < j => pics[i].poc < pics[j].poc

(* The same pictures as far as their POCs go.                              *)
SamePocsIn(pics, q) ==
  /\ Len(q) = Len(pics)
  /\ \A i \in DOMAIN pics : q[i].poc = pics[i].poc

LEMMA SamePocsAscend ==
  ASSUME NEW n \in Nat, NEW pics \in Seq(Picture(n)), NEW q \in Seq(Picture(n)),
         SamePocsIn(pics, q), Ascends(pics)
  PROVE  /\ Ascends(q) /\ Pocs(q) = Pocs(pics) /\ DOMAIN q = DOMAIN pics
         /\ pics # <<>> => q # <<>> /\ Last(q).poc = Last(pics).poc
<1>1. /\ Len(pics) \in Nat /\ DOMAIN pics = 1 .. Len(pics) /\ DOMAIN q = DOMAIN pics
      /\ Len(q) = Len(pics) /\ \A i \in DOMAIN pics : q[i].poc = pics[i].poc
  BY DEF SamePocsIn
<1>2. Ascends(q) /\ Pocs(q) = Pocs(pics)
  BY <1>1 DEF Ascends, Pocs
<1>3. ASSUME pics # <<>> PROVE q # <<>> /\ Last(q).poc = Last(pics).poc
  <2>1. Len(pics) # 0 /\ Last(q) = q[Len(pics)] /\ Last(pics) = pics[Len(pics)]
    BY <1>1, <1>3 DEF Last
  <2>2. Len(pics) \in DOMAIN pics
    BY <1>1, <2>1
  <2>3. QED BY <1>1, <2>1, <2>2
<1>4. QED BY <1>1, <1>2, <1>3

LEMMA AscendingLeft ==
  ASSUME NEW n \in Nat, NEW pics \in Seq(Picture(n)), Ascends(pics), NEW F
  PROVE  /\ Without(pics, F) \in Seq(Picture(n)) /\ Ascends(Without(pics, F))
         /\ Pocs(Without(pics, F)) = {pics[a].poc : a \in DOMAIN pics \ F}
         /\ \A i \in DOMAIN Without(pics, F) :
              \E a \in DOMAIN pics \ F : Without(pics, F)[i] = pics[a]
<1> DEFINE r == Without(pics, F)
<1>1. /\ r \in Seq(Picture(n))
      /\ \A i \in DOMAIN r : \E a \in DOMAIN pics \ F : r[i] = pics[a]
      /\ \A a \in DOMAIN pics \ F : \E i \in DOMAIN r : r[i] = pics[a]
      /\ \A i, j \in DOMAIN r : i < j =>
           \E a, b \in DOMAIN pics \ F : a < b /\ r[i] = pics[a] /\ r[j] = pics[b]
  BY WithoutIs
<1> HIDE DEF r
<1>2. Ascends(r)
  <2> SUFFICES ASSUME NEW i \in DOMAIN r, NEW j \in DOMAIN r, i < j PROVE r[i].poc < r[j].poc
    BY DEF Ascends
  <2>1. PICK a \in DOMAIN pics \ F, b \in DOMAIN pics \ F : a < b /\ r[i] = pics[a] /\ r[j] = pics[b]
    BY <1>1
  <2>2. QED BY <2>1 DEF Ascends
<1>3. Pocs(r) = {pics[a].poc : a \in DOMAIN pics \ F}
  BY <1>1 DEF Pocs
<1>4. QED BY <1>1, <1>2, <1>3 DEF r

(* A later picture is added at the end.                                    *)
LEMMA InsertAtEnd ==
  ASSUME NEW n \in Nat, NEW pics \in Seq(Picture(n)), NEW s, ~IsGop(s), NEW pic,
         pic.poc \in Int, \A i \in DOMAIN pics : pics[i].poc < pic.poc
  PROVE  Insert(s, pics, pic).pics = Append(pics, pic)
<1> DEFINE later == {i \in DOMAIN pics : SortKey(s, pic.poc) < SortKey(s, pics[i].poc)}
           at == IF later = {} THEN Len(pics) + 1 ELSE CHOOSE i \in later : \A j \in later : i <= j
           mark == NonBlocking(s) /\ pic.isFlush
           tail == [i \in 1 .. Len(pics) - at + 1 |->
                      [pics[at + i - 1] EXCEPT !.isFlush = @ \/ mark]]
           r == Append(SubSeq(pics, 1, at - 1), pic) \o tail
<1>1. Insert(s, pics, pic).pics = r
  BY DEF Insert
<1>2. Len(pics) \in Nat /\ DOMAIN pics = 1 .. Len(pics) /\ \A i \in DOMAIN pics : pics[i].poc \in Int
  <2>1. Len(pics) \in Nat /\ DOMAIN pics = 1 .. Len(pics) /\ \A i \in DOMAIN pics : pics[i] \in Picture(n)
    OBVIOUS
  <2>2. QED BY <2>1 DEF Picture
<1>3. later = {}
  BY <1>2 DEF SortKey
<1>4. at = Len(pics) + 1
  BY <1>3
<1> HIDE DEF later, at, mark
<1>5. tail = <<>>
  <2>1. 1 .. Len(pics) - at + 1 = {}
    BY <1>2, <1>4
  <2>2. QED BY <2>1
<1> HIDE DEF tail
<1>6. SubSeq(pics, 1, at - 1) = pics
  BY <1>2, <1>4
<1>7. r = Append(pics, pic) \o <<>>
  BY <1>5, <1>6
<1>8. Append(pics, pic) \o <<>> = Append(pics, pic)
  <2>1. pics \in Seq({pics[i] : i \in DOMAIN pics} \union {pic})
    BY <1>2
  <2> DEFINE q == Append(pics, pic)
  <2>2. q \in Seq({pics[i] : i \in DOMAIN pics} \union {pic})
    BY <2>1
  <2> HIDE DEF q
  <2>3. q \o <<>> = q
    BY <2>2
  <2>4. QED BY <2>3 DEF q
<1>9. QED BY <1>1, <1>7, <1>8

(* The picture id goes to stage s, or to a later one.                      *)
HandsOn(l, m, s, poc, flush) ==
  /\ \A u \in Stage : u < s => m[u] = l[u]
  /\ s \in Stage =>
       IF Takes(s, poc)
       THEN /\ \A u \in Stage : u # s => m[u] = l[u]
            /\ \E pic : pic.poc = poc /\ pic.isFlush = flush /\ m[s] = Insert(s, l[s], pic).pics
       ELSE m[s] = l[s]

LEMMA AddHandsOn ==
  ASSUME NEW sh, NEW l, DOMAIN l = Stage, NEW f, NEW c, NEW s \in 1 .. LastStage + 1, NEW id,
         NEW flush
  PROVE  LET st == [shared |-> sh, list |-> l, failed |-> f, picCount |-> c]
         IN  /\ HandsOn(l, AddPicSorted(st, id, s, flush).list, s, sh[id].poc, flush)
             /\ DOMAIN AddPicSorted(st, id, s, flush).list = Stage
<1> DEFINE st == [shared |-> sh, list |-> l, failed |-> f, picCount |-> c]
           r == AddPicSorted(st, id, s, flush)
           takers == {t \in s .. LastStage : Takes(t, sh[id].poc)}
           t == CHOOSE x \in takers : \A y \in takers : x <= y
           pic == NewPic(sh, id, flush)
           new == Insert(t, l[t], pic)
<1>1. /\ LastStage \in Nat /\ s \in Nat /\ s > 0 /\ s .. LastStage \subseteq Stage /\ Stage \subseteq Nat
      /\ s \in Stage <=> s <= LastStage
  BY StagesAre DEF Stage
<1>2. pic.poc = sh[id].poc /\ pic.isFlush = flush
  BY DEF NewPic
<1>3. CASE takers = {}
  <2>1. r.list = l
    BY <1>3 DEF AddPicSorted
  <2>2. s \in Stage => ~Takes(s, sh[id].poc)
    BY <1>1, <1>3
  <2>3. QED BY <2>1, <2>2 DEF HandsOn
<1>4. CASE takers # {}
  <2>1. t \in takers /\ \A y \in takers : t <= y
    <3>1. takers \subseteq Nat
      BY <1>1
    <3> HIDE DEF takers
    <3>2. \E x \in takers : \A y \in takers : x <= y
      BY <1>4, <3>1, LeastNumber
    <3>3. QED BY <3>2
  <2>2. r.list = [l EXCEPT ![t] = new.pics]
    BY <1>4 DEF AddPicSorted
  <2> HIDE DEF t, r
  <2>3. t \in s .. LastStage /\ t \in Stage
    BY <1>1, <2>1
  <2>4. s \in Stage /\ Takes(s, sh[id].poc) => t = s
    BY <1>1, <2>1, <2>3
  <2>5. ~Takes(s, sh[id].poc) => t # s
    BY <2>1
  <2> HIDE DEF takers, pic
  <2>6. \A u \in Stage : u # t => r.list[u] = l[u]
    BY <2>2
  <2>7. r.list[t] = Insert(t, l[t], pic).pics
    BY <2>2, <2>3
  <2>8. \A u \in Stage : u < s => r.list[u] = l[u]
    BY <1>1, <2>3, <2>6
  <2>9. DOMAIN r.list = Stage
    BY <2>2
  <2>10. s \in Stage => IF Takes(s, sh[id].poc)
                        THEN /\ \A u \in Stage : u # s => r.list[u] = l[u]
                             /\ \E p : /\ p.poc = sh[id].poc /\ p.isFlush = flush
                                       /\ r.list[s] = Insert(s, l[s], p).pics
                        ELSE r.list[s] = l[s]
    BY <1>2, <2>4, <2>5, <2>6, <2>7
  <2>11. QED BY <2>8, <2>9, <2>10 DEF HandsOn, r
<1>5. QED BY <1>3, <1>4

LEMMA ForwardHandsOn ==
  ASSUME NEW sh, NEW l, DOMAIN l = Stage, NEW f, NEW c, NEW s \in Stage, NEW done,
         NEW free, NEW flush
  PROVE  LET st == [shared |-> sh, list |-> l, failed |-> f, picCount |-> c]
             r == Forward(st, done, free, s, flush)
         IN  /\ r.list[s] = Without(Held(l, s, done), free) /\ "list" \in DOMAIN r
             /\ \A u \in Stage : u < s => r.list[u] = l[u]
             /\ done = Null => \A u \in Stage : u # s => r.list[u] = l[u]
             /\ done # Null /\ l[s][done].id \in DOMAIN sh /\ "poc" \in DOMAIN sh[l[s][done].id]
                  /\ s + 1 \in Stage =>
                  IF Takes(s + 1, sh[l[s][done].id].poc)
                  THEN \E pic : /\ pic.poc = sh[l[s][done].id].poc /\ pic.isFlush = flush
                                /\ r.list[s + 1] = Insert(s + 1, l[s + 1], pic).pics
                  ELSE r.list[s + 1] = l[s + 1]
<1> DEFINE st == [shared |-> sh, list |-> l, failed |-> f, picCount |-> c]
           pics == l[s]
           held == Held(l, s, done)
           sh1 == ReleasePrev(sh, {pics[done]})
           l1 == [l EXCEPT ![s] = held]
           st1 == [shared |-> sh1, list |-> l1, failed |-> f, picCount |-> c]
           sent == IF done = Null THEN st ELSE AddPicSorted(st1, pics[done].id, s + 1, flush)
           r == Forward(st, done, free, s, flush)
<1>1. LastStage \in Nat /\ s \in Nat /\ s + 1 \in 1 .. LastStage + 1
  BY StagesAre DEF Stage
<1>2. r = [sent EXCEPT !.shared = ReleaseShared(sent.shared, {held[i] : i \in free}),
                       !.list = [sent.list EXCEPT ![s] = Without(held, free)]]
  <2>1. r = Forward([shared |-> sh, list |-> l, failed |-> f, picCount |-> c], done, free, s, flush)
    OBVIOUS
  <2>2. sent = Sent(sh, l, f, c, s, done, flush)
    <3> HIDE DEF held
    <3>1. QED BY DEF Sent, held
  <2> HIDE DEF r, sent, held
  <2>3. FreedFrom(r, sent, held, free, s)
    BY <2>1, <2>2, ForwardOpens DEF held
  <2>4. QED BY <2>3 DEF FreedFrom
<1>3. CASE done = Null
  <2>1. r.list = [l EXCEPT ![s] = Without(held, free)]
    <3>1. sent = st
      BY <1>3
    <3> HIDE DEF r, sent, held
    <3>2. QED BY <1>2, <3>1
  <2>6. "list" \in DOMAIN r
    <3>1. "list" \in DOMAIN st /\ sent = st
      BY <1>3
    <3> HIDE DEF r, sent, held, st
    <3>2. QED BY <1>2, <3>1
  <2>2. \A u \in Stage : u # s => [l EXCEPT ![s] = Without(held, free)][u] = l[u]
    BY <1>1
  <2>3. [l EXCEPT ![s] = Without(held, free)][s] = Without(held, free)
    BY <1>1
  <2>4. \A u \in Stage : u < s => u # s
    BY <1>1 DEF Stage
  <2> HIDE DEF r, held
  <2>5. QED BY <1>3, <2>1, <2>2, <2>3, <2>4, <2>6 DEF held, r
<1>4. CASE done # Null
  <2> DEFINE id == pics[done].id
  <2>1. DOMAIN l1 = Stage /\ l1[s] = held /\ \A u \in Stage : u # s => l1[u] = l[u]
    BY <1>1
  <2>2. ASSUME id \in DOMAIN sh, "poc" \in DOMAIN sh[id] PROVE sh1[id].poc = sh[id].poc
    <3>1. sh1[id] = [sh[id] EXCEPT !.ref = sh[id].ref - HeldLinks(sh, {pics[done]}, id)]
      BY <2>2 DEF ReleasePrev
    <3> DEFINE b == sh[id]
               n == sh[id].ref - HeldLinks(sh, {pics[done]}, id)
    <3> HIDE DEF n, b, id, sh1
    <3>2. [b EXCEPT !.ref = n].poc = b.poc
      BY <2>2 DEF b
    <3>3. QED BY <3>1, <3>2 DEF b, n
  <2>3. sent = AddPicSorted(st1, id, s + 1, flush)
    BY <1>4 DEF Sent
  <2> HIDE DEF sh1, held, id, l1
  <2>4. HandsOn(l1, sent.list, s + 1, sh1[id].poc, flush) /\ DOMAIN sent.list = Stage
    BY <1>1, <2>1, <2>3, AddHandsOn
  <2> HIDE DEF sent
  <2>5. r.list = [sent.list EXCEPT ![s] = Without(held, free)]
    <3>1. "list" \in DOMAIN sent
      BY <1>4 DEF AddPicSorted, sent
    <3> HIDE DEF r
    <3>2. QED BY <1>2, <3>1
  <2>10. "list" \in DOMAIN r
    <3>1. "list" \in DOMAIN sent
      BY <1>4 DEF AddPicSorted, sent
    <3> HIDE DEF r
    <3>2. QED BY <1>2, <3>1
  <2> HIDE DEF r
  <2>6. r.list[s] = Without(held, free) /\ \A u \in Stage : u # s => r.list[u] = sent.list[u]
    BY <2>4, <2>5
  <2>7. \A u \in Stage : u < s => r.list[u] = l[u]
    <3>1. \A u \in Stage : u < s => u < s + 1 /\ u # s
      BY <1>1 DEF Stage
    <3>2. QED BY <2>1, <2>4, <2>6, <3>1 DEF HandsOn
  <2>8. id \in DOMAIN sh /\ "poc" \in DOMAIN sh[id] /\ s + 1 \in Stage =>
          IF Takes(s + 1, sh[id].poc)
          THEN \E pic : /\ pic.poc = sh[id].poc /\ pic.isFlush = flush
                        /\ r.list[s + 1] = Insert(s + 1, l[s + 1], pic).pics
          ELSE r.list[s + 1] = l[s + 1]
    <3>1. s + 1 # s
      BY <1>1
    <3>2. QED BY <2>1, <2>2, <2>4, <2>6, <3>1 DEF HandsOn
  <2>9. QED BY <1>4, <2>6, <2>7, <2>8, <2>10 DEF r, id, held
<1>5. QED BY <1>3, <1>4

-----------------------------------------------------------------------------
(* The invariant of the first stages.                                      *)

Lo == -conf.leadFrames

(* m_lastPoc before the picture p is processed. *)
Prior(p) == IF p = Lo THEN NoPic ELSE p - 1

Ahead == IF conf.futureRef THEN conf.mctfRange ELSE 0

(* The first picture that the filter keeps. *)
First(next) == IF next - conf.mctfRange <= -MctfLead THEN -MctfLead ELSE next - conf.mctfRange

(* All pictures of the video are through the first stage. *)
AllIn == pre.nextPoc = app.has - conf.leadFrames

AppInv ==
  /\ app.has \in Nat /\ app.passed \in Nat /\ app.passed <= app.has
  /\ main.pending => ~main.flush
  /\ main.at # "app" => /\ main.pending => app.passed < app.has
                        /\ main.flush => app.passed \in {0, app.has}

PreInv ==
  /\ pre.nextPoc \in Int /\ Lo <= pre.nextPoc /\ pre.lastPoc = Prior(pre.nextPoc)
  /\ pre.nextPoc = PicsRcvd
       \/ /\ pre.nextPoc = PicsRcvd - 1 /\ list[1] # <<>> /\ Last(list[1]).poc = pre.nextPoc
          /\ main.at = "pre" \/ (main.at = "run" /\ main.stage = 1)
  /\ Ascends(list[1])
  /\ \A i \in DOMAIN list[1] : Lo <= list[1][i].poc /\ list[1][i].poc < PicsRcvd

(* The filter has gone as far as its pictures allow. *)
Filtered ==
  \/ mctf.lastIn = NoPic /\ mctf.filterPoc = 0
  \/ mctf.filterPoc - 1 + Ahead <= mctf.lastIn /\ mctf.lastIn < pre.nextPoc
  \/ AllIn

MctfInv ==
  /\ mctf.filterPoc \in Nat /\ mctf.lastIn \in Int
  /\ Ascends(list[2]) /\ Pocs(list[2]) = First(mctf.filterPoc) .. pre.nextPoc - 1
  /\ \A i \in DOMAIN list[2] : list[2][i].isFlush => app.passed = app.has
  /\ Filtered
  /\ main.at = "mctf" => /\ list[2] # <<>>
                         /\ main.flush \/ Len(list[2]) >= MinQueueSize(2)

FrontInv == AppInv /\ PreInv /\ (conf.useMctf => MctfInv)

LEMMA ConfIs ==
  ASSUME conf \in Configs
  PROVE  /\ conf.leadFrames \in 0 .. 64 /\ conf.mctfRange \in Nat /\ conf.mctfRange > 0
         /\ MctfLead \in Nat /\ MctfLead <= conf.leadFrames /\ MctfLead <= conf.mctfRange
         /\ MctfLead = conf.leadFrames \/ MctfLead = conf.mctfRange
         /\ Lo \in Int /\ Lo <= -MctfLead /\ NoPic < Lo /\ Ahead \in Nat
         /\ {conf.useMctf, conf.futureRef} \subseteq BOOLEAN
<1>1. /\ conf.leadFrames \in Nat /\ conf.mctfRange \in Nat /\ conf.mctfRange > 0
      /\ conf.leadFrames <= 64 /\ conf.useMctf \in BOOLEAN /\ conf.futureRef \in BOOLEAN
  BY PipelineAssumption
<1>2. /\ MctfLead \in Nat /\ MctfLead <= conf.leadFrames /\ MctfLead <= conf.mctfRange
      /\ MctfLead = conf.leadFrames \/ MctfLead = conf.mctfRange
  BY <1>1 DEF MctfLead, Least
<1>3. Lo \in Int /\ Lo <= -MctfLead /\ NoPic < Lo
  BY <1>1, <1>2 DEF Lo, NoPic
<1>4. Ahead \in Nat
  BY <1>1 DEF Ahead
<1>5. QED BY <1>1, <1>2, <1>3, <1>4

LEMMA FilterIsSecond ==
  ASSUME conf.useMctf
  PROVE  Stages[2] = "mctf" /\ 2 \in Stage /\ 2 \notin GopStages /\ 1 \in Stage /\ ~IsGop(2)
         /\ \A s \in Stage : Stages[s] = "mctf" => s = 2
<1>1. CASE conf.lookAhead
  <2>1. Stages = <<"pre", "mctf", "la", "gop">>
    BY <1>1 DEF Stages
  <2>2. LastStage = 4
    BY <2>1 DEF LastStage
  <2>3. Stage = {1, 2, 3, 4} /\ GopStages = {3, 4}
    BY <1>1, <2>2 DEF Stage, GopStages
  <2>4. Stages[1] = "pre" /\ Stages[2] = "mctf" /\ Stages[3] = "la" /\ Stages[4] = "gop"
    BY <2>1
  <2>5. QED BY <2>3, <2>4 DEF IsGop
<1>2. CASE ~conf.lookAhead
  <2>1. Stages = <<"pre", "mctf", "gop">>
    BY <1>2 DEF Stages
  <2>2. LastStage = 3
    BY <2>1 DEF LastStage
  <2>3. Stage = {1, 2, 3} /\ GopStages = {3}
    BY <1>2, <2>2 DEF Stage, GopStages
  <2>4. Stages[1] = "pre" /\ Stages[2] = "mctf" /\ Stages[3] = "gop"
    BY <2>1
  <2>5. QED BY <2>3, <2>4 DEF IsGop
<1>3. QED BY <1>1, <1>2

LEMMA OnlyFilter ==
  ASSUME NEW s \in Stage, Stages[s] = "mctf"
  PROVE  conf.useMctf /\ s = 2
<1>1. conf.useMctf
  <2> SUFFICES ASSUME ~conf.useMctf PROVE FALSE
    OBVIOUS
  <2>1. CASE conf.lookAhead
    <3>1. Stages = <<"pre", "la", "gop">>
      BY <2>1 DEF Stages
    <3>2. s \in 1 .. 3
      BY <3>1 DEF Stage, LastStage
    <3>3. QED BY <3>1, <3>2
  <2>2. CASE ~conf.lookAhead
    <3>1. Stages = <<"pre", "gop">>
      BY <2>2 DEF Stages
    <3>2. s \in 1 .. 2
      BY <3>1 DEF Stage, LastStage
    <3>3. QED BY <3>1, <3>2
  <2>3. QED BY <2>1, <2>2
<1>2. QED BY <1>1, FilterIsSecond

(* Pictures of the first stage. *)
InFront(pics) ==
  Ascends(pics) /\ \A i \in DOMAIN pics : Lo <= pics[i].poc /\ pics[i].poc < PicsRcvd

(* What steps leave alone when all pictures are through the first stage.   *)
LEMMA FrontFewer ==
  ASSUME FrontInv, conf \in Configs, UNCHANGED <<conf, pre, mctf>>,
         app'.passed = app.passed, app'.has = app.has,
         InFront(list'[1]), conf.useMctf => list'[2] = list[2],
         AppInv', pre.nextPoc = PicsRcvd, main'.at # "mctf"
  PROVE  FrontInv'
<1>1. /\ PicsRcvd' = PicsRcvd /\ MctfLead' = MctfLead /\ Lo' = Lo /\ AllIn' = AllIn /\ Ahead' = Ahead
      /\ \A n : First(n)' = First(n) /\ Prior(n)' = Prior(n)
  BY DEF PicsRcvd, MctfLead, Lo, AllIn, Ahead, First, Prior
<1>2. PreInv'
  BY <1>1 DEF FrontInv, PreInv, Ascends, InFront
<1>3. ASSUME conf.useMctf PROVE MctfInv'
  <2>1. MctfInv
    BY <1>3 DEF FrontInv
  <2>2. Filtered'
    BY <1>1, <2>1 DEF MctfInv, Filtered
  <2>3. QED BY <1>1, <1>3, <2>1, <2>2 DEF MctfInv, Ascends, Pocs
<1>4. QED BY <1>2, <1>3 DEF FrontInv

(* What the other steps leave alone. *)
LEMMA FrontSame ==
  ASSUME FrontInv, conf \in Configs, UNCHANGED <<conf, pre, mctf>>,
         app'.passed = app.passed, app'.has = app.has,
         list'[1] = list[1], conf.useMctf => list'[2] = list[2],
         AppInv', pre.nextPoc = PicsRcvd, main'.at # "mctf"
  PROVE  FrontInv'
<1>1. InFront(list'[1])
  BY DEF FrontInv, PreInv, InFront
<1>2. QED BY <1>1, FrontFewer

(* The application's thread goes on. *)
LEMMA AppSame ==
  ASSUME AppInv, main.at # "app", app'.passed = app.passed, app'.has = app.has,
         main'.pending = main.pending, main'.flush = main.flush
  PROVE  AppInv'
BY DEF AppInv

LEMMA AtRest ==
  ASSUME FrontInv, main.at \notin {"pre", "run"}
  PROVE  pre.nextPoc = PicsRcvd
BY DEF FrontInv, PreInv

LEMMA EncodeFront ==
  ASSUME FrontInv, conf \in Configs, Encode
  PROVE  FrontInv'
<1>1. /\ UNCHANGED <<conf, pre, mctf, list>> /\ main.at = "app" /\ app.passed < app.has
      /\ app' = [app EXCEPT !.state = "ENCODING", !.done = FALSE]
      /\ main' = [at |-> "top", stage |-> 0, flush |-> FALSE, pending |-> ~FALSE,
                  au |-> NoPic, empty |-> FALSE]
  BY DEF Encode, Call
<1>2. app'.passed = app.passed /\ app'.has = app.has
  BY <1>1
<1>3. main'.at = "top" /\ main'.flush = FALSE /\ main'.pending = TRUE
  BY <1>1
<1>4. AppInv'
  BY <1>1, <1>2, <1>3 DEF FrontInv, AppInv
<1>5. QED BY <1>1, <1>2, <1>3, <1>4, AtRest, FrontSame

LEMMA FlushFront ==
  ASSUME FrontInv, conf \in Configs, Flush
  PROVE  FrontInv'
<1> DEFINE state == IF app.state = "ENCODING" THEN "FLUSHING" ELSE app.state
<1>1. /\ UNCHANGED <<conf, pre, mctf, list>> /\ main.at = "app" /\ app.passed \in {0, app.has}
      /\ app' = [app EXCEPT !.state = state]
      /\ main' = [at |-> "top", stage |-> 0, flush |-> TRUE, pending |-> ~TRUE,
                  au |-> NoPic, empty |-> FALSE]
  BY DEF Flush, Call
<1> HIDE DEF state
<1>2. app'.passed = app.passed /\ app'.has = app.has
  BY <1>1
<1>3. main'.at = "top" /\ main'.flush = TRUE /\ main'.pending = FALSE
  BY <1>1
<1>4. AppInv'
  BY <1>1, <1>2, <1>3 DEF FrontInv, AppInv
<1>5. QED BY <1>1, <1>2, <1>3, <1>4, AtRest, FrontSame

(* A stage of pictures to code, or none, works; the loop goes on.          *)
LEMMA BackFront ==
  ASSUME FrontInv, conf \in Configs, UNCHANGED <<conf, pre, mctf>>,
         app'.passed = app.passed, app'.has = app.has,
         main.at \notin {"app", "pre", "run"},
         \A u \in Stage \ GopStages : list'[u] = list[u],
         main'.pending = main.pending, main'.flush = main.flush, main'.at # "mctf"
  PROVE  FrontInv'
<1>1. list'[1] = list[1]
  BY StagesAre DEF Stage
<1>2. conf.useMctf => list'[2] = list[2]
  BY FilterIsSecond
<1>3. AppInv'
  BY AppSame DEF FrontInv
<1>4. QED BY <1>1, <1>2, <1>3, AtRest, FrontSame

(* A picture is reconstructed, whatever the application's thread does.     *)
LEMMA ReconstructFront ==
  ASSUME FrontInv, PipeInv, NEW s \in GopStages, NEW poc, Reconstruct(s, poc)
  PROVE  FrontInv'
<1>1. conf \in Configs /\ Driving(main, list) /\ list \in [Stage -> Seq(Picture(Len(shared)))]
  BY DEF PipeInv, Pipeline, Sharing, Typed
<1> DEFINE at == CASE main.at = "wait" /\ s = LastStage -> "top"
                   [] main.at = "block" /\ s = main.stage -> "code"
                   [] OTHER -> main.at
<1>2. /\ UNCHANGED <<conf, pre, mctf, app>>
      /\ list' = [list EXCEPT ![s][IndexOf(s, poc)].isReconstructed = TRUE]
      /\ main' = [main EXCEPT !.at = at]
  BY DEF Reconstruct
<1>3. list'[1] = list[1]
  BY <1>1, <1>2, StagesAre DEF Stage
<1>4. conf.useMctf => list'[2] = list[2]
  BY <1>1, <1>2, FilterIsSecond
<1>5. \/ at = main.at
      \/ main.at \in {"wait", "block"} /\ at \in {"top", "code"}
  <2>1. CASE main.at = "wait" /\ s = LastStage
    BY <2>1
  <2>2. CASE main.at = "block" /\ s = main.stage
    BY <2>2
  <2>3. CASE ~(main.at = "wait" /\ s = LastStage) /\ ~(main.at = "block" /\ s = main.stage)
    BY <2>3, Zenon
  <2>4. QED BY <2>1, <2>2, <2>3
<1> HIDE DEF at
<1>6. main'.at = at /\ main'.stage = main.stage /\ main'.pending = main.pending /\ main'.flush = main.flush
  BY <1>1, <1>2 DEF Driving
<1>7. AppInv'
  BY <1>2, <1>5, <1>6 DEF FrontInv, AppInv
<1>8. CASE at = main.at
  <2>1. /\ PicsRcvd' = PicsRcvd /\ MctfLead' = MctfLead /\ Lo' = Lo /\ AllIn' = AllIn /\ Ahead' = Ahead
        /\ \A n : First(n)' = First(n) /\ Prior(n)' = Prior(n)
    BY <1>2 DEF PicsRcvd, MctfLead, Lo, AllIn, Ahead, First, Prior
  <2>2. PreInv'
    BY <1>2, <1>3, <1>6, <1>8, <2>1 DEF FrontInv, PreInv, Ascends
  <2>3. ASSUME conf.useMctf PROVE MctfInv'
    <3>1. MctfInv
      BY <2>3 DEF FrontInv
    <3>2. Filtered'
      BY <1>2, <2>1, <3>1 DEF MctfInv, Filtered
    <3>3. MinQueueSize(2)' = MinQueueSize(2)
      BY <1>2 DEF MinQueueSize, IsGop, GopStages, LastStage, Stages, MctfLead, GopSize
    <3>4. mctf'.filterPoc \in Nat /\ mctf'.lastIn \in Int /\ Ascends(list[2])'
      BY <1>2, <1>4, <2>3, <3>1 DEF MctfInv, Ascends
    <3>5. (Pocs(list[2]) = First(mctf.filterPoc) .. pre.nextPoc - 1)'
      <4>1. First(mctf.filterPoc)' = First(mctf.filterPoc)
        BY <1>2 DEF First, MctfLead
      <4>2. Pocs(list[2])' = Pocs(list[2])
        BY <1>4, <2>3 DEF Pocs
      <4>3. QED BY <1>2, <3>1, <4>1, <4>2 DEF MctfInv
    <3>6. (\A i \in DOMAIN list[2] : list[2][i].isFlush => app.passed = app.has)'
      BY <1>2, <1>4, <2>3, <3>1 DEF MctfInv
    <3>7. (main.at = "mctf" => list[2] # <<>> /\ (main.flush \/ Len(list[2]) >= MinQueueSize(2)))'
      BY <1>4, <1>6, <1>8, <2>3, <3>1, <3>3 DEF MctfInv
    <3>8. QED BY <3>2, <3>4, <3>5, <3>6, <3>7 DEF MctfInv
  <2>4. QED BY <1>2, <1>7, <2>2, <2>3 DEF FrontInv
<1>9. CASE main.at \in {"wait", "block"} /\ at \in {"top", "code"}
  BY <1>1, <1>2, <1>3, <1>4, <1>6, <1>7, <1>9, AtRest, FrontSame
<1>10. QED BY <1>5, <1>8, <1>9

LEMMA StopFront ==
  ASSUME FrontInv, PipeInv, GetLists \/ StopEncoding \/ WakeUp \/ Collect
  PROVE  FrontInv'
<1>1. conf \in Configs /\ Driving(main, list)
  BY DEF PipeInv
<1>2. /\ UNCHANGED <<conf, pre, mctf, list, app>>
      /\ main.at \in {"lists", "la", "gop", "code", "wait", "block", "collect"}
  BY DEF GetLists, StopEncoding, WakeUp, Collect, AtGop
<1>3. main'.pending = main.pending /\ main'.flush = main.flush /\ main'.at # "mctf"
  <2>1. CASE Collect
    <3>1. /\ main' = [main EXCEPT !.au = NoPic, !.stage = 0, !.at = main'.at]
          /\ main'.at \in {"return", "wait", "top"}
      BY <2>1 DEF Collect, PipeInv, Driving
    <3> DEFINE at == main'.at
    <3>2. main' = [main EXCEPT !.au = NoPic, !.stage = 0, !.at = at] /\ at \in {"return", "wait", "top"}
      BY <3>1
    <3> HIDE DEF at
    <3>3. main'.pending = main.pending /\ main'.flush = main.flush
      BY <1>1, <3>2 DEF Driving
    <3>4. QED BY <3>1, <3>3
  <2>2. ASSUME NEW at, main' = [main EXCEPT !.at = at], at # "mctf"
        PROVE  main'.pending = main.pending /\ main'.flush = main.flush /\ main'.at # "mctf"
    BY <1>1, <2>2 DEF Driving
  <2>3. CASE GetLists
    <3>1. /\ main' = [main EXCEPT !.at = IF gop'[main.stage].todo = <<>> THEN "output" ELSE "code"]
      BY <2>3 DEF GetLists
    <3> DEFINE at == IF gop'[main.stage].todo = <<>> THEN "output" ELSE "code"
    <3>2. main' = [main EXCEPT !.at = at] /\ at # "mctf"
      BY <3>1
    <3> HIDE DEF at
    <3>3. QED BY <2>2, <3>2
  <2>4. CASE StopEncoding
    <3>1. \E at \in {"output", "block"} : main' = [main EXCEPT !.at = at]
      BY <2>4 DEF StopEncoding
    <3>2. QED BY <2>2, <3>1
  <2>5. CASE WakeUp
    <3>1. \E at \in {"top", "code"} : main' = [main EXCEPT !.at = at]
      BY <2>5 DEF WakeUp
    <3>2. QED BY <2>2, <3>1
  <2>6. QED BY <2>1, <2>3, <2>4, <2>5
<1>4. QED BY <1>1, <1>2, <1>3, BackFront

LEMMA CodeFront ==
  ASSUME FrontInv, PipeInv, InitNextPic \/ EncodePic
  PROVE  FrontInv'
<1> DEFINE s == main.stage
<1>1. conf \in Configs /\ Driving(main, list) /\ list \in [Stage -> Seq(Picture(Len(shared)))]
  BY DEF PipeInv, Pipeline, Sharing, Typed
<1>2. UNCHANGED <<conf, pre, mctf, app>> /\ main.at \in {"la", "gop", "code"}
  BY DEF InitNextPic, EncodePic, AtGop
<1>3. s \in GopStages
  BY <1>1, <1>2 DEF Driving
<1>4. main'.pending = main.pending /\ main'.flush = main.flush /\ main'.at # "mctf"
  <2>1. CASE InitNextPic
    <3> DEFINE at == IF StageParallel THEN main.at ELSE "lists"
    <3>1. main' = [main EXCEPT !.at = at]
      BY <2>1 DEF InitNextPic
    <3>2. at # "mctf"
      BY <1>2
    <3> HIDE DEF at
    <3>3. QED BY <1>1, <3>1, <3>2 DEF Driving
  <2>2. CASE EncodePic
    BY <1>2, <2>2 DEF EncodePic
  <2>3. QED BY <2>1, <2>2
<1>5. \E q : list' = [list EXCEPT ![s] = q]
  <2>1. CASE InitNextPic
    <3> DEFINE q == InitPic(list[s], list[s][NextToInit(s)],
                            shared[list[s][NextToInit(s)].id].isStartOfIntra)
    <3>1. list' = [list EXCEPT ![s] = q]
      BY <2>1 DEF InitNextPic
    <3> HIDE DEF q
    <3>2. QED BY <3>1
  <2>2. CASE EncodePic
    <3> DEFINE i == IndexOf(s, Head(ReadyPics(s)))
               q == [list[s] EXCEPT ![i].isReconstructed = TRUE]
    <3>1. list' = list \/ list' = [list EXCEPT ![s][i].isReconstructed = TRUE]
      BY <2>2 DEF EncodePic
    <3> HIDE DEF i
    <3>2. list' = [list EXCEPT ![s] = q] \/ list' = [list EXCEPT ![s] = list[s]]
      BY <1>1, <3>1
    <3> HIDE DEF q
    <3>3. QED BY <3>2
  <2>3. QED BY <2>1, <2>2
<1> HIDE DEF s
<1>6. \A u \in Stage \ GopStages : list'[u] = list[u]
  BY <1>1, <1>3, <1>5
<1>7. QED BY <1>1, <1>2, <1>4, <1>6, BackFront

LEMMA ReturnFront ==
  ASSUME FrontInv, PipeInv, Return
  PROVE  FrontInv'
<1>1. UNCHANGED <<conf, list, pre, mctf>> /\ main.at = "return" /\ conf \in Configs
  BY DEF Return, PipeInv
<1>2. /\ app'.passed = app.passed /\ app'.has = app.has
      /\ \/ Call(TRUE) /\ main.flush
         \/ main' = [main EXCEPT !.at = "app"]
  <2> DEFINE out   == auList.started /\ auList.aus # <<>>
             aus   == IF out THEN Tail(auList.aus) ELSE auList.aus
             empty == main.empty /\ aus = <<>>
             again == ~Final /\ main.flush /\ ~empty
  <2>1. CASE again
    BY <2>1 DEF Return
  <2>2. CASE ~again
    <3>1. /\ main' = [main EXCEPT !.at = "app"]
          /\ \E fits \in {TRUE, ~conf.smallPayload} :
               app' = [app EXCEPT
                         !.got   = IF out /\ Final /\ fits THEN Append(@, Head(auList.aus)) ELSE @,
                         !.done  = empty /\ app.state # "ENCODING",
                         !.state = IF empty /\ @ = "FLUSHING" THEN "FINALIZED" ELSE @]
      BY <2>2 DEF Return
    <3> HIDE DEF out, empty
    <3>2. QED BY <3>1
  <2>3. QED BY <2>1, <2>2
<1>3. main'.at \in {"top", "app"} /\ AppInv'
  <2>1. CASE Call(TRUE) /\ main.flush
    <3>1. main'.at = "top" /\ main'.flush = TRUE /\ main'.pending = FALSE
      BY <2>1 DEF Call
    <3>2. QED BY <1>1, <1>2, <2>1, <3>1 DEF FrontInv, AppInv
  <2>2. CASE main' = [main EXCEPT !.at = "app"]
    <3>1. main'.at = "app" /\ main'.flush = main.flush /\ main'.pending = main.pending
      BY <2>2 DEF PipeInv, Driving
    <3>2. QED BY <1>2, <3>1 DEF FrontInv, AppInv
  <2>3. QED BY <1>2, <2>1, <2>2
<1>4. QED BY <1>1, <1>2, <1>3, AtRest, FrontSame

LEMMA OutputFront ==
  ASSUME FrontInv, PipeInv, Output
  PROVE  FrontInv'
<1> DEFINE s == main.stage
           out == GivenOut(s)
           left == [i \in DOMAIN Written(s) |->
                      [Written(s)[i] EXCEPT !.isNeeded = @ /\ Written(s)[i].poc \notin out]]
           l == [list EXCEPT ![s] = left]
           coded == AfterWrite(s).coded
           done == IF CanWrite(s) THEN IndexOf(s, Head(gop[s].out)) ELSE Null
           free == Releasable(left, s, coded)
           r == WrittenOut(s, coded)
           what == r.failed \union
                     Check(\E x \in ToSet(NewStats(s)) : NoSource(x), "miss stats data")
           pics == r.list[s]
           rec == app.rec \o RecYuv(s)
<1>1. /\ Continue([r EXCEPT !.failed = what])
      /\ IF Stages[s] = "la"
           THEN IF main.flush /\ pics # <<>>
                  THEN main' = [main EXCEPT !.at = "la"] ELSE NextStage(pics)
           ELSE main' = [main EXCEPT !.at = "collect", !.empty = @ /\ pics = <<>>, !.au = NewAu(s)]
      /\ app' = [app EXCEPT !.rec = rec]
      /\ UNCHANGED <<conf, pre, mctf>> /\ main.at = "output"
  BY DEF Output
<1>2. /\ s \in GopStages /\ s \in Stage /\ Driving(main, list) /\ conf \in Configs
      /\ DOMAIN list = Stage
  <2>1. s \in GopStages /\ Driving(main, list) /\ conf \in Configs
    BY <1>1 DEF PipeInv, Driving
  <2>2. DOMAIN list = Stage
    BY DEF PipeInv, Pipeline, Sharing, Typed
  <2>3. QED BY <2>1, <2>2, StagesAre
<1>3. IsLeft(left, s, out) /\ DOMAIN l = Stage
  BY <1>2 DEF IsLeft
<1>4. IsForward(r, shared, l, failed, gop, done, free, s, main.flush)
  <2> HIDE DEF r, what, pics, rec
  <2>1. /\ l = [list EXCEPT ![s] = left] /\ out = GivenOut(s)
        /\ done = IF CanWrite(s) THEN IndexOf(s, Head(gop[s].out)) ELSE Null
        /\ free = Releasable(left, s, coded)
    OBVIOUS
  <2>2. r = WrittenOut(s, coded)
    BY DEF r
  <2> HIDE DEF l, done, free, left, out, s, coded
  <2>3. Counts(gop) = Counts(gop)
    OBVIOUS
  <2>4. IsForward(WrittenOut(s, coded), shared, l, failed, gop, done, free, s, main.flush)
    BY ONLY PipeInv, <1>2, <1>3, <2>1, <2>3, WrittenOutIs
  <2>5. QED BY <2>2, <2>4
<1>5. (\A u \in Stage : u < s => r.list[u] = l[u]) /\ "list" \in DOMAIN r
  <2>1. r = Forward([shared |-> shared, list |-> l, failed |-> failed, picCount |-> Counts(gop)],
                    done, free, s, main.flush)
    BY <1>4 DEF IsForward
  <2> HIDE DEF l, done, free, left, out, s, coded, r
  <2>2. QED BY <1>2, <1>3, <2>1, ForwardHandsOn
<1>6. \A u \in Stage \ GopStages : u < s /\ u # s
  BY <1>2, StagesAre DEF Stage, GopStages
<1>7. \A u \in Stage \ GopStages : list'[u] = list[u]
  <2> HIDE DEF what, left, r, s
  <2>1. list' = [r EXCEPT !.failed = what].list
    BY <1>1 DEF Continue
  <2>2. list' = r.list
    BY <1>5, <2>1
  <2>3. \A u \in Stage \ GopStages : l[u] = list[u]
    BY <1>2, <1>6
  <2>4. QED BY <1>5, <1>6, <2>2, <2>3
<1>8. app'.passed = app.passed /\ app'.has = app.has
  <2> HIDE DEF rec, s, r, what, pics
  <2>1. app' = [app EXCEPT !.rec = rec]
    BY <1>1
  <2>2. QED BY ONLY <2>1
<1>9. main'.pending = main.pending /\ main'.flush = main.flush /\ main'.at # "mctf"
  <2> DEFINE au == NewAu(s)
  <2> HIDE DEF pics, s, au
  <2>1. CASE main' = [main EXCEPT !.at = "la"]
    BY <1>2, <2>1 DEF Driving
  <2>2. CASE NextStage(pics)
    BY <1>2, <2>2 DEF NextStage, Driving
  <2>3. CASE main' = [main EXCEPT !.at = "collect", !.empty = @ /\ pics = <<>>, !.au = au]
    BY <1>2, <2>3 DEF Driving
  <2>4. QED BY <1>1, <2>1, <2>2, <2>3 DEF au
<1>10. QED BY <1>1, <1>2, <1>7, <1>8, <1>9, BackFront

LEMMA PocsAreInts ==
  ASSUME NEW n \in Nat, NEW pics \in Seq(Picture(n))
  PROVE  \A i \in DOMAIN pics : pics[i].poc \in Int
<1>1. \A i \in DOMAIN pics : pics[i] \in Picture(n)
  OBVIOUS
<1>2. QED BY <1>1 DEF Picture

(* The picture comes after the others; the list with it.                   *)
IsLatest(pics, pic) == pic.poc \in Int /\ \A i \in DOMAIN pics : pics[i].poc < pic.poc

IsWithLatest(r, pics, pic) ==
  /\ Ascends(r) /\ Pocs(r) = Pocs(pics) \union {pic.poc}
  /\ r # <<>> /\ Last(r).poc = pic.poc
  /\ \A i \in DOMAIN r : r[i] = pic \/ (i \in DOMAIN pics /\ r[i] = pics[i])

LEMMA AppendAscends ==
  ASSUME NEW n \in Nat, NEW pics \in Seq(Picture(n)), Ascends(pics), NEW pic, IsLatest(pics, pic)
  PROVE  IsWithLatest(Append(pics, pic), pics, pic)
<1> DEFINE r == Append(pics, pic)
<1> USE DEF IsLatest
<1>1. Len(pics) \in Nat /\ DOMAIN pics = 1 .. Len(pics) /\ \A i \in DOMAIN pics : pics[i] \in Picture(n)
  OBVIOUS
<1>2. /\ Len(r) = Len(pics) + 1 /\ DOMAIN r = 1 .. Len(pics) + 1 /\ r[Len(pics) + 1] = pic
      /\ \A i \in DOMAIN pics : r[i] = pics[i]
  OBVIOUS
<1> HIDE DEF r
<1>3. \A i \in DOMAIN r : r[i] = pic \/ (i \in DOMAIN pics /\ r[i] = pics[i])
  BY <1>1, <1>2
<1>4. Ascends(r)
  <2> SUFFICES ASSUME NEW i \in DOMAIN r, NEW j \in DOMAIN r, i < j PROVE r[i].poc < r[j].poc
    BY DEF Ascends
  <2>1. i \in DOMAIN pics
    BY <1>1, <1>2
  <2>2. CASE j \in DOMAIN pics
    BY <1>2, <2>1, <2>2 DEF Ascends
  <2>3. CASE j = Len(pics) + 1
    BY <1>2, <2>1, <2>3
  <2>4. QED BY <1>1, <1>2, <2>2, <2>3
<1>5. Pocs(r) = Pocs(pics) \union {pic.poc}
  <2>1. \A i \in DOMAIN pics : i \in DOMAIN r
    BY <1>1, <1>2
  <2>2. Len(pics) + 1 \in DOMAIN r
    BY <1>1, <1>2
  <2>3. QED BY <1>2, <1>3, <2>1, <2>2 DEF Pocs
<1>6. r # <<>> /\ Last(r).poc = pic.poc
  <2>1. Len(r) # 0 /\ Last(r) = r[Len(r)]
    BY <1>1, <1>2 DEF Last
  <2>2. r # <<>>
    BY <2>1
  <2>3. QED BY <1>2, <2>1, <2>2
<1>7. QED BY <1>3, <1>4, <1>5, <1>6 DEF IsWithLatest, r

LEMMA TakeInputFront ==
  ASSUME FrontInv, PipeInv, TakeInput
  PROVE  FrontInv'
<1> DEFINE n == Len(shared)
           id == IF main.pending THEN FreePicShared ELSE Null
           buf == Reused
           sh == IF id \in DOMAIN shared THEN [shared EXCEPT ![id] = buf] ELSE Append(shared, buf)
           flush == main.flush
           st == AddPicSorted([Pipe EXCEPT !.shared = sh], id, 1, flush)
           rcvd == IF id = Null THEN PicsRcvd ELSE PicsRcvd + 1
<1>1. /\ Continue(IF id = Null THEN Pipe ELSE st)
      /\ app' = [app EXCEPT !.passed = IF id = Null THEN @ ELSE @ + 1]
      /\ main' = [main EXCEPT !.at = "run", !.stage = 1, !.pending = @ /\ id = Null,
                              !.empty = rcvd > 0 \/ main.flush]
      /\ UNCHANGED <<conf, pre, mctf, gop>> /\ main.at = "top"
  BY DEF TakeInput
<1>2. /\ conf \in Configs /\ Driving(main, list) /\ Sharing(shared, list) /\ DOMAIN list = Stage
      /\ n \in Nat /\ DOMAIN shared = 1 .. n /\ list[1] \in Seq(Picture(n)) /\ 1 \in Stage
      /\ pre.nextPoc = PicsRcvd
  <2>1. conf \in Configs /\ Driving(main, list) /\ Sharing(shared, list)
    BY DEF PipeInv, Pipeline
  <2>2. 1 \in Stage
    BY StagesAre DEF Stage
  <2>3. QED BY <1>1, <2>1, <2>2, AtRest, Lengths DEF Sharing, Typed
<1>3. /\ main'.at = "run" /\ main'.stage = 1 /\ main'.flush = main.flush
      /\ main'.pending = (main.pending /\ id = Null)
  <2> DEFINE b == main.pending /\ id = Null
             c == rcvd > 0 \/ main.flush
  <2>1. main' = [main EXCEPT !.at = "run", !.stage = 1, !.pending = b, !.empty = c]
    BY <1>1
  <2> HIDE DEF b, c, id
  <2>2. main'.at = "run" /\ main'.stage = 1 /\ main'.flush = main.flush /\ main'.pending = b
    BY <1>2, <2>1 DEF Driving
  <2>3. QED BY <2>2 DEF b
<1>4. id # Null => main.pending
  OBVIOUS
<1>5. CASE id = Null
  <2>1. list' = list
    BY <1>1, <1>5, CountedAsIs DEF Continue
  <2>2. app'.passed = app.passed /\ app'.has = app.has
    <3> HIDE DEF id
    <3>1. QED BY <1>1, <1>5
  <2> HIDE DEF id
  <2>3. AppInv'
    BY <1>1, <1>3, <1>5, <2>2 DEF FrontInv, AppInv
  <2>4. QED BY <1>1, <1>2, <1>3, <2>1, <2>2, <2>3, FrontSame
<1>6. CASE id # Null
  <2>1. id \in 1 .. n + 1
    BY <1>6, FreePicSharedIs
  <2>2. sh[id].poc = PicsRcvd
    <3>1. buf.poc = PicsRcvd
      BY DEF Reused
    <3> HIDE DEF id, buf
    <3>2. CASE id \in DOMAIN shared
      BY <3>1, <3>2
    <3>3. CASE id \notin DOMAIN shared
      <4>1. id = n + 1 /\ shared \in Seq(Buffer(n))
        BY <1>2, <2>1, <3>3 DEF Sharing, Typed
      <4>2. QED BY <3>1, <3>3, <4>1
    <3>4. QED BY <3>2, <3>3
  <2>3. list' = st.list
    BY <1>1, <1>6 DEF Continue
  <2>4. app'.passed = app.passed + 1 /\ app'.has = app.has
    <3> HIDE DEF id
    <3>1. QED BY <1>1, <1>6
  <2>5. main.pending /\ app.passed < app.has /\ ~main.flush /\ app.passed \in Nat /\ app.has \in Nat
    <3>1. main.pending
      BY <1>4, <1>6
    <3> HIDE DEF id
    <3>2. QED BY <1>1, <3>1 DEF FrontInv, AppInv
  <2>6. HandsOn(list, list', 1, PicsRcvd, flush)
    <3>1. st = AddPicSorted([shared |-> sh, list |-> list, failed |-> failed, picCount |-> Counts(gop)],
                            id, 1, flush)
      <4> HIDE DEF sh, id, flush
      <4>1. QED BY PipeWith
    <3>2. 1 \in 1 .. LastStage + 1
      BY StagesAre
    <3> HIDE DEF st, sh, id, flush
    <3>3. QED BY <1>2, <2>2, <2>3, <3>1, <3>2, AddHandsOn
  <2> HIDE DEF st, sh, id, flush
  <2>7. /\ PicsRcvd' = PicsRcvd + 1 /\ PicsRcvd \in Int /\ Lo <= PicsRcvd
        /\ MctfLead' = MctfLead /\ Lo' = Lo /\ AllIn' = AllIn /\ Ahead' = Ahead /\ Lo \in Int
        /\ \A p : First(p)' = First(p) /\ Prior(p)' = Prior(p)
    <3>1. conf.leadFrames \in Nat
      BY <1>2, PipelineAssumption
    <3>2. PicsRcvd' = PicsRcvd + 1 /\ PicsRcvd \in Int /\ Lo <= PicsRcvd /\ Lo \in Int
      BY <1>1, <2>4, <2>5, <3>1 DEF PicsRcvd, Lo
    <3>3. MctfLead' = MctfLead /\ Lo' = Lo /\ AllIn' = AllIn /\ Ahead' = Ahead
      BY <1>1, <2>4 DEF MctfLead, Lo, AllIn, Ahead
    <3>4. QED BY <1>1, <3>2, <3>3 DEF First, Prior
  <2>8. Takes(1, PicsRcvd) /\ ~IsGop(1)
    <3>1. Stages[1] = "pre" /\ ~IsGop(1)
      BY <1>2, StagesAre DEF IsGop
    <3>2. StartPoc(1) = Lo
      BY <3>1, Zenon DEF StartPoc, Lo
    <3>3. QED BY <2>7, <3>1, <3>2 DEF Takes
  <2>9. PICK pic : pic.poc = PicsRcvd /\ list'[1] = Insert(1, list[1], pic).pics
    BY <1>2, <2>6, <2>8 DEF HandsOn
  <2>10. \A u \in Stage : u # 1 => list'[u] = list[u]
    BY <1>2, <2>6, <2>8 DEF HandsOn
  <2>11. Ascends(list[1]) /\ \A i \in DOMAIN list[1] : Lo <= list[1][i].poc /\ list[1][i].poc < PicsRcvd
    BY DEF FrontInv, PreInv
  <2>12. list'[1] = Append(list[1], pic)
    BY <1>2, <2>7, <2>8, <2>9, <2>11, InsertAtEnd
  <2>13. /\ Ascends(list'[1]) /\ list'[1] # <<>> /\ Last(list'[1]).poc = PicsRcvd
         /\ \A i \in DOMAIN list'[1] : list'[1][i] = pic \/ (i \in DOMAIN list[1] /\ list'[1][i] = list[1][i])
    <3>1. pic.poc \in Int /\ \A i \in DOMAIN list[1] : list[1][i].poc < pic.poc
      BY <2>7, <2>9, <2>11
    <3> DEFINE r == list'[1]
               q == list[1]
    <3>2. /\ r = Append(q, pic) /\ n \in Nat /\ q \in Seq(Picture(n)) /\ Ascends(q)
          /\ IsLatest(q, pic)
      BY <1>2, <2>11, <2>12, <3>1 DEF IsLatest
    <3> HIDE DEF r, q, n
    <3>3. IsWithLatest(r, q, pic)
      BY ONLY <3>2, AppendAscends
    <3>4. /\ Ascends(r) /\ r # <<>> /\ Last(r).poc = PicsRcvd
          /\ \A i \in DOMAIN r : r[i] = pic \/ (i \in DOMAIN q /\ r[i] = q[i])
      BY <2>9, <3>3 DEF IsWithLatest
    <3>5. QED BY ONLY <3>4 DEF r, q
  <2>14. \A i \in DOMAIN list'[1] : Lo <= list'[1][i].poc /\ list'[1][i].poc < PicsRcvd + 1
    <3>1. \A i \in DOMAIN list[1] : list[1][i].poc \in Int
      BY <1>2, PocsAreInts
    <3>2. QED BY <2>7, <2>9, <2>11, <2>13, <3>1
  <2>15. AppInv'
    <3>1. ~main'.pending /\ ~main'.flush
      <4> HIDE DEF id
      <4>1. QED BY <1>3, <1>6, <2>5
    <3>2. QED BY <2>4, <2>5, <3>1 DEF AppInv
  <2>16. PreInv'
    <3>1. pre'.nextPoc = PicsRcvd' - 1 /\ pre'.nextPoc = PicsRcvd
      BY <1>1, <1>2, <2>7
    <3>2. pre'.nextPoc \in Int /\ Lo' <= pre'.nextPoc /\ pre'.lastPoc = Prior(pre.nextPoc)'
      BY <1>1, <2>7 DEF FrontInv, PreInv
    <3>3. Ascends(list[1])'
      BY <2>13 DEF Ascends
    <3>4. QED BY <1>1, <1>3, <2>7, <2>13, <2>14, <3>1, <3>2, <3>3 DEF PreInv
  <2>17. ASSUME conf.useMctf PROVE MctfInv'
    <3>1. MctfInv /\ list'[2] = list[2]
      BY <2>10, <2>17, FilterIsSecond DEF FrontInv
    <3>2. Filtered'
      BY <1>1, <2>7, <3>1 DEF MctfInv, Filtered
    <3>3. \A i \in DOMAIN list[2] : ~list[2][i].isFlush
      BY <2>5, <3>1 DEF MctfInv
    <3>4. Ascends(list'[2]) /\ Pocs(list'[2]) = First(mctf.filterPoc) .. pre.nextPoc - 1
      BY <3>1 DEF MctfInv
    <3>5. mctf.filterPoc \in Nat /\ mctf.lastIn \in Int
      BY <3>1 DEF MctfInv
    <3>6. First(mctf.filterPoc)' = First(mctf.filterPoc)
      BY <1>1 DEF First, MctfLead
    <3>7. QED BY <1>1, <1>3, <3>1, <3>2, <3>3, <3>4, <3>5, <3>6 DEF MctfInv, Ascends, Pocs
  <2>18. QED BY <1>1, <2>15, <2>16, <2>17 DEF FrontInv
<1>7. QED BY <1>5, <1>6

LEMMA NextStageGoesOn ==
  ASSUME NEW l, Driving(main, l), NEW pics, NextStage(pics)
  PROVE  /\ main'.pending = main.pending /\ main'.flush = main.flush
         /\ main'.at \in {"run", "collect"} /\ main'.stage = main.stage + 1
<1> DEFINE at == IF main.stage < LastStage THEN "run" ELSE "collect"
           next == main.stage + 1
           empty == main.empty /\ pics = <<>>
<1>1. main' = [main EXCEPT !.at = at, !.stage = next, !.empty = empty]
  BY DEF NextStage
<1>2. at \in {"run", "collect"}
  OBVIOUS
<1> HIDE DEF at, next, empty
<1>3. /\ main'.pending = main.pending /\ main'.flush = main.flush /\ main'.at = at
      /\ main'.stage = next
  BY <1>1 DEF Driving
<1>4. QED BY <1>2, <1>3 DEF next

(* The filter has pictures only when some came in.                         *)
LEMMA FilterHasSome ==
  ASSUME FrontInv, conf \in Configs, conf.useMctf, NEW i \in DOMAIN list[2]
  PROVE  app.passed > 0 /\ Lo < pre.nextPoc
<1>1. /\ Pocs(list[2]) = First(mctf.filterPoc) .. pre.nextPoc - 1 /\ mctf.filterPoc \in Nat
      /\ pre.nextPoc \in Int /\ app.passed \in Nat
      /\ pre.nextPoc = PicsRcvd \/ pre.nextPoc = PicsRcvd - 1
  BY DEF FrontInv, MctfInv, PreInv, AppInv
<1>2. conf.mctfRange \in Nat /\ conf.leadFrames \in Nat
  BY PipelineAssumption
<1>3. MctfLead \in Nat /\ Lo \in Int /\ Lo <= -MctfLead
  BY ConfIs
<1>4. First(mctf.filterPoc) \in Int /\ First(mctf.filterPoc) >= -MctfLead
  BY <1>1, <1>2, <1>3 DEF First
<1>5. list[2][i].poc \in Pocs(list[2])
  BY DEF Pocs
<1>6. pre.nextPoc - 1 >= -MctfLead
  BY <1>1, <1>3, <1>4, <1>5
<1>7. PicsRcvd = app.passed + Lo
  BY <1>1, <1>2 DEF PicsRcvd, Lo
<1>8. QED BY <1>1, <1>3, <1>6, <1>7

LEMMA RunStageFront ==
  ASSUME FrontInv, PipeInv, RunStage
  PROVE  FrontInv'
<1> DEFINE s == main.stage
           n == Len(shared)
           first == main.flush /\ ~seenFlush[s]
           pics == IF first THEN Marked(s, list[s]) ELSE list[s]
           runs == Len(pics) >= MinQueueSize(s) \/ (pics # <<>> /\ main.flush)
           at == Stages[s]
<1>1. /\ main.at = "run" /\ UNCHANGED <<conf, pre, mctf, app>>
      /\ list' = [list EXCEPT ![s] = pics]
      /\ IF runs THEN main' = [main EXCEPT !.at = at] ELSE NextStage(pics)
  BY DEF RunStage
<1>2. /\ s \in Stage /\ Driving(main, list) /\ conf \in Configs
      /\ list \in [Stage -> Seq(Picture(n))] /\ n \in Nat /\ list[s] \in Seq(Picture(n))
  <2>1. s \in Stage /\ Driving(main, list) /\ conf \in Configs
    BY <1>1 DEF PipeInv, Driving
  <2>2. QED BY <2>1, Lengths DEF PipeInv, Pipeline, Sharing, Typed
<1>3. /\ pics \in Seq(Picture(n)) /\ SamePocsIn(list[s], pics)
      /\ \A i \in DOMAIN list[s] : pics[i].isFlush => list[s][i].isFlush \/ main.flush
  <2>1. SamePocsIn(list[s], list[s])
    BY DEF SamePocsIn
  <2>2. SamePocsIn(list[s], Marked(s, list[s])) /\ Marked(s, list[s]) \in Seq(Picture(n))
    BY <1>2, MarkedIs DEF SamePocsIn, Like
  <2>3. CASE first
    BY <2>2, <2>3
  <2>4. CASE ~first
    BY <1>2, <2>1, <2>4
  <2>5. QED BY <2>3, <2>4
<1>4. /\ main'.pending = main.pending /\ main'.flush = main.flush
      /\ runs => main'.at = at
      /\ ~runs => main'.at \in {"run", "collect"}
  <2> HIDE DEF at, pics
  <2>1. CASE runs
    <3>1. main' = [main EXCEPT !.at = at]
      BY <1>1, <2>1
    <3>2. QED BY <1>2, <2>1, <3>1 DEF Driving
  <2>2. CASE ~runs
    <3>1. NextStage(pics)
      BY <1>1, <2>2
    <3>2. QED BY <1>2, <2>2, <3>1, NextStageGoesOn
  <2>3. QED BY <2>1, <2>2
<1> HIDE DEF pics, first
<1>5. \A u \in Stage : /\ list'[u] \in Seq(Picture(n)) /\ SamePocsIn(list[u], list'[u])
                       /\ \A i \in DOMAIN list[u] : list'[u][i].isFlush => list[u][i].isFlush \/ main.flush
  BY <1>1, <1>2, <1>3 DEF SamePocsIn
<1>6. /\ PicsRcvd' = PicsRcvd /\ MctfLead' = MctfLead /\ Lo' = Lo /\ AllIn' = AllIn /\ Ahead' = Ahead
      /\ \A p : First(p)' = First(p) /\ Prior(p)' = Prior(p)
  BY <1>1 DEF PicsRcvd, MctfLead, Lo, AllIn, Ahead, First, Prior
<1>7. AppInv'
  BY <1>1, <1>4, AppSame DEF FrontInv
<1>8. list'[s] = pics
  BY <1>1, <1>2
<1>9. PreInv'
  <2>1. 1 \in Stage /\ Stages[1] = "pre" /\ ~IsGop(1)
    BY StagesAre DEF Stage, IsGop
  <2>2. PreInv
    BY DEF FrontInv
  <2>3. /\ Ascends(list'[1]) /\ DOMAIN list'[1] = DOMAIN list[1]
        /\ list[1] # <<>> => list'[1] # <<>> /\ Last(list'[1]).poc = Last(list[1]).poc
        /\ \A i \in DOMAIN list[1] : list'[1][i].poc = list[1][i].poc
    <3>1. Ascends(list[1]) /\ list[1] \in Seq(Picture(n)) /\ list'[1] \in Seq(Picture(n))
          /\ SamePocsIn(list[1], list'[1])
      BY <1>2, <1>5, <2>1, <2>2 DEF PreInv
    <3> DEFINE q == list'[1]
               p == list[1]
    <3> HIDE DEF q, p
    <3>2. Ascends(p) /\ p \in Seq(Picture(n)) /\ q \in Seq(Picture(n)) /\ SamePocsIn(p, q)
      BY <3>1 DEF q, p
    <3> HIDE DEF n
    <3>3. Ascends(q) /\ DOMAIN q = DOMAIN p /\ (p # <<>> => q # <<>> /\ Last(q).poc = Last(p).poc)
      BY <1>2, <3>2, SamePocsAscend
    <3>4. QED BY <3>2, <3>3 DEF q, p, SamePocsIn
  <2>4. ASSUME pre.nextPoc # PicsRcvd
        PROVE  list[1] # <<>> /\ s = 1 /\ main'.at = "pre" /\ Last(list[1]).poc = pre.nextPoc
               /\ pre.nextPoc = PicsRcvd - 1
    <3>1. list[1] # <<>> /\ s = 1 /\ Last(list[1]).poc = pre.nextPoc /\ pre.nextPoc = PicsRcvd - 1
      BY <1>1, <2>2, <2>4 DEF PreInv
    <3>2. MinQueueSize(1) = 1
      BY <2>1, Zenon DEF MinQueueSize
    <3>3. Len(pics) >= 1
      <4>1. Len(pics) = Len(list[1]) /\ list[1] \in Seq(Picture(n))
        BY <1>2, <1>3, <3>1 DEF SamePocsIn
      <4>2. QED BY <3>1, <4>1
    <3>4. runs
      BY <3>1, <3>2, <3>3
    <3>5. QED BY <1>4, <2>1, <3>1, <3>4
  <2>5. QED BY <1>1, <1>6, <2>2, <2>3, <2>4 DEF PreInv, Ascends
<1>10. ASSUME conf.useMctf PROVE MctfInv'
  <2>1. MctfInv /\ 2 \in Stage
    BY <1>10, FilterIsSecond DEF FrontInv
  <2>2. Filtered'
    BY <1>1, <1>6, <2>1 DEF MctfInv, Filtered
  <2>3. /\ Ascends(list'[2]) /\ DOMAIN list'[2] = DOMAIN list[2] /\ Pocs(list'[2]) = Pocs(list[2])
    <3>1. Ascends(list[2]) /\ list[2] \in Seq(Picture(n)) /\ list'[2] \in Seq(Picture(n))
          /\ SamePocsIn(list[2], list'[2])
      BY <1>2, <1>5, <2>1 DEF MctfInv
    <3> DEFINE q == list'[2]
               p == list[2]
    <3> HIDE DEF q, p
    <3>2. Ascends(p) /\ p \in Seq(Picture(n)) /\ q \in Seq(Picture(n)) /\ SamePocsIn(p, q)
      BY <3>1 DEF q, p
    <3> HIDE DEF n
    <3>3. Ascends(q) /\ DOMAIN q = DOMAIN p /\ Pocs(q) = Pocs(p)
      BY <1>2, <3>2, SamePocsAscend
    <3>4. QED BY <3>3 DEF q, p
  <2>4. ASSUME NEW i \in DOMAIN list'[2], list'[2][i].isFlush PROVE app.passed = app.has
    <3>1. i \in DOMAIN list[2] /\ app.passed > 0 /\ app.passed \in Nat
      BY <1>2, <1>10, <2>3, FilterHasSome DEF FrontInv, AppInv
    <3>2. list[2][i].isFlush \/ main.flush
      BY <1>5, <2>1, <2>4, <3>1
    <3>3. CASE list[2][i].isFlush
      BY <2>1, <3>1, <3>3 DEF MctfInv
    <3>4. CASE main.flush
      BY <1>1, <3>1, <3>4 DEF FrontInv, AppInv
    <3>5. QED BY <3>2, <3>3, <3>4
  <2>5. ASSUME main'.at = "mctf"
        PROVE  list'[2] # <<>> /\ (main.flush \/ Len(list'[2]) >= MinQueueSize(2))
    <3>1. runs /\ at = "mctf"
      BY <1>4, <2>5
    <3>2. s = 2
      BY <1>2, <3>1, OnlyFilter
    <3>3. MinQueueSize(2) \in Nat /\ MinQueueSize(2) >= 1
      <4>1. Stages[2] = "mctf" /\ ~IsGop(2)
        BY <1>10, FilterIsSecond
      <4>2. MinQueueSize(2) = MctfLead + 1 + (IF conf.futureRef THEN conf.mctfRange ELSE 0)
        BY <4>1, Zenon DEF MinQueueSize
      <4>3. conf.mctfRange \in Nat /\ MctfLead \in Nat
        BY <1>2, ConfIs
      <4>4. QED BY <4>2, <4>3
    <3>4. pics # <<>> /\ (main.flush \/ Len(pics) >= MinQueueSize(2))
      BY <1>3, <3>1, <3>2, <3>3
    <3>5. QED BY <1>8, <3>2, <3>4
  <2>6. MinQueueSize(2)' = MinQueueSize(2)
    BY <1>1 DEF MinQueueSize, IsGop, GopStages, LastStage, Stages, MctfLead, GopSize
  <2>7. QED BY <1>1, <1>4, <1>6, <2>1, <2>2, <2>3, <2>4, <2>5, <2>6 DEF MctfInv, Ascends, Pocs
<1>11. QED BY <1>1, <1>7, <1>9, <1>10 DEF FrontInv

LEMMA HeldIs ==
  ASSUME NEW n \in Nat, NEW l, NEW s, l[s] \in Seq(Picture(n)), NEW done,
         done = Null \/ done \in DOMAIN l[s]
  PROVE  /\ Held(l, s, done) \in Seq(Picture(n)) /\ SamePocsIn(l[s], Held(l, s, done))
         /\ \A i \in DOMAIN l[s] : Held(l, s, done)[i].isFlush = l[s][i].isFlush
<1> DEFINE pics == l[s]
<1>1. pics \in Seq(Picture(n)) /\ \A i \in DOMAIN pics : pics[i] \in Picture(n)
  OBVIOUS
<1> HIDE DEF pics
<1>2. CASE done = Null
  <2>1. Held(l, s, done) = pics
    BY <1>2 DEF Held, pics
  <2>2. QED BY <1>1, <2>1 DEF SamePocsIn, pics
<1>3. CASE done # Null
  <2> DEFINE p == [pics[done] EXCEPT !.prev = NoLinks]
             q == [pics EXCEPT ![done] = p]
  <2>1. Held(l, s, done) = q /\ done \in DOMAIN pics
    <3>1. done \in DOMAIN pics
      BY <1>3 DEF pics
    <3>2. [pics EXCEPT ![done].prev = NoLinks] = q
      OBVIOUS
    <3>3. QED BY <1>3, <3>1, <3>2 DEF Held, pics
  <2>2. NoLinks \in [Slots -> 0 .. n]
    BY DEF NoLinks, Null
  <2>3. p \in Picture(n) /\ p.poc = pics[done].poc /\ p.isFlush = pics[done].isFlush
    <3>1. pics[done] \in Picture(n)
      BY <1>1, <2>1
    <3> DEFINE b == pics[done]
    <3> HIDE DEF b
    <3>2. [b EXCEPT !.prev = NoLinks] \in Picture(n) /\ [b EXCEPT !.prev = NoLinks].poc = b.poc
          /\ [b EXCEPT !.prev = NoLinks].isFlush = b.isFlush
      BY <2>2, <3>1 DEF Picture, b
    <3>3. QED BY <3>2 DEF b
  <2> HIDE DEF p
  <2>4. /\ q \in Seq(Picture(n)) /\ Len(q) = Len(pics) /\ q[done] = p
        /\ \A i \in DOMAIN pics : i # done => q[i] = pics[i]
    BY <1>1, <2>1, <2>3
  <2> HIDE DEF q
  <2>5. \A i \in DOMAIN pics : q[i].poc = pics[i].poc /\ q[i].isFlush = pics[i].isFlush
    BY <2>3, <2>4
  <2>6. QED BY <2>1, <2>4, <2>5 DEF SamePocsIn, pics
<1>4. QED BY <1>2, <1>3

(* The stage's own list after Forward.                                     *)
IsHeldLeft(q, pics, free) ==
  /\ Ascends(q) /\ Pocs(q) = {pics[a].poc : a \in DOMAIN pics \ free}
  /\ \A i \in DOMAIN q : \E a \in DOMAIN pics \ free :
       q[i].poc = pics[a].poc /\ q[i].isFlush = pics[a].isFlush

LEMMA HeldLeft ==
  ASSUME NEW n \in Nat, NEW l, NEW s, l[s] \in Seq(Picture(n)), Ascends(l[s]), NEW done,
         done = Null \/ done \in DOMAIN l[s], NEW free
  PROVE  IsHeldLeft(Without(Held(l, s, done), free), l[s], free)
<1> DEFINE h == Held(l, s, done)
           q == Without(h, free)
           pics == l[s]
<1>1. /\ h \in Seq(Picture(n)) /\ SamePocsIn(pics, h)
      /\ \A i \in DOMAIN pics : h[i].isFlush = pics[i].isFlush
  BY HeldIs
<1>2. pics \in Seq(Picture(n)) /\ Ascends(pics)
  OBVIOUS
<1> HIDE DEF h, pics
<1>3. Ascends(h) /\ DOMAIN h = DOMAIN pics
  BY <1>1, <1>2, SamePocsAscend
<1>4. /\ Ascends(q) /\ Pocs(q) = {h[a].poc : a \in DOMAIN h \ free}
      /\ \A i \in DOMAIN q : \E a \in DOMAIN h \ free : q[i] = h[a]
  BY <1>1, <1>3, AscendingLeft
<1> HIDE DEF q
<1>5. Pocs(q) = {pics[a].poc : a \in DOMAIN pics \ free}
  BY <1>1, <1>3, <1>4 DEF SamePocsIn
<1>6. \A i \in DOMAIN q : \E a \in DOMAIN pics \ free :
        q[i].poc = pics[a].poc /\ q[i].isFlush = pics[a].isFlush
  BY <1>1, <1>3, <1>4 DEF SamePocsIn
<1>7. IsHeldLeft(q, pics, free)
  BY <1>4, <1>5, <1>6 DEF IsHeldLeft
<1>8. QED BY <1>7 DEF q, h, pics

(* The loop of a stage goes round once, or ends. *)
LEMMA ProceedGoesOn ==
  ASSUME NEW l, Driving(main, l), NEW st, Proceed(st)
  PROVE  /\ list' = st.list /\ main'.pending = main.pending /\ main'.flush = main.flush
         /\ \/ main' = main /\ main.flush /\ st.list[main.stage] # <<>>
            \/ main'.at \in {"run", "collect"}
<1>1. /\ list' = st.list
      /\ IF main.flush /\ st.list[main.stage] # <<>> THEN UNCHANGED main
         ELSE NextStage(st.list[main.stage])
  BY DEF Proceed, Continue
<1>2. CASE main.flush /\ st.list[main.stage] # <<>>
  BY <1>1, <1>2
<1>3. CASE ~(main.flush /\ st.list[main.stage] # <<>>)
  BY <1>1, <1>3, NextStageGoesOn
<1>4. QED BY <1>2, <1>3

(* Where the first stage is.                                               *)
LEMMA PreIs ==
  ASSUME FrontInv, PipeInv, main.at = "pre"
  PROVE  /\ main.stage = 1 /\ 1 \in Stage /\ conf \in Configs /\ Driving(main, list)
         /\ list \in [Stage -> Seq(Picture(Len(shared)))] /\ Len(shared) \in Nat
         /\ shared \in Seq(Buffer(Len(shared)))
         /\ list[1] # <<>> /\ Len(list[1]) \in DOMAIN list[1] /\ Last(list[1]) = list[1][Len(list[1])]
         /\ Last(list[1]).poc \in Int /\ Lo <= Last(list[1]).poc /\ Last(list[1]).poc < PicsRcvd
         /\ PicsRcvd = app.passed + Lo /\ Lo \in Int /\ PicsRcvd \in Int /\ app.passed > 0
         /\ IF Last(list[1]).poc > pre.lastPoc
            THEN pre.nextPoc = PicsRcvd - 1 /\ Last(list[1]).poc = pre.nextPoc
            ELSE pre.nextPoc = PicsRcvd
<1> DEFINE n == Len(shared)
           pics == list[1]
           last == Last(pics)
<1>1. /\ main.stage = 1 /\ 1 \in Stage /\ conf \in Configs /\ Driving(main, list) /\ pics # <<>>
      /\ Sharing(shared, list) /\ app.passed \in Nat
  BY StagesAre DEF PipeInv, Driving, Pipeline, Stage
<1>2. /\ list \in [Stage -> Seq(Picture(n))] /\ n \in Nat /\ shared \in Seq(Buffer(n))
      /\ pics \in Seq(Picture(n))
  BY <1>1, Lengths DEF Sharing, Typed
<1>3. Len(pics) \in DOMAIN pics /\ last = pics[Len(pics)]
  <2> HIDE DEF pics
  <2>1. QED BY <1>1, <1>2 DEF Last
<1>4. last.poc \in Int /\ Lo <= last.poc /\ last.poc < PicsRcvd
  <2>1. pics[Len(pics)].poc \in Int
    BY <1>2, <1>3, PocsAreInts
  <2>2. QED BY <1>3, <2>1 DEF FrontInv, PreInv
<1>5. PicsRcvd = app.passed + Lo /\ Lo \in Int /\ PicsRcvd \in Int
  <2>1. conf.leadFrames \in Nat
    BY <1>1, PipelineAssumption
  <2>2. QED BY <1>1, <2>1 DEF PicsRcvd, Lo
<1>6. NoPic < Lo /\ NoPic \in Int
  BY <1>1, ConfIs DEF NoPic
<1>7. /\ pre.nextPoc \in Int /\ Lo <= pre.nextPoc
      /\ pre.lastPoc = IF pre.nextPoc = Lo THEN NoPic ELSE pre.nextPoc - 1
      /\ pre.nextPoc = PicsRcvd \/ (pre.nextPoc = PicsRcvd - 1 /\ last.poc = pre.nextPoc)
  BY DEF FrontInv, PreInv, Prior
<1> HIDE DEF pics, last
<1>8. IF last.poc > pre.lastPoc
      THEN pre.nextPoc = PicsRcvd - 1 /\ last.poc = pre.nextPoc
      ELSE pre.nextPoc = PicsRcvd
  BY <1>4, <1>5, <1>6, <1>7
<1>9. app.passed > 0
  BY <1>1, <1>4, <1>5
<1>10. QED BY <1>1, <1>2, <1>3, <1>4, <1>5, <1>8, <1>9 DEF pics, last, n

(* A picture of stage 1 that comes to the filter is the latest there.      *)
LEMMA FilterTakes ==
  ASSUME FrontInv, PipeInv, main.at = "pre", Last(list[1]).poc > pre.lastPoc, conf.useMctf,
         NEW m,
         IF Takes(2, pre.nextPoc)
         THEN \E pic : /\ pic.poc = pre.nextPoc /\ pic.isFlush = main.flush
                       /\ m = Insert(2, list[2], pic).pics
         ELSE m = list[2]
  PROVE  /\ Ascends(m) /\ Pocs(m) = First(mctf.filterPoc) .. pre.nextPoc
         /\ \A i \in DOMAIN m : m[i].isFlush => app.passed = app.has
         /\ ~AllIn
<1> DEFINE n == Len(shared)
           poc == pre.nextPoc
           first == First(mctf.filterPoc)
           pics == list[2]
<1>1. /\ 2 \in Stage /\ Stages[2] = "mctf" /\ ~IsGop(2)
  BY FilterIsSecond
<1>2. /\ conf \in Configs /\ n \in Nat /\ pics \in Seq(Picture(n))
      /\ poc \in Int /\ poc = PicsRcvd - 1 /\ PicsRcvd = app.passed + Lo /\ Lo \in Int
      /\ app.passed > 0 /\ app.passed \in Nat /\ app.has \in Nat /\ app.passed <= app.has
      /\ main.flush => app.passed = app.has
  <2>1. poc \in Int /\ app.passed \in Nat /\ app.has \in Nat /\ app.passed <= app.has
        /\ (main.flush => app.passed \in {0, app.has})
    BY DEF FrontInv, PreInv, AppInv
  <2> HIDE DEF poc
  <2>2. QED BY <1>1, <2>1, PreIs DEF poc
<1>3. /\ mctf.filterPoc \in Nat /\ mctf.lastIn \in Int /\ Filtered
      /\ Ascends(pics) /\ Pocs(pics) = first .. poc - 1
      /\ \A i \in DOMAIN pics : pics[i].isFlush => app.passed = app.has
  BY DEF FrontInv, MctfInv
<1>4. /\ conf.mctfRange \in Nat /\ MctfLead \in Nat /\ MctfLead <= conf.mctfRange /\ Ahead \in Nat
      /\ conf.leadFrames \in Nat
  <2>1. conf.leadFrames \in Nat
    BY <1>2, PipelineAssumption
  <2>2. QED BY <1>2, <2>1, ConfIs
<1>5. ~AllIn
  <2>1. app.has - conf.leadFrames = app.has + Lo
    BY <1>2, <1>4 DEF Lo
  <2>2. QED BY <1>2, <2>1 DEF AllIn
<1>6. first \in Int /\ first >= -MctfLead
  BY <1>3, <1>4 DEF First
<1>7. Takes(2, poc) <=> poc >= -MctfLead
  <2>1. StartPoc(2) = -MctfLead
    BY <1>1, Zenon DEF StartPoc
  <2> HIDE DEF poc
  <2>2. QED BY <1>1, <2>1 DEF Takes
<1>8. Takes(2, poc) => first <= poc
  <2> SUFFICES ASSUME poc >= -MctfLead PROVE first <= poc
    BY <1>7
  <2>1. CASE mctf.filterPoc = 0
    BY <1>2, <1>4, <2>1 DEF First
  <2>2. CASE mctf.filterPoc - 1 + Ahead <= mctf.lastIn /\ mctf.lastIn < pre.nextPoc
    <3>1. mctf.filterPoc \in Nat /\ mctf.lastIn \in Int /\ Ahead \in Nat /\ pre.nextPoc \in Int
      BY <1>2, <1>3, <1>4
    <3>2. mctf.filterPoc <= poc
      BY <2>2, <3>1
    <3>3. conf.mctfRange \in Nat /\ MctfLead \in Nat
      BY <1>4
    <3>4. QED BY <3>1, <3>2, <3>3 DEF First
  <2>3. QED BY <1>3, <1>5, <2>1, <2>2 DEF Filtered
<1>9. \A i \in DOMAIN pics : pics[i].poc < poc
  <2>1. \A i \in DOMAIN pics : pics[i].poc \in first .. poc - 1
    BY <1>3 DEF Pocs
  <2>2. QED BY <1>2, <1>6, <2>1
<1> HIDE DEF first
<1>10. CASE Takes(2, poc)
  <2>1. PICK pic : pic.poc = poc /\ pic.isFlush = main.flush /\ m = Insert(2, pics, pic).pics
    BY <1>10
  <2> HIDE DEF poc, pics, n
  <2>2. IsLatest(pics, pic)
    BY <1>2, <1>9, <2>1 DEF IsLatest
  <2>3. m = Append(pics, pic)
    BY <1>1, <1>2, <2>1, <2>2, InsertAtEnd DEF IsLatest
  <2>4. IsWithLatest(m, pics, pic)
    BY <1>2, <1>3, <2>2, <2>3, AppendAscends
  <2>5. Pocs(m) = (first .. poc - 1) \union {poc}
    BY <1>3, <2>1, <2>4 DEF IsWithLatest
  <2>6. Pocs(m) = first .. poc
    BY <1>2, <1>6, <1>8, <1>10, <2>5
  <2>7. \A i \in DOMAIN m : m[i].isFlush => app.passed = app.has
    BY <1>2, <1>3, <2>1, <2>4 DEF IsWithLatest
  <2>8. QED BY <1>5, <2>4, <2>6, <2>7 DEF IsWithLatest, first, poc
<1>11. CASE ~Takes(2, poc)
  <2>1. m = pics
    BY <1>11
  <2>2. poc < -MctfLead
    BY <1>2, <1>4, <1>7, <1>11
  <2>3. first .. poc - 1 = first .. poc
    BY <1>2, <1>4, <1>6, <2>2, SMTT(30)
  <2>4. QED BY <1>3, <1>5, <2>1, <2>3 DEF first
<1>12. QED BY <1>10, <1>11

(* The picture in buffer id gets its GOP entry. *)
IsEntered(e, sh, id, links, intra, start) ==
  e = [sh EXCEPT ![id].isValid = TRUE, ![id].prev = links,
                 ![id].isStartOfIntra = intra, ![id].isStartOfGop = start]

LEMMA EntryKeepsPoc ==
  ASSUME NEW n \in Nat, NEW sh \in Seq(Buffer(n)), NEW id \in DOMAIN sh,
         NEW b, NEW c, NEW d, NEW e, IsEntered(e, sh, id, b, c, d)
  PROVE  id \in DOMAIN e /\ e[id].poc = sh[id].poc /\ "poc" \in DOMAIN e[id]
<1> DEFINE a == TRUE
<1> DEFINE x == [sh[id] EXCEPT !.isValid = a, !.prev = b, !.isStartOfIntra = c, !.isStartOfGop = d]
<1>1. e = [sh EXCEPT ![id] = x]
  BY DEF IsEntered
<1>2. sh[id] \in Buffer(n)
  OBVIOUS
<1>3. x.poc = sh[id].poc /\ "poc" \in DOMAIN x
  <2> DEFINE y == sh[id]
  <2>1. y \in Buffer(n)
    BY <1>2
  <2> HIDE DEF y
  <2>2. "poc" \in DOMAIN y
    BY <2>1 DEF Buffer
  <2> DEFINE z == [y EXCEPT !.isValid = a, !.prev = b, !.isStartOfIntra = c, !.isStartOfGop = d]
  <2>3. z.poc = y.poc /\ "poc" \in DOMAIN z
    BY <2>2
  <2>4. QED BY <2>3 DEF y, z
<1> HIDE DEF x
<1>4. QED BY <1>1, <1>3

LEMMA PreProcessFront ==
  ASSUME FrontInv, PipeInv, main.at = "pre", UNCHANGED <<conf, mctf, app>>,
         PreProcessNext(main.stage), Last(list[main.stage]).poc > pre.lastPoc
  PROVE  FrontInv'
<1> DEFINE n == Len(shared)
           s == main.stage
           k == Len(list[s])
           pic == Last(list[s])
           id == pic.id
           poc == pic.poc
           intra == Entry(poc).isStartOfIntra
           start == Entry(poc).isStartOfGop
           links == IF conf.visAct /\ ~IsLeadTrail(poc) THEN PrevLinks(list[s], pic)
                    ELSE shared[id].prev
           e == [shared EXCEPT ![id].isValid = TRUE, ![id].prev = links,
                               ![id].isStartOfIntra = intra, ![id].isStartOfGop = start]
           what == Check(pre.nextPoc # poc, "gop entry of another picture")
           f == failed \union what
           free == UnusedPics(list[s])
           flush == main.flush
           st == [shared |-> e, list |-> list, failed |-> f, picCount |-> Counts(gop)]
           r == Forward(st, k, free, s, flush)
<1>1. /\ s = 1 /\ 1 \in Stage /\ conf \in Configs /\ Driving(main, list)
      /\ list \in [Stage -> Seq(Picture(n))] /\ n \in Nat /\ shared \in Seq(Buffer(n))
      /\ k \in DOMAIN list[1] /\ pic = list[1][k] /\ Lo \in Int /\ PicsRcvd \in Int
      /\ pre.nextPoc = PicsRcvd - 1 /\ poc = pre.nextPoc /\ Lo <= poc
  <2>1. s = 1
    BY PreIs
  <2>2. Last(list[1]).poc > pre.lastPoc
    BY <2>1
  <2>3. QED BY <2>1, <2>2, PreIs
<1>2. Proceed(r) /\ pre' = [lastPoc |-> poc, nextPoc |-> pre.nextPoc + 1]
  <2>1. /\ Proceed(Forward([Pipe EXCEPT !.shared = e, !.failed = @ \union what], k, free, s, flush))
        /\ pre' = [lastPoc |-> poc, nextPoc |-> pre.nextPoc + 1]
    BY DEF PreProcessNext
  <2>2. [Pipe EXCEPT !.shared = e, !.failed = @ \union what] = st
    <3> HIDE DEF e, what
    <3>1. [Pipe EXCEPT !.shared = e, !.failed = @ \union what] = [Pipe EXCEPT !.shared = e, !.failed = f]
      BY DEF Pipe
    <3> HIDE DEF f
    <3>2. [Pipe EXCEPT !.shared = e, !.failed = f] = st
      BY PipeWith
    <3>3. QED BY <3>1, <3>2
  <2> HIDE DEF e, what, free, f, k, st, poc, flush
  <2>3. QED BY <2>1, <2>2
<1>3. id \in DOMAIN e /\ e[id].poc = poc /\ "poc" \in DOMAIN e[id]
  <2>1. id \in DOMAIN shared /\ shared[id].poc = poc
    <3>1. Fits(shared, list[1][k]) /\ list[1][k] \in Picture(n)
      BY <1>1 DEF PipeInv, Pipeline, Sharing, AllFit
    <3> HIDE DEF pic, k
    <3>2. list[1][k].id \in 1 .. n /\ shared[list[1][k].id].poc = list[1][k].poc
      BY <3>1 DEF Fits, Picture
    <3>3. QED BY <1>1, <3>2
  <2> HIDE DEF id, poc, links, intra, start, n
  <2>2. /\ IsEntered(e, shared, id, links, intra, start)
        /\ n \in Nat /\ shared \in Seq(Buffer(n)) /\ id \in DOMAIN shared
    BY <1>1, <2>1 DEF IsEntered
  <2> HIDE DEF e
  <2>3. id \in DOMAIN e /\ e[id].poc = shared[id].poc /\ "poc" \in DOMAIN e[id]
    BY <2>2, EntryKeepsPoc
  <2>4. QED BY <2>1, <2>3
<1>4. /\ r.list[1] = Without(Held(list, 1, k), free)
      /\ 2 \in Stage => IF Takes(2, poc)
                        THEN \E p : /\ p.poc = poc /\ p.isFlush = flush
                                    /\ r.list[2] = Insert(2, list[2], p).pics
                        ELSE r.list[2] = list[2]
  <2>1. k # Null /\ list[1][k].id = id
    <3> HIDE DEF k, pic
    <3>1. list[1] \in Seq(Picture(n))
      BY <1>1
    <3>2. k \in Nat /\ k > 0
      BY <1>1, <3>1
    <3>3. QED BY <1>1, <3>2 DEF Null
  <2> HIDE DEF e, k, id, poc, f, free, flush, r, s
  <2>2. DOMAIN list = Stage
    BY <1>1
  <2>3. r = Forward([shared |-> e, list |-> list, failed |-> f, picCount |-> Counts(gop)], k, free, 1, flush)
    BY <1>1 DEF r
  <2> DEFINE c == Counts(gop)
             l == list
  <2> HIDE DEF c, l
  <2>4. r = Forward([shared |-> e, list |-> l, failed |-> f, picCount |-> c], k, free, 1, flush)
        /\ DOMAIN l = Stage /\ 1 \in Stage /\ k # Null /\ l[1][k].id = id
    BY <1>1, <2>1, <2>2, <2>3 DEF c, l
  <2>5. /\ r.list[1] = Without(Held(l, 1, k), free)
        /\ id \in DOMAIN e /\ "poc" \in DOMAIN e[id] /\ 1 + 1 \in Stage =>
             IF Takes(1 + 1, e[id].poc)
             THEN \E p : /\ p.poc = e[id].poc /\ p.isFlush = flush
                         /\ r.list[1 + 1] = Insert(1 + 1, l[1 + 1], p).pics
             ELSE r.list[1 + 1] = l[1 + 1]
    BY <2>4, ForwardHandsOn
  <2>6. 1 + 1 = 2
    OBVIOUS
  <2>7. QED BY <1>3, <2>5, <2>6 DEF l
<1> HIDE DEF r, e, free, f
<1>5. /\ list' = r.list /\ main'.pending = main.pending /\ main'.flush = main.flush
      /\ main' = main \/ main'.at \in {"run", "collect"}
  BY <1>1, <1>2, ProceedGoesOn
<1>6. IsHeldLeft(list'[1], list[1], free)
  <2>1. k # Null \/ k \in DOMAIN list[1]
    BY <1>1
  <2>2. Ascends(list[1]) /\ list[1] \in Seq(Picture(n))
    BY <1>1 DEF FrontInv, PreInv
  <2> HIDE DEF k, n
  <2>3. IsHeldLeft(Without(Held(list, 1, k), free), list[1], free)
    BY <1>1, <2>2, HeldLeft
  <2>4. QED BY <1>4, <1>5, <2>3
<1> HIDE DEF pic
<1>7. pre'.nextPoc = PicsRcvd /\ pre'.lastPoc = poc
  BY <1>1, <1>2
<1> HIDE DEF poc
<1>8. /\ PicsRcvd' = PicsRcvd /\ MctfLead' = MctfLead /\ Lo' = Lo /\ Ahead' = Ahead
      /\ \A p : First(p)' = First(p) /\ Prior(p)' = Prior(p)
  BY DEF PicsRcvd, MctfLead, Lo, Ahead, First, Prior
<1>9. AppInv'
  BY <1>5, AppSame DEF FrontInv
<1>10. PreInv'
  <2>1. InFront(list[1])
    BY DEF FrontInv, PreInv, InFront
  <2>2. InFront(list'[1])
    BY <1>6, <2>1 DEF IsHeldLeft, InFront
  <2>3. Prior(pre'.nextPoc) = poc
    BY <1>1, <1>7 DEF Prior
  <2>4. QED BY <1>1, <1>7, <1>8, <2>2, <2>3 DEF PreInv, InFront, Ascends
<1>11. ASSUME conf.useMctf PROVE MctfInv'
  <2>1. 2 \in Stage /\ MctfInv
    BY <1>11, FilterIsSecond DEF FrontInv
  <2> DEFINE m == list'[2]
  <2>2. /\ Ascends(m) /\ Pocs(m) = First(mctf.filterPoc) .. pre.nextPoc
        /\ \A i \in DOMAIN m : m[i].isFlush => app.passed = app.has
        /\ ~AllIn
    <3>1. IF Takes(2, pre.nextPoc)
          THEN \E p : /\ p.poc = pre.nextPoc /\ p.isFlush = main.flush
                      /\ m = Insert(2, list[2], p).pics
          ELSE m = list[2]
      BY <1>1, <1>4, <1>5, <2>1
    <3>2. Last(list[1]).poc > pre.lastPoc
      BY <1>1
    <3> HIDE DEF m
    <3>3. QED BY <1>11, <3>1, <3>2, FilterTakes
  <2>3. pre'.nextPoc - 1 = pre.nextPoc
    BY <1>1, <1>7
  <2>4. Filtered'
    BY <1>1, <1>7, <1>8, <2>1, <2>2 DEF Filtered, MctfInv
  <2>5. main'.at # "mctf"
    BY <1>5
  <2>6. mctf'.filterPoc = mctf.filterPoc /\ mctf'.lastIn = mctf.lastIn /\ app' = app
    OBVIOUS
  <2>7. First(mctf.filterPoc)' = First(mctf.filterPoc)
    BY DEF First, MctfLead
  <2>8. QED BY <2>1, <2>2, <2>3, <2>4, <2>5, <2>6, <2>7 DEF MctfInv, Ascends, Pocs
<1>12. QED BY <1>9, <1>10, <1>11 DEF FrontInv

LEMMA PreEndsFront ==
  ASSUME FrontInv, PipeInv, main.at = "pre", UNCHANGED <<conf, pre, mctf, app>>,
         ~(Last(list[main.stage]).poc > pre.lastPoc),
         Proceed(Forward([Pipe EXCEPT !.shared = FixStartOfLastGop(list[main.stage])],
                         Null, DOMAIN list[main.stage], main.stage, main.flush))
  PROVE  FrontInv'
<1> DEFINE s == main.stage
           n == Len(shared)
           e == FixStartOfLastGop(list[s])
           free == DOMAIN list[s]
           flush == main.flush
           none == Null
           f == failed
           c == Counts(gop)
           st == [shared |-> e, list |-> list, failed |-> f, picCount |-> c]
           r == Forward(st, none, free, s, flush)
<1>1. /\ s = 1 /\ 1 \in Stage /\ conf \in Configs /\ Driving(main, list) /\ n \in Nat
      /\ list \in [Stage -> Seq(Picture(n))] /\ pre.nextPoc = PicsRcvd
  <2>1. s = 1
    BY PreIs
  <2>2. ~(Last(list[1]).poc > pre.lastPoc)
    BY <2>1
  <2>3. QED BY <2>1, <2>2, PreIs
<1>2. Proceed(r)
  <2>1. [Pipe EXCEPT !.shared = e] = st
    BY PipeWith
  <2>2. QED BY <2>1
<1>3. /\ r.list[1] = Without(Held(list, 1, none), free)
      /\ \A u \in Stage : u # 1 => r.list[u] = list[u]
  <2>1. none = Null /\ DOMAIN list = Stage
    BY <1>1
  <2>2. r = Forward(st, none, free, 1, flush)
    BY <1>1
  <2> DEFINE l == list
  <2> HIDE DEF e, f, c, free, flush, none, r, l, s
  <2>3. r = Forward([shared |-> e, list |-> l, failed |-> f, picCount |-> c], none, free, 1, flush)
        /\ DOMAIN l = Stage /\ 1 \in Stage /\ none = Null
    BY <1>1, <2>1, <2>2 DEF l
  <2>4. /\ r.list[1] = Without(Held(l, 1, none), free)
        /\ \A u \in Stage : u # 1 => r.list[u] = l[u]
    BY <2>3, ForwardHandsOn
  <2>5. QED BY <2>4 DEF l
<1> HIDE DEF r, free
<1>4. /\ list' = r.list /\ main'.pending = main.pending /\ main'.flush = main.flush
      /\ main' = main \/ main'.at \in {"run", "collect"}
  BY <1>1, <1>2, ProceedGoesOn
<1>5. InFront(list'[1])
  <2>1. InFront(list[1]) /\ list[1] \in Seq(Picture(n)) /\ Ascends(list[1])
    BY <1>1 DEF FrontInv, PreInv, InFront
  <2> HIDE DEF n
  <2>2. IsHeldLeft(Without(Held(list, 1, none), free), list[1], free)
    BY <1>1, <2>1, HeldLeft
  <2>3. IsHeldLeft(list'[1], list[1], free)
    BY <1>3, <1>4, <2>2
  <2>4. QED BY <2>1, <2>3 DEF IsHeldLeft, InFront
<1>6. conf.useMctf => list'[2] = list[2]
  BY <1>3, <1>4, FilterIsSecond
<1>7. AppInv'
  BY <1>4, AppSame DEF FrontInv
<1>8. QED BY <1>1, <1>4, <1>5, <1>6, <1>7, FrontFewer

LEMMA ProcessPreFront ==
  ASSUME FrontInv, PipeInv, ProcessPre
  PROVE  FrontInv'
<1>1. main.at = "pre" /\ UNCHANGED <<conf, mctf, app>>
  BY DEF ProcessPre
<1> DEFINE s == main.stage
           newer == Last(list[s]).poc > pre.lastPoc
           rests == PreIdle
           ends == Proceed(Forward([Pipe EXCEPT !.shared = FixStartOfLastGop(list[s])],
                                   Null, DOMAIN list[s], s, main.flush)) /\ UNCHANGED pre
           next == PreProcessNext(s)
           idle == Proceed(Pipe) /\ UNCHANGED pre
<1>2. (CASE newer -> next [] rests -> idle [] OTHER -> ends)
  BY DEF ProcessPre
<1>3. (newer /\ next) \/ (rests /\ idle) \/ (~newer /\ ends)
  <2> HIDE DEF newer, ends, next, idle, rests
  <2>1. QED BY <1>2, Zenon
<1> HIDE DEF newer, ends, next, idle, rests
<1>4. CASE newer /\ next
  BY <1>1, <1>4, PreProcessFront DEF newer, next
<1>5. CASE rests /\ idle
  <2>1. Proceed(Pipe) /\ UNCHANGED pre
    BY <1>5 DEF idle
  <2>2. main.stage = 1 /\ conf \in Configs /\ Driving(main, list)
    BY <1>1, PreIs
  <2>3. pre.nextPoc = PicsRcvd
    <3>1. Last(list[main.stage]).poc <= pre.lastPoc
      BY <1>5 DEF rests, PreIdle
    <3>2. Last(list[1]).poc <= pre.lastPoc /\ pre.lastPoc \in Int
      BY <2>2, <3>1 DEF PipeInv
    <3>3. Last(list[1]).poc \in Int
      BY <1>1, PreIs
    <3>4. ~(Last(list[1]).poc > pre.lastPoc)
      BY <3>2, <3>3
    <3>5. QED BY <1>1, <3>4, PreIs
  <2>4. Pipe.list = list
    BY DEF Pipe
  <2> DEFINE st == Pipe
  <2> HIDE DEF st
  <2>5. Proceed(st) /\ st.list = list
    BY <2>1, <2>4 DEF st
  <2>6. /\ list' = st.list /\ main'.pending = main.pending /\ main'.flush = main.flush
        /\ main' = main \/ main'.at \in {"run", "collect"}
    BY <2>2, <2>5, ProceedGoesOn
  <2>7. list' = list
    BY <2>5, <2>6
  <2>8. AppInv'
    BY <1>1, <2>6, AppSame DEF FrontInv
  <2>9. QED BY <1>1, <2>1, <2>2, <2>3, <2>6, <2>7, <2>8, FrontSame
<1>6. CASE ~newer /\ ends
  BY <1>1, <1>6, PreEndsFront DEF ends, newer
<1>7. QED BY <1>3, <1>4, <1>5, <1>6

-----------------------------------------------------------------------------
(* The filter.                                                             *)

(* A list without gaps has as many pictures as it goes from a to b.        *)
LEMMA GapFree ==
  ASSUME NEW n \in Nat, NEW pics \in Seq(Picture(n)), Ascends(pics), pics # <<>>,
         NEW a \in Int, NEW b \in Int, Pocs(pics) = a .. b
  PROVE  Last(pics).poc = b /\ Len(pics) = b - a + 1 /\ a <= b
<1> DEFINE k == Len(pics)
           f == [i \in 1 .. k |-> pics[i].poc]
<1>1. k \in Nat /\ k # 0 /\ DOMAIN pics = 1 .. k /\ Last(pics) = pics[k]
  BY DEF Last
<1>2. \A i \in DOMAIN pics : pics[i].poc \in a .. b
  BY DEF Pocs
<1>3. k \in DOMAIN pics
  BY <1>1
<1>4. a <= b
  BY <1>2, <1>3
<1>5. PICK i \in DOMAIN pics : pics[i].poc = b
  BY <1>4 DEF Pocs
<1>6. Last(pics).poc = b
  <2>1. CASE i = k
    BY <1>1, <1>5, <2>1
  <2>2. CASE i # k
    <3>1. i < k
      BY <1>1, <2>2
    <3>2. pics[i].poc < pics[k].poc
      BY <1>3, <3>1 DEF Ascends
    <3>3. QED BY <1>2, <1>3, <1>5, <3>2
  <2>3. QED BY <2>1, <2>2
<1>7. Len(pics) = b - a + 1
  <2>1. f \in [1 .. k -> a .. b]
    BY <1>1, <1>2
  <2>2. \A x, y \in 1 .. k : f[x] = f[y] => x = y
    <3> SUFFICES ASSUME NEW x \in 1 .. k, NEW y \in 1 .. k, x # y PROVE f[x] # f[y]
      OBVIOUS
    <3>1. f[x] = pics[x].poc /\ f[y] = pics[y].poc /\ (x < y \/ y < x)
      BY <1>1
    <3>2. f[x] \in Int /\ f[y] \in Int
      BY <2>1
    <3>3. QED BY <1>1, <3>1, <3>2 DEF Ascends
  <2>3. \A z \in a .. b : \E x \in 1 .. k : f[x] = z
    BY <1>1 DEF Pocs
  <2>4. IsFiniteSet(a .. b) /\ Cardinality(a .. b) = b - a + 1
    BY <1>4, FS_Interval
  <2>5. Cardinality(1 .. k) = k
    <3>1. k \in Nat /\ k >= 1
      BY <1>1
    <3> HIDE DEF k
    <3>2. 1 \in Int /\ k \in Int
      BY <3>1
    <3>3. Cardinality(1 .. k) = IF 1 > k THEN 0 ELSE k - 1 + 1
      BY <3>2, FS_Interval
    <3>4. QED BY <3>1, <3>3
  <2> DEFINE T == a .. b
             S == 1 .. k
  <2> HIDE DEF f, T, S, k
  <2>6. IsFiniteSet(T) /\ f \in [S -> T] /\ (\A x, y \in S : f[x] = f[y] => x = y)
        /\ (\A z \in T : \E x \in S : f[x] = z)
    BY <2>1, <2>2, <2>3, <2>4 DEF T, S
  <2>7. Cardinality(S) = Cardinality(T)
    BY <2>6, SameSize
  <2>8. QED BY <2>4, <2>5, <2>7 DEF S, T, k
<1>8. QED BY <1>4, <1>6, <1>7

(* Where the filter is. *)
LEMMA MctfIs ==
  ASSUME FrontInv, PipeInv, main.at = "mctf"
  PROVE  /\ main.stage = 2 /\ 2 \in Stage /\ conf.useMctf /\ MctfInv /\ conf \in Configs
         /\ Driving(main, list) /\ Len(shared) \in Nat
         /\ list \in [Stage -> Seq(Picture(Len(shared)))]
         /\ pre.nextPoc = PicsRcvd /\ pre.nextPoc \in Int /\ list[2] # <<>>
         /\ mctf.filterPoc \in Nat /\ mctf.lastIn \in Int
         /\ conf.mctfRange \in Nat /\ MctfLead \in Nat /\ MctfLead <= conf.mctfRange /\ Ahead \in Nat
         /\ First(mctf.filterPoc) \in Int
         /\ Last(list[2]).poc = pre.nextPoc - 1
         /\ Len(list[2]) = pre.nextPoc - First(mctf.filterPoc)
         /\ main.flush => AllIn
<1> DEFINE n == Len(shared)
           next == mctf.filterPoc
<1>1. /\ main.stage \in Stage /\ Stages[main.stage] = "mctf" /\ conf \in Configs
      /\ Driving(main, list) /\ Sharing(shared, list)
  BY DEF PipeInv, Driving, Pipeline
<1>2. main.stage = 2 /\ 2 \in Stage /\ conf.useMctf /\ MctfInv
  BY <1>1, OnlyFilter DEF FrontInv
<1>3. list \in [Stage -> Seq(Picture(n))] /\ n \in Nat
  BY <1>1, Lengths DEF Sharing, Typed
<1>4. pre.nextPoc = PicsRcvd /\ pre.nextPoc \in Int
  BY AtRest DEF FrontInv, PreInv
<1>5. /\ next \in Nat /\ mctf.lastIn \in Int /\ list[2] # <<>> /\ Ascends(list[2])
      /\ Pocs(list[2]) = First(next) .. pre.nextPoc - 1
  BY <1>2 DEF MctfInv
<1>6. conf.mctfRange \in Nat /\ MctfLead \in Nat /\ MctfLead <= conf.mctfRange /\ Ahead \in Nat
  BY <1>1, ConfIs
<1>7. First(next) \in Int
  BY <1>5, <1>6 DEF First
<1>8. Last(list[2]).poc = pre.nextPoc - 1 /\ Len(list[2]) = pre.nextPoc - First(next)
  <2> DEFINE a == First(next)
             b == pre.nextPoc - 1
             pics == list[2]
  <2>1. /\ n \in Nat /\ pics \in Seq(Picture(n)) /\ Ascends(pics) /\ pics # <<>>
        /\ a \in Int /\ b \in Int /\ Pocs(pics) = a .. b
    BY <1>2, <1>3, <1>4, <1>5, <1>7
  <2> HIDE DEF a, b, pics, n
  <2>2. Last(pics).poc = b /\ Len(pics) = b - a + 1
    BY <2>1, GapFree
  <2>3. QED BY <1>4, <1>7, <2>2 DEF a, b, pics
<1>9. main.flush => AllIn
  <2> SUFFICES ASSUME main.flush PROVE AllIn
    OBVIOUS
  <2>1. 1 \in DOMAIN list[2]
    <3>1. list[2] \in Seq(Picture(n)) /\ list[2] # <<>>
      BY <1>2, <1>3, <1>5
    <3> DEFINE pics == list[2]
    <3> HIDE DEF pics
    <3>2. pics \in Seq(Picture(n)) /\ pics # <<>> => 1 \in DOMAIN pics
      OBVIOUS
    <3>3. QED BY <3>1, <3>2 DEF pics
  <2>2. app.passed > 0
    BY <1>1, <1>2, <2>1, FilterHasSome
  <2>3. app.passed = app.has
    BY <2>2 DEF FrontInv, AppInv
  <2>4. QED BY <1>4, <2>3 DEF AllIn, PicsRcvd
<1>10. QED BY <1>1, <1>2, <1>3, <1>4, <1>5, <1>6, <1>7, <1>8, <1>9

(* The filter works on a picture only when those after it are there.       *)
LEMMA MctfReady ==
  ASSUME FrontInv, PipeInv, main.at = "mctf", ~MctfIdle
  PROVE  mctf.filterPoc + Ahead <= pre.nextPoc - 1 \/ AllIn
<1> DEFINE next == mctf.filterPoc
           back == Last(list[2])
           hi == pre.nextPoc
           first == First(next)
<1>1. /\ main.stage = 2 /\ 2 \in Stage /\ MctfInv /\ conf \in Configs
      /\ list \in [Stage -> Seq(Picture(Len(shared)))]
      /\ next \in Nat /\ mctf.lastIn \in Int /\ hi \in Int /\ MctfLead \in Nat /\ Ahead \in Nat
      /\ conf.mctfRange \in Nat /\ MctfLead <= conf.mctfRange
      /\ back.poc = hi - 1 /\ Len(list[2]) = hi - first
      /\ list[2] # <<>> /\ (main.flush => AllIn)
  BY MctfIs
<1>2. CASE mctf.lastIn = NoPic /\ next = 0
  <2>1. CASE main.flush
    BY <1>1, <2>1
  <2>2. CASE ~main.flush
    <3>1. Len(list[2]) >= MinQueueSize(2)
      BY <1>1, <2>2 DEF MctfInv
    <3>2. MinQueueSize(2) = MctfLead + 1 + Ahead
      <4>1. Stages[2] = "mctf" /\ ~IsGop(2)
        BY MctfIs, FilterIsSecond
      <4>2. MinQueueSize(2) = MctfLead + 1 + (IF conf.futureRef THEN conf.mctfRange ELSE 0)
        BY <4>1, Zenon DEF MinQueueSize
      <4>3. QED BY <4>2 DEF Ahead
    <3>3. first = -MctfLead
      BY <1>1, <1>2 DEF First
    <3> HIDE DEF first, hi, next
    <3>4. QED BY <1>1, <1>2, <3>1, <3>2, <3>3 DEF hi, next
  <2>3. QED BY <2>1, <2>2
<1>3. CASE next - 1 + Ahead <= mctf.lastIn /\ mctf.lastIn < hi
  <2>1. mctf.lastIn # hi - 1 \/ back.isFlush
    BY <1>1 DEF MctfIdle
  <2>2. CASE mctf.lastIn # hi - 1
    <3>1. next \in Nat /\ mctf.lastIn \in Int /\ hi \in Int /\ Ahead \in Nat
      BY <1>1
    <3>2. next + Ahead <= hi - 1
      BY <1>3, <2>2, <3>1
    <3>3. QED BY <3>2
  <2>3. CASE back.isFlush
    <3>1. \E i \in DOMAIN list[2] : back = list[2][i]
      <4> DEFINE pics == list[2]
      <4>1. pics \in Seq(Picture(Len(shared))) /\ pics # <<>>
        BY <1>1
      <4> HIDE DEF pics
      <4>2. Len(pics) \in DOMAIN pics /\ Last(pics) = pics[Len(pics)]
        BY <4>1 DEF Last
      <4>3. QED BY <4>2 DEF pics
    <3>2. app.passed = app.has
      BY <1>1, <2>3, <3>1 DEF MctfInv
    <3>3. hi = PicsRcvd
      BY MctfIs
    <3>4. QED BY <3>2, <3>3 DEF AllIn, PicsRcvd
  <2>4. QED BY <2>1, <2>2, <2>3
<1>4. QED BY <1>1, <1>2, <1>3 DEF MctfInv, Filtered

LEMMA Unmoved ==
  ASSUME FrontInv, UNCHANGED <<conf, pre, mctf, list, main>>,
         app'.passed = app.passed, app'.has = app.has
  PROVE  FrontInv'
<1>1. /\ PicsRcvd' = PicsRcvd /\ MctfLead' = MctfLead /\ Lo' = Lo /\ AllIn' = AllIn /\ Ahead' = Ahead
      /\ \A p : First(p)' = First(p) /\ Prior(p)' = Prior(p)
  BY DEF PicsRcvd, MctfLead, Lo, AllIn, Ahead, First, Prior
<1>2. PreInv' /\ AppInv'
  BY <1>1 DEF FrontInv, PreInv, AppInv, Ascends
<1>3. ASSUME conf.useMctf PROVE MctfInv'
  <2>1. MctfInv
    BY <1>3 DEF FrontInv
  <2>2. Filtered'
    BY <1>1, <2>1 DEF MctfInv, Filtered
  <2>3. MinQueueSize(2)' = MinQueueSize(2)
    BY DEF MinQueueSize, IsGop, GopStages, LastStage, Stages, MctfLead, GopSize
  <2>4. QED BY <1>1, <2>1, <2>2, <2>3 DEF MctfInv, Ascends, Pocs
<1>4. QED BY <1>2, <1>3 DEF FrontInv

LEMMA MctfNextFront ==
  ASSUME FrontInv, PipeInv, main.at = "mctf", UNCHANGED <<conf, pre, app>>,
         ~MctfIdle, MctfNext(main.stage)
  PROVE  FrontInv'
<1> DEFINE s == main.stage
           n == Len(shared)
           pics == list[s]
           poc == mctf.filterPoc
           due == /\ poc <= Last(pics).poc
                  /\ conf.framesToEncode = 0 \/ poc < conf.framesToEncode
           at == {i \in DOMAIN pics : pics[i].poc = poc}
           done == IF due /\ at # {} THEN CHOOSE i \in at : TRUE ELSE Null
           old == {i \in DOMAIN pics : pics[i].poc <= poc - conf.mctfRange}
           f == failed \union Check(due /\ at = {}, "picture filter error")
           flush == main.flush
           c == Counts(gop)
           st == [shared |-> shared, list |-> list, failed |-> f, picCount |-> c]
           r == Forward(st, done, old, s, flush)
           hi == pre.nextPoc - 1
<1>1. /\ s = 2 /\ 2 \in Stage /\ conf.useMctf /\ MctfInv /\ conf \in Configs
      /\ Driving(main, list) /\ n \in Nat /\ list \in [Stage -> Seq(Picture(n))]
      /\ pre.nextPoc = PicsRcvd /\ pre.nextPoc \in Int
      /\ poc \in Nat /\ conf.mctfRange \in Nat /\ MctfLead \in Nat /\ Ahead \in Nat
      /\ First(poc) \in Int /\ Last(list[2]).poc = hi
  BY MctfIs
<1>2. Proceed(r) /\ mctf' = [filterPoc |-> poc + 1, lastIn |-> Last(pics).poc]
  <2>1. [Pipe EXCEPT !.failed = f] = st
    BY PipeWith
  <2>2. QED BY <2>1 DEF MctfNext, Pipe
<1>3. done = Null \/ done \in DOMAIN list[2]
  <2>1. CASE due /\ at # {}
    <3>1. done \in at
      <4> HIDE DEF at, due
      <4>1. done = CHOOSE i \in at : TRUE
        BY <2>1
      <4>2. QED BY <2>1, <4>1
    <3> HIDE DEF done
    <3>2. QED BY <1>1, <3>1
  <2>2. CASE ~(due /\ at # {})
    BY <2>2, Zenon
  <2>3. QED BY <2>1, <2>2
<1>4. /\ r.list[2] = Without(Held(list, 2, done), old) /\ r.list[1] = list[1]
  <2>1. DOMAIN list = Stage /\ 1 \in Stage /\ s \in Stage
    BY <1>1, StagesAre DEF Stage
  <2> DEFINE l == list
  <2> HIDE DEF f, c, old, flush, done, r, l, s
  <2>2. r = Forward([shared |-> shared, list |-> l, failed |-> f, picCount |-> c], done, old, s, flush)
        /\ DOMAIN l = Stage
    BY <2>1 DEF r, l
  <2>3. /\ r.list[s] = Without(Held(l, s, done), old)
        /\ \A u \in Stage : u < s => r.list[u] = l[u]
    BY <2>1, <2>2, ForwardHandsOn
  <2>4. QED BY <1>1, <2>1, <2>3 DEF l
<1> HIDE DEF r, done
<1>5. /\ list' = r.list /\ main'.pending = main.pending /\ main'.flush = main.flush
      /\ \/ main' = main /\ main.flush /\ r.list[2] # <<>>
         \/ main'.at \in {"run", "collect"}
  BY <1>1, <1>2, ProceedGoesOn
<1>6. IsHeldLeft(list'[2], list[2], old) /\ Ascends(list[2])
  <2>1. Ascends(list[2]) /\ list[2] \in Seq(Picture(n))
    BY <1>1 DEF MctfInv
  <2> HIDE DEF old, n
  <2>2. IsHeldLeft(Without(Held(list, 2, done), old), list[2], old)
    BY <1>1, <1>3, <2>1, HeldLeft
  <2>3. QED BY <1>4, <1>5, <2>1, <2>2
<1>7. /\ PicsRcvd' = PicsRcvd /\ MctfLead' = MctfLead /\ Lo' = Lo /\ AllIn' = AllIn /\ Ahead' = Ahead
      /\ \A p : First(p)' = First(p) /\ Prior(p)' = Prior(p)
  BY DEF PicsRcvd, MctfLead, Lo, AllIn, Ahead, First, Prior
<1>8. AppInv'
  BY <1>5, AppSame DEF FrontInv
<1>9. PreInv'
  <2>1. InFront(list'[1])
    BY <1>4, <1>5 DEF FrontInv, PreInv, InFront
  <2>2. /\ pre.nextPoc \in Int /\ Lo <= pre.nextPoc /\ pre.lastPoc = Prior(pre.nextPoc)
    BY DEF FrontInv, PreInv
  <2>3. QED BY <1>1, <1>7, <2>1, <2>2 DEF PreInv, InFront, Ascends
<1>10. mctf'.filterPoc = poc + 1 /\ mctf'.lastIn = hi
  BY <1>1, <1>2
<1>11. Pocs(list'[2]) = First(poc + 1) .. hi
  <2>1. Pocs(list[2]) = First(poc) .. hi
    BY <1>1 DEF MctfInv
  <2>2. Pocs(list'[2]) = {list[2][a].poc : a \in DOMAIN list[2] \ old}
    BY <1>6 DEF IsHeldLeft
  <2>3. \A a \in DOMAIN list[2] : list[2][a].poc \in First(poc) .. hi
    BY <2>1 DEF Pocs
  <2>4. {list[2][a].poc : a \in DOMAIN list[2] \ old}
          = {x \in First(poc) .. hi : x > poc - conf.mctfRange}
    <3> DEFINE low == poc - conf.mctfRange
    <3>1. low \in Int
      BY <1>1
    <3>2. \A a \in DOMAIN list[2] : a \in old <=> list[2][a].poc <= low
      BY <1>1
    <3> HIDE DEF low, old, poc, hi
    <3>3. \A a \in DOMAIN list[2] : a \notin old <=> list[2][a].poc > low
      BY <1>1, <2>3, <3>1, <3>2
    <3>4. ASSUME NEW x \in First(poc) .. hi, x > low
          PROVE  \E a \in DOMAIN list[2] \ old : list[2][a].poc = x
      BY <2>1, <3>3, <3>4 DEF Pocs
    <3>5. QED BY <2>3, <3>3, <3>4 DEF low
  <2>5. {x \in First(poc) .. hi : x > poc - conf.mctfRange} = First(poc + 1) .. hi
    BY <1>1, SMTT(30) DEF First
  <2>6. QED BY <2>2, <2>4, <2>5
<1>12. Filtered'
  <2>1. poc + Ahead <= pre.nextPoc - 1 \/ AllIn
    BY MctfReady
  <2>2. QED BY <1>1, <1>7, <1>10, <2>1 DEF Filtered
<1>13. MctfInv'
  <2>1. \A i \in DOMAIN list'[2] : list'[2][i].isFlush => app.passed = app.has
    BY <1>1, <1>6 DEF IsHeldLeft, MctfInv
  <2>2. main'.at = "mctf" => list'[2] # <<>> /\ main'.flush
    BY <1>5
  <2>3. mctf'.filterPoc \in Nat /\ mctf'.lastIn \in Int
    BY <1>1, <1>10
  <2>4. First(mctf.filterPoc)' = First(poc + 1)
    BY <1>7, <1>10 DEF First, MctfLead
  <2> HIDE DEF poc, hi, old
  <2>5. QED BY <1>6, <1>10, <1>11, <1>12, <2>1, <2>2, <2>3, <2>4
               DEF MctfInv, IsHeldLeft, Ascends, Pocs, hi
<1>14. QED BY <1>8, <1>9, <1>13 DEF FrontInv

LEMMA ProcessMctfFront ==
  ASSUME FrontInv, PipeInv, ProcessMctf
  PROVE  FrontInv'
<1>1. main.at = "mctf" /\ UNCHANGED <<conf, pre, app>>
  BY DEF ProcessMctf
<1>2. CASE MctfIdle
  <2>1. Proceed(Pipe) /\ UNCHANGED mctf
    BY <1>2 DEF ProcessMctf
  <2>2. main.stage = 2 /\ conf \in Configs /\ Driving(main, list) /\ pre.nextPoc = PicsRcvd
    BY <1>1, MctfIs
  <2>3. Pipe.list = list
    BY DEF Pipe
  <2> DEFINE st == Pipe
  <2> HIDE DEF st
  <2>4. Proceed(st) /\ st.list = list
    BY <2>1, <2>3 DEF st
  <2>5. /\ list' = st.list /\ main'.pending = main.pending /\ main'.flush = main.flush
        /\ main' = main \/ main'.at \in {"run", "collect"}
    BY <2>2, <2>4, ProceedGoesOn
  <2>6. list' = list
    BY <2>4, <2>5
  <2>7. CASE main' = main
    BY <1>1, <2>1, <2>6, <2>7, Unmoved
  <2>8. CASE main'.at \in {"run", "collect"}
    <3>1. AppInv'
      BY <1>1, <2>5, AppSame DEF FrontInv
    <3>2. QED BY <1>1, <2>1, <2>2, <2>6, <2>8, <3>1, FrontSame
  <2>9. QED BY <2>5, <2>7, <2>8
<1>3. CASE ~MctfIdle
  <2>1. MctfNext(main.stage)
    BY <1>3 DEF ProcessMctf
  <2>2. QED BY <1>1, <1>3, <2>1, MctfNextFront
<1>4. QED BY <1>2, <1>3

-----------------------------------------------------------------------------
(* The first stages from the start.                                        *)

LEMMA FreshFront ==
  ASSUME conf \in Configs
  PROVE  /\ 1 \in Stage /\ Fresh.list[1] = <<>> /\ (conf.useMctf => Fresh.list[2] = <<>>)
         /\ Fresh.pre.nextPoc = Lo /\ Fresh.pre.lastPoc = Prior(Lo)
         /\ Fresh.mctf.filterPoc = 0 /\ Fresh.mctf.lastIn = NoPic
         /\ Ascends(<<>>) /\ Pocs(<<>>) = {} /\ DOMAIN <<>> = {} /\ First(0) .. Lo - 1 = {}
         /\ Lo \in Int /\ NoPic \in Int /\ Lo = 0 - conf.leadFrames
<1>1. Fresh.list = [s \in Stage |-> <<>>] /\ 1 \in Stage
  BY StagesAre DEF Fresh, Stage
<1>2. Fresh.list[1] = <<>> /\ (conf.useMctf => Fresh.list[2] = <<>>)
  BY <1>1, FilterIsSecond
<1>3. Fresh.pre.nextPoc = Lo /\ Fresh.pre.lastPoc = Prior(Lo)
      /\ Fresh.mctf.filterPoc = 0 /\ Fresh.mctf.lastIn = NoPic
  BY DEF Fresh, Lo, Prior
<1>4. Ascends(<<>>) /\ Pocs(<<>>) = {} /\ DOMAIN <<>> = {}
  BY DEF Ascends, Pocs
<1>5. /\ Lo \in Int /\ Lo <= -MctfLead /\ MctfLead \in Nat /\ MctfLead <= conf.mctfRange
      /\ conf.mctfRange \in Nat
  BY ConfIs
<1>6. First(0) .. Lo - 1 = {}
  <2>1. First(0) = -MctfLead
    BY <1>5 DEF First
  <2>2. QED BY <1>5, <2>1
<1>7. NoPic \in Int
  BY DEF NoPic
<1>8. Lo = 0 - conf.leadFrames
  BY PipelineAssumption DEF Lo
<1>9. QED BY <1>1, <1>2, <1>3, <1>4, <1>5, <1>6, <1>7, <1>8

LEMMA InitFront == Init => FrontInv
<1> SUFFICES ASSUME Init PROVE FrontInv
  OBVIOUS
<1>1. /\ conf \in Configs /\ list = Fresh.list /\ pre = Fresh.pre /\ mctf = Fresh.mctf
      /\ main = [at |-> "app", stage |-> 0, flush |-> FALSE, pending |-> FALSE,
                 au |-> NoPic, empty |-> FALSE]
      /\ \E k \in conf.inputs : app = [state |-> "INITIALIZED", has |-> k, passed |-> 0,
                                       got |-> <<>>, done |-> FALSE, rec |-> <<>>]
  BY DEF Init
<1>2. main.at = "app" /\ main.pending = FALSE /\ main.flush = FALSE
  BY <1>1
<1>3. app.passed = 0 /\ app.has \in Nat
  <2>1. conf.inputs \subseteq Nat
    BY <1>1, PipelineAssumption
  <2>2. QED BY <1>1, <2>1
<1>4. AppInv
  BY <1>2, <1>3 DEF AppInv
<1>5. PicsRcvd = Lo
  BY <1>1, <1>3, FreshFront DEF PicsRcvd
<1>6. PreInv
  BY <1>1, <1>5, FreshFront DEF PreInv
<1>7. ASSUME conf.useMctf PROVE MctfInv
  <2>1. Filtered
    BY <1>1, FreshFront DEF Filtered
  <2>2. list[2] = <<>> /\ mctf.filterPoc = 0 /\ mctf.lastIn = NoPic /\ pre.nextPoc = Lo
    BY <1>1, <1>7, FreshFront
  <2>3. Ascends(list[2]) /\ Pocs(list[2]) = {} /\ DOMAIN list[2] = {}
    BY <1>1, <2>2, FreshFront DEF Ascends, Pocs
  <2>4. First(mctf.filterPoc) .. pre.nextPoc - 1 = {}
    <3>1. First(0) .. Lo - 1 = {}
      BY <1>1, FreshFront
    <3>2. QED BY <2>2, <3>1
  <2>5. mctf.filterPoc \in Nat /\ mctf.lastIn \in Int
    BY <1>1, <2>2, FreshFront
  <2>6. QED BY <1>2, <2>1, <2>3, <2>4, <2>5 DEF MctfInv
<1>8. QED BY <1>4, <1>6, <1>7 DEF FrontInv

LEMMA InitPassFront ==
  ASSUME FrontInv, conf \in Configs, InitPass
  PROVE  FrontInv'
<1>1. /\ list' = Fresh.list /\ pre' = Fresh.pre /\ mctf' = Fresh.mctf
      /\ UNCHANGED <<conf, main>> /\ main.at = "app"
      /\ app' = [app EXCEPT !.state = "INITIALIZED", !.passed = 0, !.done = FALSE]
  BY DEF InitPass
<1>2. app'.passed = 0 /\ app'.has = app.has
  <2>1. app.passed = app.has /\ app.done /\ app.passed \in Nat
    BY DEF InitPass, FrontInv, AppInv
  <2>2. QED BY <1>1, <2>1
<1>3. AppInv'
  BY <1>1, <1>2 DEF FrontInv, AppInv
<1>4. /\ MctfLead' = MctfLead /\ Lo' = Lo
      /\ \A p : First(p)' = First(p) /\ Prior(p)' = Prior(p)
  BY <1>1 DEF MctfLead, Lo, First, Prior
<1>5. PicsRcvd' = Lo
  BY <1>1, <1>2, FreshFront DEF PicsRcvd
<1>6. PreInv'
  BY <1>1, <1>4, <1>5, FreshFront DEF PreInv, Ascends
<1>7. ASSUME conf.useMctf PROVE MctfInv'
  <2>1. Filtered'
    BY <1>1, FreshFront DEF Filtered
  <2>2. list'[2] = <<>> /\ mctf'.filterPoc = 0 /\ mctf'.lastIn = NoPic /\ pre'.nextPoc = Lo
    BY <1>1, <1>7, FreshFront
  <2>3. Ascends(list[2])' /\ Pocs(list[2])' = {}
    BY <2>2, FreshFront DEF Ascends, Pocs
  <2>4. First(mctf.filterPoc)' .. pre'.nextPoc - 1 = {}
    <3>1. First(mctf.filterPoc)' = First(0)
      BY <1>1, <2>2 DEF First, MctfLead
    <3>2. First(0) .. Lo - 1 = {}
      BY FreshFront
    <3>3. pre'.nextPoc - 1 = Lo - 1
      BY <2>2
    <3>4. QED BY <3>1, <3>2, <3>3
  <2>5. mctf'.filterPoc \in Nat /\ mctf'.lastIn \in Int /\ DOMAIN list'[2] = {}
    BY <2>2, FreshFront
  <2>6. QED BY <1>1, <2>1, <2>3, <2>4, <2>5 DEF MctfInv
<1>8. QED BY <1>1, <1>3, <1>6, <1>7 DEF FrontInv

LEMMA StepFront == PipeInv /\ FrontInv /\ [Next]_vars => FrontInv'
<1> SUFFICES ASSUME PipeInv, FrontInv, [Next]_vars PROVE FrontInv'
  OBVIOUS
<1>0. conf \in Configs
  BY DEF PipeInv
<1>1. CASE Encode
  BY <1>0, <1>1, EncodeFront
<1>2. CASE Flush
  BY <1>0, <1>2, FlushFront
<1>3. CASE TakeInput
  BY <1>3, TakeInputFront
<1>4. CASE RunStage
  BY <1>4, RunStageFront
<1>5. CASE ProcessPre
  BY <1>5, ProcessPreFront
<1>6. CASE ProcessMctf
  BY <1>6, ProcessMctfFront
<1>7. CASE InitNextPic \/ EncodePic
  BY <1>7, CodeFront
<1>8. CASE GetLists \/ StopEncoding \/ WakeUp \/ Collect
  BY <1>8, StopFront
<1>9. CASE Output
  BY <1>9, OutputFront
<1>10. CASE Return
  BY <1>10, ReturnFront
<1>11. CASE InitPass
  BY <1>0, <1>11, InitPassFront
<1>12. ASSUME NEW s \in GopStages, NEW poc \in gop[s].busy, Reconstruct(s, poc)
       PROVE  FrontInv'
  BY <1>12, ReconstructFront
<1>13. CASE UNCHANGED vars
  BY <1>13, Unmoved DEF vars
<1>14. QED BY <1>1, <1>2, <1>3, <1>4, <1>5, <1>6, <1>7, <1>8, <1>9, <1>10, <1>11, <1>12, <1>13
           DEF Next, MainStep

(* Only the filter's own step moves the filter on.                         *)
LEMMA OnlyMctfMoves ==
  ASSUME PipeInv, [Next]_vars, main.at = "mctf", mctf'.filterPoc # mctf.filterPoc
  PROVE  ~MctfIdle
<1>1. CASE ProcessMctf
  BY <1>1 DEF ProcessMctf
<1>2. CASE Encode \/ Flush \/ TakeInput \/ RunStage \/ ProcessPre
  BY <1>2 DEF Encode, Flush, TakeInput, RunStage, ProcessPre
<1>3. CASE InitNextPic \/ EncodePic \/ GetLists \/ StopEncoding \/ WakeUp \/ Collect
  BY <1>3 DEF InitNextPic, EncodePic, GetLists, StopEncoding, WakeUp, Collect
<1>4. CASE Output \/ Return \/ InitPass
  BY <1>4 DEF Output, Return, InitPass
<1>5. ASSUME NEW s \in GopStages, NEW poc \in gop[s].busy, Reconstruct(s, poc)
      PROVE  ~MctfIdle
  BY <1>5 DEF Reconstruct
<1>6. CASE UNCHANGED vars
  BY <1>6 DEF vars
<1>7. QED BY <1>1, <1>2, <1>3, <1>4, <1>5, <1>6 DEF Next, MainStep

LEMMA WindowIsThere ==
  ASSUME PipeInv, FrontInv, main.at = "mctf", ~MctfIdle
  PROVE  Window(mctf.filterPoc) \intersect (-conf.leadFrames .. app.has - conf.leadFrames - 1)
           \subseteq Pocs(list[main.stage])
<1> DEFINE next == mctf.filterPoc
           hi == pre.nextPoc - 1
<1>1. /\ main.stage = 2 /\ MctfInv /\ conf \in Configs /\ pre.nextPoc \in Int /\ next \in Nat
      /\ conf.mctfRange \in Nat /\ MctfLead \in Nat /\ Ahead \in Nat
  BY MctfIs
<1>2. /\ MctfLead <= conf.leadFrames /\ (MctfLead = conf.leadFrames \/ MctfLead = conf.mctfRange)
      /\ conf.leadFrames \in Nat
  <2>1. conf.leadFrames \in Nat
    BY <1>1, PipelineAssumption
  <2>2. QED BY <1>1, <2>1, ConfIs
<1>3. next + Ahead <= hi \/ pre.nextPoc = app.has - conf.leadFrames
  BY MctfReady DEF AllIn
<1>4. app.has \in Nat
  BY DEF FrontInv, AppInv
<1>5. Pocs(list[2]) = First(next) .. hi
  BY <1>1 DEF MctfInv
<1>6. Window(next) = next - conf.mctfRange .. next + Ahead
  <2>1. next + 0 = next
    BY <1>1
  <2>2. QED BY <2>1 DEF Window, Ahead
<1> SUFFICES ASSUME NEW x \in next - conf.mctfRange .. next + Ahead,
                    x \in -conf.leadFrames .. app.has - conf.leadFrames - 1
             PROVE  x \in First(next) .. hi
  BY <1>1, <1>5, <1>6
<1>7. x \in Int /\ next - conf.mctfRange <= x /\ x <= next + Ahead
      /\ -conf.leadFrames <= x /\ x <= app.has - conf.leadFrames - 1
  BY <1>1, <1>2, <1>4
<1> HIDE DEF next
<1>8. x <= hi
  BY <1>1, <1>2, <1>3, <1>4, <1>7
<1>9. -MctfLead <= x
  BY <1>1, <1>2, <1>7
<1>10. First(next) \in Int /\ First(next) <= x
  BY <1>1, <1>7, <1>9 DEF First
<1>11. QED BY <1>1, <1>7, <1>8, <1>10

(* A picture is filtered with all the pictures of the video around it that *)
(* are in the filter's range, for every range, with and without those that *)
(* come after it, and for all delays and flushes.                          *)
THEOREM FilterSeesAll == Spec => FilterSeesNeighbours
<1>1. PipeInv /\ FrontInv /\ [Next]_vars => FrontInv'
  BY StepFront
<1>2. Spec => [](PipeInv /\ FrontInv)
  <2>1. PipeInv /\ [Next]_vars => PipeInv'
    BY StepInv
  <2>2. QED BY InitInv, InitFront, <1>1, <2>1, PTL DEF Spec
<1>3. PipeInv /\ FrontInv /\ [Next]_vars =>
        [ /\ main.at = "mctf" /\ mctf'.filterPoc # mctf.filterPoc
          /\ \E pic \in ToSet(list[main.stage]) : pic.poc = mctf.filterPoc
          => Window(mctf.filterPoc) \intersect (-conf.leadFrames .. app.has - conf.leadFrames - 1)
               \subseteq Pocs(list[main.stage]) ]_vars
  BY OnlyMctfMoves, WindowIsThere
<1>4. QED BY <1>2, <1>3, PTL DEF Spec, FilterSeesNeighbours

-----------------------------------------------------------------------------
(* The CHECKs of the first stages.                                         *)

FlushCheck == "flush set on a picture already started"

FrontChecks == {"gop entry of another picture", "picture filter error"}

FrontChecksPass == failed \intersect FrontChecks = {}

LEMMA AddChecks ==
  ASSUME NEW sh, NEW l, NEW f, NEW c, NEW id, NEW s, NEW flush
  PROVE  LET r == AddPicSorted([shared |-> sh, list |-> l, failed |-> f, picCount |-> c], id, s, flush)
         IN  "failed" \in DOMAIN r /\ r.failed \subseteq f \union {FlushCheck}
<1> DEFINE st == [shared |-> sh, list |-> l, failed |-> f, picCount |-> c]
           takers == {t \in s .. LastStage : Takes(t, sh[id].poc)}
           t == CHOOSE x \in takers : \A y \in takers : x <= y
           new == Insert(t, l[t], NewPic(sh, id, flush))
           r == AddPicSorted(st, id, s, flush)
<1>1. CASE takers = {}
  BY <1>1 DEF AddPicSorted
<1>2. CASE takers # {}
  <2>1. "failed" \in DOMAIN r /\ r.failed = f \union new.failed
    BY <1>2 DEF AddPicSorted
  <2>2. new.failed \subseteq {FlushCheck}
    BY DEF Insert, Check, FlushCheck
  <2> HIDE DEF r, new
  <2>3. QED BY <2>1, <2>2 DEF r
<1>3. QED BY <1>1, <1>2

LEMMA ForwardChecks ==
  ASSUME NEW sh, NEW l, NEW f, NEW c, NEW s, NEW done, NEW free, NEW flush
  PROVE  LET r == Forward([shared |-> sh, list |-> l, failed |-> f, picCount |-> c],
                          done, free, s, flush)
         IN  r.failed \subseteq f \union {FlushCheck} /\ "failed" \in DOMAIN r
<1> DEFINE st == [shared |-> sh, list |-> l, failed |-> f, picCount |-> c]
           r == Forward(st, done, free, s, flush)
           held == Held(l, s, done)
           sent == Sent(sh, l, f, c, s, done, flush)
<1>1. "failed" \in DOMAIN sent /\ sent.failed \subseteq f \union {FlushCheck}
  <2>1. CASE done = Null
    BY <2>1 DEF Sent
  <2>2. CASE done # Null
    <3> DEFINE sh1 == ReleasePrev(sh, {l[s][done]})
               l1 == [l EXCEPT ![s] = held]
               id == l[s][done].id
               st1 == [shared |-> sh1, list |-> l1, failed |-> f, picCount |-> c]
    <3>1. sent = AddPicSorted(st1, id, s + 1, flush)
      BY <2>2 DEF Sent
    <3> HIDE DEF sent, sh1, l1, id
    <3>2. QED BY <3>1, AddChecks
  <2>3. QED BY <2>1, <2>2
<1>2. FreedFrom(r, sent, held, free, s)
  <2> HIDE DEF held, sent
  <2>1. QED BY ForwardOpens DEF held, sent
<1> HIDE DEF r, sent, held
<1>3. r.failed = sent.failed /\ "failed" \in DOMAIN r
  BY <1>1, <1>2 DEF FreedFrom
<1>4. QED BY <1>1, <1>3 DEF r

(* A stage's CHECK holds: it looks at what it should.                      *)
LEMMA PreFinds ==
  ASSUME FrontInv, PipeInv, main.at = "pre", Last(list[main.stage]).poc > pre.lastPoc
  PROVE  pre.nextPoc = Last(list[main.stage]).poc
<1>1. main.stage = 1
  BY PreIs
<1>2. Last(list[1]).poc > pre.lastPoc
  BY <1>1
<1>3. QED BY <1>1, <1>2, PreIs

LEMMA MctfFinds ==
  ASSUME FrontInv, PipeInv, main.at = "mctf", mctf.filterPoc <= Last(list[main.stage]).poc
  PROVE  {i \in DOMAIN list[main.stage] : list[main.stage][i].poc = mctf.filterPoc} # {}
<1> DEFINE next == mctf.filterPoc
           hi == pre.nextPoc - 1
<1>1. /\ main.stage = 2 /\ MctfInv /\ next \in Nat /\ pre.nextPoc \in Int /\ Last(list[2]).poc = hi
      /\ conf.mctfRange \in Nat /\ MctfLead \in Nat /\ First(next) \in Int
  BY MctfIs
<1>2. First(next) <= next
  BY <1>1 DEF First
<1>3. next \in Pocs(list[2])
  <2>1. next \in First(next) .. hi
    BY <1>1, <1>2
  <2>2. QED BY <1>1, <2>1 DEF MctfInv
<1>4. QED BY <1>1, <1>3 DEF Pocs

LEMMA StepChecks ==
  ASSUME PipeInv, FrontInv, [Next]_vars, failed \intersect FrontChecks = {}
  PROVE  failed' \intersect FrontChecks = {}
<1> USE DEF FrontChecks, FlushCheck
<1>1. CASE UNCHANGED failed
  BY <1>1
<1>2. CASE Encode \/ Flush \/ RunStage \/ EncodePic \/ StopEncoding \/ WakeUp \/ Collect \/ Return
           \/ UNCHANGED vars
  BY <1>1, <1>2 DEF Encode, Flush, RunStage, EncodePic, StopEncoding, WakeUp, Collect, Return, vars
<1>3. CASE InitNextPic
  <2> DEFINE a == Check(gop[main.stage].lastCodingNum = -1
                          /\ ~shared[list[main.stage][NextToInit(main.stage)].id].isStartOfIntra,
                        "first picture not intra")
             b == Check(~StageParallel /\ gop[main.stage].out # <<>>, "multiple pictures in flight")
  <2>1. failed' = failed \union a \union b
    BY <1>3 DEF InitNextPic
  <2>2. a \subseteq {"first picture not intra"} /\ b \subseteq {"multiple pictures in flight"}
    BY DEF Check
  <2> HIDE DEF a, b
  <2>3. QED BY <2>1, <2>2
<1>4. CASE GetLists
  <2> DEFINE a == Check(AtGop /\ ~StageParallel /\ ~conf.visAct, "no new picture for encoding")
  <2>1. failed' = failed \union a
    BY <1>4 DEF GetLists
  <2>2. a \subseteq {"no new picture for encoding"}
    BY DEF Check
  <2> HIDE DEF a
  <2>3. QED BY <2>1, <2>2
<1>5. CASE InitPass
  <2> DEFINE a == Check(rc.stats = <<>>, "no data from the first pass")
  <2>1. failed' = failed \union a
    BY <1>5 DEF InitPass
  <2>2. a \subseteq {"no data from the first pass"}
    BY DEF Check
  <2> HIDE DEF a
  <2>3. QED BY <2>1, <2>2
<1>6. ASSUME NEW s \in GopStages, NEW poc \in gop[s].busy, Reconstruct(s, poc)
      PROVE  UNCHANGED failed
  BY <1>6 DEF Reconstruct
<1>7. CASE TakeInput
  <2> DEFINE id == IF main.pending THEN FreePicShared ELSE Null
             sh == IF id \in DOMAIN shared THEN [shared EXCEPT ![id] = Reused]
                   ELSE Append(shared, Reused)
             flush == main.flush
             c == Counts(gop)
             st == [shared |-> sh, list |-> list, failed |-> failed, picCount |-> c]
             r == AddPicSorted([Pipe EXCEPT !.shared = sh], id, 1, flush)
  <2>1. Continue(IF id = Null THEN Pipe ELSE r)
    BY <1>7 DEF TakeInput
  <2>2. [Pipe EXCEPT !.shared = sh] = st
    <3> HIDE DEF sh
    <3>1. QED BY PipeWith
  <2>3. r.failed \subseteq failed \union {FlushCheck}
    <3>1. r = AddPicSorted(st, id, 1, flush)
      BY <2>2
    <3> HIDE DEF id, sh, flush, c, r
    <3>2. QED BY <3>1, AddChecks
  <2> HIDE DEF id, r
  <2>4. CASE id = Null
    BY <2>1, <2>4 DEF Continue, Pipe
  <2>5. CASE id # Null
    BY <2>1, <2>3, <2>5 DEF Continue
  <2>6. QED BY <2>4, <2>5
<1>8. ASSUME NEW st, Proceed(st), st.failed \subseteq failed \union {FlushCheck}
      PROVE  failed' \intersect FrontChecks = {}
  <2>1. PICK x \in {st} : Continue(x)
    BY <1>8 DEF Proceed
  <2>2. failed' = st.failed
    BY <2>1 DEF Continue
  <2>3. QED BY <1>8, <2>2
<1>9. ASSUME Proceed(Pipe) PROVE failed' \intersect FrontChecks = {}
  <2>1. Pipe.failed = failed
    BY DEF Pipe
  <2> HIDE DEF FrontChecks, FlushCheck
  <2>2. QED BY <1>8, <1>9, <2>1
<1>10. CASE ProcessMctf
  <2>1. CASE MctfIdle
    BY <1>9, <1>10, <2>1 DEF ProcessMctf
  <2>2. CASE ~MctfIdle
    <3> DEFINE s == main.stage
               pics == list[s]
               poc == mctf.filterPoc
               due == /\ poc <= Last(pics).poc
                      /\ conf.framesToEncode = 0 \/ poc < conf.framesToEncode
               at == {i \in DOMAIN pics : pics[i].poc = poc}
               done == IF due /\ at # {} THEN CHOOSE i \in at : TRUE ELSE Null
               old == {i \in DOMAIN pics : pics[i].poc <= poc - conf.mctfRange}
               f == failed \union Check(due /\ at = {}, "picture filter error")
               flush == main.flush
               c == Counts(gop)
               st == [shared |-> shared, list |-> list, failed |-> f, picCount |-> c]
               r == Forward(st, done, old, s, flush)
    <3>1. Proceed(r)
      <4>1. [Pipe EXCEPT !.failed = f] = st
        BY PipeWith
      <4>2. MctfNext(s)
        BY <1>10, <2>2 DEF ProcessMctf
      <4>3. QED BY <4>1, <4>2 DEF MctfNext, Pipe
    <3>2. f = failed
      <4>1. main.at = "mctf"
        BY <1>10 DEF ProcessMctf
      <4>2. due => at # {}
        BY <4>1, MctfFinds
      <4> HIDE DEF due, at
      <4>3. QED BY <4>2 DEF Check
    <3> HIDE DEF done, old, f, flush, c, s, r
    <3>3. r.failed \subseteq f \union {FlushCheck}
      BY ForwardChecks DEF r
    <3>4. QED BY <1>8, <3>1, <3>2, <3>3
  <2>3. QED BY <2>1, <2>2
<1>11. CASE ProcessPre
  <2> DEFINE s == main.stage
             newer == Last(list[s]).poc > pre.lastPoc
             e == FixStartOfLastGop(list[s])
             r == Forward([Pipe EXCEPT !.shared = e], Null, DOMAIN list[s], s, main.flush)
             ends == Proceed(r) /\ UNCHANGED pre
             next == PreProcessNext(s)
             idle == Proceed(Pipe) /\ UNCHANGED pre
             rests == PreIdle
  <2>1. (CASE newer -> next [] rests -> idle [] OTHER -> ends) /\ main.at = "pre"
    BY <1>11 DEF ProcessPre
  <2>2. (newer /\ next) \/ idle \/ ends
    <3> HIDE DEF newer, ends, next, idle, rests
    <3>1. QED BY <2>1, Zenon
  <2>3. CASE idle
    BY <1>9, <2>3
  <2>4. CASE ends
    <3> DEFINE c == Counts(gop)
               none == Null
               free == DOMAIN list[s]
               flush == main.flush
    <3>2. [Pipe EXCEPT !.shared = e] = [shared |-> e, list |-> list, failed |-> failed, picCount |-> c]
      <4> HIDE DEF e
      <4>1. QED BY PipeWith
    <3>3. r = Forward([shared |-> e, list |-> list, failed |-> failed, picCount |-> c], none, free, s, flush)
      BY <3>2
    <3>4. Proceed(r)
      BY <2>4
    <3> HIDE DEF r, e, c, none, free, flush, s
    <3>5. r.failed \subseteq failed \union {FlushCheck}
      BY <3>3, ForwardChecks
    <3>6. QED BY <1>8, <3>4, <3>5
  <2>5. CASE newer /\ next
    <3> DEFINE pic == Last(list[s])
               links == IF conf.visAct /\ ~IsLeadTrail(pic.poc) THEN PrevLinks(list[s], pic)
                        ELSE shared[pic.id].prev
               d == [shared EXCEPT ![pic.id].isValid = TRUE, ![pic.id].prev = links,
                                   ![pic.id].isStartOfIntra = Entry(pic.poc).isStartOfIntra,
                                   ![pic.id].isStartOfGop = Entry(pic.poc).isStartOfGop]
               what == Check(pre.nextPoc # pic.poc, "gop entry of another picture")
               f == failed \union what
               k == Len(list[s])
               free == UnusedPics(list[s])
               flush == main.flush
               c == Counts(gop)
               x == Forward([Pipe EXCEPT !.shared = d, !.failed = @ \union what], k, free, s, flush)
    <3>1. Proceed(x)
      BY <2>5 DEF PreProcessNext
    <3>2. what = {}
      <4>1. pre.nextPoc = pic.poc
        BY <2>1, <2>5, PreFinds
      <4>2. QED BY <4>1 DEF Check
    <3>3. [Pipe EXCEPT !.shared = d, !.failed = @ \union what]
            = [shared |-> d, list |-> list, failed |-> f, picCount |-> c]
      <4> HIDE DEF d, what
      <4>1. [Pipe EXCEPT !.shared = d, !.failed = @ \union what] = [Pipe EXCEPT !.shared = d, !.failed = f]
        BY DEF Pipe
      <4> HIDE DEF f
      <4>2. QED BY <4>1, PipeWith
    <3>4. x = Forward([shared |-> d, list |-> list, failed |-> f, picCount |-> c], k, free, s, flush)
      <4> HIDE DEF d, f, k, free, flush, c, what
      <4>1. QED BY <3>3
    <3>5. f = failed
      BY <3>2
    <3> HIDE DEF x, d, f, k, free, flush, c, s, what
    <3>6. x.failed \subseteq f \union {FlushCheck}
      BY <3>4, ForwardChecks
    <3>7. QED BY <1>8, <3>1, <3>5, <3>6
  <2>6. QED BY <2>2, <2>3, <2>4, <2>5
<1>12. CASE Output
  <2> DEFINE s == main.stage
             out == GivenOut(s)
             left == [i \in DOMAIN Written(s) |->
                        [Written(s)[i] EXCEPT !.isNeeded = @ /\ Written(s)[i].poc \notin out]]
             l == [list EXCEPT ![s] = left]
             coded == AfterWrite(s).coded
             done == IF CanWrite(s) THEN IndexOf(s, Head(gop[s].out)) ELSE Null
             free == Releasable(left, s, coded)
             c == Counts(gop)
             flush == main.flush
             r == WrittenOut(s, coded)
             a == Check(\E x \in ToSet(NewStats(s)) : NoSource(x), "miss stats data")
             what == r.failed \union a
  <2>1. Continue([r EXCEPT !.failed = what]) /\ s \in GopStages
    BY <1>12 DEF Output, PipeInv, Driving
  <2>2. a \subseteq {"miss stats data"}
    BY DEF Check
  <2>3. r.failed \subseteq failed \union {FlushCheck} /\ "failed" \in DOMAIN r
    <3>1. IsLeft(left, s, out)
      BY <2>1 DEF IsLeft
    <3>2. /\ l = [list EXCEPT ![s] = left] /\ out = GivenOut(s)
          /\ done = IF CanWrite(s) THEN IndexOf(s, Head(gop[s].out)) ELSE Null
          /\ free = Releasable(left, s, coded) /\ r = WrittenOut(s, coded)
      OBVIOUS
    <3> HIDE DEF l, done, free, left, out, s, coded, r
    <3>3. Counts(gop) = Counts(gop)
      OBVIOUS
    <3>4. IsForward(WrittenOut(s, coded), shared, l, failed, gop, done, free, s, main.flush)
      BY ONLY PipeInv, <2>1, <3>1, <3>2, <3>3, WrittenOutIs
    <3>5. r = Forward([shared |-> shared, list |-> l, failed |-> failed, picCount |-> c],
                      done, free, s, flush)
      BY <3>2, <3>4 DEF IsForward
    <3> HIDE DEF c, flush, FlushCheck
    <3>6. QED BY <3>5, ForwardChecks
  <2> HIDE DEF r, a
  <2>4. failed' = what
    BY <2>1, <2>3 DEF Continue
  <2>5. QED BY <2>2, <2>3, <2>4
<1>13. QED BY <1>1, <1>2, <1>3, <1>4, <1>5, <1>6, <1>7, <1>10, <1>11, <1>12 DEF Next, MainStep

(* The first stages never fail a CHECK: PreProcess gives each picture its  *)
(* own GOP entry, and the filter finds the picture it is at in its list.   *)
THEOREM FrontChecksHold == Spec => []FrontChecksPass
<1>1. Init => FrontChecksPass
  BY DEF Init, FrontChecksPass
<1>2. PipeInv /\ [Next]_vars => PipeInv'
  BY StepInv
<1>3. PipeInv /\ FrontInv /\ [Next]_vars => FrontInv'
  BY StepFront
<1>4. PipeInv /\ FrontInv /\ [Next]_vars /\ FrontChecksPass => FrontChecksPass'
  BY StepChecks DEF FrontChecksPass, FrontChecks, FlushCheck
<1>5. QED BY InitInv, InitFront, <1>1, <1>2, <1>3, <1>4, PTL DEF Spec
=============================================================================
