------------------------------- MODULE BioProofs ------------------------------
(***************************************************************************)
(* Theorems about the buffer cache and the disk queue, for any number of     *)
(* processes, blocks, values and buffers.                                    *)
(***************************************************************************)
EXTENDS Bio, FiniteSetTheorems, WellFoundedInduction, TLAPS

\* struct buf.
Rec == [blockno : Block \union {None}, refcnt : 0 .. Cardinality(Hand),
        valid : BOOLEAN, dirty : BOOLEAN, data : Val]

\* Where a process has the sleep-lock of its buffer.
Using == {"use", "iderw", "sleep", "awake", "releasesleep"}

\* held and lock belong together.
LockInv ==
    /\ \A p \in Hand : held[p] = 0 <=> pc[p] = "idle"
    /\ \A p \in Hand : pc[p] \in Using => lock[held[p]] = p
    /\ \A b \in Buf : lock[b] # None => held[lock[b]] = b /\ pc[lock[b]] \in Using

\* What the flags say about the process that uses the buffer.
FlagInv ==
    /\ \A b \in Buf : buf[b].dirty => buf[b].valid
    /\ \A b \in Buf : buf[b].valid => buf[b].blockno # None
    /\ \A p \in Hand :
         /\ pc[p] # "idle" => buf[held[p]].blockno # None
         /\ pc[p] \in {"use", "releasesleep", "awake"} => buf[held[p]].valid
         /\ pc[p] = "awake" => ~buf[held[p]].dirty
         /\ pc[p] \in {"iderw", "sleep"} => ~buf[held[p]].valid \/ buf[held[p]].dirty

\* Every request has its process.
QueueInv ==
    /\ Queued
    /\ \A i \in 1 .. Len(idequeue) : pc[lock[idequeue[i]]] = "sleep"

\* What the log pins.
LoggedInv == Cardinality(Logged) <= LOGSIZE

\* The copies of a block, in memory and on the disk.
DataInv ==
    /\ \A b \in Buf : buf[b].valid => buf[b].data = written[buf[b].blockno]
    /\ \A b \in Buf : buf[b].blockno # None /\ ~buf[b].dirty
                        => disk[buf[b].blockno] = written[buf[b].blockno]
    /\ \A k \in Block : Hits(k) = {} => disk[k] = written[k]

\* Nobody panics but bget(), and only when no buffer is unused.
PanicInv == panic # "iderw" /\ (panic = "bget" => Unused = {})

IInv ==
    /\ TypeOK /\ OneCopy /\ LockInv /\ FlagInv /\ QueueInv /\ LoggedInv
    /\ TRUE \notin ReadFails => DataInv
    /\ PanicInv

-----------------------------------------------------------------------------
(* The list of buffers.                                                      *)

\* A set of positions has a last one (bget() looks for it from the end).
LEMMA LastPosition ==
    ASSUME NEW S \in SUBSET Buf, S # {}
    PROVE  \E i \in S : \A j \in S : j <= i
<1> DEFINE R == OpToRel(<, Nat)
           T == {NBUF - i : i \in S}
<1>1. T \subseteq Nat /\ T # {}
  BY BioConstants DEF Buf
<1>2. PICK x \in T : \A y \in T : ~(<<y, x>> \in R)
  BY Zenon, <1>1, NatLessThanWellFounded, WFMin
<1>3. \A y \in T : ~(y < x)
  BY Zenon, <1>1, <1>2 DEF OpToRel
<1>4. PICK i \in S : x = NBUF - i
  OBVIOUS
<1>5. \A j \in S : j <= i
  <2>1. NBUF \in Nat /\ S \subseteq 1 .. NBUF
    BY BioConstants DEF Buf
  <2>2. ASSUME NEW j \in S PROVE ~(NBUF - j < NBUF - i)
    BY Zenon, <1>3, <1>4
  <2> QED BY <2>1, <2>2
<1> QED BY <1>5

\* bget() takes a buffer that nobody uses and that is not dirty, if there is one.
LEMMA RecycledUnused ==
    ASSUME TypeOK, Unused # {}
    PROVE  Recycled \in Unused
<1> DEFINE S == {i \in Buf : lru[i] \in Unused}
<1>1. S # {}
  BY DEF TypeOK, Unused
<1>2. PICK i \in S : \A j \in S : j <= i
  BY Zenon, <1>1, LastPosition
<1>3. lru[i] \in Unused /\ \A j \in i + 1 .. NBUF : lru[j] \notin Unused
  BY <1>2, BioConstants DEF Buf
<1> QED BY <1>3 DEF Recycled

\* Moving a buffer to the front loses none and makes none appear twice.
LEMMA FrontList ==
    ASSUME TypeOK, NEW b \in Buf
    PROVE  Front(b) \in [Buf -> Buf] /\ \A c \in Buf : \E k \in Buf : Front(b)[k] = c
<1> DEFINE i == CHOOSE k \in Buf : lru[k] = b
<1>1. i \in Buf /\ lru[i] = b
  BY DEF TypeOK
<1>2. Front(b) = [k \in Buf |-> IF k = 1 THEN b ELSE IF k <= i THEN lru[k - 1] ELSE lru[k]]
  BY DEF Front
<1> HIDE DEF i
<1>3. Front(b) \in [Buf -> Buf]
  <2>1. ASSUME NEW k \in Buf, k # 1 PROVE k - 1 \in Buf
    BY <2>1, BioConstants DEF Buf
  <2>2. lru \in [Buf -> Buf]
    BY DEF TypeOK
  <2> QED BY <1>2, <2>1, <2>2
<1>4. ASSUME NEW c \in Buf PROVE \E k \in Buf : Front(b)[k] = c
  <2>1. CASE c = b
    BY <1>2, <2>1, BioConstants DEF Buf
  <2>2. CASE c # b
    <3>1. PICK k \in Buf : lru[k] = c
      BY DEF TypeOK
    <3>2. k # i
      BY <1>1, <2>2, <3>1
    <3>3. CASE k < i
      <4>1. k + 1 \in Buf /\ k + 1 # 1 /\ k + 1 <= i /\ (k + 1) - 1 = k
        BY <1>1, <3>3, BioConstants DEF Buf
      <4> QED BY <1>2, <3>1, <4>1
    <3>4. CASE k > i
      <4>1. k # 1 /\ ~(k <= i)
        BY <1>1, <3>4, BioConstants DEF Buf
      <4> QED BY <1>2, <3>1, <4>1
    <3> QED BY <1>1, <3>2, <3>3, <3>4, BioConstants DEF Buf
  <2> QED BY <2>1, <2>2
<1> QED BY <1>3, <1>4

-----------------------------------------------------------------------------
(* Each step keeps the invariant.                                            *)

\* A process that is not idle has a buffer with a block, and is among its users.
LEMMA HeldBuffer ==
    ASSUME IInv, NEW p \in Hand, pc[p] # "idle"
    PROVE  /\ held[p] \in Buf
           /\ buf[held[p]].blockno \in Block
           /\ buf[held[p]].refcnt \in Nat \ {0}
<1>1. held[p] \in Buf
  BY DEF IInv, LockInv, TypeOK
<1>2. buf[held[p]].blockno \in Block
  BY <1>1 DEF IInv, FlagInv, TypeOK
<1> DEFINE U == {q \in Hand : held[q] = held[p]}
<1>3. IsFiniteSet(U) /\ U # {}
  BY BioConstants, FS_Subset
<1>4. Cardinality(U) \in Nat /\ Cardinality(U) # 0
  BY <1>3, FS_CardinalityType, FS_EmptySet
<1>5. buf[held[p]].refcnt = Cardinality(U)
  BY <1>1 DEF IInv, OneCopy
<1> QED BY <1>1, <1>2, <1>4, <1>5

\* A buffer without users is not locked.
LEMMA UnusedUnlocked ==
    ASSUME IInv, NEW b \in Buf, buf[b].refcnt = 0
    PROVE  lock[b] = None /\ \A p \in Hand : held[p] # b
<1>1. \A p \in Hand : held[p] # b
  <2> SUFFICES ASSUME NEW p \in Hand, held[p] = b PROVE FALSE
    OBVIOUS
  <2>1. pc[p] # "idle"
    BY BioConstants DEF IInv, LockInv, Buf
  <2> QED BY <2>1, HeldBuffer
<1>2. lock[b] = None
  BY <1>1 DEF IInv, LockInv, TypeOK
<1> QED BY <1>1, <1>2

\* The users of a buffer change by the process that begins or ends to use it.
LEMMA UsersCounted ==
    ASSUME NEW f \in [Hand -> Buf \union {0}], NEW p \in Hand, NEW c \in Buf \union {0},
           NEW b \in Buf
    PROVE  LET n == Cardinality({q \in Hand : f[q] = b})
               g == [f EXCEPT ![p] = c]
               m == Cardinality({q \in Hand : g[q] = b})
           IN /\ n \in 0 .. Cardinality(Hand) /\ m \in 0 .. Cardinality(Hand)
              /\ f[p] # b /\ c = b => m = n + 1
              /\ f[p] = b /\ c # b => m = n - 1
              /\ f[p] # b /\ c # b => m = n
<1> DEFINE S == {q \in Hand : f[q] = b}
           g == [f EXCEPT ![p] = c]
           T == {q \in Hand : g[q] = b}
<1>1. IsFiniteSet(S) /\ IsFiniteSet(T)
  BY BioConstants, FS_Subset
<1>2. Cardinality(S) \in 0 .. Cardinality(Hand) /\ Cardinality(T) \in 0 .. Cardinality(Hand)
  <2>1. S \in SUBSET Hand /\ T \in SUBSET Hand
    OBVIOUS
  <2>2. Cardinality(S) <= Cardinality(Hand) /\ Cardinality(T) <= Cardinality(Hand)
    BY <2>1, BioConstants, FS_Subset
  <2>3. Cardinality(S) \in Nat /\ Cardinality(T) \in Nat /\ Cardinality(Hand) \in Nat
    BY <1>1, BioConstants, FS_CardinalityType
  <2> QED BY <2>2, <2>3
<1>3. ASSUME f[p] # b, c = b PROVE Cardinality(T) = Cardinality(S) + 1
  <2>1. T = S \union {p} /\ p \notin S
    BY <1>3
  <2> QED BY <1>1, <2>1, FS_AddElement
<1>4. ASSUME f[p] = b, c # b PROVE Cardinality(T) = Cardinality(S) - 1
  <2>1. T = S \ {p} /\ p \in S
    BY <1>4
  <2> QED BY Zenon, <1>1, <2>1, FS_RemoveElement
<1>5. ASSUME f[p] # b, c # b PROVE Cardinality(T) = Cardinality(S)
  <2>1. T = S
    BY <1>5
  <2> QED BY <2>1
<1> QED BY <1>2, <1>3, <1>4, <1>5

\* The bound of LoggedInv is kept by steps that log nothing new.
LEMMA LoggedShrinks ==
    ASSUME LoggedInv, Logged' \subseteq Logged
    PROVE  LoggedInv'
<1>1. IsFiniteSet(Buf)
  BY BioConstants, FS_Interval DEF Buf
<1>2. IsFiniteSet(Logged)
  BY <1>1, FS_Subset DEF Logged
<1>3. IsFiniteSet(Logged') /\ Cardinality(Logged') <= Cardinality(Logged)
  BY <1>2, FS_Subset
<1>4. Cardinality(Logged) \in Nat /\ Cardinality(Logged') \in Nat
  BY <1>2, <1>3, FS_CardinalityType
<1> QED BY <1>3, <1>4, BioConstants DEF LoggedInv

\* A step inside iderw() or of the user of a buffer keeps the locks in order.
LEMMA LocksKept ==
    ASSUME LockInv, UNCHANGED <<held, lock>>,
           lock \in [Buf -> Hand \union {None}],
           \A q \in Hand : pc'[q] = "idle" <=> pc[q] = "idle",
           \A q \in Hand : pc'[q] \in Using <=> pc[q] \in Using
    PROVE  LockInv'
<1>1. \A q \in Hand : held'[q] = 0 <=> pc'[q] = "idle"
  BY DEF LockInv
<1>2. \A q \in Hand : pc'[q] \in Using => lock'[held'[q]] = q
  BY DEF LockInv
<1>3. ASSUME NEW b \in Buf, lock'[b] # None
      PROVE  held'[lock'[b]] = b /\ pc'[lock'[b]] \in Using
  <2>1. lock[b] \in Hand
    BY <1>3
  <2> QED BY <1>3, <2>1 DEF LockInv
<1> QED BY <1>1, <1>2, <1>3 DEF LockInv

\* A step outside iderw() keeps the queue in order.
LEMMA QueueKept ==
    ASSUME IInv, UNCHANGED <<idequeue, busy>>,
           \A q \in Hand : pc'[q] = "sleep" <=> pc[q] = "sleep",
           \A q \in Hand : pc[q] = "sleep" => held'[q] = held[q],
           \A b \in Buf : lock[b] # None /\ pc[lock[b]] = "sleep" => lock'[b] = lock[b]
    PROVE  QueueInv'
<1>1. ASSUME NEW i \in 1 .. Len(idequeue)
      PROVE  /\ idequeue[i] \in Buf /\ lock[idequeue[i]] # None
             /\ lock[idequeue[i]] \in Hand /\ pc[lock[idequeue[i]]] = "sleep"
  <2>1. idequeue[i] \in Buf
    BY DEF IInv, TypeOK
  <2>2. lock[idequeue[i]] # None /\ pc[lock[idequeue[i]]] = "sleep"
    BY DEF IInv, QueueInv, Queued
  <2>3. lock \in [Buf -> Hand \union {None}]
    BY DEF IInv, TypeOK
  <2> QED BY <2>1, <2>2, <2>3
<1>2. \A i \in 1 .. Len(idequeue) : lock'[idequeue[i]] = lock[idequeue[i]]
  BY <1>1
<1>3. Queued'
  <2>1. busy' <=> idequeue' # <<>>
    BY DEF IInv, QueueInv, Queued
  <2>2. ASSUME NEW q \in Hand, pc'[q] = "sleep"
        PROVE  \E i \in 1 .. Len(idequeue') : idequeue'[i] = held'[q]
    <3>1. pc[q] = "sleep" /\ held'[q] = held[q]
      BY <2>2
    <3> QED BY <3>1 DEF IInv, QueueInv, Queued
  <2>3. \A i, j \in 1 .. Len(idequeue') : idequeue'[i] = idequeue'[j] => i = j
    BY DEF IInv, QueueInv, Queued
  <2>4. \A i \in 1 .. Len(idequeue') : lock'[idequeue'[i]] # None
    BY <1>1, <1>2
  <2> QED BY <2>1, <2>2, <2>3, <2>4 DEF Queued
<1>4. \A i \in 1 .. Len(idequeue') : pc'[lock'[idequeue'[i]]] = "sleep"
  BY <1>1, <1>2
<1> QED BY <1>3, <1>4 DEF QueueInv

\* acquiresleep() at the end of bget().
LEMMA AcquiredStep ==
    ASSUME IInv, NEW p \in Hand, acquired(p)
    PROVE  IInv'
<1> DEFINE b == held[p]
<1>1. b \in Buf /\ lock[b] = None /\ pc[p] = "acquiresleep" /\ panic = "none"
  BY HeldBuffer DEF acquired, At
<1>2. lock' = [lock EXCEPT ![b] = p] /\ pc' = [pc EXCEPT ![p] = IF buf[b].valid THEN "use" ELSE "iderw"]
  BY DEF acquired, Goto
<1>3. UNCHANGED <<buf, lru, idequeue, busy, disk, held, panic, written>>
  BY DEF acquired
<1> HIDE DEF b
<1>4. p # None
  BY BioConstants
<1>5. TypeOK'
  BY <1>1, <1>2, <1>3 DEF IInv, TypeOK
<1>6. OneCopy'
  BY <1>3 DEF IInv, OneCopy
<1>7. LockInv'
  <2>1. pc'[p] \in {"use", "iderw"} /\ \A q \in Hand : q # p => pc'[q] = pc[q]
    BY <1>2 DEF IInv, TypeOK
  <2>2. lock'[b] = p /\ \A c \in Buf : c # b => lock'[c] = lock[c]
    BY <1>1, <1>2 DEF IInv, TypeOK
  <2>3. \A q \in Hand : held'[q] = 0 <=> pc'[q] = "idle"
    BY <1>1, <1>3, <2>1 DEF IInv, LockInv
  <2>4. ASSUME NEW q \in Hand, pc'[q] \in Using PROVE lock'[held'[q]] = q
    <3>1. CASE q = p
      BY <1>3, <2>2, <3>1 DEF b
    <3>2. CASE q # p
      <4>1. lock[held[q]] = q /\ held[q] \in Buf
        BY <2>1, <2>4, <3>2 DEF IInv, LockInv, TypeOK, Using
      <4> QED BY <1>1, <1>3, <1>4, <2>2, <3>2, <4>1, BioConstants
    <3> QED BY <3>1, <3>2
  <2>5. ASSUME NEW c \in Buf, lock'[c] # None
        PROVE  held'[lock'[c]] = c /\ pc'[lock'[c]] \in Using
    <3>1. CASE c = b
      BY <1>3, <2>1, <2>2, <3>1 DEF b, Using
    <3>2. CASE c # b
      <4>1. lock[c] # None /\ lock'[c] = lock[c]
        BY <2>2, <2>5, <3>2
      <4>2. lock[c] \in Hand /\ held[lock[c]] = c /\ pc[lock[c]] \in Using
        BY <4>1 DEF IInv, LockInv, TypeOK
      <4>3. lock[c] # p
        BY <1>1, <4>2 DEF Using
      <4> QED BY <1>3, <2>1, <4>1, <4>2, <4>3
    <3> QED BY <3>1, <3>2
  <2> QED BY <2>3, <2>4, <2>5 DEF LockInv
<1>8. FlagInv'
  <2>1. \A q \in Hand : q # p => pc'[q] = pc[q]
    BY <1>2
  <2>2. pc'[p] = IF buf[b].valid THEN "use" ELSE "iderw"
    BY <1>2 DEF IInv, TypeOK
  <2> QED BY <1>1, <1>3, <2>1, <2>2 DEF IInv, FlagInv, b
<1>9. QueueInv'
  <2>1. \A q \in Hand : pc'[q] = "sleep" <=> pc[q] = "sleep"
    BY <1>1, <1>2 DEF IInv, TypeOK
  <2>2. \A c \in Buf : lock[c] # None => lock'[c] = lock[c]
    BY <1>1, <1>2 DEF IInv, TypeOK
  <2> QED BY <1>3, <2>1, <2>2, QueueKept
<1>10. Logged' \subseteq Logged
  BY <1>1, <1>2, <1>3, <1>4 DEF IInv, TypeOK, LockInv, FlagInv, Logged, b
<1>11. TRUE \notin ReadFails => DataInv'
  BY <1>3 DEF IInv, DataInv, Hits
<1>12. PanicInv'
  BY <1>1, <1>3 DEF PanicInv
<1> QED BY Zenon, <1>5, <1>6, <1>7, <1>8, <1>9, <1>10, <1>11, <1>12, LoggedShrinks DEF IInv

\* bwrite(), as far as iderw(), and log_write().
LEMMA WriteStep ==
    ASSUME IInv, NEW p \in Hand, NEW v \in Val, bwrite(p, v) \/ log_write(p, v)
    PROVE  IInv'
<1> DEFINE b == held[p]
           k == buf[b].blockno
<1>1. b \in Buf /\ k \in Block /\ pc[p] = "use" /\ panic = "none"
  BY HeldBuffer DEF bwrite, log_write, At
<1>2. buf' = [buf EXCEPT ![b].data = v, ![b].dirty = TRUE]
  BY DEF bwrite, log_write
<1>3. written' = [written EXCEPT ![k] = v]
  BY DEF bwrite, log_write
<1>4. PICK l \in {"iderw", "releasesleep"} : pc' = [pc EXCEPT ![p] = l]
  BY DEF bwrite, log_write, Goto
<1>5. UNCHANGED <<lru, lock, idequeue, busy, disk, held, panic>>
  BY DEF bwrite, log_write
<1>6. buf[b].valid /\ lock[b] = p
  BY <1>1 DEF IInv, FlagInv, LockInv, Using
<1> HIDE DEF b
<1>7. TypeOK'
  <2>1. buf' \in [Buf -> Rec]
    <3>1. buf \in [Buf -> Rec]
      BY DEF IInv, TypeOK, Rec
    <3>2. [buf[b] EXCEPT !.data = v, !.dirty = TRUE] \in Rec
      BY Zenon, <1>1, <3>1 DEF Rec
    <3>3. buf' = [buf EXCEPT ![b] = [buf[b] EXCEPT !.data = v, !.dirty = TRUE]]
      BY Zenon, <1>1, <1>2, <3>1
    <3> QED BY <1>1, <3>1, <3>2, <3>3
  <2>2. written' \in [Block -> Val]
    BY <1>1, <1>3 DEF IInv, TypeOK
  <2> QED BY <1>4, <1>5, <2>1, <2>2 DEF IInv, TypeOK, Rec
<1>8. /\ buf'[b].dirty /\ buf'[b].data = v
      /\ \A c \in Buf :
            /\ buf'[c].blockno = buf[c].blockno /\ buf'[c].refcnt = buf[c].refcnt
            /\ buf'[c].valid = buf[c].valid
            /\ c # b => buf'[c] = buf[c]
  BY <1>1, <1>2 DEF IInv, TypeOK
<1>9. OneCopy'
  BY <1>5, <1>8 DEF IInv, OneCopy
<1>10. pc'[p] = l /\ \A q \in Hand : q # p => pc'[q] = pc[q]
  BY <1>4 DEF IInv, TypeOK
<1>11. LockInv'
  BY <1>1, <1>5, <1>10, LocksKept DEF IInv, TypeOK, Using
<1>12. ASSUME NEW q \in Hand, pc[q] \in Using, q # p PROVE held[q] \in Buf /\ held[q] # b
  BY <1>6, <1>12 DEF IInv, LockInv, TypeOK, Using
<1>13. FlagInv'
  <2>1. ASSUME NEW c \in Buf
        PROVE  (buf'[c].dirty => buf'[c].valid) /\ (buf'[c].valid => buf'[c].blockno # None)
    BY <1>6, <1>8 DEF IInv, FlagInv
  <2>2. ASSUME NEW q \in Hand, q # p
        PROVE  /\ pc'[q] # "idle" => buf'[held'[q]].blockno # None
               /\ pc'[q] \in {"use", "releasesleep", "awake"} => buf'[held'[q]].valid
               /\ pc'[q] = "awake" => ~buf'[held'[q]].dirty
               /\ pc'[q] \in {"iderw", "sleep"} => ~buf'[held'[q]].valid \/ buf'[held'[q]].dirty
    <3>1. pc'[q] = pc[q] /\ held'[q] = held[q]
      BY <1>5, <1>10, <2>2
    <3>2. CASE pc[q] \in Using
      <4>1. buf'[held[q]] = buf[held[q]]
        BY <1>8, <1>12, <2>2, <3>2
      <4> QED BY <3>1, <4>1 DEF IInv, FlagInv
    <3>3. CASE pc[q] \notin Using
      <4>1. pc[q] # "idle" => held[q] \in Buf
        BY HeldBuffer
      <4> QED BY <1>8, <3>1, <3>3, <4>1 DEF IInv, FlagInv, Using
    <3> QED BY <3>2, <3>3
  <2>3. buf'[held'[p]].blockno # None /\ buf'[held'[p]].valid /\ buf'[held'[p]].dirty
    BY <1>1, <1>5, <1>6, <1>8, BioConstants DEF b
  <2> QED BY <1>10, <2>1, <2>2, <2>3 DEF FlagInv
<1>14. QueueInv'
  <2>1. \A q \in Hand : pc'[q] = "sleep" <=> pc[q] = "sleep"
    BY <1>1, <1>10
  <2> QED BY <1>5, <2>1, QueueKept
<1>15. LoggedInv'
  <2>1. CASE l = "iderw" \/ buf[b].dirty
    <3>1. ASSUME NEW c \in Logged' PROVE c \in Logged
      <4>1. CASE c = b
        BY <1>1, <1>5, <1>6, <1>10, <2>1, <3>1, <4>1, BioConstants DEF Logged
      <4>2. CASE c # b
        <5>1. c \in Buf /\ buf[c].dirty
          BY <1>8, <3>1, <4>2 DEF Logged
        <5>2. lock[c] # None => lock[c] \in Hand /\ lock[c] # p
          BY <4>2, <5>1 DEF IInv, LockInv, TypeOK, b
        <5> QED BY <1>5, <1>10, <3>1, <5>1, <5>2 DEF Logged
      <4> QED BY <4>1, <4>2
    <3> QED BY <3>1, LoggedShrinks DEF IInv
  <2>2. CASE l # "iderw" /\ ~buf[b].dirty
    <3>1. Cardinality({c \in Buf : buf[c].dirty}) < LOGSIZE
      BY <1>4, <2>2 DEF bwrite, log_write, Goto, IInv, TypeOK, b
    <3> DEFINE D == {c \in Buf : buf[c].dirty}
    <3>2. Logged' \subseteq D \union {b}
      BY <1>8 DEF Logged
    <3>3. IsFiniteSet(Buf) /\ D \in SUBSET Buf
      BY BioConstants, FS_Interval DEF Buf
    <3>4. IsFiniteSet(D)
      BY <3>3, FS_Subset
    <3>5. IsFiniteSet(D \union {b}) /\ Cardinality(D \union {b}) <= Cardinality(D) + 1
      <4>1. Cardinality(D) \in Nat
        BY <3>4, FS_CardinalityType
      <4>2. /\ IsFiniteSet(D \union {b})
            /\ Cardinality(D \union {b}) = IF b \in D THEN Cardinality(D) ELSE Cardinality(D) + 1
        BY Zenon, <3>4, FS_AddElement
      <4> HIDE DEF D
      <4> QED BY <4>1, <4>2
    <3>6. IsFiniteSet(Logged') /\ Cardinality(Logged') <= Cardinality(D \union {b})
      BY <3>2, <3>5, FS_Subset
    <3>7. Cardinality(D) \in Nat /\ Cardinality(D \union {b}) \in Nat /\ Cardinality(Logged') \in Nat
      BY <3>4, <3>5, <3>6, FS_CardinalityType
    <3> QED BY <3>1, <3>5, <3>6, <3>7, BioConstants DEF LoggedInv
  <2> QED BY <2>1, <2>2
<1>16. ASSUME TRUE \notin ReadFails PROVE DataInv'
  <2>0. DataInv
    BY <1>16 DEF IInv
  <2>1. ASSUME NEW c \in Buf, c # b PROVE buf[c].blockno # k
    BY <1>1, <2>1, BioConstants DEF IInv, OneCopy
  <2>2. ASSUME NEW c \in Buf, buf'[c].valid PROVE buf'[c].data = written'[buf'[c].blockno]
    <3>1. CASE c = b
      BY <1>1, <1>3, <1>8, <3>1 DEF IInv, TypeOK
    <3>2. CASE c # b
      <4>1. buf[c].blockno \in Block
        BY <1>8, <2>2, <3>2 DEF IInv, FlagInv, TypeOK
      <4> QED BY <1>3, <1>8, <2>0, <2>1, <2>2, <3>2, <4>1 DEF DataInv, IInv, TypeOK
    <3> QED BY <3>1, <3>2
  <2>3. ASSUME NEW c \in Buf, buf'[c].blockno # None, ~buf'[c].dirty
        PROVE  disk'[buf'[c].blockno] = written'[buf'[c].blockno]
    <3>1. c # b
      BY <1>8, <2>3
    <3>2. buf[c].blockno \in Block
      BY <1>8, <2>3 DEF IInv, TypeOK
    <3> QED BY <1>3, <1>5, <1>8, <2>0, <2>1, <2>3, <3>1, <3>2 DEF DataInv, IInv, TypeOK
  <2>4. ASSUME NEW j \in Block, Hits(j)' = {} PROVE disk'[j] = written'[j]
    <3>1. j # k /\ Hits(j) = {}
      BY <1>1, <1>8, <2>4 DEF Hits
    <3> QED BY <1>3, <1>5, <2>0, <3>1 DEF DataInv, IInv, TypeOK
  <2> QED BY <2>2, <2>3, <2>4 DEF DataInv
<1>17. PanicInv'
  BY <1>1, <1>5 DEF PanicInv
<1> QED BY Zenon, <1>7, <1>9, <1>11, <1>13, <1>14, <1>15, <1>16, <1>17 DEF IInv

\* The first part of brelse(), which gives up the sleep-lock.
LEMMA BrelseStep ==
    ASSUME IInv, NEW p \in Hand, brelse(p)
    PROVE  IInv'
<1> DEFINE b == held[p]
<1>1. b \in Buf /\ pc[p] \in {"use", "releasesleep"} /\ panic = "none"
  BY HeldBuffer DEF brelse, At
<1>2. lock' = [lock EXCEPT ![b] = None] /\ pc' = [pc EXCEPT ![p] = "drop"]
  BY DEF brelse, Goto
<1>3. UNCHANGED <<buf, lru, idequeue, busy, disk, held, panic, written>>
  BY DEF brelse
<1>4. lock[b] = p
  BY <1>1 DEF IInv, LockInv, Using
<1> HIDE DEF b
<1>5. TypeOK'
  BY <1>1, <1>2, <1>3 DEF IInv, TypeOK
<1>6. OneCopy'
  BY <1>3 DEF IInv, OneCopy
<1>7. pc'[p] = "drop" /\ \A q \in Hand : q # p => pc'[q] = pc[q]
  BY <1>2 DEF IInv, TypeOK
<1>8. lock'[b] = None /\ \A c \in Buf : c # b => lock'[c] = lock[c]
  BY <1>1, <1>2 DEF IInv, TypeOK
<1>9. ASSUME NEW c \in Buf, c # b, lock[c] # None
      PROVE  lock[c] \in Hand /\ lock[c] # p /\ held[lock[c]] = c /\ pc[lock[c]] \in Using
  BY <1>9 DEF IInv, LockInv, TypeOK, b
<1>10. LockInv'
  <2>1. \A q \in Hand : held'[q] = 0 <=> pc'[q] = "idle"
    BY <1>1, <1>3, <1>7 DEF IInv, LockInv
  <2>2. ASSUME NEW q \in Hand, pc'[q] \in Using PROVE lock'[held'[q]] = q
    <3>1. q # p
      BY <1>7, <2>2 DEF Using
    <3>2. lock[held[q]] = q /\ held[q] \in Buf
      BY <1>7, <2>2, <3>1 DEF IInv, LockInv, TypeOK, Using
    <3> QED BY <1>3, <1>4, <1>8, <3>1, <3>2
  <2>3. ASSUME NEW c \in Buf, lock'[c] # None
        PROVE  held'[lock'[c]] = c /\ pc'[lock'[c]] \in Using
    BY <1>3, <1>7, <1>8, <1>9, <2>3
  <2> QED BY <2>1, <2>2, <2>3 DEF LockInv
<1>11. FlagInv'
  BY <1>1, <1>3, <1>7 DEF IInv, FlagInv
<1>12. QueueInv'
  <2>1. \A q \in Hand : pc'[q] = "sleep" <=> pc[q] = "sleep"
    BY <1>1, <1>7
  <2>2. \A c \in Buf : lock[c] # None /\ pc[lock[c]] = "sleep" => lock'[c] = lock[c]
    BY <1>1, <1>4, <1>8
  <2> QED BY <1>3, <2>1, <2>2, QueueKept
<1>13. Logged' \subseteq Logged
  <2> SUFFICES ASSUME NEW c \in Logged' PROVE c \in Logged
    OBVIOUS
  <2>1. c \in Buf /\ buf[c].dirty
    BY <1>3 DEF Logged
  <2>2. CASE c = b
    BY <1>1, <1>4, <2>1, <2>2 DEF Logged
  <2>3. CASE c # b
    BY <1>7, <1>8, <1>9, <2>1, <2>3 DEF Logged
  <2> QED BY <2>2, <2>3
<1>14. TRUE \notin ReadFails => DataInv'
  BY <1>3 DEF IInv, DataInv, Hits
<1>15. PanicInv'
  BY <1>1, <1>3 DEF PanicInv
<1> QED BY Zenon, <1>5, <1>6, <1>10, <1>11, <1>12, <1>13, <1>14, <1>15, LoggedShrinks DEF IInv

\* A request is put at the end of the queue.
LEMMA IderwStep ==
    ASSUME IInv, NEW p \in Hand, iderw(p)
    PROVE  IInv'
<1> DEFINE b == held[p]
<1>1. b \in Buf /\ pc[p] = "iderw" /\ panic = "none"
  BY HeldBuffer DEF iderw, At
<1>2. lock[b] = p /\ p # None /\ (~buf[b].valid \/ buf[b].dirty)
  BY <1>1, BioConstants DEF IInv, LockInv, FlagInv, Using
<1>3. /\ panic' = "none" /\ idequeue' = Append(idequeue, b) /\ busy' = TRUE
      /\ pc' = [pc EXCEPT ![p] = "sleep"]
  <2>1. panic' = "none"
    <3>1. p \in {p[1]} \X {1, 2}
      BY DEF Hand
    <3> QED BY Zenon, <1>1, <1>2, <3>1 DEF iderw
  <2>2. busy' = TRUE
    BY Zenon DEF iderw, IInv, TypeOK, QueueInv, Queued
  <2> QED BY <2>1, <2>2 DEF iderw, Goto
<1>4. UNCHANGED <<buf, lru, lock, disk, held, written>>
  BY DEF iderw
<1> HIDE DEF b
<1>5. TypeOK'
  <2>1. idequeue' \in Seq(Buf)
    BY <1>1, <1>3 DEF IInv, TypeOK
  <2>2. pc' \in [Hand -> {"idle", "acquiresleep", "use", "iderw", "sleep", "awake",
                         "releasesleep", "drop"}]
    BY <1>3 DEF IInv, TypeOK
  <2> QED BY Zenon, <1>3, <1>4, <2>1, <2>2 DEF IInv, TypeOK
<1>6. OneCopy'
  BY <1>4 DEF IInv, OneCopy
<1>7. pc'[p] = "sleep" /\ \A q \in Hand : q # p => pc'[q] = pc[q]
  BY <1>3 DEF IInv, TypeOK
<1>8. LockInv'
  BY <1>1, <1>4, <1>7, LocksKept DEF IInv, TypeOK, Using
<1>9. FlagInv'
  BY <1>1, <1>2, <1>4, <1>7 DEF IInv, FlagInv, b
<1>10. QueueInv'
  <2> DEFINE n == Len(idequeue)
  <2>1. idequeue \in Seq(Buf) /\ n \in Nat
    BY DEF IInv, TypeOK
  <2>2. /\ Len(idequeue') = n + 1 /\ idequeue'[n + 1] = b
        /\ \A i \in 1 .. n : idequeue'[i] = idequeue[i]
    BY <1>1, <1>3, <2>1
  <2>3. ASSUME NEW i \in 1 .. n
        PROVE  /\ idequeue[i] # b /\ lock[idequeue[i]] # None
               /\ lock[idequeue[i]] \in Hand /\ pc[lock[idequeue[i]]] = "sleep"
    <3>1. lock[idequeue[i]] # None /\ pc[lock[idequeue[i]]] = "sleep" /\ idequeue[i] \in Buf
      BY <2>1 DEF IInv, QueueInv, Queued
    <3>2. lock \in [Buf -> Hand \union {None}]
      BY DEF IInv, TypeOK
    <3> QED BY <1>1, <1>2, <3>1, <3>2
  <2>4. ASSUME NEW q \in Hand, pc'[q] = "sleep"
        PROVE  \E i \in 1 .. Len(idequeue') : idequeue'[i] = held'[q]
    <3>1. CASE q = p
      <4>1. n + 1 \in 1 .. Len(idequeue') /\ idequeue'[n + 1] = held'[q]
        BY <1>4, <2>1, <2>2, <3>1 DEF b
      <4> QED BY <4>1
    <3>2. CASE q # p
      <4>1. PICK i \in 1 .. n : idequeue[i] = held[q]
        BY <1>7, <2>4, <3>2 DEF IInv, QueueInv, Queued
      <4>2. i \in 1 .. Len(idequeue') /\ idequeue'[i] = held'[q]
        BY <1>4, <2>1, <2>2, <4>1
      <4> QED BY <4>2
    <3> QED BY <3>1, <3>2
  <2>5. \A i, j \in 1 .. n : idequeue[i] = idequeue[j] => i = j
    BY DEF IInv, QueueInv, Queued
  <2>6. \A i \in 1 .. n + 1 : i \in 1 .. n \/ i = n + 1
    BY <2>1
  <2>7. \A i, j \in 1 .. Len(idequeue') : idequeue'[i] = idequeue'[j] => i = j
    BY <2>2, <2>3, <2>5, <2>6
  <2>8. \A i \in 1 .. Len(idequeue') :
            lock'[idequeue'[i]] # None /\ pc'[lock'[idequeue'[i]]] = "sleep"
    BY <1>1, <1>2, <1>4, <1>7, <2>2, <2>3, <2>6
  <2>9. busy' <=> idequeue' # <<>>
    BY <1>3, <2>1, <2>2
  <2> QED BY Zenon, <2>4, <2>7, <2>8, <2>9 DEF QueueInv, Queued
<1>11. Logged' \subseteq Logged
  <2> SUFFICES ASSUME NEW c \in Logged' PROVE c \in Logged
    OBVIOUS
  <2>1. c \in Buf /\ buf[c].dirty /\ (lock[c] # None => pc'[lock[c]] \notin {"iderw", "sleep"})
    BY <1>4 DEF Logged
  <2>2. lock[c] # None => lock[c] \in Hand
    BY <2>1 DEF IInv, TypeOK
  <2> QED BY <1>7, <2>1, <2>2 DEF Logged
<1>12. TRUE \notin ReadFails => DataInv'
  BY <1>4 DEF IInv, DataInv, Hits
<1>13. PanicInv'
  BY <1>3 DEF PanicInv
<1> QED BY Zenon, <1>5, <1>6, <1>8, <1>9, <1>10, <1>11, <1>12, <1>13, LoggedShrinks DEF IInv

\* A process woken in iderw() finds its request done.
LEMMA AwakeStep ==
    ASSUME IInv, NEW p \in Hand, awake(p)
    PROVE  IInv'
<1>1. held[p] \in Buf /\ pc[p] = "awake" /\ panic = "none"
  BY HeldBuffer DEF awake, At
<1>2. buf[held[p]].valid /\ ~buf[held[p]].dirty
  BY <1>1 DEF IInv, FlagInv
<1>3. pc' = [pc EXCEPT ![p] = "use"] /\ UNCHANGED <<buf, lru, lock, idequeue, busy, disk, held, panic, written>>
  BY <1>2 DEF awake, Goto
<1>4. TypeOK'
  BY <1>3 DEF IInv, TypeOK
<1>5. OneCopy'
  BY <1>3 DEF IInv, OneCopy
<1>6. pc'[p] = "use" /\ \A q \in Hand : q # p => pc'[q] = pc[q]
  BY <1>3 DEF IInv, TypeOK
<1>7. LockInv'
  BY <1>1, <1>3, <1>6, LocksKept DEF IInv, TypeOK, Using
<1>8. FlagInv'
  BY <1>1, <1>2, <1>3, <1>6 DEF IInv, FlagInv
<1>9. QueueInv'
  <2>1. \A q \in Hand : pc'[q] = "sleep" <=> pc[q] = "sleep"
    BY <1>1, <1>6
  <2> QED BY <1>3, <2>1, QueueKept
<1>10. Logged' \subseteq Logged
  <2> SUFFICES ASSUME NEW c \in Logged' PROVE c \in Logged
    OBVIOUS
  <2>1. c \in Buf /\ buf[c].dirty /\ (lock[c] # None => pc'[lock[c]] \notin {"iderw", "sleep"})
    BY <1>3 DEF Logged
  <2>2. lock[c] # None => lock[c] \in Hand
    BY <2>1 DEF IInv, TypeOK
  <2> QED BY <1>1, <1>6, <2>1, <2>2 DEF Logged
<1>11. TRUE \notin ReadFails => DataInv'
  BY <1>3 DEF IInv, DataInv, Hits
<1>12. PanicInv'
  BY <1>1, <1>3 DEF PanicInv
<1> QED BY Zenon, <1>4, <1>5, <1>7, <1>8, <1>9, <1>10, <1>11, <1>12, LoggedShrinks DEF IInv

\* The disk has executed the first request.
LEMMA IdeintrStep ==
    ASSUME IInv, NEW fails \in ReadFails, ideintr(fails)
    PROVE  IInv'
<1> DEFINE b == Head(idequeue)
           p == lock[b]
           k == buf[b].blockno
           n == Len(idequeue)
<1>1. panic = "none" /\ busy /\ idequeue \in Seq(Buf) /\ idequeue # <<>> /\ n \in Nat \ {0}
  <2>1. panic = "none" /\ busy /\ idequeue \in Seq(Buf) /\ idequeue # <<>>
    BY DEF ideintr, IInv, TypeOK, QueueInv, Queued
  <2> QED BY <2>1
<1>2. b = idequeue[1] /\ 1 \in 1 .. n /\ b \in Buf
  BY <1>1
<1>3. p \in Hand /\ p # None /\ pc[p] = "sleep" /\ held[p] = b
  <2>1. p # None /\ pc[p] = "sleep"
    BY <1>2 DEF IInv, QueueInv, Queued
  <2> QED BY <1>2, <2>1 DEF IInv, TypeOK, LockInv
<1>4. k \in Block /\ (~buf[b].valid \/ buf[b].dirty) /\ (buf[b].dirty => buf[b].valid)
  BY Zenon, <1>2, <1>3, HeldBuffer DEF IInv, FlagInv
<1>5. UNCHANGED <<lru, lock, held, panic, written>>
  BY DEF ideintr
<1>6. pc' = [pc EXCEPT ![p] = "awake"]
  <2>1. pc' = [q \in Hand |-> IF pc[q] = "sleep" /\ held[q] = b THEN "awake" ELSE pc[q]]
    BY DEF ideintr
  <2>2. \A q \in Hand : pc[q] = "sleep" /\ held[q] = b <=> q = p
    BY <1>3 DEF IInv, LockInv, Using
  <2> QED BY Zenon, <1>3, <2>1, <2>2 DEF IInv, TypeOK
<1>7. /\ idequeue' = Tail(idequeue) /\ busy' = (Tail(idequeue) # <<>>)
      /\ buf' = [buf EXCEPT ![b].valid = TRUE, ![b].dirty = FALSE,
                            ![b].data = IF buf[b].dirty \/ fails THEN @ ELSE disk[k]]
      /\ disk' = IF buf[b].dirty THEN [disk EXCEPT ![k] = buf[b].data] ELSE disk
  BY DEF ideintr
<1> HIDE DEF b, p, k
<1> DEFINE d == IF buf[b].dirty \/ fails THEN buf[b].data ELSE disk[k]
<1>8. d \in Val /\ disk' \in [Block -> Val]
  BY Zenon, <1>2, <1>4, <1>7 DEF IInv, TypeOK
<1>9. buf' = [buf EXCEPT ![b] = [buf[b] EXCEPT !.valid = TRUE, !.dirty = FALSE, !.data = d]]
  BY Zenon, <1>2, <1>7 DEF IInv, TypeOK
<1> HIDE DEF d
<1>10. /\ buf'[b].valid /\ ~buf'[b].dirty /\ buf'[b].data = d
       /\ \A c \in Buf : /\ buf'[c].blockno = buf[c].blockno
                         /\ buf'[c].refcnt = buf[c].refcnt
                         /\ c # b => buf'[c] = buf[c]
  <2>1. buf \in [Buf -> Rec]
    BY DEF IInv, TypeOK, Rec
  <2>2. /\ buf'[b] = [buf[b] EXCEPT !.valid = TRUE, !.dirty = FALSE, !.data = d]
        /\ \A c \in Buf : c # b => buf'[c] = buf[c]
    BY Zenon, <1>2, <1>9, <2>1
  <2>3. buf[b] \in Rec
    BY <1>2, <2>1
  <2>4. /\ buf'[b].valid = TRUE /\ buf'[b].dirty = FALSE /\ buf'[b].data = d
        /\ buf'[b].blockno = buf[b].blockno /\ buf'[b].refcnt = buf[b].refcnt
    BY <2>2, <2>3 DEF Rec
  <2> QED BY Zenon, <2>2, <2>4
<1>11. pc'[p] = "awake" /\ \A q \in Hand : q # p => pc'[q] = pc[q]
  BY <1>3, <1>6 DEF IInv, TypeOK
<1>12. TypeOK'
  <2>1. buf' \in [Buf -> Rec]
    <3>1. buf \in [Buf -> Rec]
      BY DEF IInv, TypeOK, Rec
    <3>2. [buf[b] EXCEPT !.valid = TRUE, !.dirty = FALSE, !.data = d] \in Rec
      BY Zenon, <1>2, <1>8, <3>1 DEF Rec
    <3> QED BY <1>2, <1>9, <3>1, <3>2
  <2>2. idequeue' \in Seq(Buf) /\ busy' \in BOOLEAN
    BY <1>1, <1>7
  <2>3. pc' \in [Hand -> {"idle", "acquiresleep", "use", "iderw", "sleep", "awake",
                         "releasesleep", "drop"}]
    BY Zenon, <1>6 DEF IInv, TypeOK
  <2> QED BY Zenon, <1>5, <1>8, <2>1, <2>2, <2>3 DEF IInv, TypeOK, Rec
<1>13. OneCopy'
  BY <1>5, <1>10 DEF IInv, OneCopy
<1>14. LockInv'
  BY <1>3, <1>5, <1>11, LocksKept DEF IInv, TypeOK, Using
<1>15. ASSUME NEW q \in Hand, pc[q] \in Using, q # p PROVE held[q] \in Buf /\ held[q] # b
  <2>1. lock[held[q]] = q /\ held[q] \in Buf
    BY <1>15 DEF IInv, LockInv, TypeOK, Using
  <2> QED BY <1>15, <2>1 DEF p
<1>16. FlagInv'
  <2>1. ASSUME NEW c \in Buf
        PROVE  (buf'[c].dirty => buf'[c].valid) /\ (buf'[c].valid => buf'[c].blockno # None)
    BY <1>4, <1>10, BioConstants DEF IInv, FlagInv, k
  <2>2. ASSUME NEW q \in Hand, q # p
        PROVE  /\ pc'[q] # "idle" => buf'[held'[q]].blockno # None
               /\ pc'[q] \in {"use", "releasesleep", "awake"} => buf'[held'[q]].valid
               /\ pc'[q] = "awake" => ~buf'[held'[q]].dirty
               /\ pc'[q] \in {"iderw", "sleep"} => ~buf'[held'[q]].valid \/ buf'[held'[q]].dirty
    <3>1. pc'[q] = pc[q] /\ held'[q] = held[q]
      BY <1>5, <1>11, <2>2
    <3>2. CASE pc[q] \in Using
      <4>1. buf'[held[q]] = buf[held[q]]
        BY <1>10, <1>15, <2>2, <3>2
      <4> QED BY <3>1, <4>1 DEF IInv, FlagInv
    <3>3. CASE pc[q] \notin Using
      <4>1. pc[q] # "idle" => held[q] \in Buf
        BY HeldBuffer
      <4> QED BY <1>10, <3>1, <3>3, <4>1 DEF IInv, FlagInv, Using
    <3> QED BY <3>2, <3>3
  <2>3. buf'[held'[p]].blockno # None /\ buf'[held'[p]].valid /\ ~buf'[held'[p]].dirty
    BY <1>2, <1>3, <1>4, <1>5, <1>10, BioConstants DEF k
  <2> QED BY <1>3, <1>11, <2>1, <2>2, <2>3 DEF FlagInv
<1>17. QueueInv'
  <2>1. /\ Len(idequeue') = n - 1
        /\ \A i \in 1 .. n - 1 : idequeue'[i] = idequeue[i + 1] /\ i + 1 \in 1 .. n /\ i + 1 # 1
    BY <1>1, <1>7
  <2>2. \A i, j \in 1 .. n : idequeue[i] = idequeue[j] => i = j
    BY DEF IInv, QueueInv, Queued
  <2>3. ASSUME NEW i \in 1 .. n, i # 1
        PROVE  /\ lock[idequeue[i]] # None /\ lock[idequeue[i]] \in Hand
               /\ lock[idequeue[i]] # p /\ pc[lock[idequeue[i]]] = "sleep"
    <3>1. lock[idequeue[i]] # None /\ pc[lock[idequeue[i]]] = "sleep" /\ idequeue[i] \in Buf
      BY <1>1 DEF IInv, QueueInv, Queued
    <3>2. idequeue[i] # b
      BY <1>2, <2>2, <2>3
    <3>3. lock[idequeue[i]] \in Hand /\ held[lock[idequeue[i]]] = idequeue[i]
      BY <3>1 DEF IInv, LockInv, TypeOK
    <3> QED BY <1>3, <3>1, <3>2, <3>3
  <2>4. ASSUME NEW q \in Hand, pc'[q] = "sleep"
        PROVE  \E i \in 1 .. Len(idequeue') : idequeue'[i] = held'[q]
    <3>1. q # p /\ pc[q] = "sleep"
      BY <1>11, <2>4
    <3>2. PICK j \in 1 .. n : idequeue[j] = held[q]
      BY <3>1 DEF IInv, QueueInv, Queued
    <3>3. j # 1
      BY <1>2, <1>15, <3>1, <3>2 DEF Using
    <3>4. j - 1 \in 1 .. n - 1 /\ (j - 1) + 1 = j
      BY <1>1, <3>3
    <3>5. idequeue'[j - 1] = held'[q]
      BY <1>5, <2>1, <3>2, <3>4
    <3> QED BY <2>1, <3>4, <3>5
  <2>5. \A i, j \in 1 .. Len(idequeue') : idequeue'[i] = idequeue'[j] => i = j
    BY <1>1, <2>1, <2>2
  <2>6. \A i \in 1 .. Len(idequeue') :
            lock'[idequeue'[i]] # None /\ pc'[lock'[idequeue'[i]]] = "sleep"
    BY <1>5, <1>11, <2>1, <2>3
  <2>7. busy' <=> idequeue' # <<>>
    BY Zenon, <1>7
  <2> QED BY <2>4, <2>5, <2>6, <2>7 DEF QueueInv, Queued
<1>18. Logged' \subseteq Logged
  <2> SUFFICES ASSUME NEW c \in Logged' PROVE c \in Logged
    OBVIOUS
  <2>1. c \in Buf /\ c # b
    BY <1>10 DEF Logged
  <2>2. buf[c].dirty /\ (lock[c] # None => pc'[lock[c]] \notin {"iderw", "sleep"})
    BY <1>5, <1>10, <2>1 DEF Logged
  <2>3. lock[c] # None => lock[c] \in Hand /\ held[lock[c]] = c
    BY <2>1 DEF IInv, LockInv, TypeOK
  <2> QED BY <1>3, <1>11, <2>1, <2>2, <2>3 DEF Logged
<1>19. ASSUME TRUE \notin ReadFails PROVE DataInv'
  <2>0. DataInv /\ fails = FALSE
    BY Zenon, <1>19, BioConstants DEF IInv
  <2>1. ASSUME NEW c \in Buf, c # b PROVE buf[c].blockno # k
    BY <1>2, <1>4, <2>1, BioConstants DEF IInv, OneCopy, k
  <2>2. d = written[k]
    BY <1>2, <1>4, <2>0, BioConstants DEF DataInv, k, d
  <2>3. disk'[k] = written[k] /\ \A j \in Block : j # k => disk'[j] = disk[j]
    BY Zenon, <1>2, <1>4, <1>7, <2>0, BioConstants DEF DataInv, IInv, TypeOK, k
  <2>4. ASSUME NEW c \in Buf, buf'[c].valid PROVE buf'[c].data = written'[buf'[c].blockno]
    <3>1. CASE c = b
      BY <1>5, <1>10, <2>2, <3>1 DEF k
    <3>2. CASE c # b
      BY <1>5, <1>10, <2>0, <2>4, <3>2 DEF DataInv
    <3> QED BY <3>1, <3>2
  <2>5. ASSUME NEW c \in Buf, buf'[c].blockno # None, ~buf'[c].dirty
        PROVE  disk'[buf'[c].blockno] = written'[buf'[c].blockno]
    <3>1. CASE c = b
      BY <1>5, <1>10, <2>3, <3>1 DEF k
    <3>2. CASE c # b
      <4>1. buf[c].blockno \in Block
        BY <1>10, <2>5 DEF IInv, TypeOK
      <4> QED BY <1>5, <1>10, <2>0, <2>1, <2>3, <2>5, <3>2, <4>1 DEF DataInv
    <3> QED BY <3>1, <3>2
  <2>6. ASSUME NEW j \in Block, Hits(j)' = {} PROVE disk'[j] = written'[j]
    <3>1. j # k /\ Hits(j) = {}
      BY <1>2, <1>10, <2>6 DEF Hits, k
    <3> QED BY <1>5, <2>0, <2>3, <3>1 DEF DataInv
  <2> QED BY <2>4, <2>5, <2>6 DEF DataInv
<1>20. PanicInv'
  BY <1>1, <1>5 DEF PanicInv
<1> QED BY Zenon, <1>12, <1>13, <1>14, <1>16, <1>17, <1>18, <1>19, <1>20, LoggedShrinks DEF IInv

\* The second part of brelse(), which counts the user out.
LEMMA BrelseDropStep ==
    ASSUME IInv, NEW p \in Hand, brelse_drop(p)
    PROVE  IInv'
<1> DEFINE b == held[p]
<1>1. b \in Buf /\ buf[b].refcnt \in Nat \ {0} /\ pc[p] = "drop" /\ panic = "none"
  BY HeldBuffer DEF brelse_drop, At
<1>2. /\ held' = [held EXCEPT ![p] = 0] /\ pc' = [pc EXCEPT ![p] = "idle"]
      /\ UNCHANGED <<lock, idequeue, busy, disk, panic, written>>
  BY DEF brelse_drop, Goto
<1>3. buf' = [buf EXCEPT ![b] = [buf[b] EXCEPT !.refcnt = buf[b].refcnt - 1]]
  BY <1>1 DEF brelse_drop, IInv, TypeOK
<1>4. lru' = lru \/ lru' = Front(b)
  BY DEF brelse_drop
<1> HIDE DEF b
<1>5. /\ buf'[b].refcnt = buf[b].refcnt - 1
      /\ \A c \in Buf : /\ buf'[c].blockno = buf[c].blockno
                        /\ buf'[c].valid = buf[c].valid
                        /\ buf'[c].dirty = buf[c].dirty
                        /\ buf'[c].data = buf[c].data
                        /\ c # b => buf'[c] = buf[c]
  <2>1. buf \in [Buf -> Rec]
    BY DEF IInv, TypeOK, Rec
  <2>2. /\ buf'[b] = [buf[b] EXCEPT !.refcnt = buf[b].refcnt - 1]
        /\ \A c \in Buf : c # b => buf'[c] = buf[c]
    BY <1>1, <1>3, <2>1
  <2>3. buf[b] \in Rec
    BY <1>1, <2>1
  <2>4. /\ buf'[b].refcnt = buf[b].refcnt - 1
        /\ buf'[b].blockno = buf[b].blockno /\ buf'[b].valid = buf[b].valid
        /\ buf'[b].dirty = buf[b].dirty /\ buf'[b].data = buf[b].data
    BY <2>2, <2>3 DEF Rec
  <2> QED BY Zenon, <2>2, <2>4
<1>6. TypeOK'
  <2>1. buf' \in [Buf -> Rec]
    <3>1. buf \in [Buf -> Rec]
      BY DEF IInv, TypeOK, Rec
    <3>2. Cardinality(Hand) \in Nat
      BY BioConstants, FS_CardinalityType
    <3>3. buf[b].refcnt - 1 \in 0 .. Cardinality(Hand)
      BY <1>1, <3>1, <3>2 DEF Rec
    <3>4. [buf[b] EXCEPT !.refcnt = buf[b].refcnt - 1] \in Rec
      BY <1>1, <3>1, <3>3 DEF Rec
    <3> QED BY <1>1, <1>3, <3>1, <3>4
  <2>2. lru' \in [Buf -> Buf] /\ \A c \in Buf : \E k \in Buf : lru'[k] = c
    <3>1. TypeOK
      BY DEF IInv
    <3>2. CASE lru' = lru
      BY <3>1, <3>2 DEF TypeOK
    <3>3. CASE lru' = Front(b)
      BY Zenon, <1>1, <3>1, <3>3, FrontList
    <3> QED BY <1>4, <3>2, <3>3
  <2>3. held' \in [Hand -> Buf \union {0}]
    BY <1>2 DEF IInv, TypeOK
  <2>4. pc' \in [Hand -> {"idle", "acquiresleep", "use", "iderw", "sleep", "awake",
                         "releasesleep", "drop"}]
    BY <1>2 DEF IInv, TypeOK
  <2> QED BY <1>2, <2>1, <2>2, <2>3, <2>4 DEF IInv, TypeOK, Rec
<1>7. OneCopy'
  <2>1. \A c, e \in Buf : buf'[c].blockno = buf'[e].blockno /\ buf'[c].blockno # None => c = e
    BY <1>5 DEF IInv, OneCopy
  <2>2. ASSUME NEW c \in Buf PROVE buf'[c].refcnt = Cardinality({q \in Hand : held'[q] = c})
    <3>1. held \in [Hand -> Buf \union {0}] /\ 0 \in Buf \union {0} /\ 0 \notin Buf
      BY BioConstants DEF IInv, TypeOK, Buf
    <3>2. buf[c].refcnt = Cardinality({q \in Hand : held[q] = c})
      BY DEF IInv, OneCopy
    <3>3. CASE c = b
      <4>1. held[p] = c /\ 0 # c
        BY <3>1, <3>3 DEF b
      <4> QED BY <1>2, <1>5, <3>1, <3>2, <3>3, <4>1, UsersCounted
    <3>4. CASE c # b
      <4>1. held[p] # c /\ 0 # c
        BY <3>1, <3>4 DEF b
      <4> QED BY <1>2, <1>5, <3>1, <3>2, <3>4, <4>1, UsersCounted
    <3> QED BY <3>3, <3>4
  <2> QED BY <2>1, <2>2 DEF OneCopy
<1>8. /\ pc'[p] = "idle" /\ held'[p] = 0
      /\ \A q \in Hand : q # p => pc'[q] = pc[q] /\ held'[q] = held[q]
  BY <1>2 DEF IInv, TypeOK
<1>9. \A c \in Buf : lock[c] # None => lock[c] \in Hand /\ lock[c] # p
  <2>1. "drop" \notin Using
    BY DEF Using
  <2> QED BY <1>1, <2>1 DEF IInv, LockInv, TypeOK
<1>10. LockInv'
  <2>1. \A q \in Hand : held'[q] = 0 <=> pc'[q] = "idle"
    BY <1>8 DEF IInv, LockInv
  <2>2. \A q \in Hand : pc'[q] \in Using => lock'[held'[q]] = q
    <3>1. "idle" \notin Using
      BY DEF Using
    <3> QED BY <1>2, <1>8, <3>1 DEF IInv, LockInv
  <2>3. \A c \in Buf : lock'[c] # None => held'[lock'[c]] = c /\ pc'[lock'[c]] \in Using
    BY <1>2, <1>8, <1>9 DEF IInv, LockInv
  <2> QED BY <2>1, <2>2, <2>3 DEF LockInv
<1>11. FlagInv'
  <2>1. \A c \in Buf : (buf'[c].dirty => buf'[c].valid) /\ (buf'[c].valid => buf'[c].blockno # None)
    BY <1>5 DEF IInv, FlagInv
  <2>2. ASSUME NEW q \in Hand, q # p
        PROVE  /\ pc'[q] # "idle" => buf'[held'[q]].blockno # None
               /\ pc'[q] \in {"use", "releasesleep", "awake"} => buf'[held'[q]].valid
               /\ pc'[q] = "awake" => ~buf'[held'[q]].dirty
               /\ pc'[q] \in {"iderw", "sleep"} => ~buf'[held'[q]].valid \/ buf'[held'[q]].dirty
    <3>1. pc'[q] = pc[q] /\ held'[q] = held[q]
      BY <1>8, <2>2
    <3>2. pc[q] # "idle" => held[q] \in Buf
      BY HeldBuffer
    <3> QED BY <1>5, <3>1, <3>2 DEF IInv, FlagInv
  <2> QED BY <1>8, <2>1, <2>2 DEF FlagInv
<1>12. QueueInv'
  <2>1. \A q \in Hand : pc'[q] = "sleep" <=> pc[q] = "sleep"
    BY <1>1, <1>8
  <2>2. \A q \in Hand : pc[q] = "sleep" => held'[q] = held[q]
    BY <1>1, <1>8
  <2> QED BY <1>2, <2>1, <2>2, QueueKept
<1>13. Logged' \subseteq Logged
  BY <1>2, <1>5, <1>8, <1>9 DEF Logged
<1>14. TRUE \notin ReadFails => DataInv'
  <2>1. \A j \in Block : Hits(j)' = Hits(j)
    BY <1>5 DEF Hits
  <2> QED BY <1>2, <1>5, <2>1 DEF IInv, DataInv
<1>15. PanicInv'
  BY <1>1, <1>2 DEF PanicInv
<1> QED BY Zenon, <1>6, <1>7, <1>10, <1>11, <1>12, <1>13, <1>14, <1>15, LoggedShrinks DEF IInv

\* Without an unused buffer, what the log has not pinned somebody uses.
LEMMA AllInUse ==
    ASSUME IInv, Unused = {}, NEW b \in Buf \ Logged
    PROVE  \E p \in Hand : held[p] = b
<1>1. buf[b].refcnt # 0
  <2>1. SUFFICES ASSUME buf[b].refcnt = 0 PROVE FALSE
    OBVIOUS
  <2>2. buf[b].dirty
    BY <2>1 DEF Unused
  <2>3. lock[b] = None
    BY <2>1, UnusedUnlocked
  <2> QED BY <2>2, <2>3 DEF Logged
<1>2. {p \in Hand : held[p] = b} # {}
  <2>1. Cardinality({p \in Hand : held[p] = b}) # 0
    BY <1>1 DEF IInv, OneCopy
  <2> QED BY <2>1, FS_EmptySet
<1> QED BY <1>2

\* A process comes to use the buffer b, which has the block, or is given it.
LEMMA UserAdded ==
    ASSUME IInv, NEW p \in Hand, NEW b \in Buf, pc[p] = "idle",
           held' = [held EXCEPT ![p] = b], pc' = [pc EXCEPT ![p] = "acquiresleep"],
           UNCHANGED <<lock, idequeue, busy>>
    PROVE  /\ LockInv' /\ QueueInv'
           /\ held' \in [Hand -> Buf \union {0}]
           /\ pc' \in [Hand -> {"idle", "acquiresleep", "use", "iderw", "sleep", "awake",
                               "releasesleep", "drop"}]
           /\ pc'[p] = "acquiresleep" /\ held'[p] = b
           /\ \A q \in Hand : q # p => pc'[q] = pc[q] /\ held'[q] = held[q]
           /\ \A c \in Buf : lock[c] # None => lock[c] \in Hand /\ lock[c] # p
<1>1. /\ pc'[p] = "acquiresleep" /\ held'[p] = b /\ b # 0
      /\ \A q \in Hand : q # p => pc'[q] = pc[q] /\ held'[q] = held[q]
  BY BioConstants DEF IInv, TypeOK, Buf
<1>2. \A c \in Buf : lock[c] # None => lock[c] \in Hand /\ lock[c] # p
  <2>1. "idle" \notin Using
    BY DEF Using
  <2> QED BY <2>1 DEF IInv, LockInv, TypeOK
<1>3. LockInv'
  <2>1. \A q \in Hand : held'[q] = 0 <=> pc'[q] = "idle"
    BY <1>1 DEF IInv, LockInv
  <2>2. \A q \in Hand : pc'[q] \in Using => lock'[held'[q]] = q
    <3>1. "acquiresleep" \notin Using
      BY DEF Using
    <3> QED BY <1>1, <3>1 DEF IInv, LockInv
  <2>3. \A c \in Buf : lock'[c] # None => held'[lock'[c]] = c /\ pc'[lock'[c]] \in Using
    BY <1>1, <1>2 DEF IInv, LockInv
  <2> QED BY <2>1, <2>2, <2>3 DEF LockInv
<1>4. QueueInv'
  <2>1. \A q \in Hand : pc'[q] = "sleep" <=> pc[q] = "sleep"
    BY <1>1
  <2>2. \A q \in Hand : pc[q] = "sleep" => held'[q] = held[q]
    BY <1>1
  <2> QED BY <2>1, <2>2, QueueKept
<1>5. held' \in [Hand -> Buf \union {0}]
  BY DEF IInv, TypeOK
<1>6. pc' \in [Hand -> {"idle", "acquiresleep", "use", "iderw", "sleep", "awake",
                       "releasesleep", "drop"}]
  BY DEF IInv, TypeOK
<1> QED BY <1>1, <1>2, <1>3, <1>4, <1>5, <1>6

\* bget() finds the block in the cache.
LEMMA BgetHit ==
    ASSUME IInv, NEW p \in Hand, NEW k \in Block, bget(p, k), Hits(k) # {}
    PROVE  IInv'
<1> DEFINE b == CHOOSE c \in Hits(k) : TRUE
<1>1. b \in Buf /\ buf[b].blockno = k /\ pc[p] = "idle" /\ panic = "none"
  BY DEF Hits, bget, At
<1>2. /\ held' = [held EXCEPT ![p] = b] /\ pc' = [pc EXCEPT ![p] = "acquiresleep"]
      /\ UNCHANGED <<lru, lock, idequeue, busy, disk, written, panic>>
  BY DEF bget, Goto
<1>3. buf' = [buf EXCEPT ![b] = [buf[b] EXCEPT !.refcnt = buf[b].refcnt + 1]]
  BY <1>1 DEF bget, IInv, TypeOK
<1> HIDE DEF b
<1>4. /\ LockInv' /\ QueueInv'
      /\ held' \in [Hand -> Buf \union {0}]
      /\ pc' \in [Hand -> {"idle", "acquiresleep", "use", "iderw", "sleep", "awake",
                          "releasesleep", "drop"}]
      /\ pc'[p] = "acquiresleep" /\ held'[p] = b
      /\ \A q \in Hand : q # p => pc'[q] = pc[q] /\ held'[q] = held[q]
      /\ \A c \in Buf : lock[c] # None => lock[c] \in Hand /\ lock[c] # p
  BY Zenon, <1>1, <1>2, UserAdded
<1>5. /\ buf'[b].refcnt = buf[b].refcnt + 1
      /\ \A c \in Buf : c # b => buf'[c] = buf[c]
      /\ \A c \in Buf : /\ buf'[c].blockno = buf[c].blockno
                        /\ buf'[c].valid = buf[c].valid
                        /\ buf'[c].dirty = buf[c].dirty
                        /\ buf'[c].data = buf[c].data
  <2>1. buf \in [Buf -> Rec]
    BY DEF IInv, TypeOK, Rec
  <2>2. /\ buf'[b] = [buf[b] EXCEPT !.refcnt = buf[b].refcnt + 1]
        /\ \A c \in Buf : c # b => buf'[c] = buf[c]
    BY <1>1, <1>3, <2>1
  <2>3. buf[b] \in Rec
    BY <1>1, <2>1
  <2>4. /\ buf'[b].refcnt = buf[b].refcnt + 1
        /\ buf'[b].blockno = buf[b].blockno /\ buf'[b].valid = buf[b].valid
        /\ buf'[b].dirty = buf[b].dirty /\ buf'[b].data = buf[b].data
    BY <2>2, <2>3 DEF Rec
  <2> QED BY Zenon, <2>2, <2>4
<1>6. held[p] = 0 /\ held[p] # b
  BY <1>1, BioConstants DEF IInv, LockInv, Buf
<1>7. ASSUME NEW c \in Buf
      PROVE  /\ buf'[c].refcnt = Cardinality({q \in Hand : held'[q] = c})
             /\ buf'[c].refcnt \in 0 .. Cardinality(Hand)
  <2>1. held \in [Hand -> Buf \union {0}] /\ b \in Buf \union {0}
    BY <1>1 DEF IInv, TypeOK
  <2>2. held[p] # c
    BY <1>6, BioConstants DEF Buf
  <2>3. buf[c].refcnt = Cardinality({q \in Hand : held[q] = c})
    BY DEF IInv, OneCopy
  <2>4. CASE c = b
    <3>1. LET n == Cardinality({q \in Hand : held[q] = c})
              m == Cardinality({q \in Hand : held'[q] = c})
          IN m \in 0 .. Cardinality(Hand) /\ m = n + 1
      <4>1. held' = [held EXCEPT ![p] = c] /\ c \in Buf \union {0}
        BY <1>2, <2>4
      <4> QED BY <2>1, <2>2, <4>1, UsersCounted
    <3> QED BY <1>5, <2>3, <2>4, <3>1
  <2>5. CASE c # b
    <3>1. LET n == Cardinality({q \in Hand : held[q] = c})
              m == Cardinality({q \in Hand : held'[q] = c})
          IN m \in 0 .. Cardinality(Hand) /\ m = n
      BY <1>2, <2>1, <2>2, <2>5, UsersCounted
    <3> QED BY <1>5, <2>3, <2>5, <3>1
  <2> QED BY <2>4, <2>5
<1>8. TypeOK'
  <2>1. buf' \in [Buf -> Rec]
    <3>1. [buf[b] EXCEPT !.refcnt = buf[b].refcnt + 1] \in Rec
      <4>1. buf[b] \in Rec
        BY <1>1 DEF IInv, TypeOK, Rec
      <4>2. buf[b].refcnt + 1 \in 0 .. Cardinality(Hand)
        BY Zenon, <1>1, <1>5, <1>7
      <4> QED BY <4>1, <4>2 DEF Rec
    <3>2. buf \in [Buf -> Rec]
      BY DEF IInv, TypeOK, Rec
    <3> QED BY Zenon, <1>3, <3>1, <3>2
  <2> QED BY <1>2, <1>4, <2>1 DEF IInv, TypeOK, Rec
<1>9. OneCopy'
  BY <1>5, <1>7 DEF IInv, OneCopy
<1>10. FlagInv'
  <2>1. ASSUME NEW q \in Hand
        PROVE  /\ pc'[q] # "idle" => buf'[held'[q]].blockno # None
               /\ pc'[q] \in {"use", "releasesleep", "awake"} => buf'[held'[q]].valid
               /\ pc'[q] = "awake" => ~buf'[held'[q]].dirty
               /\ pc'[q] \in {"iderw", "sleep"} => ~buf'[held'[q]].valid \/ buf'[held'[q]].dirty
    <3>1. CASE q = p
      BY <1>1, <1>4, <1>5, <3>1, BioConstants
    <3>2. CASE q # p
      <4>1. pc'[q] = pc[q] /\ held'[q] = held[q] /\ (pc[q] # "idle" => held[q] \in Buf)
        BY <1>4, <3>2, HeldBuffer
      <4> QED BY <1>5, <4>1 DEF IInv, FlagInv
    <3> QED BY <3>1, <3>2
  <2>2. \A c \in Buf : (buf'[c].dirty => buf'[c].valid) /\ (buf'[c].valid => buf'[c].blockno # None)
    BY <1>5 DEF IInv, FlagInv
  <2> QED BY <2>1, <2>2 DEF FlagInv
<1>11. LoggedInv'
  <2>1. Logged' \subseteq Logged
    BY <1>2, <1>4, <1>5 DEF Logged
  <2> QED BY <2>1, LoggedShrinks DEF IInv
<1>12. DataInv => DataInv'
  <2>1. \A j \in Block : Hits(j)' = Hits(j)
    BY <1>5 DEF Hits
  <2> QED BY <1>2, <1>5, <2>1 DEF DataInv
<1>13. PanicInv'
  BY <1>1, <1>2 DEF PanicInv
<1> QED BY Zenon, <1>4, <1>8, <1>9, <1>10, <1>11, <1>12, <1>13 DEF IInv

\* bget() gives the block a buffer that held another one.
LEMMA BgetRecycle ==
    ASSUME IInv, NEW p \in Hand, NEW k \in Block, bget(p, k), Hits(k) = {}, Unused # {}
    PROVE  IInv'
<1> DEFINE b == Recycled
<1>1. b \in Buf /\ buf[b].refcnt = 0 /\ ~buf[b].dirty /\ pc[p] = "idle" /\ panic = "none"
  <2>1. b \in Unused
    BY RecycledUnused DEF IInv
  <2> QED BY <2>1 DEF Unused, bget, At
<1>2. /\ held' = [held EXCEPT ![p] = b] /\ pc' = [pc EXCEPT ![p] = "acquiresleep"]
      /\ UNCHANGED <<lru, lock, idequeue, busy, disk, written>> /\ panic' = "none"
  BY Zenon, <1>1 DEF bget, Goto
<1>3. buf' = [buf EXCEPT ![b] = [blockno |-> k, refcnt |-> 1, valid |-> FALSE, dirty |-> FALSE,
                                 data |-> buf[b].data]]
  BY <1>1 DEF bget, IInv, TypeOK
<1> HIDE DEF b
<1>4. /\ LockInv' /\ QueueInv'
      /\ held' \in [Hand -> Buf \union {0}]
      /\ pc' \in [Hand -> {"idle", "acquiresleep", "use", "iderw", "sleep", "awake",
                          "releasesleep", "drop"}]
      /\ pc'[p] = "acquiresleep" /\ held'[p] = b
      /\ \A q \in Hand : q # p => pc'[q] = pc[q] /\ held'[q] = held[q]
      /\ \A c \in Buf : lock[c] # None => lock[c] \in Hand /\ lock[c] # p
  BY Zenon, <1>1, <1>2, UserAdded
<1>5. /\ buf'[b].blockno = k /\ buf'[b].refcnt = 1 /\ ~buf'[b].valid /\ ~buf'[b].dirty
      /\ \A c \in Buf : c # b => buf'[c] = buf[c]
  BY <1>1, <1>3 DEF IInv, TypeOK
<1>6. k # None /\ \A c \in Buf : buf[c].blockno # k
  BY BioConstants DEF Hits
<1>7. ASSUME NEW c \in Buf
      PROVE  /\ buf'[c].refcnt = Cardinality({q \in Hand : held'[q] = c})
             /\ buf'[c].refcnt \in 0 .. Cardinality(Hand)
  <2>1. held \in [Hand -> Buf \union {0}] /\ b \in Buf \union {0}
    BY <1>1 DEF IInv, TypeOK
  <2>2. held[p] # c
    BY <1>1, BioConstants DEF IInv, LockInv, Buf
  <2>3. buf[c].refcnt = Cardinality({q \in Hand : held[q] = c})
    BY DEF IInv, OneCopy
  <2>4. CASE c = b
    <3>1. LET n == Cardinality({q \in Hand : held[q] = c})
              m == Cardinality({q \in Hand : held'[q] = c})
          IN m \in 0 .. Cardinality(Hand) /\ m = n + 1
      <4>1. held' = [held EXCEPT ![p] = c] /\ c \in Buf \union {0}
        BY <1>2, <2>4
      <4> QED BY <2>1, <2>2, <4>1, UsersCounted
    <3> QED BY <1>1, <1>5, <2>3, <2>4, <3>1
  <2>5. CASE c # b
    <3>1. LET n == Cardinality({q \in Hand : held[q] = c})
              m == Cardinality({q \in Hand : held'[q] = c})
          IN m \in 0 .. Cardinality(Hand) /\ m = n
      BY <1>2, <2>1, <2>2, <2>5, UsersCounted
    <3> QED BY <1>5, <2>3, <2>5, <3>1
  <2> QED BY <2>4, <2>5
<1>8. TypeOK'
  <2>1. buf' \in [Buf -> Rec]
    <3>1. [blockno |-> k, refcnt |-> 1, valid |-> FALSE, dirty |-> FALSE, data |-> buf[b].data] \in Rec
      <4>1. 1 \in 0 .. Cardinality(Hand)
        BY Zenon, <1>1, <1>5, <1>7
      <4>2. buf[b].data \in Val
        BY <1>1 DEF IInv, TypeOK
      <4> QED BY <4>1, <4>2 DEF Rec
    <3>2. buf \in [Buf -> Rec]
      BY DEF IInv, TypeOK, Rec
    <3> QED BY Zenon, <1>3, <3>1, <3>2
  <2> QED BY Zenon, <1>2, <1>4, <2>1 DEF IInv, TypeOK, Rec
<1>9. OneCopy'
  <2>1. ASSUME NEW c \in Buf, NEW d \in Buf, buf'[c].blockno = buf'[d].blockno, buf'[c].blockno # None
        PROVE  c = d
    BY <1>5, <1>6, <2>1 DEF IInv, OneCopy
  <2> QED BY <1>7, <2>1 DEF OneCopy
<1>10. FlagInv'
  <2>1. ASSUME NEW q \in Hand
        PROVE  /\ pc'[q] # "idle" => buf'[held'[q]].blockno # None
               /\ pc'[q] \in {"use", "releasesleep", "awake"} => buf'[held'[q]].valid
               /\ pc'[q] = "awake" => ~buf'[held'[q]].dirty
               /\ pc'[q] \in {"iderw", "sleep"} => ~buf'[held'[q]].valid \/ buf'[held'[q]].dirty
    <3>1. CASE q = p
      BY <1>4, <1>5, <1>6, <3>1
    <3>2. CASE q # p
      <4>1. pc'[q] = pc[q] /\ held'[q] = held[q] /\ (pc[q] # "idle" => held[q] \in Buf)
        BY <1>4, <3>2, HeldBuffer
      <4>2. held[q] # b
        BY <1>1, UnusedUnlocked
      <4> QED BY <1>5, <4>1, <4>2 DEF IInv, FlagInv
    <3> QED BY <3>1, <3>2
  <2>2. \A c \in Buf : (buf'[c].dirty => buf'[c].valid) /\ (buf'[c].valid => buf'[c].blockno # None)
    BY <1>5 DEF IInv, FlagInv
  <2> QED BY <2>1, <2>2 DEF FlagInv
<1>11. LoggedInv'
  <2>1. Logged' \subseteq Logged
    BY <1>2, <1>4, <1>5 DEF Logged
  <2> QED BY <2>1, LoggedShrinks DEF IInv
<1>12. ASSUME DataInv PROVE DataInv'
  <2>1. \A c \in Buf : buf'[c].valid => buf'[c].data = written'[buf'[c].blockno]
    BY Zenon, <1>2, <1>5, <1>12 DEF DataInv
  <2>2. disk[k] = written[k]
    BY <1>12 DEF DataInv
  <2>3. \A c \in Buf : buf'[c].blockno # None /\ ~buf'[c].dirty
                         => disk'[buf'[c].blockno] = written'[buf'[c].blockno]
    BY <1>2, <1>5, <1>12, <2>2 DEF DataInv
  <2>4. ASSUME NEW j \in Block, Hits(j)' = {} PROVE disk'[j] = written'[j]
    <3>1. CASE buf[b].blockno = j
      BY Zenon, <1>1, <1>2, <1>12, <3>1, BioConstants DEF DataInv
    <3>2. CASE buf[b].blockno # j
      <4>1. Hits(j) = {}
        BY <1>5, <2>4, <3>2 DEF Hits
      <4> QED BY <1>2, <1>12, <4>1 DEF DataInv
    <3> QED BY <3>1, <3>2
  <2> QED BY Zenon, <2>1, <2>3, <2>4 DEF DataInv
<1>13. PanicInv'
  BY <1>2 DEF PanicInv
<1> QED BY Zenon, <1>4, <1>8, <1>9, <1>10, <1>11, <1>12, <1>13 DEF IInv

LEMMA BgetStep ==
    ASSUME IInv, NEW p \in Hand, NEW k \in Block, bget(p, k)
    PROVE  IInv'
<1>1. CASE Hits(k) # {}
  BY <1>1, BgetHit
<1>2. CASE Hits(k) = {} /\ Unused # {}
  BY <1>2, BgetRecycle
<1>3. CASE Hits(k) = {} /\ Unused = {}
  <2>1. panic' = "bget" /\ UNCHANGED <<buf, held, pc, lru, lock, idequeue, busy, disk, written>>
    BY Zenon, <1>3 DEF bget
  <2>3. TypeOK' /\ OneCopy' /\ LockInv'
    BY <2>1 DEF IInv, TypeOK, OneCopy, LockInv
  <2>4. FlagInv' /\ QueueInv' /\ LoggedInv'
    BY <2>1 DEF IInv, FlagInv, QueueInv, Queued, LoggedInv, Logged
  <2>5. DataInv => DataInv'
    BY <2>1 DEF DataInv, Hits
  <2>6. PanicInv'
    BY <1>3, <2>1 DEF PanicInv, Unused
  <2> QED BY Zenon, <2>3, <2>4, <2>5, <2>6 DEF IInv
<1> QED BY <1>1, <1>2, <1>3

-----------------------------------------------------------------------------
(* The theorems.                                                             *)

\* binit() establishes the invariant.
LEMMA InitInvariant == Init => IInv
<1> SUFFICES ASSUME Init PROVE IInv
  OBVIOUS
<1>1. /\ disk \in [Block -> Val] /\ written = disk
      /\ lock = [b \in Buf |-> None] /\ idequeue = <<>> /\ busy = FALSE
      /\ pc = [p \in Hand |-> "idle"] /\ held = [p \in Hand |-> 0] /\ panic = "none"
  BY DEF Init
<1>2. lru \in [Buf -> Buf] /\ \A b \in Buf : \E k \in Buf : lru[k] = b
  <2>1. lru = [k \in Buf |-> NBUF + 1 - k]
    BY DEF Init
  <2>2. \A k \in Buf : NBUF + 1 - k \in Buf /\ NBUF + 1 - (NBUF + 1 - k) = k
    BY BioConstants DEF Buf
  <2> QED BY <2>1, <2>2
<1> DEFINE r == [blockno |-> None, refcnt |-> 0, valid |-> FALSE, dirty |-> FALSE,
                 data |-> CHOOSE v \in Val : TRUE]
<1>3. buf = [b \in Buf |-> r]
  BY DEF Init
<1>4. r \in Rec
  <2>1. (CHOOSE v \in Val : TRUE) \in Val
    BY BioConstants
  <2>2. Cardinality(Hand) \in Nat
    BY BioConstants, FS_CardinalityType
  <2> QED BY <2>1, <2>2 DEF Rec
<1>5. \A b \in Buf : /\ buf[b].blockno = None /\ buf[b].refcnt = 0
                     /\ ~buf[b].valid /\ ~buf[b].dirty
  BY <1>3
<1> HIDE DEF r
<1>6. TypeOK
  <2>1. buf \in [Buf -> Rec]
    BY <1>3, <1>4
  <2>2. lock \in [Buf -> Hand \union {None}] /\ held \in [Hand -> Buf \union {0}]
    BY <1>1
  <2>3. pc \in [Hand -> {"idle", "acquiresleep", "use", "iderw", "sleep", "awake",
                        "releasesleep", "drop"}]
    BY <1>1
  <2>4. idequeue \in Seq(Buf) /\ busy \in BOOLEAN /\ panic \in {"none", "bget", "iderw"}
    <3>1. <<>> \in Seq(Buf)
      OBVIOUS
    <3> QED BY Zenon, <1>1, <3>1
  <2>5. disk \in [Block -> Val] /\ written \in [Block -> Val]
    BY <1>1
  <2> QED BY <1>2, <2>1, <2>2, <2>3, <2>4, <2>5 DEF TypeOK, Rec
<1>7. OneCopy
  <2>1. ASSUME NEW b \in Buf PROVE Cardinality({p \in Hand : held[p] = b}) = 0
    <3>1. {p \in Hand : held[p] = b} = {}
      BY <1>1, BioConstants DEF Buf
    <3> QED BY <3>1, FS_EmptySet
  <2> QED BY <1>5, <2>1 DEF OneCopy
<1>8. LockInv /\ FlagInv
  BY <1>1, <1>5 DEF LockInv, FlagInv, Using
<1>9. QueueInv
  BY <1>1 DEF QueueInv, Queued
<1>10. LoggedInv
  <2>1. Logged = {}
    BY <1>5 DEF Logged
  <2> QED BY <2>1, FS_EmptySet, BioConstants DEF LoggedInv
<1>11. DataInv
  BY <1>1, <1>5 DEF DataInv
<1>12. PanicInv
  BY <1>1 DEF PanicInv
<1> QED BY <1>6, <1>7, <1>8, <1>9, <1>10, <1>11, <1>12 DEF IInv

\* Every step of a process and every interrupt keeps the invariant.
LEMMA NextInvariant == IInv /\ [Next]_vars => IInv'
<1> SUFFICES ASSUME IInv, [Next]_vars PROVE IInv'
  OBVIOUS
<1>1. ASSUME NEW p \in Hand, Step(p) PROVE IInv'
  BY <1>1, AcquiredStep, WriteStep, BrelseStep, IderwStep, AwakeStep, BrelseDropStep DEF Step
<1>2. CASE \E p \in Hand : \E k \in Block : bget(p, k)
  BY <1>2, BgetStep
<1>3. CASE \E fails \in ReadFails : ideintr(fails)
  BY <1>3, IdeintrStep
<1>4. CASE UNCHANGED vars
  <2>1. UNCHANGED <<buf, held, pc, lru, lock, idequeue, busy, disk, written, panic>>
    BY <1>4 DEF vars
  <2>2. TypeOK' /\ OneCopy' /\ LockInv' /\ PanicInv'
    BY <2>1 DEF IInv, TypeOK, OneCopy, LockInv, PanicInv, Unused
  <2>3. FlagInv' /\ QueueInv' /\ LoggedInv'
    BY <2>1 DEF IInv, FlagInv, QueueInv, Queued, LoggedInv, Logged
  <2>4. DataInv => DataInv'
    BY <2>1 DEF DataInv, Hits
  <2> QED BY Zenon, <2>2, <2>3, <2>4 DEF IInv
<1> QED BY <1>1, <1>2, <1>3, <1>4 DEF Next, halt

\* The inductive invariant of the buffer cache.
THEOREM Invariance == Spec => []IInv
<1> QED BY InitInvariant, NextInvariant, PTL DEF Spec

\* Type correctness: in particular the list of buffers always has every buffer,
\* whatever brelse() moves.
THEOREM TypeCorrect == Spec => []TypeOK
<1>1. IInv => TypeOK
  BY DEF IInv
<1> QED BY <1>1, Invariance, PTL

\* bget() never caches a block twice, and refcnt counts a buffer's users.
THEOREM CachedOnce == Spec => []OneCopy
<1>1. IInv => OneCopy
  BY DEF IInv
<1> QED BY <1>1, Invariance, PTL

\* If the disk does not fail to read, bread() returns what was written last,
\* through any sequence of recycling, pinning and queued requests.
THEOREM ReadsAreCurrent == TRUE \notin ReadFails => (Spec => []ReadsLastWrite)
<1>1. ASSUME TRUE \notin ReadFails, IInv PROVE ReadsLastWrite
  <2>1. DataInv /\ OneCopy
    BY <1>1 DEF IInv
  <2>2. ASSUME NEW k \in Block, NEW b \in Hits(k), buf[b].valid
        PROVE  \A c \in Hits(k) : buf[c].data = written[k]
    <3>1. k # None
      BY BioConstants
    <3>2. \A c \in Hits(k) : c = b
      BY <2>1, <3>1 DEF OneCopy, Hits
    <3> QED BY <2>1, <2>2, <3>2 DEF DataInv, Hits
  <2>3. ASSUME NEW k \in Block, ~ \E b \in Hits(k) : buf[b].valid
        PROVE  disk[k] = written[k]
    <3>1. CASE Hits(k) = {}
      BY <2>1, <3>1 DEF DataInv
    <3>2. CASE Hits(k) # {}
      <4>1. PICK b \in Buf : buf[b].blockno = k /\ ~buf[b].valid
        BY <2>3, <3>2 DEF Hits
      <4>2. ~buf[b].dirty /\ k # None
        BY <1>1, <4>1, BioConstants DEF IInv, FlagInv
      <4> QED BY <2>1, <4>1, <4>2 DEF DataInv
    <3> QED BY <3>1, <3>2
  <2> QED BY <2>2, <2>3 DEF ReadsLastWrite
<1>2. TRUE \notin ReadFails /\ IInv => ReadsLastWrite
  BY <1>1
<1>3. CASE TRUE \notin ReadFails
  <2>1. IInv => ReadsLastWrite
    BY <1>2, <1>3
  <2> QED BY <2>1, Invariance, PTL
<1> QED BY <1>3

\* Every process asleep in iderw() has its request in the queue, and the disk
\* works as long as there is one: no sleeper is forgotten.
THEOREM RequestsAreServed == Spec => []RequestsServed
<1>1. IInv => RequestsServed
  BY DEF IInv, QueueInv, PanicInv, RequestsServed
<1> QED BY <1>1, Invariance, PTL

\* bget() gives up only when every buffer is in the hands of a process or pinned
\* by the log, however many buffers there are: neither brelse() nor ideintr()
\* ever leaves a reference or B_DIRTY behind.
THEOREM GivesUpWhenFull == Spec => []FullWhenUsed
<1>1. ASSUME IInv PROVE FullWhenUsed
  <2>1. ASSUME panic = "bget", NEW b \in Buf \ Logged PROVE \E h \in Hand : held[h] = b
    BY <1>1, <2>1, AllInUse DEF IInv, PanicInv
  <2> QED BY <1>1, <2>1 DEF IInv, LoggedInv, FullWhenUsed
<1> QED BY <1>1, Invariance, PTL
====
