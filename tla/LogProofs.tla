------------------------------ MODULE LogProofs -------------------------------
(***************************************************************************)
(* Proofs about Log: the type invariant, the admission argument of          *)
(* begin_op() (the log never overflows, its panics never fire) and the      *)
(* absence of lost wakeups, for any number of threads, blocks and values.   *)
(***************************************************************************)
EXTENDS Log, FiniteSetTheorems, TLAPS

-------------------------------------------------------------------------------
(* Counting reserved log entries.                                          *)

\* Reserved, as a function of the calls in progress and of what they wrote.
ReservedBy(A, w) ==
    {x \in A \X (1 .. MAXOPBLOCKS) : x[2] > Cardinality(w[x[1]])}

\* A call has written a finite set of at most OpBlocks blocks.
Writes(w) ==
    \A p \in Proc : IsFiniteSet(w[p]) /\ Cardinality(w[p]) <= OpBlocks

\* The reservations are finite, and at most MAXOPBLOCKS for each call: what
\* begin_op() adds up before it admits one more.
LEMMA ReservedFinite ==
    ASSUME NEW A \in SUBSET Proc, NEW w
    PROVE  /\ IsFiniteSet(A) /\ Cardinality(A) \in Nat
           /\ IsFiniteSet(ReservedBy(A, w))
           /\ Cardinality(ReservedBy(A, w)) \in Nat
           /\ Cardinality(ReservedBy(A, w)) <= Cardinality(A) * MAXOPBLOCKS
<1>1. IsFiniteSet(A) /\ Cardinality(A) \in Nat
  BY LogConstants, FS_Subset, FS_CardinalityType
<1>2. /\ IsFiniteSet(1 .. MAXOPBLOCKS)
      /\ Cardinality(1 .. MAXOPBLOCKS) = MAXOPBLOCKS
  <2>1. 1 \in Int /\ MAXOPBLOCKS \in Int /\ MAXOPBLOCKS >= 1
    BY LogConstants
  <2> QED  BY <2>1, FS_Interval
<1>3. /\ IsFiniteSet(A \X (1 .. MAXOPBLOCKS))
      /\ Cardinality(A \X (1 .. MAXOPBLOCKS)) = Cardinality(A) * MAXOPBLOCKS
  BY Zenon, <1>1, <1>2, FS_Product
<1>4. ReservedBy(A, w) \in SUBSET (A \X (1 .. MAXOPBLOCKS))
  BY DEF ReservedBy
<1>5. /\ IsFiniteSet(ReservedBy(A, w))
      /\ Cardinality(ReservedBy(A, w)) <= Cardinality(A \X (1 .. MAXOPBLOCKS))
  BY <1>3, <1>4, FS_Subset
<1> QED  BY <1>1, <1>3, <1>5, FS_CardinalityType

\* When a call ends, what it gives back is at least its slack.
LEMMA ReservedEnd ==
    ASSUME NEW A \in SUBSET Proc, NEW w, Writes(w), NEW p \in A
    PROVE  Cardinality(ReservedBy(A, w))
             >= Cardinality(ReservedBy(A \ {p}, w)) + Slack
<1> DEFINE R == ReservedBy(A \ {p}, w)
           S == ReservedBy({p}, w)
           U == {p} \X ((OpBlocks + 1) .. MAXOPBLOCKS)
<1>1. ReservedBy(A, w) = R \cup S
  BY DEF ReservedBy
<1>2. R \cap S = {}
  BY DEF ReservedBy
<1>3. /\ IsFiniteSet(R) /\ Cardinality(R) \in Nat
      /\ IsFiniteSet(S) /\ Cardinality(S) \in Nat
  <2>1. A \ {p} \in SUBSET Proc /\ {p} \in SUBSET Proc
    OBVIOUS
  <2> QED  BY Zenon, <2>1, ReservedFinite
<1>4. Cardinality(ReservedBy(A, w)) = Cardinality(R) + Cardinality(S)
  <2>1. Cardinality(R \cup S)
          = Cardinality(R) + Cardinality(S) - Cardinality(R \cap S)
    BY Zenon, <1>3, FS_Union
  <2>2. Cardinality(R \cap S) = 0
    BY <1>2, FS_EmptySet
  <2> HIDE DEF R, S
  <2> QED  BY <1>1, <1>3, <2>1, <2>2
<1>5. IsFiniteSet(U) /\ Cardinality(U) = Slack
  <2>1. /\ OpBlocks + 1 \in Int /\ MAXOPBLOCKS \in Int
        /\ OpBlocks <= MAXOPBLOCKS /\ OpBlocks \in Nat
    BY LogConstants
  <2>2. /\ IsFiniteSet((OpBlocks + 1) .. MAXOPBLOCKS)
        /\ Cardinality((OpBlocks + 1) .. MAXOPBLOCKS) = MAXOPBLOCKS - OpBlocks
    <3> DEFINE lo == OpBlocks + 1
    <3>1. lo \in Int /\ (lo > MAXOPBLOCKS => MAXOPBLOCKS - OpBlocks = 0)
          /\ MAXOPBLOCKS - lo + 1 = MAXOPBLOCKS - OpBlocks
      BY <2>1
    <3> HIDE DEF lo
    <3>2. /\ IsFiniteSet(lo .. MAXOPBLOCKS)
          /\ Cardinality(lo .. MAXOPBLOCKS) = MAXOPBLOCKS - OpBlocks
      BY <2>1, <3>1, FS_Interval
    <3> QED  BY <3>2 DEF lo
  <2>3. IsFiniteSet({p}) /\ Cardinality({p}) = 1
    BY Zenon, FS_Singleton
  <2>4. /\ IsFiniteSet(U)
        /\ Cardinality(U)
             = Cardinality({p}) * Cardinality((OpBlocks + 1) .. MAXOPBLOCKS)
    BY Zenon, <2>2, <2>3, FS_Product
  <2> QED  BY <2>1, <2>2, <2>3, <2>4 DEF Slack
<1>6. U \subseteq S
  <2>1. Cardinality(w[p]) <= OpBlocks /\ Cardinality(w[p]) \in Nat
    BY FS_CardinalityType DEF Writes
  <2>2. OpBlocks \in Nat /\ MAXOPBLOCKS \in Nat
    BY LogConstants
  <2> QED  BY <2>1, <2>2 DEF ReservedBy
<1>7. Cardinality(U) <= Cardinality(S)
  BY Zenon, <1>3, <1>6, FS_Subset
<1> HIDE DEF R, S, U
<1>8. Slack \in Nat
  BY LogConstants DEF Slack
<1> QED  BY <1>3, <1>4, <1>5, <1>7, <1>8 DEF R

\* A call in progress keeps its slack reserved, two calls keep it twice.
LEMMA ReservedSlack ==
    ASSUME NEW A \in SUBSET Proc, NEW w, Writes(w), NEW p \in A
    PROVE  /\ Cardinality(ReservedBy(A, w)) >= Slack
           /\ \A q \in A : q # p => Cardinality(ReservedBy(A, w)) >= 2 * Slack
<1>1. /\ Cardinality(ReservedBy(A, w)) \in Nat
      /\ Cardinality(ReservedBy(A \ {p}, w)) \in Nat
  BY Zenon, ReservedFinite
<1>2. Slack \in Nat
  BY LogConstants DEF Slack
<1>3. Cardinality(ReservedBy(A, w)) >= Cardinality(ReservedBy(A \ {p}, w)) + Slack
  BY ReservedEnd
<1>4. ASSUME NEW q \in A, q # p
      PROVE  Cardinality(ReservedBy(A, w)) >= 2 * Slack
  <2>1. Cardinality(ReservedBy((A \ {p}) \ {q}, w)) \in Nat
    BY Zenon, ReservedFinite
  <2>2. q \in A \ {p} /\ A \ {p} \in SUBSET Proc
    BY <1>4
  <2>3. Cardinality(ReservedBy(A \ {p}, w))
          >= Cardinality(ReservedBy((A \ {p}) \ {q}, w)) + Slack
    BY <2>2, ReservedEnd
  <2> QED  BY <1>1, <1>2, <1>3, <2>1, <2>3
<1> QED  BY <1>1, <1>2, <1>3, <1>4

\* Writing one more block uses up exactly one reserved entry.
LEMMA ReservedUse ==
    ASSUME NEW A \in SUBSET Proc, NEW w \in [Proc -> SUBSET Block], Writes(w),
           NEW p \in A, NEW b, b \notin w[p], Cardinality(w[p]) < MAXOPBLOCKS
    PROVE  Cardinality(ReservedBy(A, [w EXCEPT ![p] = @ \union {b}]))
             = Cardinality(ReservedBy(A, w)) - 1
<1> DEFINE w2 == [w EXCEPT ![p] = @ \union {b}]
           k == Cardinality(w[p])
<1>1. p \in Proc /\ k \in Nat /\ IsFiniteSet(w[p])
  BY FS_CardinalityType DEF Writes
<1>2. /\ w2[p] = w[p] \union {b}
      /\ \A q \in A : q # p => w2[q] = w[q]
  BY <1>1
<1>3. Cardinality(w2[p]) = k + 1
  BY Zenon, <1>1, <1>2, FS_AddElement
<1>4. \A q \in Proc : Cardinality(w[q]) \in Nat
  BY FS_CardinalityType DEF Writes
<1>5. ReservedBy(A, w2) = ReservedBy(A, w) \ {<<p, k + 1>>}
  <2>1. ASSUME NEW q \in A, NEW n \in 1 .. MAXOPBLOCKS
        PROVE  n > Cardinality(w2[q])
                 <=> n > Cardinality(w[q]) /\ <<q, n>> # <<p, k + 1>>
    <3>1. CASE q = p
      BY <1>1, <1>3, <3>1
    <3>2. CASE q # p
      BY <1>2, <3>2
    <3> QED  BY <3>1, <3>2
  <2> HIDE DEF w2, k
  <2> QED  BY <2>1 DEF ReservedBy
<1>6. <<p, k + 1>> \in ReservedBy(A, w)
  BY <1>1, LogConstants DEF ReservedBy
<1>7. IsFiniteSet(ReservedBy(A, w))
  BY ReservedFinite
<1> HIDE DEF w2, k
<1>8. Cardinality(ReservedBy(A, w2)) = Cardinality(ReservedBy(A, w)) - 1
  <2> DEFINE R == ReservedBy(A, w)
             e == <<p, k + 1>>
  <2>1. ReservedBy(A, w2) = R \ {e} /\ e \in R /\ IsFiniteSet(R)
    BY <1>5, <1>6, <1>7
  <2> HIDE DEF R, e
  <2>2. Cardinality(R \ {e}) = Cardinality(R) - 1
    BY Zenon, <2>1, FS_RemoveElement
  <2> QED  BY <2>1, <2>2 DEF R
<1> QED  BY <1>8 DEF w2

-------------------------------------------------------------------------------
(* The inductive invariant.                                                *)

\* The reservations of the state are those of its calls.
LEMMA ReservedState ==
    /\ Reserved = ReservedBy(Active, wrote)
    /\ Active \in SUBSET Proc
BY DEF Reserved, ReservedBy, Active

\* The same in the next state.
LEMMA ReservedState2 ==
    /\ Reserved' = ReservedBy(Active', wrote')
    /\ Active' \in SUBSET Proc
BY DEF Reserved, ReservedBy, Active

\* Without a call in progress nothing is reserved.
LEMMA ReservedNone ==
    ASSUME NEW w
    PROVE  Cardinality(ReservedBy({}, w)) = 0 /\ Cardinality({}) = 0
<1>1. ReservedBy({}, w) = {}
  BY DEF ReservedBy
<1> QED  BY <1>1, FS_EmptySet

\* The numbers that the invariant compares are natural numbers.
LEMMA Numbers ==
    ASSUME IInv
    PROVE  /\ Len(lh) \in Nat /\ Len(dhead) \in Nat /\ tail \in Nat
           /\ outstanding \in Nat
           /\ Cardinality(Reserved) \in Nat /\ IsFiniteSet(Active)
           /\ MAXOPBLOCKS \in Nat /\ LOGSIZE \in Nat /\ NLOG \in Nat
           /\ OpBlocks \in Nat /\ Slack \in Nat /\ OpBlocks + Slack = MAXOPBLOCKS
           /\ Writes(wrote)
<1>1. Len(lh) \in Nat /\ Len(dhead) \in Nat /\ tail \in Nat
  BY DEF IInv, TypeOK
<1>2. outstanding \in Nat
  BY LogConstants, FS_CardinalityType DEF IInv, TypeOK
<1>3. Cardinality(Reserved) \in Nat /\ IsFiniteSet(Active)
  BY Zenon, ReservedState, ReservedFinite
<1>4. /\ MAXOPBLOCKS \in Nat /\ LOGSIZE \in Nat /\ NLOG \in Nat
      /\ OpBlocks \in Nat /\ Slack \in Nat /\ OpBlocks + Slack = MAXOPBLOCKS
  BY LogConstants DEF Slack
<1>5. Writes(wrote)
  BY Zenon DEF IInv, WroteInv, Writes
<1> QED  BY <1>1, <1>2, <1>3, <1>4, <1>5

\* A step that neither logs a block nor starts or ends a call keeps the room.
LEMMA RoomFrame ==
    ASSUME RoomInv, Active' = Active, UNCHANGED <<lh, dhead, wrote>>
    PROVE  RoomInv'
<1>1. Reserved' = Reserved
  BY DEF Reserved
<1> QED  BY <1>1 DEF RoomInv, Fits

\* A state in which no call is in progress has room when its logs fit.
LEMMA RoomEmpty ==
    ASSUME Active' = {}, lh' \in Seq(Block), dhead' \in Seq(Block),
           Len(lh') <= LOGSIZE, Fits(Len(lh')),
           Len(dhead') <= LOGSIZE, Fits(Len(dhead'))
    PROVE  RoomInv'
<1>1. Cardinality(Reserved') = 0
  BY ReservedState2, ReservedNone
<1>2. Len(lh') \in Nat /\ LOGSIZE \in Nat
  BY LogConstants
<1>3. Len(lh') + Cardinality(Reserved') <= LOGSIZE
  BY <1>1, <1>2
<1> QED  BY <1>3 DEF RoomInv, Fits

\* An empty log fits.
LEMMA FitsEmpty == Fits(0) /\ Len(<<>>) = 0 /\ 0 <= LOGSIZE
BY LogConstants DEF Fits

\* mkfs leaves an empty log, and the machine is off.
LEMMA InitIInv == Init => IInv
<1> SUFFICES ASSUME Init PROVE IInv
  OBVIOUS
<1>1. Cardinality(Proc) \in Nat
  BY LogConstants, FS_CardinalityType
<1>2. TypeOK
  <2>1. (CHOOSE v \in Val : TRUE) \in Val
    BY LogConstants
  <2>2. dlog \in [Slot -> Val]
    BY <2>1 DEF Init
  <2>3. /\ home \in [Block -> Val] /\ buf \in [Block -> Val \union {None}]
        /\ pc \in [Proc -> PC] /\ hold \in [Proc -> Block \union {None}]
        /\ wrote \in [Proc -> SUBSET Block]
    BY DEF Init, PC
  <2>4. /\ dhead \in Seq(Block) /\ lh \in Seq(Block) /\ dirty \subseteq Block
        /\ tail \in 0 .. Len(lh) /\ outstanding \in 0 .. Cardinality(Proc)
    BY <1>1, LogConstants DEF Init
  <2> QED  BY Zenon, <2>2, <2>3, <2>4 DEF Init, TypeOK
<1>3. Active = {} /\ Reserved = {}
  BY DEF Init, Active, Reserved, InOp
<1>4. CallsInv
  BY <1>3, FS_EmptySet DEF CallsInv, Init, InCommit
<1>5. EmptyInv
  BY DEF EmptyInv, Init
<1>6. WroteInv
  BY FS_EmptySet, LogConstants DEF WroteInv, Init
<1>7. RoomInv
  BY <1>3, FS_EmptySet, FitsEmpty, LogConstants DEF RoomInv, Init
<1>8. NoLostWakeup
  BY DEF NoLostWakeup, Init
<1> QED  BY <1>2, <1>4, <1>5, <1>6, <1>7, <1>8 DEF IInv

\* Reading and recycling buffers, and the unlocked test of log_write(), leave
\* the calls and the log alone.
LEMMA BufferStep ==
    ASSUME IInv,
           \/ \E p \in Proc : brelse(p)
           \/ \E p \in Proc, b \in Block : bread(p, b)
           \/ \E b \in Block : recycle(b)
    PROVE  IInv'
<1> USE DEF IInv
<1>1. /\ UNCHANGED <<lh, dhead, outstanding, committing, pc, wrote, tail, boot>>
      /\ \A q \in Proc : pc[q] = "log_write" => hold'[q] = hold[q]
  BY DEF brelse, bread, recycle, disk, cache, log, TypeOK
<1>2. TypeOK'
  <2>1. hold' \in [Proc -> Block \union {None}]
    BY DEF TypeOK, brelse, bread, recycle
  <2>2. buf' \in [Block -> Val \union {None}]
    BY DEF TypeOK, brelse, bread, recycle, cache, Contents
  <2>3. UNCHANGED <<home, dlog, dirty, panicked>>
    BY DEF brelse, bread, recycle, disk, cache
  <2> QED  BY <1>1, <2>1, <2>2, <2>3 DEF TypeOK
<1>3. Active' = Active
  BY <1>1 DEF Active
<1>4. CallsInv' /\ EmptyInv' /\ NoLostWakeup'
  BY <1>1, <1>3 DEF CallsInv, EmptyInv, NoLostWakeup
<1>5. WroteInv'
  BY Zenon, <1>1 DEF WroteInv, LoggedBlocks
<1>6. RoomInv'
  BY <1>1, <1>3, RoomFrame
<1> QED  BY <1>2, <1>4, <1>5, <1>6

\* log_write()'s unlocked test changes a buffer and the place of the thread.
LEMMA TestStep ==
    ASSUME IInv, NEW p \in Proc, NEW v \in Val, log_write_test(p, v)
    PROVE  IInv'
<1> USE DEF IInv
<1>1. /\ UNCHANGED <<lh, dhead, outstanding, committing, wrote, tail, boot, hold>>
      /\ pc' = [pc EXCEPT ![p] = "log_write"]
      /\ pc[p] = "op" /\ hold[p] # None
      /\ Cardinality(wrote[p] \union {hold[p]}) <= OpBlocks
  BY DEF log_write_test, disk, log, Goto
<1>2. TypeOK'
  BY <1>1 DEF TypeOK, log_write_test, disk, log, PC, InOp
<1>3. Active' = Active
  BY <1>1 DEF Active, InOp, TypeOK
<1>4. CallsInv' /\ EmptyInv' /\ NoLostWakeup'
  BY <1>1, <1>3 DEF CallsInv, EmptyInv, NoLostWakeup, InOp, InCommit, TypeOK, log_write_test, Running
<1>5. WroteInv'
  BY Zenon, <1>1 DEF WroteInv, LoggedBlocks, TypeOK, InOp
<1>6. RoomInv'
  BY <1>1, <1>3, RoomFrame
<1> QED  BY <1>2, <1>4, <1>5, <1>6

\* A new caller of begin_op() is not a call in progress yet.
LEMMA CallStep ==
    ASSUME IInv, NEW p \in Proc, call(p)
    PROVE  IInv'
<1> USE DEF IInv
<1>1. /\ UNCHANGED <<lh, dhead, outstanding, committing, wrote, tail, boot, hold>>
      /\ UNCHANGED <<home, dlog, buf, dirty, panicked>>
      /\ pc' = [pc EXCEPT ![p] = "begin_op"]
      /\ pc[p] = "idle" /\ boot = "up"
  BY DEF call, disk, cache, log, Goto, Running
<1>2. TypeOK'
  BY <1>1 DEF TypeOK, PC
<1>3. Active' = Active
  BY <1>1 DEF Active, InOp, TypeOK
<1>4. CallsInv' /\ EmptyInv' /\ NoLostWakeup'
  BY <1>1, <1>3 DEF CallsInv, EmptyInv, NoLostWakeup, InOp, InCommit, TypeOK
<1>5. WroteInv'
  BY Zenon, <1>1 DEF WroteInv, LoggedBlocks, TypeOK, InOp
<1>6. RoomInv'
  BY <1>1, <1>3, RoomFrame
<1> QED  BY <1>2, <1>4, <1>5, <1>6

\* begin_op() goes to sleep only when a call or a commit will wake it, ...
LEMMA BeginSleepStep ==
    ASSUME IInv, NEW p \in Proc, begin_op(p), committing \/ NoRoom
    PROVE  IInv'
<1> USE DEF IInv
<1>1. /\ UNCHANGED <<lh, dhead, outstanding, committing, wrote, tail, boot, hold>>
      /\ UNCHANGED <<home, dlog, buf, dirty, panicked>>
      /\ pc' = [pc EXCEPT ![p] = "asleep"]
      /\ pc[p] = "begin_op" /\ boot = "up"
  BY DEF begin_op, disk, cache, Goto, Running
<1>2. TypeOK'
  BY <1>1 DEF TypeOK, PC
<1>3. Active' = Active
  BY <1>1 DEF Active, InOp, TypeOK
<1>4. CallsInv' /\ EmptyInv'
  BY <1>1, <1>3 DEF CallsInv, EmptyInv, InOp, InCommit, TypeOK
<1>5. WroteInv'
  BY Zenon, <1>1 DEF WroteInv, LoggedBlocks, TypeOK, InOp
<1>6. RoomInv'
  BY <1>1, <1>3, RoomFrame
<1>7. committing \/ outstanding > 0
  <2> SUFFICES ASSUME ~committing, outstanding = 0 PROVE FALSE
    BY Numbers
  <2>1. Len(lh) = 0
    BY <1>1 DEF EmptyInv
  <2> QED  BY <2>1, LogConstants DEF NoRoom
<1>8. NoLostWakeup'
  BY <1>1, <1>7 DEF NoLostWakeup
<1> QED  BY <1>2, <1>4, <1>5, <1>6, <1>8

\* ... and admits a call only when the log can take MAXOPBLOCKS more blocks
\* from it and from every call before it.
LEMMA BeginStep ==
    ASSUME IInv, NEW p \in Proc, begin_op(p), ~committing, ~NoRoom
    PROVE  IInv'
<1> USE DEF IInv
<1>1. /\ UNCHANGED <<lh, dhead, committing, wrote, tail, boot, hold>>
      /\ UNCHANGED <<home, dlog, buf, dirty, panicked>>
      /\ pc' = [pc EXCEPT ![p] = "op"]
      /\ outstanding' = outstanding + 1
      /\ pc[p] = "begin_op" /\ boot = "up"
  BY DEF begin_op, disk, cache, Goto, Running
<1>2. Active' = Active \union {p} /\ p \notin Active
  BY <1>1 DEF Active, InOp, TypeOK
<1>3. outstanding' = Cardinality(Active')
  BY Zenon, <1>1, <1>2, Numbers, FS_AddElement DEF CallsInv
<1>4. outstanding' \in 0 .. Cardinality(Proc)
  <2>1. /\ Cardinality(Active') <= Cardinality(Proc)
        /\ Cardinality(Active') \in Nat /\ Cardinality(Proc) \in Nat
    BY ReservedState2, LogConstants, FS_Subset, FS_CardinalityType
  <2> QED  BY <1>3, <2>1
<1>5. TypeOK'
  BY <1>1, <1>4 DEF TypeOK, PC, InOp
<1>6. CallsInv'
  BY <1>1, <1>3 DEF CallsInv, InOp, InCommit, TypeOK
<1>7. EmptyInv' /\ NoLostWakeup'
  BY <1>1, Numbers DEF EmptyInv, NoLostWakeup, TypeOK
<1>8. WroteInv'
  BY Zenon, <1>1 DEF WroteInv, LoggedBlocks, TypeOK, InOp
<1>9. RoomInv'
  <2> DEFINE k == (outstanding + 1) * MAXOPBLOCKS
  <2>1. k \in Nat
    BY Numbers
  <2>2. Cardinality(Reserved') \in Nat /\ Cardinality(Reserved') <= k
    BY <1>1, <1>3, ReservedState2, ReservedFinite
  <2>3. ~(Len(lh) + k > LOGSIZE)
    BY DEF NoRoom
  <2> HIDE DEF k
  <2>4. Len(lh') + Cardinality(Reserved') <= LOGSIZE
    BY <1>1, <2>1, <2>2, <2>3, Numbers
  <2>5. ASSUME NEW q \in Proc, Active' = {q}
        PROVE  Len(lh') <= Cardinality(wrote'[q])
    <3>1. Active = {} /\ q = p
      BY <1>2, <2>5
    <3>2. Len(lh) = 0
      BY <1>1, <3>1, FS_EmptySet DEF CallsInv, EmptyInv
    <3>3. wrote[q] = {}
      BY Zenon, <1>1, <3>1 DEF WroteInv, InOp
    <3> QED  BY <1>1, <3>2, <3>3, FS_EmptySet
  <2> QED  BY <1>1, <2>4, <2>5 DEF RoomInv, Fits
<1> QED  BY <1>5, <1>6, <1>7, <1>8, <1>9

\* log_write() appends a block or absorbs it into an entry that is there.
LEMMA LoggedAppend ==
    ASSUME IInv, NEW b \in Block,
           lh' = IF b \in LoggedBlocks THEN lh ELSE Append(lh, b)
    PROVE  /\ lh' \in Seq(Block)
           /\ LoggedBlocks' = LoggedBlocks \union {b}
           /\ Len(lh') = IF b \in LoggedBlocks THEN Len(lh) ELSE Len(lh) + 1
<1>1. lh \in Seq(Block)
  BY DEF IInv, TypeOK
<1>2. CASE b \in LoggedBlocks
  BY <1>1, <1>2 DEF LoggedBlocks
<1>3. CASE b \notin LoggedBlocks
  <2>1. /\ lh' \in Seq(Block) /\ Len(lh') = Len(lh) + 1 /\ lh'[Len(lh) + 1] = b
        /\ \A i \in 1 .. Len(lh) : lh'[i] = lh[i]
    BY <1>1, <1>3
  <2>2. Len(lh) \in Nat
    BY <1>1
  <2>3. LoggedBlocks' = {lh'[i] : i \in 1 .. (Len(lh) + 1)}
    BY <2>1 DEF LoggedBlocks
  <2>4. LoggedBlocks \subseteq LoggedBlocks' /\ b \in LoggedBlocks'
    BY <2>1, <2>2, <2>3 DEF LoggedBlocks
  <2>5. LoggedBlocks' \subseteq LoggedBlocks \union {b}
    <3> SUFFICES ASSUME NEW i \in 1 .. (Len(lh) + 1)
                 PROVE  lh'[i] \in LoggedBlocks \union {b}
      BY <2>3
    <3>1. i \in 1 .. Len(lh) \/ i = Len(lh) + 1
      BY <2>2
    <3> QED  BY <2>1, <3>1 DEF LoggedBlocks
  <2> QED  BY <1>3, <2>1, <2>4, <2>5
<1> QED  BY <1>2, <1>3

\* A block that log_write() adds to the log was reserved by the call.
LEMMA WriteStep ==
    ASSUME IInv, NEW p \in Proc, log_write(p)
    PROVE  IInv'
<1> USE DEF IInv
<1> DEFINE b == hold[p]
<1>1. /\ UNCHANGED <<dhead, outstanding, committing, tail, boot>>
      /\ UNCHANGED <<home, dlog, buf, panicked>>
      /\ pc' = [pc EXCEPT ![p] = "op"] /\ hold' = [hold EXCEPT ![p] = None]
      /\ wrote' = [wrote EXCEPT ![p] = @ \union {b}]
      /\ dirty' = dirty \union {b}
      /\ lh' = IF b \in LoggedBlocks THEN lh ELSE Append(lh, b)
      /\ pc[p] = "log_write" /\ boot = "up"
  BY DEF log_write, disk, Goto, Running
<1>2. b \in Block /\ Cardinality(wrote[p] \union {b}) <= OpBlocks
  BY <1>1 DEF WroteInv, TypeOK
<1> HIDE DEF b
<1>3. /\ lh' \in Seq(Block)
      /\ LoggedBlocks' = LoggedBlocks \union {b}
      /\ Len(lh') = IF b \in LoggedBlocks THEN Len(lh) ELSE Len(lh) + 1
  BY <1>1, <1>2, LoggedAppend
<1>4. Active' = Active /\ p \in Active
  BY <1>1 DEF Active, InOp, TypeOK
<1>5. TypeOK'
  <2>1. tail' \in 0 .. Len(lh')
    BY <1>1, <1>3, Numbers DEF TypeOK
  <2>2. /\ wrote' \in [Proc -> SUBSET Block] /\ dirty' \subseteq Block
        /\ hold' \in [Proc -> Block \union {None}] /\ pc' \in [Proc -> PC]
    BY <1>1, <1>2 DEF TypeOK, PC, InOp
  <2> QED  BY <1>1, <1>3, <2>1, <2>2 DEF TypeOK
<1>6. CallsInv' /\ NoLostWakeup'
  BY <1>1, <1>4 DEF CallsInv, NoLostWakeup, InOp, InCommit, TypeOK
<1>7. outstanding > 0
  <2>1. Cardinality(Active) # 0
    BY <1>4, Numbers, FS_EmptySet
  <2> QED  BY <2>1, Numbers DEF CallsInv
<1>8. EmptyInv'
  <2>1. \A q \in Proc : pc'[q] # "committed"
    BY <1>1 DEF CallsInv, InOp, InCommit, TypeOK
  <2> QED  BY <1>1, <1>7, <2>1 DEF EmptyInv
<1>9. WroteInv'
  <2> SUFFICES ASSUME NEW q \in Proc
               PROVE  /\ pc'[q] \notin InOp => wrote'[q] = {}
                      /\ wrote'[q] \subseteq LoggedBlocks'
                      /\ IsFiniteSet(wrote'[q])
                      /\ Cardinality(wrote'[q]) <= OpBlocks
                      /\ pc'[q] = "log_write" =>
                           /\ hold'[q] # None
                           /\ Cardinality(wrote'[q] \union {hold'[q]}) <= OpBlocks
    BY DEF WroteInv
  <2>1. CASE q = p
    <3>1. wrote'[q] = wrote[p] \union {b} /\ pc'[q] = "op"
      BY <1>1, <2>1 DEF TypeOK
    <3>2. IsFiniteSet(wrote[p] \union {b})
      BY Zenon, FS_AddElement DEF WroteInv
    <3> QED  BY Zenon, <1>2, <1>3, <3>1, <3>2 DEF WroteInv, InOp
  <2>2. CASE q # p
    <3>1. wrote'[q] = wrote[q] /\ pc'[q] = pc[q] /\ hold'[q] = hold[q]
      BY <1>1, <2>2 DEF TypeOK
    <3> QED  BY <1>3, <3>1 DEF WroteInv
  <2> QED  BY <2>1, <2>2
<1>10. RoomInv'
  <2> DEFINE n == Len(lh)
             r == Cardinality(Reserved)
             r2 == Cardinality(Reserved')
             c == Cardinality(wrote[p])
             c2 == Cardinality(wrote'[p])
  <2>1. Writes(wrote') /\ Active \in SUBSET Proc
    BY Zenon, <1>9, ReservedState DEF WroteInv, Writes
  <2>2. n \in Nat /\ r \in Nat /\ r2 \in Nat /\ c \in Nat /\ c2 \in Nat
    BY Zenon, Numbers, <2>1, ReservedState2, ReservedFinite, FS_CardinalityType
       DEF WroteInv, Writes
  <2>3. wrote'[p] = wrote[p] \union {b}
    BY <1>1 DEF TypeOK
  <2>4. c2 = IF b \in wrote[p] THEN c ELSE c + 1
    BY Zenon, <2>3, FS_AddElement DEF WroteInv
  <2>5. c2 <= OpBlocks
    BY <1>2, <2>3
  <2>6. r2 = IF b \in wrote[p] THEN r ELSE r - 1
    <3>1. CASE b \in wrote[p]
      <4>1. wrote' = wrote
        BY <1>1, <3>1 DEF TypeOK
      <4> QED  BY <1>4, <3>1, <4>1 DEF Reserved
    <3>2. CASE b \notin wrote[p]
      <4>1. c < MAXOPBLOCKS
        BY <2>2, <2>4, <2>5, <3>2, Numbers
      <4>2. Cardinality(ReservedBy(Active, [wrote EXCEPT ![p] = @ \union {b}]))
              = Cardinality(ReservedBy(Active, wrote)) - 1
        <5>1. wrote \in [Proc -> SUBSET Block] /\ Writes(wrote)
          BY Numbers DEF TypeOK
        <5> QED  BY Zenon, <1>4, <2>1, <3>2, <4>1, <5>1, ReservedUse
      <4> QED  BY <1>1, <1>4, <3>2, <4>2, ReservedState, ReservedState2
    <3> QED  BY <3>1, <3>2
  <2>7. b \in wrote[p] => b \in LoggedBlocks
    BY Zenon DEF WroteInv
  <2>8. /\ r2 >= Slack
        /\ \A q \in Active : q # p => r2 >= 2 * Slack
    BY <1>4, <2>1, ReservedState2, ReservedSlack
  <2>9. n + r <= LOGSIZE /\ Fits(n)
    BY DEF RoomInv
  <2>10. Active = {p} => n <= c \/ n + r + Slack <= LOGSIZE
    BY DEF RoomInv
  <2> HIDE DEF n, r, r2, c, c2
  <2>11. Len(lh') = IF b \in LoggedBlocks THEN n ELSE n + 1
    BY <1>3 DEF n
  <2>12. Len(lh') + r2 <= LOGSIZE
    BY <2>2, <2>6, <2>7, <2>9, <2>11, Numbers
  <2>13. Active = {p} => Len(lh') <= c2 \/ Len(lh') + r2 + Slack <= LOGSIZE
    <3>1. Slack \in Nat /\ LOGSIZE \in Nat
      BY Numbers
    <3>2. CASE b \in wrote[p]
      <4>1. Len(lh') = n /\ c2 = c /\ r2 = r
        BY <2>4, <2>6, <2>7, <2>11, <3>2
      <4> QED  BY <2>10, <4>1
    <3>3. CASE b \notin wrote[p]
      <4>1. c2 = c + 1 /\ r2 = r - 1 /\ (Len(lh') = n \/ Len(lh') = n + 1)
        BY <2>4, <2>6, <2>11, <3>3
      <4> QED  BY <2>2, <2>10, <3>1, <4>1
    <3> QED  BY <3>2, <3>3
  <2>14. Fits(Len(lh'))
    <3>0. Len(lh') \in Nat
      BY <2>2, <2>11
    <3>1. CASE Active = {p}
      <4>1. r2 >= Slack /\ OpBlocks \in Nat /\ Slack \in Nat /\ LOGSIZE \in Nat
        BY <2>8, Numbers
      <4>2. CASE Len(lh') <= c2
        BY <2>2, <2>5, <3>0, <4>1, <4>2 DEF Fits
      <4>3. CASE Len(lh') + r2 + Slack <= LOGSIZE
        BY <2>2, <3>0, <4>1, <4>3 DEF Fits
      <4> QED  BY <2>13, <3>1, <4>2, <4>3
    <3>2. CASE Active # {p}
      <4>1. PICK q \in Active : q # p
        BY <1>4, <3>2
      <4> QED  BY <2>2, <2>8, <2>12, <3>0, <4>1, Numbers DEF Fits
    <3> QED  BY <3>1, <3>2
  <2>15. \A q \in Proc : Active' = {q} =>
            \/ Len(lh') <= Cardinality(wrote'[q])
            \/ Len(lh') + r2 + Slack <= LOGSIZE
    BY <1>4, <2>13 DEF c2
  <2> QED  BY Zenon, <1>1, <2>12, <2>14, <2>15 DEF RoomInv, r2, Fits
<1> QED  BY <1>5, <1>6, <1>8, <1>9, <1>10

\* What end_op() has in common for the last call and for the others.
LEMMA EndCommon ==
    ASSUME IInv, NEW p \in Proc, end_op(p)
    PROVE  /\ UNCHANGED <<lh, dhead, boot, hold, home, dlog, buf, dirty>>
           /\ pc[p] = "op" /\ boot = "up" /\ ~committing
           /\ panicked' = FALSE
           /\ wrote' = [wrote EXCEPT ![p] = {}]
           /\ outstanding' = outstanding - 1
           /\ p \in Active /\ outstanding > 0
           /\ Cardinality(Active \ {p}) = outstanding - 1
<1>1. /\ UNCHANGED <<lh, dhead, boot, hold, home, dlog, buf, dirty>>
      /\ pc[p] = "op" /\ boot = "up"
      /\ panicked' = committing
      /\ wrote' = [wrote EXCEPT ![p] = {}]
      /\ outstanding' = outstanding - 1
  BY DEF end_op, disk, cache, Running
<1>2. ~committing
  BY <1>1 DEF IInv, CallsInv, InOp
<1>3. p \in Active
  BY <1>1 DEF Active, InOp
<1>4. Cardinality(Active \ {p}) = outstanding - 1 /\ outstanding > 0
  <2>1. outstanding = Cardinality(Active) /\ Cardinality(Active) # 0
    BY <1>3, Numbers, FS_EmptySet DEF IInv, CallsInv
  <2>2. IsFiniteSet(Active) /\ outstanding \in Nat
    BY Numbers
  <2>3. Cardinality(Active \ {p}) = Cardinality(Active) - 1
    BY <1>3, <2>2, FS_RemoveElement
  <2> QED  BY <2>1, <2>2, <2>3
<1>5. committing \in BOOLEAN
  BY DEF IInv, TypeOK
<1> QED  BY <1>1, <1>2, <1>3, <1>4, <1>5

\* A call that ends while others go on gives its slack back to them.
LEMMA EndOtherStep ==
    ASSUME IInv, NEW p \in Proc, end_op(p), outstanding > 1
    PROVE  IInv'
<1> USE DEF IInv
<1>1. /\ UNCHANGED <<lh, dhead, boot, hold, home, dlog, buf, dirty>>
      /\ pc[p] = "op" /\ boot = "up" /\ ~committing
      /\ panicked' = FALSE
      /\ wrote' = [wrote EXCEPT ![p] = {}]
      /\ outstanding' = outstanding - 1
      /\ p \in Active /\ Cardinality(Active \ {p}) = outstanding - 1
  BY Zenon, EndCommon
<1>2. /\ UNCHANGED <<committing, tail>>
      /\ pc' = [q \in Proc |-> IF q = p THEN "idle"
                               ELSE IF pc[q] = "asleep" THEN "begin_op" ELSE pc[q]]
  BY DEF end_op, WakeupAndGoto
<1>3. Active' = Active \ {p}
  BY <1>2 DEF Active, InOp, TypeOK
<1>4. TypeOK'
  <2>1. outstanding' \in 0 .. Cardinality(Proc)
    BY <1>1, LogConstants, FS_CardinalityType DEF TypeOK
  <2>2. pc' \in [Proc -> PC] /\ wrote' \in [Proc -> SUBSET Block]
    BY <1>1, <1>2 DEF TypeOK, PC
  <2> QED  BY Zenon, <1>1, <1>2, <2>1, <2>2 DEF TypeOK
<1>5. CallsInv'
  BY <1>1, <1>2, <1>3 DEF CallsInv, InOp, InCommit
<1>6. EmptyInv' /\ NoLostWakeup'
  BY <1>1, <1>2, Numbers DEF EmptyInv, NoLostWakeup
<1>7. WroteInv'
  BY <1>1, <1>2, FS_EmptySet, LogConstants
     DEF WroteInv, LoggedBlocks, InOp, TypeOK
<1>8. RoomInv'
  <2> DEFINE n == Len(lh)
             r == Cardinality(Reserved)
             r2 == Cardinality(Reserved')
  <2>1. Reserved' = ReservedBy(Active \ {p}, wrote)
    BY <1>1, <1>3, ReservedState2 DEF ReservedBy, TypeOK, Active
  <2>2. r >= r2 + Slack
    BY <1>1, <2>1, Numbers, ReservedState, ReservedEnd
  <2>3. n \in Nat /\ r \in Nat /\ r2 \in Nat
    BY Numbers, ReservedState2, ReservedFinite
  <2>4. n + r <= LOGSIZE /\ Fits(n)
    BY DEF RoomInv
  <2> HIDE DEF n, r, r2
  <2>5. n + r2 + Slack <= LOGSIZE /\ n + r2 <= LOGSIZE
    <3>1. Slack \in Nat /\ LOGSIZE \in Nat
      BY Numbers
    <3> QED  BY <2>2, <2>3, <2>4, <3>1
  <2> QED  BY Zenon, <1>1, <2>4, <2>5 DEF RoomInv, n, r2, Fits
<1> QED  BY <1>4, <1>5, <1>6, <1>7, <1>8

\* The last call out starts the commit: from then on nobody else logs.
LEMMA EndLastStep ==
    ASSUME IInv, NEW p \in Proc, end_op(p), outstanding = 1
    PROVE  IInv'
<1> USE DEF IInv
<1>1. /\ UNCHANGED <<lh, dhead, boot, hold, home, dlog, buf, dirty>>
      /\ pc[p] = "op" /\ boot = "up" /\ ~committing
      /\ panicked' = FALSE
      /\ wrote' = [wrote EXCEPT ![p] = {}]
      /\ outstanding' = outstanding - 1
      /\ p \in Active /\ Cardinality(Active \ {p}) = outstanding - 1
  BY Zenon, EndCommon
<1>2. /\ committing' = TRUE /\ tail' = 0
      /\ pc' = [pc EXCEPT ![p] = IF lh = <<>> THEN "committed" ELSE "write_log"]
  BY DEF end_op, Goto
<1>3. Active \ {p} = {}
  <2>1. IsFiniteSet(Active \ {p})
    BY Zenon, Numbers, FS_RemoveElement
  <2>2. Cardinality(Active \ {p}) = 0
    BY <1>1
  <2> QED  BY <2>1, <2>2, FS_EmptySet
<1>4. /\ pc'[p] \in {"committed", "write_log"}
      /\ pc'[p] = "committed" => lh = <<>>
      /\ \A q \in Proc : q # p => pc'[q] = pc[q] /\ pc[q] \notin InOp
      /\ \A q \in Proc : pc[q] \notin InCommit
  BY <1>1, <1>2, <1>3 DEF TypeOK, Active, InOp, CallsInv
<1>5. Active' = {}
  BY <1>4 DEF Active, InOp
<1>6. TypeOK'
  <2>1. outstanding' \in 0 .. Cardinality(Proc) /\ tail' \in 0 .. Len(lh')
    BY <1>1, <1>2, Numbers, LogConstants, FS_CardinalityType
  <2>2. pc' \in [Proc -> PC] /\ wrote' \in [Proc -> SUBSET Block]
    BY <1>1, <1>2 DEF TypeOK, PC, InCommit
  <2> QED  BY Zenon, <1>1, <1>2, <2>1, <2>2 DEF TypeOK
<1>7. CallsInv'
  BY <1>1, <1>2, <1>4, <1>5, FS_EmptySet DEF CallsInv, InOp, InCommit
<1>8. EmptyInv' /\ NoLostWakeup'
  BY <1>1, <1>2, <1>4 DEF EmptyInv, NoLostWakeup, InCommit
<1>9. WroteInv'
  <2>1. \A q \in Proc : wrote'[q] = {} /\ pc'[q] # "log_write"
    BY Zenon, <1>1, <1>4 DEF TypeOK, WroteInv, InOp
  <2>2. IsFiniteSet({}) /\ Cardinality({}) <= OpBlocks
    BY FS_EmptySet, LogConstants
  <2> QED  BY Zenon, <2>1, <2>2 DEF WroteInv
<1>10. RoomInv'
  <2>1. Len(lh) <= LOGSIZE /\ Fits(Len(lh)) /\ Len(dhead) <= LOGSIZE /\ Fits(Len(dhead))
    BY Numbers DEF RoomInv
  <2> QED  BY <1>1, <1>5, <2>1, RoomEmpty DEF TypeOK
<1> QED  BY <1>6, <1>7, <1>8, <1>9, <1>10

\* Types of the disk and of the cache; a commit and recovery change no others.
DiskTypes ==
    /\ home \in [Block -> Val] /\ dlog \in [Slot -> Val]
    /\ buf \in [Block -> Val \union {None}] /\ dirty \subseteq Block

\* Every step of commit() leaves all calls out and moves within the commit.
LEMMA CommitFrame ==
    ASSUME IInv, NEW p \in Proc, NEW l \in InCommit,
           boot = "up", pc[p] \in InCommit, pc' = [pc EXCEPT ![p] = l],
           UNCHANGED <<outstanding, committing, hold, wrote, boot, panicked>>,
           lh' = lh \/ lh' = <<>>,
           l = "committed" => lh' = <<>>,
           dhead' = dhead \/ dhead' = lh \/ dhead' = <<>>,
           tail' \in 0 .. Len(lh'), DiskTypes'
    PROVE  IInv'
<1> USE DEF IInv
<1>1. committing /\ \A q \in Proc : pc[q] \notin InOp /\ (pc[q] \in InCommit => q = p)
  BY DEF CallsInv
<1>2. /\ pc'[p] = l
      /\ \A q \in Proc : q # p => pc'[q] = pc[q]
      /\ \A q \in Proc : pc'[q] \notin InOp
  BY <1>1 DEF TypeOK, InOp, InCommit
<1>3. Active = {} /\ Active' = {}
  BY <1>1, <1>2 DEF Active
<1>4. TypeOK'
  <2>1. lh' \in Seq(Block) /\ dhead' \in Seq(Block)
    <3>1. lh \in Seq(Block) /\ dhead \in Seq(Block)
      BY DEF TypeOK
    <3>2. <<>> \in Seq(Block)
      OBVIOUS
    <3> HIDE DEF IInv
    <3> QED  BY Zenon, <3>1, <3>2
  <2>2. pc' \in [Proc -> PC]
    BY DEF TypeOK, PC
  <2> QED  BY <2>1, <2>2 DEF TypeOK, DiskTypes
<1>5. CallsInv'
  BY <1>1, <1>2, <1>3 DEF CallsInv
<1>6. EmptyInv' /\ NoLostWakeup'
  BY <1>1, <1>2 DEF EmptyInv, NoLostWakeup, InCommit
<1>7. WroteInv'
  <2>1. \A q \in Proc : wrote'[q] = {} /\ pc'[q] # "log_write"
    BY Zenon, <1>1, <1>2 DEF WroteInv, InOp
  <2>2. IsFiniteSet({}) /\ Cardinality({}) <= OpBlocks
    BY FS_EmptySet, LogConstants
  <2> QED  BY <2>1, <2>2 DEF WroteInv
<1>8. RoomInv'
  <2>1. Len(lh) <= LOGSIZE /\ Fits(Len(lh)) /\ Len(dhead) <= LOGSIZE /\ Fits(Len(dhead))
    BY Numbers DEF RoomInv
  <2>2. /\ Len(lh') <= LOGSIZE /\ Fits(Len(lh'))
        /\ Len(dhead') <= LOGSIZE /\ Fits(Len(dhead'))
    BY <2>1, FitsEmpty
  <2> QED  BY <1>3, <1>4, <2>2, RoomEmpty DEF TypeOK
<1> QED  BY <1>4, <1>5, <1>6, <1>7, <1>8

\* One block of the log goes home.
LEMMA InstallTypes ==
    ASSUME IInv, InstallOne, tail < Len(lh), UNCHANGED <<lh, dlog>>
    PROVE  DiskTypes' /\ tail' \in 0 .. Len(lh')
<1>1. /\ lh \in Seq(Block) /\ tail \in Nat /\ Len(lh) \in Nat /\ LOGSIZE \in Nat
      /\ Len(lh) <= LOGSIZE
  BY Numbers DEF IInv, TypeOK, RoomInv
<1>2. lh[tail + 1] \in Block /\ tail + 1 \in Slot
  BY <1>1 DEF Slot
<1>3. dlog[tail + 1] \in Val
  BY <1>2 DEF IInv, TypeOK
<1>4. home' \in [Block -> Val] /\ buf' \in [Block -> Val \union {None}]
  BY <1>2, <1>3 DEF InstallOne, IInv, TypeOK
<1>5. dirty' \subseteq Block /\ tail' \in 0 .. Len(lh')
  BY <1>1 DEF InstallOne, IInv, TypeOK
<1> QED  BY <1>4, <1>5 DEF DiskTypes, IInv, TypeOK

\* The steps of commit().
LEMMA CommitStep ==
    ASSUME IInv, NEW p \in Proc, commit(p)
    PROVE  IInv'
<1> USE DEF Running
<1>0. pc = [pc EXCEPT ![p] = pc[p]]
  BY DEF IInv, TypeOK
<1>1. CASE write_log(p)
  <2>1. /\ UNCHANGED <<outstanding, committing, hold, wrote, boot, panicked>>
        /\ UNCHANGED <<home, dhead, dirty, lh>>
        /\ boot = "up" /\ pc[p] = "write_log" /\ tail < Len(lh) /\ tail' = tail + 1
    BY <1>1 DEF write_log, log
  <2>2. \E l \in {"write_log", "write_head"} : pc' = [pc EXCEPT ![p] = l]
    BY <1>0, <1>1, <2>1 DEF write_log, Goto
  <2>3. /\ lh \in Seq(Block) /\ tail \in Nat /\ Len(lh) \in Nat /\ LOGSIZE \in Nat
        /\ Len(lh) <= LOGSIZE
    BY Numbers DEF IInv, TypeOK, RoomInv
  <2>4. lh[tail + 1] \in Block /\ tail + 1 \in Slot
    BY <2>1, <2>3 DEF Slot
  <2>5. Contents(lh[tail + 1]) \in Val
    BY <2>4 DEF IInv, TypeOK, Contents
  <2>6. DiskTypes'
    BY <1>1, <2>1, <2>4, <2>5 DEF write_log, DiskTypes, IInv, TypeOK
  <2>7. tail' \in 0 .. Len(lh')
    BY <2>1, <2>3
  <2> QED  BY Zenon, <2>1, <2>2, <2>6, <2>7, CommitFrame DEF InCommit
<1>2. CASE write_head(p)
  <2>1. /\ UNCHANGED <<outstanding, committing, hold, wrote, boot, panicked>>
        /\ UNCHANGED <<home, dlog, buf, dirty, lh>>
        /\ boot = "up" /\ pc[p] = "write_head" /\ dhead' = lh /\ tail' = 0
        /\ pc' = [pc EXCEPT ![p] = "install"]
    BY <1>2 DEF write_head, log, cache, Goto
  <2>2. DiskTypes' /\ tail' \in 0 .. Len(lh')
    BY <2>1, Numbers DEF DiskTypes, IInv, TypeOK
  <2> QED  BY Zenon, <2>1, <2>2, CommitFrame DEF InCommit
<1>3. CASE install_trans(p)
  <2>1. /\ UNCHANGED <<outstanding, committing, hold, wrote, boot, panicked>>
        /\ UNCHANGED <<dlog, dhead, lh>>
        /\ boot = "up" /\ pc[p] = "install" /\ tail < Len(lh) /\ InstallOne
    BY <1>3 DEF install_trans, log
  <2>2. \E l \in {"install", "clear"} : pc' = [pc EXCEPT ![p] = l]
    BY <1>0, <1>3, <2>1 DEF install_trans, Goto
  <2>3. DiskTypes' /\ tail' \in 0 .. Len(lh')
    BY <2>1, InstallTypes
  <2> QED  BY Zenon, <2>1, <2>2, <2>3, CommitFrame DEF InCommit
<1>4. CASE clear_head(p)
  <2>1. /\ UNCHANGED <<outstanding, committing, hold, wrote, boot, panicked>>
        /\ UNCHANGED <<home, dlog, buf, dirty>>
        /\ boot = "up" /\ pc[p] = "clear" /\ dhead' = <<>> /\ lh' = <<>> /\ tail' = 0
        /\ pc' = [pc EXCEPT ![p] = "committed"]
    BY <1>4 DEF clear_head, cache, Goto
  <2>2. DiskTypes' /\ tail' \in 0 .. Len(lh')
    BY <2>1 DEF DiskTypes, IInv, TypeOK
  <2> QED  BY Zenon, <2>1, <2>2, CommitFrame DEF InCommit
<1> QED  BY <1>1, <1>2, <1>3, <1>4 DEF commit

\* The end of a commit wakes every thread in begin_op(), and the log is empty.
LEMMA EndCommitStep ==
    ASSUME IInv, NEW p \in Proc, end_commit(p)
    PROVE  IInv'
<1> USE DEF IInv
<1>1. /\ UNCHANGED <<lh, dhead, outstanding, hold, wrote, tail, boot, panicked>>
      /\ UNCHANGED <<home, dlog, buf, dirty>>
      /\ committing' = FALSE /\ boot = "up" /\ pc[p] = "committed"
      /\ pc' = [q \in Proc |-> IF q = p THEN "idle"
                               ELSE IF pc[q] = "asleep" THEN "begin_op" ELSE pc[q]]
  BY DEF end_commit, disk, cache, Running, WakeupAndGoto
<1>2. \A q \in Proc : pc[q] \notin InOp /\ (pc[q] \in InCommit => q = p)
  BY <1>1 DEF CallsInv, InCommit
<1>3. \A q \in Proc : pc'[q] \notin InOp /\ pc'[q] \notin InCommit /\ pc'[q] # "asleep"
  BY <1>1, <1>2 DEF InOp, InCommit
<1>4. Active = {} /\ Active' = {} /\ lh = <<>>
  BY <1>1, <1>2, <1>3 DEF Active, EmptyInv
<1>5. TypeOK'
  <2>1. pc' \in [Proc -> PC]
    BY <1>1 DEF TypeOK, PC
  <2> QED  BY Zenon, <1>1, <2>1 DEF TypeOK
<1>6. CallsInv'
  BY <1>1, <1>3, <1>4 DEF CallsInv
<1>7. EmptyInv' /\ NoLostWakeup'
  BY <1>1, <1>3, <1>4 DEF EmptyInv, NoLostWakeup
<1>8. WroteInv'
  BY Zenon, <1>1, <1>2, <1>3 DEF WroteInv, LoggedBlocks, InOp
<1>9. RoomInv'
  BY <1>1, <1>4, RoomFrame
<1> QED  BY <1>5, <1>6, <1>7, <1>8, <1>9

\* Off, or recovering: all threads are idle and no call is in progress.
LEMMA DownFrame ==
    ASSUME TypeOK',
           \A q \in Proc : pc'[q] = "idle" /\ wrote'[q] = {},
           outstanding' = 0, committing' = FALSE,
           boot' = "read" => tail' = 0, boot' = "up" => lh' = <<>>,
           Len(lh') <= LOGSIZE, Fits(Len(lh')),
           Len(dhead') <= LOGSIZE, Fits(Len(dhead'))
    PROVE  IInv'
<1>1. Active' = {}
  BY DEF Active, InOp
<1>2. CallsInv'
  BY Zenon, <1>1, FS_EmptySet DEF CallsInv, InCommit
<1>3. EmptyInv' /\ NoLostWakeup'
  BY DEF EmptyInv, NoLostWakeup
<1>4. WroteInv'
  <2>1. IsFiniteSet({}) /\ Cardinality({}) <= OpBlocks
    BY FS_EmptySet, LogConstants
  <2> QED  BY Zenon, <2>1 DEF WroteInv
<1>5. RoomInv'
  BY <1>1, RoomEmpty DEF TypeOK
<1> QED  BY Zenon, <1>2, <1>3, <1>4, <1>5 DEF IInv

\* A power failure keeps the disk only, whose header fits.
LEMMA CrashStep ==
    ASSUME IInv, crash
    PROVE  IInv'
<1>1. /\ UNCHANGED <<home, dlog, dhead>>
      /\ lh' = <<>> /\ outstanding' = 0 /\ committing' = FALSE /\ tail' = 0
      /\ boot' = "read" /\ dirty' = {} /\ panicked' = FALSE
      /\ buf' = [b \in Block |-> None] /\ pc' = [q \in Proc |-> "idle"]
      /\ hold' = [q \in Proc |-> None] /\ wrote' = [q \in Proc |-> {}]
  BY DEF crash, disk, Reset, IInv, TypeOK
<1>2. TypeOK'
  <2>1. /\ buf' \in [Block -> Val \union {None}] /\ dirty' \subseteq Block
        /\ pc' \in [Proc -> PC] /\ hold' \in [Proc -> Block \union {None}]
        /\ wrote' \in [Proc -> SUBSET Block]
    BY <1>1 DEF PC
  <2>2. /\ lh' \in Seq(Block) /\ tail' \in 0 .. Len(lh')
        /\ outstanding' \in 0 .. Cardinality(Proc)
    BY <1>1, LogConstants, FS_CardinalityType DEF IInv, TypeOK
  <2> QED  BY Zenon, <1>1, <2>1, <2>2 DEF IInv, TypeOK
<1>3. \A q \in Proc : pc'[q] = "idle" /\ wrote'[q] = {}
  BY <1>1
<1>4. /\ Len(lh') <= LOGSIZE /\ Fits(Len(lh'))
      /\ Len(dhead') <= LOGSIZE /\ Fits(Len(dhead'))
  BY <1>1, FitsEmpty DEF IInv, RoomInv
<1> QED  BY Zenon, <1>1, <1>2, <1>3, <1>4, DownFrame

\* The steps of recover_from_log().
LEMMA RecoverStep ==
    ASSUME IInv, recover_from_log
    PROVE  IInv'
<1>1. /\ UNCHANGED <<dlog, outstanding, committing, pc, hold, wrote, panicked>>
      /\ boot # "up"
  BY DEF recover_from_log, read_head, recover_install, recover_clear, disk, log
<1>2. \A q \in Proc : pc[q] = "idle" /\ wrote[q] = {}
  BY Zenon, <1>1 DEF IInv, CallsInv, WroteInv, InOp
<1>3. outstanding = 0 /\ committing = FALSE
  <2>1. Active = {}
    BY <1>2 DEF Active, InOp
  <2> QED  BY <1>2, <2>1, FS_EmptySet DEF IInv, CallsInv, InCommit, TypeOK
<1>4. /\ Len(lh) <= LOGSIZE /\ Fits(Len(lh))
      /\ Len(dhead) <= LOGSIZE /\ Fits(Len(dhead))
  <2> DEFINE n == Len(lh)
             r == Cardinality(Reserved)
  <2>1. n \in Nat /\ r \in Nat /\ LOGSIZE \in Nat
    BY Numbers
  <2>2. /\ n + r <= LOGSIZE /\ Fits(n)
        /\ Len(dhead) <= LOGSIZE /\ Fits(Len(dhead))
    BY DEF IInv, RoomInv
  <2> HIDE DEF n, r
  <2>3. n <= LOGSIZE
    BY <2>1, <2>2
  <2> QED  BY <2>2, <2>3 DEF n
<1>5. CASE read_head
  <2>1. /\ UNCHANGED <<home, dhead, buf, dirty, tail>>
        /\ lh' = dhead /\ tail = 0 /\ boot' \in {"clear", "install"}
    BY <1>5 DEF read_head, disk, cache, IInv, CallsInv
  <2>2. tail' \in 0 .. Len(lh')
    BY <2>1, Numbers
  <2>3. TypeOK'
    BY <1>1, <2>1, <2>2 DEF IInv, TypeOK
  <2> QED  BY Zenon, <1>1, <1>2, <1>3, <1>4, <2>1, <2>3, DownFrame
<1>6. CASE recover_install
  <2>1. /\ UNCHANGED <<dhead, lh>> /\ InstallOne /\ tail < Len(lh)
        /\ boot' \in {"clear", "install"}
    BY <1>6 DEF recover_install, log
  <2>2. DiskTypes' /\ tail' \in 0 .. Len(lh')
    BY <1>1, <2>1, InstallTypes
  <2>3. TypeOK'
    BY <1>1, <2>1, <2>2 DEF IInv, TypeOK, DiskTypes
  <2> QED  BY Zenon, <1>1, <1>2, <1>3, <1>4, <2>1, <2>3, DownFrame
<1>7. CASE recover_clear
  <2>1. /\ UNCHANGED <<home, buf, dirty>>
        /\ lh' = <<>> /\ dhead' = <<>> /\ tail' = 0 /\ boot' = "up"
    BY <1>7 DEF recover_clear, cache
  <2>2. /\ lh' \in Seq(Block) /\ dhead' \in Seq(Block) /\ tail' \in 0 .. Len(lh')
    BY <2>1
  <2>3. TypeOK'
    BY <1>1, <2>1, <2>2 DEF IInv, TypeOK
  <2> QED  BY Zenon, <1>1, <1>2, <1>3, <2>1, <2>3, FitsEmpty, DownFrame
<1> QED  BY <1>5, <1>6, <1>7 DEF recover_from_log

\* Every step of the system keeps the invariant.
LEMMA NextIInv == IInv /\ [Next]_vars => IInv'
<1> SUFFICES ASSUME IInv, [Next]_vars PROVE IInv'
  OBVIOUS
<1>1. ASSUME NEW p \in Proc, begin_op(p) PROVE IInv'
  BY <1>1, BeginStep, BeginSleepStep
<1>2. ASSUME NEW p \in Proc, end_op(p) PROVE IInv'
  <2>1. outstanding > 1 \/ outstanding = 1
    BY <1>2 DEF end_op
  <2> QED  BY <1>2, <2>1, EndOtherStep, EndLastStep
<1>3. CASE UNCHANGED vars
  <2>1. Active' = Active /\ Reserved' = Reserved /\ LoggedBlocks' = LoggedBlocks
    BY <1>3 DEF vars, disk, cache, log, Active, Reserved, LoggedBlocks
  <2>2. TypeOK'
    BY <1>3 DEF vars, disk, cache, log, IInv, TypeOK
  <2>3. CallsInv' /\ EmptyInv' /\ NoLostWakeup'
    BY <1>3, <2>1 DEF vars, disk, cache, log, IInv, CallsInv, EmptyInv, NoLostWakeup
  <2>4. WroteInv' /\ RoomInv'
    BY <1>3, <2>1 DEF vars, disk, cache, log, IInv, WroteInv, RoomInv, Fits
  <2> QED  BY <2>2, <2>3, <2>4 DEF IInv
<1>4. CASE Next
  BY <1>1, <1>2, <1>4, CallStep, WriteStep, CommitStep, EndCommitStep,
     BufferStep, TestStep, RecoverStep, CrashStep DEF Next
<1> QED  BY <1>3, <1>4

-------------------------------------------------------------------------------
(* The theorems.                                                           *)

\* log.c: the inductive invariant holds in every state of the log, whatever
\* the constants: reservations, calls in progress and the commit agree.
THEOREM Invariance == Spec => []IInv
BY InitIInv, NextIInv, PTL DEF Spec

\* log.c: the state of the log, of the cache and of the disk keeps its types;
\* the indices of write_log() and install_trans() stay within the log.
THEOREM TypeCorrect == Spec => []TypeOK
<1>1. IInv => TypeOK
  BY DEF IInv
<1> QED  BY <1>1, Invariance, PTL

\* log.c:125-174: no thread sleeps in begin_op() with nobody left to wake it.
THEOREM NoWakeupLost == Spec => []NoLostWakeup
<1>1. IInv => NoLostWakeup
  BY DEF IInv
<1> QED  BY <1>1, Invariance, PTL

\* A log that fits has room for one more entry, on the disk and in memory.
LEMMA FitsRoom ==
    ASSUME LogFits, IInv
    PROVE  Len(lh) < LOGSIZE /\ Len(lh) + 1 < NLOG
<1> DEFINE n == Len(lh)
<1>1. /\ n \in Nat /\ NLOG \in Nat /\ LOGSIZE \in Nat
      /\ Slack \in Nat /\ OpBlocks \in Nat
  BY Numbers
<1>2. n <= OpBlocks \/ n + 2 * Slack <= LOGSIZE
  BY DEF IInv, RoomInv, Fits
<1>3. /\ OpBlocks < LOGSIZE /\ OpBlocks + 1 < NLOG
      /\ Slack > 0 /\ LOGSIZE + 1 < NLOG + 2 * Slack
  BY DEF LogFits
<1> HIDE DEF n
<1>4. n < LOGSIZE /\ n + 1 < NLOG
  BY <1>1, <1>2, <1>3
<1> QED  BY <1>4 DEF n

\* log.c:132 and 213-233: what is logged and what is reserved always fits the
\* in-memory header, and what is logged the log area, when LogFits, although
\* log_write() tests the length before it locks.
THEOREM LogNeverOverflows == LogFits => (Spec => []LogBounded)
<1> SUFFICES ASSUME LogFits PROVE Spec => []LogBounded
  OBVIOUS
<1>1. IInv => LogBounded
  <2> SUFFICES ASSUME IInv PROVE LogBounded
    OBVIOUS
  <2>1. Len(lh) \in Nat /\ NLOG \in Nat /\ LOGSIZE \in Nat
    BY Numbers
  <2>2. Len(lh) + Cardinality(Reserved) <= LOGSIZE
    BY DEF IInv, RoomInv
  <2>3. Len(lh) < NLOG
    BY <2>1, FitsRoom
  <2> QED  BY <2>2, <2>3 DEF LogBounded
<1> QED  BY <1>1, Invariance, PTL

\* log.c:152 and log.c:218-221: none of the log's panics is ever reached, when
\* LogFits: begin_op() admits no call that log_write() would have to refuse.
THEOREM LogNeverPanics == LogFits => (Spec => []NoPanic)
<1> SUFFICES ASSUME LogFits PROVE Spec => []NoPanic
  OBVIOUS
<1>1. Init => NoPanic
  BY DEF Init, NoPanic
<1>2. ASSUME IInv, NoPanic, [Next]_vars PROVE NoPanic'
  <2>1. CASE UNCHANGED panicked
    BY <1>2, <2>1 DEF NoPanic
  <2>2. ASSUME NEW p \in Proc, NEW v \in Val, log_write_test(p, v) PROVE NoPanic'
    <3>1. Len(lh) < LOGSIZE /\ Len(lh) + 1 < NLOG
      BY <1>2, FitsRoom
    <3>2. Len(lh) \in Nat /\ LOGSIZE \in Nat /\ NLOG \in Nat /\ outstanding \in Nat
      BY <1>2, Numbers
    <3>3. outstanding # 0
      <4>1. p \in Active
        BY Zenon, <2>2 DEF log_write_test, Active, InOp
      <4> QED  BY <1>2, <4>1, Numbers, FS_EmptySet DEF IInv, CallsInv
    <3>4. ~(Len(lh) >= LOGSIZE \/ Len(lh) + 1 >= NLOG \/ outstanding < 1)
      BY <3>1, <3>2, <3>3
    <3> QED  BY Zenon, <2>2, <3>4 DEF log_write_test, NoPanic
  <2>3. ASSUME NEW p \in Proc, end_op(p) PROVE NoPanic'
    BY Zenon, <1>2, <2>3, EndCommon DEF NoPanic
  <2>4. CASE crash
    BY <2>4 DEF crash, NoPanic
  <2>5. CASE recover_from_log
    BY <2>1, <2>5 DEF recover_from_log, read_head, recover_install, recover_clear
  <2>6. ASSUME NEW p \in Proc,
               call(p) \/ begin_op(p) \/ log_write(p) \/ commit(p) \/ end_commit(p)
                 \/ brelse(p)
        PROVE  NoPanic'
    BY Zenon, <2>1, <2>6 DEF call, begin_op, log_write, commit, write_log, write_head,
                      install_trans, clear_head, end_commit, brelse
  <2>7. ASSUME NEW b \in Block, recycle(b) \/ \E p \in Proc : bread(p, b)
        PROVE  NoPanic'
    BY Zenon, <2>1, <2>7 DEF recycle, bread
  <2>8. CASE UNCHANGED vars
    BY <2>1, <2>8 DEF vars
  <2> QED  BY <1>2, <2>2, <2>3, <2>4, <2>5, <2>6, <2>7, <2>8 DEF Next
<1> QED  BY <1>1, <1>2, Invariance, PTL DEF Spec
===============================================================================
