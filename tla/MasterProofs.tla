---------------------------- MODULE MasterProofs ----------------------------
(***************************************************************************)
(* What TLAPS proves of the master's own parts.                            *)
(*                                                                         *)
(* RWLock, for any set of readers and any set of writers.  All of it is    *)
(* safety; with two writers the lock is safe and dead.                     *)
(*                                                                         *)
(* MasterSlots, for any widths and any calls: resetSlots() finds its slots *)
(* in the first block, where the shift is by zero, and the bound on count  *)
(* keeps it out of the others, whose shifts are undefined.                 *)
(***************************************************************************)
EXTENDS RWLock, MasterSlots, FiniteSetTheorems, NaturalsInduction, WellFoundedInduction, TLAPS

-----------------------------------------------------------------------------
(* The lock *)

\* Whoever is between m and the shared_mutex is the one that holds m.
MutexHeldInside == \A t \in Threads : pc[t] = "locking" <=> m = t

\* The shared_mutex is held by exactly the threads that came out of lock() or
\* lock_shared(), and never in both modes.
SharedMutexHeld ==
  /\ \A w \in Writers : pc[w] = "holding" <=> exclusive = w
  /\ \A r \in Readers : pc[r] = "holding" <=> r \in shared
  /\ exclusive # Free => shared = {}

\* has_writer covers a writer from lock()'s first line to unlock(), a reader
\* inside lock_shared() has seen it FALSE, a sleeping one still sees it TRUE.
FlagIsTrue ==
  /\ exclusive # Free => has_writer
  /\ \A w \in Writers : pc[w] = "locking" => has_writer
  /\ \A r \in Readers : pc[r] = "locking" => ~has_writer
  /\ \A r \in Readers : pc[r] = "waiting" => has_writer

IInv == LockTypeOK /\ MutexHeldInside /\ SharedMutexHeld /\ FlagIsTrue

\* IInv is inductive.
LEMMA Inductive == IInv /\ [LockNext]_lockVars => IInv'
<1> SUFFICES ASSUME IInv, [LockNext]_lockVars PROVE IInv'
  OBVIOUS
<1> USE ThreadsAssumption, FreeAssumption
      DEF IInv, LockTypeOK, MutexHeldInside, SharedMutexHeld, FlagIsTrue,
          Threads, ReaderPlaces, WriterPlaces
<1>1. ASSUME NEW w \in Writers, LockAnnounce(w) PROVE IInv'
  BY <1>1 DEF LockAnnounce
<1>2. ASSUME NEW w \in Writers, LockAcquire(w) PROVE IInv'
  BY <1>2 DEF LockAcquire
<1>3. ASSUME NEW w \in Writers, Unlock(w) PROVE IInv'
  BY <1>3 DEF Unlock, Notified
<1>4. ASSUME NEW r \in Readers, LockSharedTest(r) PROVE IInv'
  BY <1>4 DEF LockSharedTest
<1>5. ASSUME NEW r \in Readers, LockSharedAcquire(r) PROVE IInv'
  BY <1>5 DEF LockSharedAcquire
<1>6. ASSUME NEW r \in Readers, UnlockShared(r) PROVE IInv'
  BY <1>6 DEF UnlockShared
<1>7. CASE UNCHANGED lockVars
  BY <1>7 DEF lockVars
<1> QED
  BY <1>1, <1>2, <1>3, <1>4, <1>5, <1>6, <1>7 DEF LockNext, WriterStep, ReaderStep

\* IInv holds always.
THEOREM Invariant == LockSpec => []IInv
<1>1. LockInit => IInv
  BY ThreadsAssumption, FreeAssumption
     DEF LockInit, IInv, LockTypeOK, MutexHeldInside, SharedMutexHeld, FlagIsTrue,
         Threads, ReaderPlaces, WriterPlaces
<1> QED
  BY <1>1, Inductive, PTL DEF LockSpec

\* Every variable of the lock stays in its range.
THEOREM TypeCorrect == LockSpec => []LockTypeOK
<1>1. IInv => LockTypeOK
  BY DEF IInv
<1> QED
  BY <1>1, Invariant, PTL

\* PpMaster's tables are never read under lock_shared() while a writer has them.
THEOREM MutualExclusion == LockSpec => []Exclusion
<1>1. IInv => Exclusion
  BY ThreadsAssumption, FreeAssumption
     DEF IInv, LockTypeOK, SharedMutexHeld, Exclusion, Threads
<1> QED
  BY <1>1, Invariant, PTL

\* lock_shared() never blocks on the shared_mutex with m in its hands.
THEOREM ReadersPassThrough == LockSpec => []ReaderNeverBlocksWithM
<1>1. IInv => ReaderNeverBlocksWithM
  BY DEF IInv, FlagIsTrue, ReaderNeverBlocksWithM
<1> QED
  BY <1>1, Invariant, PTL

\* A reader sleeps in cv_readers only while a writer holds or awaits the lock.
THEOREM ReadersAreNotified == LockSpec => []NoReaderForgotten
<1>1. IInv => NoReaderForgotten
  BY DEF IInv, FlagIsTrue, NoReaderForgotten
<1> QED
  BY <1>1, Invariant, PTL

\* No reader overtakes a writer that is inside lock().
THEOREM WriterIsNotOvertaken == LockSpec => WriterGoesFirst
<1>1. IInv /\ [LockNext]_lockVars =>
        [(\E w \in Writers : pc[w] = "locking") => shared' \subseteq shared]_lockVars
  <2> SUFFICES ASSUME IInv, [LockNext]_lockVars, NEW w \in Writers, pc[w] = "locking"
               PROVE  shared' \subseteq shared
    OBVIOUS
  <2>1. ASSUME NEW r \in Readers PROVE ~LockSharedAcquire(r)
    BY <2>1, ThreadsAssumption DEF IInv, MutexHeldInside, LockSharedAcquire, Threads
  <2> QED
    BY <2>1 DEF LockNext, WriterStep, ReaderStep, LockAnnounce, LockAcquire, Unlock,
                LockSharedTest, UnlockShared, lockVars
<1> QED
  BY <1>1, Invariant, PTL DEF LockSpec, WriterGoesFirst

\* The only way for all threads to be stuck is the one with two writers.
THEOREM DeadlockNeedsTwoWriters == LockSpec => []OnlyWritersDeadlock
<1>1. IInv => OnlyWritersDeadlock
  <2> SUFFICES ASSUME IInv, ~CanMove
               PROVE  \E v, w \in Writers :
                        pc[v] = "holding" /\ pc[w] = "locking" /\ m = w
    BY DEF OnlyWritersDeadlock, Seized
  <2> USE ThreadsAssumption, FreeAssumption
        DEF IInv, LockTypeOK, MutexHeldInside, SharedMutexHeld, FlagIsTrue, CanMove,
            Threads, ReaderPlaces, WriterPlaces
  <2>1. m # Free
    <3> SUFFICES ASSUME m = Free PROVE FALSE
      OBVIOUS
    <3>1. PICK t \in Threads : TRUE
      OBVIOUS
    <3>2. pc[t] = "holding"
      OBVIOUS
    <3> QED
      BY <3>1, <3>2
  <2>2. m \in Writers /\ pc[m] = "locking"
    BY <2>1
  <2>3. exclusive \in Writers /\ pc[exclusive] = "holding"
    BY <2>2
  <2> QED
    BY <2>2, <2>3
<1> QED
  BY <1>1, Invariant, PTL

-----------------------------------------------------------------------------
(* Recursion up to a number *)

\* A set of natural numbers has a least one.
LEMMA LeastNat ==
  ASSUME NEW S \in SUBSET Nat, S # {}
  PROVE  \E n \in S : \A j \in S : n <= j
<1> DEFINE Less == OpToRel(<, Nat)
<1>1. IsWellFoundedOn(Less, Nat)
  BY NatLessThanWellFounded
<1>2. PICK n \in S : \A j \in S : ~(<<j, n>> \in Less)
  <2> HIDE DEF Less
  <2> QED
    BY <1>1, WFMin
<1>3. ASSUME NEW j \in S PROVE n <= j
  <2>1. ~(<<j, n>> \in {p \in Nat \X Nat : p[1] < p[2]})
    BY <1>2, Zenon DEF OpToRel
  <2> QED
    BY <2>1
<1> QED
  BY <1>3

\* What holds at 0 and goes on from each number to the next holds up to n.
LEMMA Climb ==
  ASSUME NEW n \in Nat, NEW Q, 0 \in Q, \A k \in 1..n : k - 1 \in Q => k \in Q
  PROVE  \A k \in 0..n : k \in Q
<1> DEFINE S == {k \in 0..n : k \notin Q}
<1> SUFFICES ASSUME S # {} PROVE FALSE
  OBVIOUS
<1>1. S \in SUBSET Nat
  OBVIOUS
<1>2. PICK j \in S : \A k \in S : j <= k
  <2> HIDE DEF S
  <2> QED
    BY <1>1, LeastNat
<1>3. j \in 1..n /\ j - 1 \in 0..n /\ ~(j <= j - 1)
  <2>1. j \in 0..n /\ j # 0
    BY <1>2
  <2> QED
    BY <2>1
<1>4. j - 1 \in Q
  BY <1>2, <1>3
<1> QED
  BY <1>2, <1>3, <1>4

Tables(n, V) == [0..n -> V]
Steppers(n, V) == [1..n -> [V -> V]]
Follows(f, v, n, g) == f[0] = v /\ \A k \in 1..n : f[k] = g[k][f[k - 1]]

\* There is a function that starts with v and goes on by g.
LEMMA Recursion ==
  ASSUME NEW V, NEW v \in V, NEW n \in Nat, NEW g \in Steppers(n, V)
  PROVE  \E f \in Tables(n, V) : Follows(f, v, n, g)
<1> USE DEF Steppers, Tables
<1> DEFINE Good_(f, j) == f[0] = v /\ \A k \in 1..j : f[k] = g[k][f[k - 1]]
           Q == {j \in 0..n : \E f \in [0..j -> V] : Good_(f, j)}
<1>1. 0 \in Q
  <2> DEFINE f == [k \in 0..0 |-> v]
  <2>1. f \in [0..0 -> V] /\ f[0] = v
    OBVIOUS
  <2>2. 1..0 = {} /\ 0 \in 0..n
    OBVIOUS
  <2> HIDE DEF f
  <2>3. \E e \in [0..0 -> V] : Good_(e, 0)
    BY <2>1, <2>2
  <2> QED
    BY <2>2, <2>3
<1>2. ASSUME NEW j \in 1..n, j - 1 \in Q PROVE j \in Q
  <2>1. PICK f \in [0..(j - 1) -> V] : Good_(f, j - 1)
    BY <1>2
  <2> DEFINE h == [k \in 0..j |-> IF k = j THEN g[j][f[j - 1]] ELSE f[k]]
  <2>2. j - 1 \in 0..(j - 1) /\ \A k \in 0..j : k # j => k \in 0..(j - 1)
    OBVIOUS
  <2>3. g[j] \in [V -> V]
    OBVIOUS
  <2>4. g[j][f[j - 1]] \in V
    BY <2>2, <2>3
  <2>5. h \in [0..j -> V]
    BY <2>2, <2>4
  <2>6. h[0] = v
    <3>1. 0 \in 0..j /\ 0 # j
      OBVIOUS
    <3> QED
      BY <2>1, <3>1
  <2>7. ASSUME NEW k \in 1..j PROVE h[k] = g[k][h[k - 1]]
    <3>1. k \in 0..j /\ k - 1 \in 0..j /\ k - 1 # j
      OBVIOUS
    <3>2. h[k - 1] = f[k - 1]
      BY <3>1
    <3>3. CASE k = j
      BY <3>1, <3>2, <3>3
    <3>4. CASE k # j
      <4>1. k \in 1..(j - 1) /\ h[k] = f[k]
        BY <3>1, <3>4
      <4> QED
        BY <2>1, <3>2, <4>1
    <3> QED
      BY <3>3, <3>4
  <2> HIDE DEF h
  <2>8. \E e \in [0..j -> V] : Good_(e, j)
    BY <2>5, <2>6, <2>7
  <2>9. j \in 0..n
    OBVIOUS
  <2> QED
    BY <2>8, <2>9
<1> HIDE DEF Q
<1>3. n \in Q
  <2>1. \A k \in 0..n : k \in Q
    BY <1>1, <1>2, Climb
  <2> QED
    BY <2>1
<1> QED
  BY <1>3 DEF Q, Follows

-----------------------------------------------------------------------------
(* Sets of bits *)

\* The bits of S below k.
Below(S, k) == {c \in S : c < k}

\* There are no more bits below k than k, and one more or none below k + 1.
LEMMA BelowNext ==
  ASSUME NEW S \in SUBSET Nat, NEW k \in Nat
  PROVE  /\ k \in S => Below(S, k + 1) = Below(S, k) \cup {k}
         /\ k \notin S => Below(S, k + 1) = Below(S, k)
         /\ k \notin Below(S, k)
         /\ IsFiniteSet(Below(S, k)) /\ Cardinality(Below(S, k)) \in Nat
<1>0. \A c \in S : c \in Nat /\ (c < k + 1 <=> c < k \/ c = k) /\ (c < k => c \in 0..(k - 1))
  OBVIOUS
<1>1. Below(S, k) \subseteq 0..(k - 1) /\ IsFiniteSet(0..(k - 1))
  <2>1. IsFiniteSet(0..(k - 1))
    BY FS_Interval
  <2> QED
    BY <1>0, <2>1, Zenon DEF Below
<1>2. IsFiniteSet(Below(S, k)) /\ Cardinality(Below(S, k)) \in Nat
  BY <1>1, FS_Subset, FS_CardinalityType, Zenon
<1>3. k \in S => Below(S, k + 1) = Below(S, k) \cup {k}
  BY <1>0 DEF Below
<1>4. k \notin S => Below(S, k + 1) = Below(S, k)
  BY <1>0 DEF Below
<1>5. k \notin Below(S, k)
  BY DEF Below
<1> QED
  BY <1>2, <1>3, <1>4, <1>5

\* Taking the lowest n of at least n bits takes n of them, as the while loop of
\* resetSlots() does.
LEMMA LowestCount ==
  ASSUME NEW w \in Nat, NEW S \in SUBSET (0..(w - 1)), NEW n \in Nat, n <= Cardinality(S)
  PROVE  Cardinality(Lowest(S, n)) = n
<1> DEFINE L(k) == {b \in Below(S, k) : Cardinality(Below(S, b)) < n}
           c(k) == Cardinality(Below(S, k))
           Q == {k \in 0..w : Cardinality(L(k)) = IF c(k) < n THEN c(k) ELSE n}
<1>0. S \in SUBSET Nat /\ \A k \in 0..w : k \in Nat
  OBVIOUS
<1>1. 0 \in Q
  <2>1. Below(S, 0) = {}
    <3>1. \A b \in S : ~(b < 0)
      OBVIOUS
    <3> QED
      BY <3>1 DEF Below
  <2>2. L(0) = {}
    BY <2>1
  <2>3. Cardinality(L(0)) = 0 /\ c(0) = 0
    BY <2>1, <2>2, FS_EmptySet
  <2>4. 0 \in 0..w
    OBVIOUS
  <2> HIDE DEF L, c
  <2> QED
    BY <2>3, <2>4
<1>2. ASSUME NEW k \in 1..w, k - 1 \in Q PROVE k \in Q
  <2> DEFINE j == k - 1
  <2>1. j \in Nat /\ j + 1 = k /\ k \in 0..w
    OBVIOUS
  <2>2. /\ j \in S => Below(S, k) = Below(S, j) \cup {j}
        /\ j \notin S => Below(S, k) = Below(S, j)
        /\ j \notin Below(S, j)
        /\ IsFiniteSet(Below(S, j)) /\ c(j) \in Nat
    <3>1. /\ j \in S => Below(S, j + 1) = Below(S, j) \cup {j}
          /\ j \notin S => Below(S, j + 1) = Below(S, j)
          /\ j \notin Below(S, j)
          /\ IsFiniteSet(Below(S, j)) /\ Cardinality(Below(S, j)) \in Nat
      <4> HIDE DEF j
      <4> QED
        BY <1>0, <2>1, BelowNext, Zenon
    <3>2. j + 1 = k
      BY <2>1
    <3> HIDE DEF j
    <3> QED
      BY <3>1, <3>2
  <2>3. L(j) \subseteq Below(S, j) /\ IsFiniteSet(L(j)) /\ j \notin L(j)
    <3>1. L(j) \subseteq Below(S, j)
      OBVIOUS
    <3> HIDE DEF j, L
    <3> QED
      BY <2>2, <3>1, FS_Subset
  <2>4. Cardinality(L(j)) = IF c(j) < n THEN c(j) ELSE n
    BY <1>2
  <2>5. CASE j \notin S
    <3>1. c(k) = c(j) /\ L(k) = L(j)
      <4> HIDE DEF j
      <4> QED
        BY <2>2, <2>5
    <3> HIDE DEF L, c, j
    <3> QED
      BY <2>1, <2>4, <3>1
  <2>6. CASE j \in S
    <3>1. c(k) = c(j) + 1
      <4> HIDE DEF j
      <4> QED
        BY <2>2, <2>6, FS_AddElement
    <3>2. CASE c(j) < n
      <4>1. L(k) = L(j) \cup {j}
        <5> HIDE DEF j
        <5> QED
          BY <2>2, <2>6, <3>2
      <4>2. Cardinality(L(k)) = Cardinality(L(j)) + 1
        <5> HIDE DEF j, L
        <5> QED
          BY <2>3, <4>1, FS_AddElement
      <4> HIDE DEF L, c, j
      <4> QED
        BY <2>1, <2>2, <2>4, <3>1, <3>2, <4>2
    <3>3. CASE ~(c(j) < n)
      <4>1. L(k) = L(j)
        <5> HIDE DEF j
        <5> QED
          BY <2>2, <2>6, <3>3
      <4> HIDE DEF L, c, j
      <4> QED
        BY <2>1, <2>2, <2>4, <3>1, <3>3, <4>1
    <3> QED
      BY <3>2, <3>3
  <2> QED
    BY <2>5, <2>6
<1>3. w \in Q
  <2> HIDE DEF Q
  <2>1. \A k \in 0..w : k \in Q
    BY <1>1, <1>2, Climb
  <2> QED
    BY <2>1
<1>4. Below(S, w) = S
  <2>1. \A b \in S : b < w
    OBVIOUS
  <2> QED
    BY <2>1 DEF Below
<1>5. Lowest(S, n) = L(w)
  BY <1>4 DEF Lowest, Below
<1>6. Cardinality(S) \in Nat
  <2>1. IsFiniteSet(0..(w - 1))
    BY FS_Interval
  <2> QED
    BY <2>1, FS_Subset, FS_CardinalityType
<1>7. Cardinality(L(w)) = IF c(w) < n THEN c(w) ELSE n
  BY <1>3
<1> HIDE DEF L
<1> QED
  BY <1>4, <1>5, <1>6, <1>7

-----------------------------------------------------------------------------
(* The loop of resetSlots() *)

Word == 0..(WordBits - 1)

\* The states of the loop.
Loops == [slots : SUBSET Word, ret : SUBSET Nat, count : Nat]

\* The constants as numbers; there is at least one block.
LEMMA Widths == /\ WordBits \in Nat \ {0} /\ NumBlocks \in Nat \ {0} /\ IntBits \in Nat
                /\ Ends \subseteq Nat /\ Counts \subseteq Nat
<1>1. /\ WordBits \in Nat \ {0} /\ SlotsNum \in Nat \ {0} /\ IntBits \in Nat
      /\ SlotsNum % WordBits = 0
  BY WidthsAssumption
<1>2. NumBlocks \in Nat /\ SlotsNum = WordBits * NumBlocks + (SlotsNum % WordBits)
  BY <1>1 DEF NumBlocks
<1>3. NumBlocks # 0
  <2> SUFFICES ASSUME NumBlocks = 0 PROVE FALSE
    OBVIOUS
  <2>1. WordBits * NumBlocks = 0
    BY <1>1
  <2> QED
    BY <1>1, <1>2, <2>1
<1>4. Ends \subseteq Nat /\ Counts \subseteq Nat
  BY WidthsAssumption, <1>1
<1> QED
  BY <1>1, <1>2, <1>3, <1>4

\* Shifting to the right stays in the word, and by zero changes nothing.
LEMMA RightInWord ==
  ASSUME NEW S \in SUBSET Word, NEW n \in Nat, NEW sem
  PROVE  /\ ShiftRight(S, n, WordBits, sem) \in SUBSET Word
         /\ n = 0 => ShiftRight(S, n, WordBits, sem) = S
<1> DEFINE by == IF n < WordBits THEN n ELSE n % WordBits
<1>1. by \in Nat
  BY Widths
<1>2. ASSUME NEW b \in S, b >= by PROVE b - by \in Word
  BY <1>1, <1>2, Widths DEF Word
<1>3. ShiftRight(S, n, WordBits, sem) \in SUBSET Word
  <2> HIDE DEF Word
  <2> QED
    BY <1>2 DEF ShiftRight
<1>4. ASSUME n = 0 PROVE ShiftRight(S, n, WordBits, sem) = S
  <2>1. by = 0 /\ ~(n >= WordBits)
    BY <1>4, Widths
  <2>2. \A b \in S : b >= by /\ b - by = b
    BY <2>1, Widths DEF Word
  <2>3. ShiftRight(S, n, WordBits, sem) = {b - by : b \in {c \in S : c >= by}}
    BY <2>1 DEF ShiftRight
  <2> HIDE DEF by
  <2>4. {c \in S : c >= by} = S
    BY <2>2
  <2>5. {b - by : b \in S} = S
    BY <2>2
  <2> QED
    BY <2>3, <2>4, <2>5
<1> QED
  BY <1>3, <1>4

\* A set of bits of a word is finite, and so are the lowest of them.
LEMMA FiniteWord ==
  ASSUME NEW S \in SUBSET Word, NEW n
  PROVE  /\ IsFiniteSet(S) /\ Cardinality(S) \in Nat
         /\ Lowest(S, n) \subseteq S /\ Cardinality(Lowest(S, n)) \in Nat
<1>1. IsFiniteSet(Word)
  BY FS_Interval, Widths DEF Word
<1>2. Lowest(S, n) \subseteq S
  BY DEF Lowest
<1> HIDE DEF Word
<1> QED
  BY <1>1, <1>2, FS_Subset, FS_CardinalityType

\* One turn of the loop, from any state of it.
LEMMA BlockTurn ==
  ASSUME NEW s \in Loops, NEW i \in Nat, NEW n \in Nat, NEW ones, NEW sem
  PROVE  /\ Block(s, i, n, ones, sem) \in Loops
         /\ Block(s, i, n, ones, sem).slots \subseteq s.slots
         /\ i = 0 /\ s.ret = {} /\ s.count = 0
              => /\ Block(s, i, n, ones, sem).ret = Lowest(s.slots, n)
                 /\ Block(s, i, n, ones, sem).count = Cardinality(Lowest(s.slots, n))
<1> DEFINE block == ShiftRight(s.slots, i * WordBits, WordBits, sem)
           reset == Lowest(block, n - s.count)
           mask  == ones \ UNION {ShiftLeft({0}, i * WordBits + b, WordBits, sem) : b \in reset}
           B == Block(s, i, n, ones, sem)
           new == {i * WordBits + b : b \in reset}
<1>1. /\ s.slots \in SUBSET Word /\ s.ret \in SUBSET Nat /\ s.count \in Nat
      /\ i * WordBits \in Nat /\ WordBits \in Nat
  BY Widths DEF Loops
<1>2. block \in SUBSET Word /\ (i * WordBits = 0 => block = s.slots)
  BY <1>1, RightInWord
<1>3. reset \in SUBSET Word /\ Cardinality(reset) \in Nat
  <2> HIDE DEF block
  <2> QED
    BY <1>2, FiniteWord
<1>4. new \in SUBSET Nat
  <2>1. \A b \in Word : i * WordBits + b \in Nat
    BY <1>1, Widths DEF Word
  <2> HIDE DEF reset, Word
  <2> QED
    BY <1>3, <2>1
<1>5. /\ B.slots \subseteq s.slots /\ B.ret = s.ret \cup new
      /\ B.count = s.count + Cardinality(reset)
      /\ B = [slots |-> B.slots, ret |-> B.ret, count |-> B.count]
  BY DEF Block
<1>6. B \in Loops
  <2> HIDE DEF B, new, reset, Word
  <2>1. B.slots \in SUBSET Word /\ B.ret \in SUBSET Nat /\ B.count \in Nat
    BY <1>1, <1>3, <1>4, <1>5
  <2> QED
    BY <1>5, <2>1 DEF Loops
<1>7. ASSUME i = 0, s.ret = {}, s.count = 0
      PROVE  B.ret = Lowest(s.slots, n) /\ B.count = Cardinality(Lowest(s.slots, n))
  <2>1. i * WordBits = 0 /\ n - s.count = n
    BY <1>1, <1>7
  <2>2. reset = Lowest(s.slots, n)
    <3>1. block = s.slots
      BY <1>2, <2>1
    <3> HIDE DEF block
    <3> QED
      BY <2>1, <3>1
  <2>3. new = reset
    <3>1. \A b \in Word : i * WordBits + b = b
      BY <2>1, Widths DEF Word
    <3> HIDE DEF reset, Word
    <3> QED
      BY <1>3, <3>1
  <2> HIDE DEF B, new, reset
  <2> QED
    BY <1>3, <1>5, <1>7, <2>2, <2>3
<1> QED
  BY <1>5, <1>6, <1>7

\* The loop begins with what the server has; it goes on while fewer than n slots are
\* found.
LEMMA TurnsAre ==
  ASSUME NEW n \in Nat, NEW ones, NEW sem, slots \in SUBSET Word
  PROVE  LET A == Turns(n, ones, sem)
         IN  /\ A[0] = [slots |-> slots, ret |-> {}, count |-> 0]
             /\ \A k \in 1..NumBlocks :
                  A[k] = IF A[k - 1].count < n THEN Block(A[k - 1], k - 1, n, ones, sem)
                                               ELSE A[k - 1]
<1> DEFINE start == [slots |-> slots, ret |-> {}, count |-> 0]
           Go(s, k) == IF s.count < n THEN Block(s, k - 1, n, ones, sem) ELSE s
           Eq(f) == f = [k \in 0..NumBlocks |-> IF k = 0 THEN start ELSE Go(f[k - 1], k)]
           g == [k \in 1..NumBlocks |-> [s \in Loops |-> Go(s, k)]]
           A == Turns(n, ones, sem)
<1>1. NumBlocks \in Nat
  BY Widths
<1>2. start \in Loops
  BY DEF Loops
<1>3. g \in Steppers(NumBlocks, Loops)
  <2>1. ASSUME NEW k \in 1..NumBlocks, NEW s \in Loops PROVE Go(s, k) \in Loops
    <3>1. k - 1 \in Nat
      BY <1>1
    <3>2. Block(s, k - 1, n, ones, sem) \in Loops
      <4> HIDE DEF Loops
      <4> QED
        BY <3>1, BlockTurn
    <3> QED
      BY <3>2
  <2> HIDE DEF Go, Loops
  <2> QED
    BY <2>1 DEF Steppers
<1>4. \E f \in Tables(NumBlocks, Loops) : Follows(f, start, NumBlocks, g)
  <2> HIDE DEF g, start, Loops
  <2> QED
    BY <1>1, <1>2, <1>3, Recursion, Zenon
<1>5. PICK f \in [0..NumBlocks -> Loops] :
        f[0] = start /\ \A k \in 1..NumBlocks : f[k] = Go(f[k - 1], k)
  <2> HIDE DEF start, Loops
  <2>1. PICK f \in [0..NumBlocks -> Loops] :
          f[0] = start /\ \A k \in 1..NumBlocks : f[k] = g[k][f[k - 1]]
    BY <1>4, Zenon DEF Tables, Follows
  <2>2. ASSUME NEW k \in 1..NumBlocks PROVE f[k] = Go(f[k - 1], k)
    <3>1. k - 1 \in 0..NumBlocks
      BY <1>1
    <3>2. f[k] = g[k][f[k - 1]] /\ f[k - 1] \in Loops
      BY <2>1, <3>1
    <3> HIDE DEF Go
    <3> QED
      BY <3>2
  <2> HIDE DEF Go
  <2> QED
    BY <2>1, <2>2
<1>6. Eq(f)
  <2> HIDE DEF start, Go, Loops
  <2>1. ASSUME NEW k \in 0..NumBlocks PROVE f[k] = IF k = 0 THEN start ELSE Go(f[k - 1], k)
    <3>1. k = 0 \/ k \in 1..NumBlocks
      BY <1>1
    <3> QED
      BY <1>5, <3>1
  <2> QED
    BY <1>5, <2>1
<1>7. Eq(A)
  <2>1. A = CHOOSE e : Eq(e)
    BY DEF Turns
  <2> HIDE DEF Eq, A
  <2> QED
    BY <1>6, <2>1
<1>8. A[0] = start /\ \A k \in 1..NumBlocks : A[k] = Go(A[k - 1], k)
  <2>1. 0 \in 0..NumBlocks /\ \A k \in 1..NumBlocks : k \in 0..NumBlocks /\ k # 0
    BY <1>1
  <2> HIDE DEF A, start, Go
  <2> QED
    BY <1>7, <2>1
<1> QED
  BY <1>8

\* The loop only takes slots away, and when the server has n slots the ones returned are
\* its n lowest.
LEMMA LoopEnds ==
  ASSUME NEW n \in Nat, NEW ones, NEW sem, slots \in SUBSET Word
  PROVE  /\ Blocks(n, ones, sem) \in Loops
         /\ Blocks(n, ones, sem).slots \subseteq slots
         /\ n <= Cardinality(slots) => /\ Blocks(n, ones, sem).ret \subseteq slots
                                       /\ Cardinality(Blocks(n, ones, sem).ret) = n
<1> DEFINE A == Turns(n, ones, sem)
           enough == n <= Cardinality(slots)
           Found(s) == enough => s.ret = Lowest(slots, n) /\ s.count = n
           Q == {k \in 0..NumBlocks : A[k] \in Loops /\ A[k].slots \subseteq slots
                                        /\ (k # 0 => Found(A[k]))}
           start == [slots |-> slots, ret |-> {}, count |-> 0]
<1>1. /\ A[0] = start
      /\ \A k \in 1..NumBlocks :
           A[k] = IF A[k - 1].count < n THEN Block(A[k - 1], k - 1, n, ones, sem) ELSE A[k - 1]
  BY TurnsAre
<1>2. NumBlocks \in Nat \ {0}
  BY Widths
<1>3. start \in Loops
  BY DEF Loops
<1>4. enough => Cardinality(Lowest(slots, n)) = n
  BY LowestCount, Widths DEF Word
<1>5. 0 \in Q
  <2> HIDE DEF A, Loops
  <2> QED
    BY <1>1, <1>2, <1>3
<1>6. ASSUME NEW k \in 1..NumBlocks, k - 1 \in Q PROVE k \in Q
  <2> DEFINE s == A[k - 1]
             t == Block(s, k - 1, n, ones, sem)
  <2>1. k - 1 \in Nat /\ k \in 0..NumBlocks /\ k # 0 /\ (k = 1 <=> k - 1 = 0)
    BY <1>2
  <2>2. s \in Loops /\ s.slots \subseteq slots /\ (k - 1 # 0 => Found(s))
    BY <1>6
  <2>3. A[k] = IF s.count < n THEN t ELSE s
    <3> HIDE DEF A
    <3> QED
      BY <1>1
  <2>4. /\ t \in Loops /\ t.slots \subseteq s.slots
        /\ k - 1 = 0 /\ s.ret = {} /\ s.count = 0
             => t.ret = Lowest(s.slots, n) /\ t.count = Cardinality(Lowest(s.slots, n))
    <3> DEFINE i == k - 1
    <3>1. i \in Nat /\ s \in Loops
      BY <2>1, <2>2
    <3> HIDE DEF s, i, Loops
    <3> QED
      BY <3>1, BlockTurn DEF i
  <2>5. A[k] \in Loops /\ A[k].slots \subseteq slots
    <3> HIDE DEF s, t, A, Loops
    <3> QED
      BY <2>2, <2>3, <2>4
  <2>6. Found(A[k])
    <3>1. CASE k - 1 = 0
      <4>1. s = start
        <5> HIDE DEF A, start
        <5> QED
          BY <1>1, <3>1
      <4>2. s.slots = slots /\ s.ret = {} /\ s.count = 0
        <5> HIDE DEF s
        <5> QED
          BY <4>1
      <4>3. t.ret = Lowest(slots, n) /\ t.count = Cardinality(Lowest(slots, n))
        <5> HIDE DEF s, t
        <5> QED
          BY <2>4, <3>1, <4>2
      <4>4. CASE n = 0
        <5>1. Lowest(slots, n) = {}
          <6>1. \A b \in slots : ~(Cardinality({c \in slots : c < b}) < 0)
            <7>1. ASSUME NEW b \in slots PROVE Cardinality({c \in slots : c < b}) \in Nat
              <8>1. {c \in slots : c < b} \in SUBSET Word
                OBVIOUS
              <8> QED
                BY <8>1, FiniteWord
            <7> QED
              BY <7>1
          <6> QED
            BY <4>4, <6>1 DEF Lowest
        <5> HIDE DEF s, t, A
        <5> QED
          BY <2>3, <4>2, <4>4, <5>1
      <4>5. CASE n # 0
        <5> HIDE DEF s, t, A
        <5> QED
          BY <1>4, <2>3, <4>2, <4>3, <4>5
      <4> QED
        BY <4>4, <4>5
    <3>2. CASE k - 1 # 0
      <4>1. enough => ~(s.count < n)
        <5> HIDE DEF s, A
        <5> QED
          BY <2>2, <3>2
      <4> HIDE DEF s, t, A
      <4> QED
        BY <2>2, <2>3, <3>2, <4>1
    <3> QED
      BY <3>1, <3>2
  <2> HIDE DEF A, Found, Loops
  <2> QED
    BY <2>1, <2>5, <2>6
<1>7. NumBlocks \in Q
  <2> HIDE DEF Q
  <2>1. \A k \in 0..NumBlocks : k \in Q
    BY <1>2, <1>5, <1>6, Climb
  <2> QED
    BY <1>2, <2>1
<1>8. Blocks(n, ones, sem) = A[NumBlocks]
  BY DEF Blocks
<1>9. Lowest(slots, n) \subseteq slots
  BY DEF Lowest
<1> HIDE DEF A, Loops
<1> QED
  BY <1>2, <1>4, <1>7, <1>8, <1>9

-----------------------------------------------------------------------------
(* Every call *)

\* A shift to the left is cut to the word, so that the mask of rangeSetSlots() has the
\* bits of an int, and those of its sign.
LEMMA MaskIsBits ==
  ASSUME NEW a, NEW b, NEW sem
  PROVE  Mask(a, b, sem) \subseteq Word
<1> DEFINE one == ShiftLeft({0}, b - a, IntBits, sem)
           bits == ShiftLeft(MinusOne(one, IntBits), a, IntBits, sem)
<1>1. bits \subseteq 0..(IntBits - 1)
  <2> DEFINE one_ == MinusOne(one, IntBits)
  <2> HIDE DEF one_
  <2> QED
    BY DEF ShiftLeft
<1>2. 0..(IntBits - 1) \subseteq Word /\ IntBits..(WordBits - 1) \subseteq Word
  BY WidthsAssumption DEF Word
<1>3. Mask(a, b, sem) = SignExtend(bits)
  BY DEF Mask
<1> HIDE DEF bits, Word
<1> QED
  BY <1>1, <1>2, <1>3 DEF SignExtend

\* The slots set are those of one word, and the last call is told of truly.
SlotsInv ==
  /\ slots \in SUBSET Word
  /\ ResetReturnsOwnSlots

\* Both operations keep SlotsInv.
LEMMA SlotsInductive == SlotsInv /\ [SlotsNext]_slotsVars => SlotsInv'
<1> SUFFICES ASSUME SlotsInv, [SlotsNext]_slotsVars PROVE SlotsInv'
  OBVIOUS
<1>1. slots \in SUBSET Word
  BY DEF SlotsInv
<1>2. ASSUME NEW a \in Ends, NEW b \in Ends, rangeSetSlots(a, b) PROVE SlotsInv'
  <2>1. slots' \in SUBSET Word
    <3>1. PICK sem \in {"wrap", "zero"} : slots' = slots \cup Mask(a, b, sem)
      BY <1>2 DEF rangeSetSlots
    <3> HIDE DEF Word
    <3> QED
      BY <1>1, <3>1, MaskIsBits
  <2>2. last'.op # "reset"
    BY <1>2 DEF rangeSetSlots
  <2> QED
    BY <2>1, <2>2 DEF SlotsInv, ResetReturnsOwnSlots, Word
<1>3. ASSUME NEW n \in Counts, resetSlots(n) PROVE SlotsInv'
  <2>1. PICK ones \in {{}, 0..(WordBits - 1)}, sem \in {"wrap", "zero"} :
          /\ slots' = Blocks(n, ones, sem).slots
          /\ last' = [op |-> "reset", n |-> n, ret |-> Blocks(n, ones, sem).ret,
                      before |-> slots]
    BY <1>3 DEF resetSlots
  <2>2. n \in Nat
    BY Widths
  <2> DEFINE end == Blocks(n, ones, sem)
  <2>3. /\ end.slots \subseteq slots
        /\ n <= Cardinality(slots) => end.ret \subseteq slots /\ Cardinality(end.ret) = n
    BY <1>1, <2>2, LoopEnds
  <2> HIDE DEF end
  <2>4. slots' \in SUBSET Word
    <3>1. slots' = end.slots
      BY <2>1 DEF end
    <3> HIDE DEF Word
    <3> QED
      BY <1>1, <2>3, <3>1
  <2>5. last'.n = n /\ last'.ret = end.ret /\ last'.before = slots
    BY <2>1 DEF end
  <2> QED
    BY <2>3, <2>4, <2>5 DEF SlotsInv, ResetReturnsOwnSlots, Word
<1>4. ASSUME UNCHANGED slotsVars PROVE SlotsInv'
  BY <1>4 DEF SlotsInv, slotsVars, ResetReturnsOwnSlots, Word
<1> QED
  BY <1>2, <1>3, <1>4 DEF SlotsNext

\* resetSlots() returns as many slots as it is asked for, all of them slots the server
\* had, as long as the server has that many.
THEOREM ResetReturnsOwn == SlotsSpec => []ResetReturnsOwnSlots
<1>1. SlotsInit => SlotsInv
  BY DEF SlotsInit, SlotsInv, ResetReturnsOwnSlots
<1>2. SlotsInv => ResetReturnsOwnSlots
  BY DEF SlotsInv
<1> QED
  BY <1>1, <1>2, SlotsInductive, PTL DEF SlotsSpec

\* Every slot that is set is one of the first word, so that to_ullong() in resetSlots()
\* never throws.
THEOREM SlotsFitWord == SlotsSpec => [](\A b \in slots : b < WordBits)
<1>1. SlotsInit => SlotsInv
  BY DEF SlotsInit, SlotsInv, ResetReturnsOwnSlots
<1>2. SlotsInv => \A b \in slots : b < WordBits
  BY Widths DEF SlotsInv, Word
<1> QED
  BY <1>1, <1>2, SlotsInductive, PTL DEF SlotsSpec

=============================================================================
