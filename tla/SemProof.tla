------------------------------ MODULE SemProof ------------------------------
(***************************************************************************)
(* Proofs about the semaphore library, for every number of processes, sets *)
(* and exits: the lock member is a lock, the counter counts, the critical  *)
(* section is one.                                                         *)
(***************************************************************************)
EXTENDS Sem, FiniteSetTheorems, TLAPS

\* The types of the variables the invariants are about.
Types ==
    /\ gen \in Nat /\ live \in BOOLEAN
    /\ sem \in [Members -> Int]
    /\ undo \in [Procs -> [Members -> Int]]
    /\ pc \in [Procs -> Labels]
    /\ id \in [Procs -> Nat]

\* The identifiers of sets: 0 is none, gen is the last one.
Generations ==
    /\ live => gen # 0
    /\ ~live => sem = Zero
    /\ \A p \in Procs : id[p] <= gen

\* 1 for a process on one of the labels with the set that exists, 0 for another.
in(p, labels) == IF pc[p] \in labels /\ Valid(p) THEN 1 ELSE 0

LockLabels ==
    {"create.getval", "create.setval0", "create.setval1", "create.end",
     "close.getval", "close.rm", "close.unlock"}
UserLabels == {"using", "holding", "close.semop"}
HolderLabels == {"holding"}

\* What an exit takes back is what the process has added: the lock between lock
\* and unlock, its place in the counter, the critical section.
UndoCorrect ==
    \A p \in Procs :
        /\ undo[p].lock = -in(p, LockLabels)
        /\ undo[p].count = in(p, UserLabels)
        /\ undo[p].val = in(p, HolderLabels)

\* What sem_create() knows under the lock.
Creating ==
    \A p \in Procs : Valid(p) =>
        /\ pc[p] \in {"create.setval0", "create.setval1"} => sem.count = 0
        /\ pc[p] = "create.setval1" => sem.val = 1
        /\ pc[p] = "create.end" => sem.count # 0

IInv ==
    /\ Types /\ Generations /\ UndoCorrect /\ Creating
    /\ LockHeld /\ CounterCorrect /\ CriticalSection
----------------------------------------------------------------------------
\* The processes on some labels are finitely many, no more than all.
LEMMA OnFinite ==
  ASSUME NEW labels
  PROVE  /\ IsFiniteSet(On(labels)) /\ Cardinality(On(labels)) \in Nat
         /\ Cardinality(On(labels)) < BIGCOUNT
<1>1. On(labels) \subseteq Procs
  BY DEF On
<1>2. IsFiniteSet(Procs) /\ Cardinality(Procs) < BIGCOUNT /\ BIGCOUNT \in Nat
  BY SemAssumption
<1>3. IsFiniteSet(On(labels)) /\ Cardinality(On(labels)) <= Cardinality(Procs)
  BY <1>1, <1>2, FS_Subset
<1> QED
  BY <1>2, <1>3, FS_CardinalityType

\* A step of one process changes the number of processes on some labels by that
\* process.
LEMMA OnChange ==
  ASSUME NEW labels, NEW p \in Procs, UNCHANGED <<gen, live>>,
         \A q \in Procs \ {p} : pc'[q] = pc[q] /\ id'[q] = id[q]
  PROVE  /\ Cardinality(On(labels)') = Cardinality(On(labels)) + in(p, labels)' - in(p, labels)
         /\ \A q \in Procs \ {p} : Valid(q)' = Valid(q) /\ in(q, labels)' = in(q, labels)
<1>1. \A q \in Procs \ {p} : Valid(q)' = Valid(q) /\ in(q, labels)' = in(q, labels)
  BY DEF Valid, in
<1>2. On(labels) \ {p} = On(labels)' \ {p}
  BY DEF On, Valid
<1>3. in(p, labels) = (IF p \in On(labels) THEN 1 ELSE 0)
      /\ in(p, labels)' = (IF p \in On(labels)' THEN 1 ELSE 0)
  BY DEF On, in
<1>4. IsFiniteSet(On(labels)) /\ Cardinality(On(labels)) \in Nat
  BY OnFinite
<1>5. IsFiniteSet(On(labels)') /\ Cardinality(On(labels)') \in Nat
  <2>1. On(labels)' \subseteq Procs
    BY DEF On
  <2> QED
    BY <2>1, SemAssumption, FS_Subset, FS_CardinalityType
<1>6. \A S : IsFiniteSet(S) /\ Cardinality(S) \in Nat =>
         Cardinality(S) = Cardinality(S \ {p}) + (IF p \in S THEN 1 ELSE 0)
               /\ Cardinality(S \ {p}) \in Nat
  BY FS_RemoveElement, FS_CardinalityType
<1>7. Cardinality(On(labels)') - in(p, labels)' = Cardinality(On(labels)) - in(p, labels)
  <2> DEFINE A == On(labels)
             B == On(labels)'
  <2>1. Cardinality(A) = Cardinality(A \ {p}) + (IF p \in A THEN 1 ELSE 0)
    BY <1>4, <1>6
  <2>2. Cardinality(B) = Cardinality(B \ {p}) + (IF p \in B THEN 1 ELSE 0)
    BY <1>5, <1>6
  <2>3. A \ {p} = B \ {p} /\ Cardinality(A \ {p}) \in Nat
    BY <1>2, <1>4, <1>6
  <2> QED
    BY <1>3, <2>1, <2>2, <2>3
<1>8. in(p, labels) \in Int /\ in(p, labels)' \in Int
  BY <1>3
<1> QED
  BY <1>1, <1>4, <1>5, <1>7, <1>8

\* The sets of the invariants, by their labels; the number of a set is 0 only if
\* nobody is in it, and 1 only if everybody in it is one process.
LEMMA Sets == Locking = On(LockLabels) /\ Users = On(UserLabels) /\ Holders = On(HolderLabels)
  BY DEF Locking, Users, Holders, LockLabels, UserLabels, HolderLabels

LEMMA OnZero ==
  ASSUME NEW labels
  PROVE  /\ Cardinality(On(labels)) = 0 <=> On(labels) = {}
         /\ On(labels) = {} <=> \A p \in Procs : in(p, labels) = 0
<1>1. Cardinality(On(labels)) = 0 <=> On(labels) = {}
  BY OnFinite, FS_EmptySet
<1>2. On(labels) = {} <=> \A p \in Procs : in(p, labels) = 0
  BY DEF On, in
<1> QED
  BY <1>1, <1>2

LEMMA OneLocking ==
  ASSUME LockHeld, NEW p \in Procs, NEW q \in Procs,
         in(p, LockLabels) = 1, in(q, LockLabels) = 1
  PROVE  p = q
<1>1. p \in On(LockLabels) /\ q \in On(LockLabels)
  BY DEF On, in
<1>2. Cardinality(On(LockLabels)) <= 1 /\ IsFiniteSet(On(LockLabels))
  BY Sets, OnFinite DEF LockHeld
<1>3. Cardinality(On(LockLabels) \ {p}) = Cardinality(On(LockLabels)) - 1
  BY <1>1, <1>2, FS_RemoveElement
<1>4. Cardinality(On(LockLabels) \ {p}) = 0
  BY <1>1, <1>2, <1>3, FS_RemoveElement, FS_CardinalityType, OnFinite
<1>5. On(LockLabels) \ {p} = {}
  BY <1>2, <1>4, FS_RemoveElement, FS_EmptySet, FS_Subset
<1> QED
  BY <1>1, <1>5
----------------------------------------------------------------------------
LEMMA InitInv == Init => IInv
<1> SUFFICES ASSUME Init PROVE IInv
  OBVIOUS
<1> USE DEF Init
<1>1. Types /\ Generations
  <2>1. Zero \in [Members -> Int]
    BY DEF Zero, Members
  <2>2. gen \in Nat /\ live \in BOOLEAN /\ sem \in [Members -> Int]
        /\ undo \in [Procs -> [Members -> Int]]
    BY <2>1
  <2>3. pc \in [Procs -> Labels] /\ id \in [Procs -> Nat]
    BY DEF Labels
  <2> QED
    BY <2>2, <2>3 DEF Types, Generations
<1>2. \A p \in Procs : ~Valid(p)
  BY DEF Valid
<1>3. UndoCorrect /\ Creating
  BY <1>2 DEF UndoCorrect, Creating, in, Zero
<1>4. Locking = {} /\ Users = {} /\ Holders = {}
  BY <1>2, Sets DEF On
<1>5. LockHeld /\ CounterCorrect /\ CriticalSection
  BY <1>4, FS_EmptySet DEF LockHeld, CounterCorrect, CriticalSection, Zero
<1> QED
  BY <1>1, <1>3, <1>5 DEF IInv

\* A step of process p within the set that exists: the members of the set move
\* as its own place among the lock holders, users and critical sections does.
LEMMA LocalStep ==
  ASSUME IInv, NEW p \in Procs, UNCHANGED <<gen, live>>,
         pc' \in [Procs -> Labels], id' \in [Procs -> Nat],
         sem' \in [Members -> Int], undo' \in [Procs -> [Members -> Int]],
         \A q \in Procs \ {p} : pc'[q] = pc[q] /\ id'[q] = id[q] /\ undo'[q] = undo[q],
         id'[p] <= gen, ~live => sem' = sem,
         undo'[p].lock = -in(p, LockLabels)',
         undo'[p].count = in(p, UserLabels)',
         undo'[p].val = in(p, HolderLabels)',
         sem'.lock = sem.lock + in(p, LockLabels)' - in(p, LockLabels),
         sem'.lock <= 1,
         sem.count # 0 => /\ sem'.count = sem.count + in(p, UserLabels) - in(p, UserLabels)'
                          /\ sem'.val = sem.val + in(p, HolderLabels) - in(p, HolderLabels)',
         sem.count = 0 => sem'.count = 0 /\ sem'.val = sem.val /\ in(p, UserLabels)' = 0,
         pc'[p] \in {"create.setval0", "create.setval1"} => sem'.count = 0,
         pc'[p] = "create.setval1" => sem'.val = 1,
         pc'[p] = "create.end" => sem'.count # 0
  PROVE  IInv'
<1>1. Types' /\ Generations'
  BY DEF IInv, Types, Generations
<1> DEFINE Counted(labels) ==
              /\ Cardinality(On(labels)') = Cardinality(On(labels)) + in(p, labels)' - in(p, labels)
              /\ \A q \in Procs \ {p} : Valid(q)' = Valid(q) /\ in(q, labels)' = in(q, labels)
<1>2. Counted(LockLabels) /\ Counted(UserLabels) /\ Counted(HolderLabels)
  BY OnChange
<1>3. UndoCorrect'
  BY <1>2 DEF IInv, UndoCorrect
<1> DEFINE SetsNow == /\ Locking = On(LockLabels) /\ Users = On(UserLabels)
                      /\ Holders = On(HolderLabels)
<1>21. SetsNow /\ SetsNow'
  BY DEF Locking, Users, Holders, LockLabels, UserLabels, HolderLabels, On, Valid
<1>22. \A labels : in(p, labels) \in Int /\ in(p, labels)' \in Int
                 /\ Cardinality(On(labels)) \in Nat
  BY OnFinite DEF in
<1>23. sem.lock \in Int /\ sem.count \in Int /\ sem.val \in Int
       /\ sem'.lock \in Int /\ sem'.count \in Int /\ sem'.val \in Int
  BY DEF IInv, Types, Members
<1>4. LockHeld'
  <2>1. Cardinality(On(LockLabels)) = sem.lock
    BY <1>21 DEF IInv, LockHeld
  <2>2. Cardinality(On(LockLabels)') = sem'.lock
    BY <1>2, <1>22, <1>23, <2>1
  <2> QED
    BY <1>21, <2>2 DEF LockHeld
<1>5. sem.count = 0 => \A q \in Procs : in(q, UserLabels)' = 0
  BY <1>2, OnZero, Sets DEF IInv, CounterCorrect
<1>6. On(UserLabels)' = {} <=> \A q \in Procs : in(q, UserLabels)' = 0
  BY DEF On, in
<1>7. Cardinality(On(UserLabels)') < BIGCOUNT /\ Cardinality(On(UserLabels)') \in Nat
  <2>1. On(UserLabels)' \subseteq Procs /\ IsFiniteSet(Procs) /\ Cardinality(Procs) < BIGCOUNT
    BY SemAssumption DEF On
  <2>2. IsFiniteSet(On(UserLabels)') /\ Cardinality(On(UserLabels)') <= Cardinality(Procs)
    BY <2>1, FS_Subset
  <2> QED
    BY <2>1, <2>2, FS_CardinalityType, SemAssumption
<1>8. sem.count # 0 => sem'.count = BIGCOUNT - Cardinality(On(UserLabels)') /\ sem'.count # 0
  <2>1. sem.count # 0 => sem.count = BIGCOUNT - Cardinality(On(UserLabels))
    BY Sets DEF IInv, CounterCorrect
  <2>2. Cardinality(On(UserLabels)) \in Nat /\ in(p, UserLabels) \in Int /\ in(p, UserLabels)' \in Int
    BY OnFinite DEF in
  <2>3. BIGCOUNT \in Nat
    BY SemAssumption
  <2> QED
    BY <1>2, <1>7, <2>1, <2>2, <2>3
<1>9. CounterCorrect'
  <2>1. CASE sem.count = 0
    <3>1. \A q \in Procs : in(q, UserLabels)' = 0
      BY <1>2, <1>5, <2>1
    <3> QED
      BY <1>6, <1>21, <2>1, <3>1 DEF CounterCorrect
  <2>2. CASE sem.count # 0
    BY <1>8, <1>21, <2>2 DEF CounterCorrect
  <2> QED
    BY <2>1, <2>2
<1>10. CriticalSection'
  <2> SUFFICES ASSUME live', sem'.count # 0
               PROVE  sem'.val = 1 - Cardinality(On(HolderLabels)')
    BY <1>21 DEF CriticalSection
  <2>1. live /\ sem.count # 0
    OBVIOUS
  <2>2. sem.val = 1 - Cardinality(On(HolderLabels))
    BY <1>21, <2>1 DEF IInv, CriticalSection
  <2> QED
    BY <1>2, <1>22, <1>23, <2>1, <2>2
<1>11. Creating'
  BY <1>2, <1>8 DEF IInv, Creating
<1> QED
  BY <1>1, <1>3, <1>4, <1>9, <1>10, <1>11 DEF IInv

\* What semop() does, member by member.
LEMMA SemopEffect ==
  ASSUME Types, NEW p \in Procs, NEW zero, NEW a \in Int, NEW b \in Int, NEW c \in Int,
         NEW from, NEW to \in Labels, Semop(p, Op(zero, a, b, c), from, to)
  PROVE  /\ pc[p] = from /\ Valid(p)
         /\ sem' \in [Members -> Int] /\ undo' \in [Procs -> [Members -> Int]]
         /\ sem'.val = sem.val + a /\ sem'.count = sem.count + b /\ sem'.lock = sem.lock + c
         /\ sem'.val >= 0 /\ sem'.count >= 0 /\ sem'.lock >= 0
         /\ "lock" \in zero => sem.lock = 0
         /\ undo'[p].val = undo[p].val - a
         /\ undo'[p].count = undo[p].count - b
         /\ undo'[p].lock = undo[p].lock - c
         /\ \A q \in Procs \ {p} : undo'[q] = undo[q]
         /\ pc' = [pc EXCEPT ![p] = to] /\ UNCHANGED <<gen, live, id>>
<1> DEFINE add == [val |-> a, count |-> b, lock |-> c]
<1>1. /\ pc[p] = from /\ Valid(p) /\ pc' = [pc EXCEPT ![p] = to] /\ UNCHANGED <<gen, live, id>>
      /\ sem' = [m \in Members |-> sem[m] + add[m]]
      /\ undo' = [undo EXCEPT ![p] = [m \in Members |-> undo[p][m] - add[m]]]
      /\ \A m \in zero : sem[m] = 0
      /\ \A m \in DOMAIN sem : sem[m] + add[m] >= 0
  BY DEF Semop, Op, Plus, Minus, Goto, Members, Possible
<1>2. add.val = a /\ add.count = b /\ add.lock = c
  OBVIOUS
<1>3. \A m \in Members : add[m] \in Int
  BY <1>2 DEF Members
<1> HIDE DEF add
<1>4. sem' \in [Members -> Int] /\ undo' \in [Procs -> [Members -> Int]]
  BY <1>1, <1>3 DEF Types
<1>5. "val" \in Members /\ "count" \in Members /\ "lock" \in Members /\ DOMAIN sem = Members
  BY DEF Members, Types
<1>6. sem'.val = sem.val + a /\ sem'.count = sem.count + b /\ sem'.lock = sem.lock + c
  BY <1>1, <1>2, <1>5
<1>7. sem'.val >= 0 /\ sem'.count >= 0 /\ sem'.lock >= 0
  BY <1>1, <1>2, <1>5, <1>6
<1>8. /\ undo'[p] = [m \in Members |-> undo[p][m] - add[m]]
      /\ \A q \in Procs \ {p} : undo'[q] = undo[q]
  BY <1>1 DEF Types
<1>9. /\ undo'[p].val = undo[p].val - a /\ undo'[p].count = undo[p].count - b
      /\ undo'[p].lock = undo[p].lock - c
  BY <1>2, <1>5, <1>8
<1> QED
  BY <1>1, <1>4, <1>6, <1>7, <1>8, <1>9

\* A step that moves no variable of the invariants.
LEMMA StillInv ==
  ASSUME IInv, UNCHANGED <<gen, live, sem, undo, pc, id>>
  PROVE  IInv'
<1> \A labels : On(labels)' = On(labels)
  BY DEF On, Valid
<1> Locking' = Locking /\ Users' = Users /\ Holders' = Holders
  BY DEF Locking, Users, Holders
<1> QED
  BY DEF IInv, Types, Generations, UndoCorrect, Creating, LockHeld, CounterCorrect,
         CriticalSection, in, Valid

\* While the counter is 0 nobody is counted.
LEMMA NobodyCounted ==
  ASSUME IInv, sem.count = 0
  PROVE  \A q \in Procs : in(q, UserLabels) = 0 /\ in(q, HolderLabels) = 0
<1>1. Users = {}
  BY DEF IInv, CounterCorrect
<1> QED
  BY <1>1 DEF Users, On, in, UserLabels, HolderLabels

bit(label, labels) == IF label \in labels THEN 1 ELSE 0

\* A semop() that adds to the members what its process becomes or ceases to be.
LEMMA SemopStep ==
  ASSUME IInv, NEW p \in Procs, NEW zero, NEW a \in Int, NEW b \in Int, NEW c \in Int,
         NEW from \in Labels, NEW to \in Labels, Semop(p, Op(zero, a, b, c), from, to),
         a = bit(from, HolderLabels) - bit(to, HolderLabels),
         b = bit(from, UserLabels) - bit(to, UserLabels),
         c = bit(to, LockLabels) - bit(from, LockLabels),
         c = 1 => "lock" \in zero,
         to \notin {"create.setval0", "create.setval1", "create.end"}
  PROVE  IInv'
<1>1. Types
  BY DEF IInv
<1>2. /\ pc[p] = from /\ Valid(p)
      /\ sem' \in [Members -> Int] /\ undo' \in [Procs -> [Members -> Int]]
      /\ sem'.val = sem.val + a /\ sem'.count = sem.count + b /\ sem'.lock = sem.lock + c
      /\ sem'.count >= 0
      /\ "lock" \in zero => sem.lock = 0
      /\ undo'[p].val = undo[p].val - a
      /\ undo'[p].count = undo[p].count - b
      /\ undo'[p].lock = undo[p].lock - c
      /\ \A q \in Procs \ {p} : undo'[q] = undo[q]
      /\ pc' = [pc EXCEPT ![p] = to] /\ UNCHANGED <<gen, live, id>>
  BY <1>1, SemopEffect
<1>3. /\ pc' \in [Procs -> Labels] /\ pc'[p] = to /\ id' \in [Procs -> Nat]
      /\ \A q \in Procs \ {p} : pc'[q] = pc[q] /\ id'[q] = id[q]
      /\ id'[p] <= gen /\ live
  BY <1>1, <1>2 DEF Types, IInv, Generations, Valid
<1>4. \A labels : in(p, labels) = bit(from, labels) /\ in(p, labels)' = bit(to, labels)
  BY <1>2, <1>3 DEF in, bit, Valid
<1>5. \A labels : bit(from, labels) \in {0, 1} /\ bit(to, labels) \in {0, 1}
  BY DEF bit
<1>6. sem.val \in Int /\ sem.count \in Int /\ sem.lock \in Int /\ sem.lock <= 1
  BY DEF IInv, Types, Members, LockHeld
<1>7. /\ undo[p].lock = -in(p, LockLabels) /\ undo[p].count = in(p, UserLabels)
      /\ undo[p].val = in(p, HolderLabels)
  BY DEF IInv, UndoCorrect
<1>8. /\ undo'[p].lock = -in(p, LockLabels)' /\ undo'[p].count = in(p, UserLabels)'
      /\ undo'[p].val = in(p, HolderLabels)'
  BY <1>2, <1>4, <1>5, <1>7
<1>9. /\ sem'.lock = sem.lock + in(p, LockLabels)' - in(p, LockLabels)
      /\ sem'.count = sem.count + in(p, UserLabels) - in(p, UserLabels)'
      /\ sem'.val = sem.val + in(p, HolderLabels) - in(p, HolderLabels)'
  BY <1>2, <1>4, <1>5, <1>6
<1>10. sem'.lock <= 1
  BY <1>2, <1>5, <1>6
<1>11. sem.count = 0 => sem'.count = 0 /\ sem'.val = sem.val /\ in(p, UserLabels)' = 0
  <2> SUFFICES ASSUME sem.count = 0
               PROVE  sem'.count = 0 /\ sem'.val = sem.val /\ in(p, UserLabels)' = 0
    OBVIOUS
  <2>1. bit(from, UserLabels) = 0 /\ bit(from, HolderLabels) = 0
    BY <1>4, NobodyCounted
  <2>2. bit(to, UserLabels) = 0
    BY <1>2, <1>5, <2>1
  <2>3. bit(to, HolderLabels) = 0
    BY <2>2 DEF bit, UserLabels, HolderLabels
  <2> QED
    BY <1>2, <1>4, <1>6, <2>1, <2>2, <2>3
<1> QED
  BY <1>2, <1>3, <1>8, <1>9, <1>10, <1>11, LocalStep

\* A process goes on without a change of the set.
LEMMA LabelStep ==
  ASSUME IInv, NEW p \in Procs, NEW to \in Labels,
         UNCHANGED <<gen, live, sem, undo>>, pc' = [pc EXCEPT ![p] = to],
         id' \in [Procs -> Nat], \A q \in Procs \ {p} : id'[q] = id[q], id'[p] <= gen,
         in(p, LockLabels)' = in(p, LockLabels), in(p, UserLabels)' = in(p, UserLabels),
         in(p, HolderLabels)' = in(p, HolderLabels),
         to \in {"create.setval0", "create.setval1"} => sem.count = 0,
         to # "create.setval1",
         to = "create.end" => sem.count # 0
  PROVE  IInv'
<1>1. /\ pc' \in [Procs -> Labels] /\ pc'[p] = to
      /\ \A q \in Procs \ {p} : pc'[q] = pc[q] /\ undo'[q] = undo[q]
      /\ sem' \in [Members -> Int] /\ undo' \in [Procs -> [Members -> Int]]
  BY DEF IInv, Types
<1>2. sem.val \in Int /\ sem.count \in Int /\ sem.lock \in Int /\ sem.lock <= 1
  BY DEF IInv, Types, Members, LockHeld
<1>3. \A labels : in(p, labels) \in Int
  BY DEF in
<1>4. /\ undo'[p].lock = -in(p, LockLabels)' /\ undo'[p].count = in(p, UserLabels)'
      /\ undo'[p].val = in(p, HolderLabels)'
  BY DEF IInv, UndoCorrect
<1>5. /\ sem'.lock = sem.lock + in(p, LockLabels)' - in(p, LockLabels)
      /\ sem'.count = sem.count + in(p, UserLabels) - in(p, UserLabels)'
      /\ sem'.val = sem.val + in(p, HolderLabels) - in(p, HolderLabels)'
  BY <1>2, <1>3
<1>6. sem.count = 0 => in(p, UserLabels)' = 0
  BY NobodyCounted
<1> QED
  BY <1>1, <1>2, <1>4, <1>5, <1>6, LocalStep

\* A process ends: the kernel takes back what it had added.
LEMMA UndoneStep ==
  ASSUME IInv, NEW p \in Procs, NEW to \in {"idle", "error"},
         UNCHANGED <<gen, live>>, sem' = Undone(p), undo' = [undo EXCEPT ![p] = Zero],
         pc' = [pc EXCEPT ![p] = to],
         id' \in [Procs -> Nat], \A q \in Procs \ {p} : id'[q] = id[q], id'[p] <= gen
  PROVE  IInv'
<1>1. /\ pc' \in [Procs -> Labels] /\ pc'[p] = to /\ to \in Labels
      /\ \A q \in Procs \ {p} : pc'[q] = pc[q] /\ undo'[q] = undo[q]
      /\ undo' \in [Procs -> [Members -> Int]] /\ undo'[p] = Zero
  <2>1. Zero \in [Members -> Int] /\ to \in Labels
    BY DEF Zero, Members, Labels
  <2> QED
    BY <2>1 DEF IInv, Types
<1>2. sem \in [Members -> Int] /\ undo[p] \in [Members -> Int] /\ sem.lock <= 1
  BY DEF IInv, Types, LockHeld
<1>3. sem.val \in Int /\ sem.count \in Int /\ sem.lock \in Int
  BY <1>2 DEF Members
<1>4. in(p, LockLabels)' = 0 /\ in(p, UserLabels)' = 0 /\ in(p, HolderLabels)' = 0
  BY <1>1 DEF in, LockLabels, UserLabels, HolderLabels
<1>5. \A labels : in(p, labels) \in {0, 1}
  BY DEF in
<1>6. /\ undo[p].lock = -in(p, LockLabels) /\ undo[p].count = in(p, UserLabels)
      /\ undo[p].val = in(p, HolderLabels)
  BY DEF IInv, UndoCorrect
<1>7. /\ sem' \in [Members -> Int]
      /\ sem'.lock = sem.lock - in(p, LockLabels)
      /\ sem'.count = sem.count + in(p, UserLabels)
      /\ sem'.val = sem.val + in(p, HolderLabels)
  <2>1. CASE Valid(p)
    <3>1. sem' = [m \in Members |-> sem[m] + undo[p][m]]
      BY <2>1 DEF Undone, Plus, Members
    <3>2. sem' \in [Members -> Int]
      BY <1>2, <3>1
    <3>3. sem'.lock = sem.lock + undo[p].lock /\ sem'.count = sem.count + undo[p].count
          /\ sem'.val = sem.val + undo[p].val
      BY <3>1 DEF Members
    <3> QED
      BY <1>3, <1>5, <1>6, <3>2, <3>3
  <2>2. CASE ~Valid(p)
    BY <1>2, <1>3, <2>2 DEF Undone, in
  <2> QED
    BY <2>1, <2>2
<1>8. undo'[p].lock = 0 /\ undo'[p].count = 0 /\ undo'[p].val = 0
  BY <1>1 DEF Zero
<1>9. ~live => sem' = sem
  BY DEF Undone, Valid
<1>10. sem.count = 0 => in(p, UserLabels) = 0 /\ in(p, HolderLabels) = 0
  BY NobodyCounted
<1>11. sem'.lock <= 1
  BY <1>2, <1>3, <1>5, <1>7
<1>12. /\ sem'.lock = sem.lock + in(p, LockLabels)' - in(p, LockLabels)
       /\ sem'.count = sem.count + in(p, UserLabels) - in(p, UserLabels)'
       /\ sem'.val = sem.val + in(p, HolderLabels) - in(p, HolderLabels)'
  BY <1>3, <1>4, <1>5, <1>7
<1>13. sem.count = 0 => sem'.count = 0 /\ sem'.val = sem.val
  BY <1>3, <1>7, <1>10
<1>14. pc'[p] \notin {"create.setval0", "create.setval1", "create.end"}
  BY <1>1
<1>15. /\ undo'[p].lock = -in(p, LockLabels)' /\ undo'[p].count = in(p, UserLabels)'
       /\ undo'[p].val = in(p, HolderLabels)'
  BY <1>4, <1>8
<1> QED
  BY <1>1, <1>4, <1>7, <1>9, <1>11, <1>12, <1>13, <1>14, <1>15, LocalStep

\* A set that nobody has locked or is counted in: there is none, or a new one.
LEMMA EmptyStep ==
  ASSUME Types', Generations', sem' = Zero,
         \A q \in Procs : /\ undo'[q].lock = 0 /\ undo'[q].count = 0 /\ undo'[q].val = 0
                          /\ Valid(q)' => pc'[q] = "create.lock"
  PROVE  IInv'
<1>1. \A q \in Procs : in(q, LockLabels)' = 0 /\ in(q, UserLabels)' = 0
                       /\ in(q, HolderLabels)' = 0
  BY DEF in, LockLabels, UserLabels, HolderLabels
<1>2. UndoCorrect' /\ Creating'
  BY <1>1 DEF UndoCorrect, Creating
<1>3. Locking' = {} /\ Users' = {} /\ Holders' = {}
  BY DEF Locking, Users, Holders, On
<1>4. LockHeld' /\ CounterCorrect' /\ CriticalSection'
  BY <1>3, FS_EmptySet DEF LockHeld, CounterCorrect, CriticalSection, Zero
<1> QED
  BY <1>2, <1>4 DEF IInv
----------------------------------------------------------------------------
\* sem_create() with a set that exists, or a new one; going back for another.
LEMMA CreateInv ==
  ASSUME IInv, NEW p \in Procs, Create(p) \/ CreateAgain(p)
  PROVE  IInv'
<1>1. pc \in [Procs -> Labels] /\ id \in [Procs -> Nat] /\ gen \in Nat /\ id[p] <= gen
  BY DEF IInv, Types, Generations
<1>2. CASE Create(p) /\ live
  <2>1. /\ gen' = gen /\ live' = live /\ UNCHANGED <<sem, undo>>
        /\ id' = [id EXCEPT ![p] = gen] /\ pc' = [pc EXCEPT ![p] = "create.lock"]
        /\ pc[p] \in {"idle", "create"}
    BY <1>2 DEF Create, Goto
  <2>2. /\ id' \in [Procs -> Nat] /\ id'[p] <= gen /\ "create.lock" \in Labels
        /\ \A q \in Procs \ {p} : id'[q] = id[q]
    BY <1>1, <2>1 DEF Labels
  <2>3. \A labels \in {LockLabels, UserLabels, HolderLabels} :
           in(p, labels) = 0 /\ in(p, labels)' = 0
    BY <1>1, <2>1 DEF in, LockLabels, UserLabels, HolderLabels
  <2>4. /\ in(p, LockLabels)' = in(p, LockLabels) /\ in(p, UserLabels)' = in(p, UserLabels)
        /\ in(p, HolderLabels)' = in(p, HolderLabels)
    BY <2>3
  <2> QED
    BY <2>1, <2>2, <2>4, LabelStep
<1>3. CASE Create(p) /\ ~live
  <2>1. /\ gen' = gen + 1 /\ live' = TRUE /\ UNCHANGED <<sem, undo>>
        /\ id' = [id EXCEPT ![p] = gen + 1] /\ pc' = [pc EXCEPT ![p] = "create.lock"]
    BY <1>3 DEF Create, Goto
  <2>2. /\ sem = Zero /\ \A q \in Procs : id[q] <= gen
        /\ \A q \in Procs : undo[q].lock = 0 /\ undo[q].count = 0 /\ undo[q].val = 0
    BY <1>3 DEF IInv, Generations, UndoCorrect, in, Valid
  <2>3. Types'
    BY <1>1, <2>1 DEF IInv, Types, Labels
  <2>4. Generations' /\ \A q \in Procs : Valid(q)' => q = p
    BY <1>1, <2>1, <2>2 DEF Generations, Valid
  <2>5. \A q \in Procs : Valid(q)' => pc'[q] = "create.lock"
    BY <1>1, <2>1, <2>4
  <2> QED
    BY <2>1, <2>2, <2>3, <2>4, <2>5, EmptyStep
<1>4. CASE CreateAgain(p)
  <2>1. /\ UNCHANGED <<gen, live, sem, undo, id>> /\ pc[p] = "create.lock"
        /\ pc' = [pc EXCEPT ![p] = "create"]
    BY <1>4 DEF CreateAgain, Goto, kernel
  <2>2. \A labels \in {LockLabels, UserLabels, HolderLabels} :
           in(p, labels) = 0 /\ in(p, labels)' = 0
    BY <1>1, <2>1 DEF in, LockLabels, UserLabels, HolderLabels
  <2> QED
    BY <1>1, <2>1, <2>2, LabelStep DEF Labels, IInv, Generations
<1> QED
  BY <1>2, <1>3, <1>4

LEMMA ErrorInv ==
  ASSUME IInv, NEW p \in Procs, Error(p)
  PROVE  IInv'
<1>1. id \in [Procs -> Nat] /\ id[p] <= gen
  BY DEF IInv, Types, Generations
<1>2. /\ UNCHANGED <<gen, live, id>> /\ sem' = Undone(p) /\ undo' = [undo EXCEPT ![p] = Zero]
      /\ pc' = [pc EXCEPT ![p] = "error"]
  BY DEF Error, Goto
<1> QED
  BY <1>1, <1>2, UndoneStep

LEMMA ExitInv ==
  ASSUME IInv, NEW p \in Procs, Exit(p)
  PROVE  IInv'
<1>1. id \in [Procs -> Nat] /\ gen \in Nat
  BY DEF IInv, Types
<1>2. /\ UNCHANGED <<gen, live>> /\ id' = [id EXCEPT ![p] = 0]
      /\ sem' = Undone(p) /\ undo' = [undo EXCEPT ![p] = Zero]
      /\ pc' = [pc EXCEPT ![p] = "idle"]
  BY DEF Exit, Goto
<1>3. id' \in [Procs -> Nat] /\ id'[p] <= gen /\ \A q \in Procs \ {p} : id'[q] = id[q]
  BY <1>1, <1>2
<1> QED
  BY <1>2, <1>3, UndoneStep

LEMMA RemoveInv ==
  ASSUME IInv, NEW p \in Procs, Remove(p)
  PROVE  IInv'
<1>1. Zero \in [Members -> Int] /\ "idle" \in Labels
  BY DEF Zero, Members, Labels
<1>2. /\ gen' = gen /\ live' = FALSE /\ sem' = Zero /\ undo' = [q \in Procs |-> Zero]
      /\ pc' = [pc EXCEPT ![p] = "idle"] /\ id' = [id EXCEPT ![p] = 0]
  BY DEF Remove, Goto
<1>3. Types' /\ Generations'
  <2>1. /\ pc \in [Procs -> Labels] /\ id \in [Procs -> Nat] /\ gen \in Nat
        /\ \A q \in Procs : id[q] <= gen
    BY DEF IInv, Types, Generations
  <2>2. id' \in [Procs -> Nat] /\ \A q \in Procs : id'[q] <= gen
    BY <1>2, <2>1
  <2>3. undo' \in [Procs -> [Members -> Int]] /\ pc' \in [Procs -> Labels]
    BY <1>1, <1>2, <2>1
  <2> QED
    BY <1>1, <1>2, <2>1, <2>2, <2>3 DEF Types, Generations
<1>4. \A q \in Procs : /\ undo'[q].lock = 0 /\ undo'[q].count = 0 /\ undo'[q].val = 0
                       /\ ~Valid(q)'
  BY <1>2 DEF Zero, Valid
<1> QED
  BY <1>2, <1>3, <1>4, EmptyStep

\* sem_create() initialises a set that nobody is counted in, and alone: it has
\* the lock.
LEMMA SetvalInv ==
  ASSUME IInv, NEW p \in Procs, CreateSetval0(p) \/ CreateSetval1(p)
  PROVE  IInv'
<1> DEFINE Set(m, v, from, to) ==
              /\ pc[p] = from /\ Valid(p) /\ sem' = [sem EXCEPT ![m] = v]
              /\ undo' = [q \in Procs |-> [undo[q] EXCEPT ![m] = 0]]
              /\ pc' = [pc EXCEPT ![p] = to] /\ UNCHANGED <<gen, live, id>>
<1>1. CASE \E from : Fails(p, from)
  BY <1>1, ErrorInv DEF Fails
<1>2. CASE \/ Set("val", 1, "create.setval0", "create.setval1")
           \/ Set("count", BIGCOUNT, "create.setval1", "create.end")
  <2>1. /\ sem.count = 0 /\ Valid(p) /\ pc[p] \in {"create.setval0", "create.setval1"}
        /\ pc'[p] \in {"create.setval1", "create.end"}
        /\ \A q \in Procs \ {p} : pc'[q] = pc[q]
        /\ UNCHANGED <<gen, live, id>>
    BY <1>2 DEF IInv, Creating, Types
  <2>2. in(p, LockLabels) = 1 /\ \A q \in Procs : Valid(q)' = Valid(q)
    BY <2>1 DEF in, LockLabels, Valid
  <2>3. \A q \in Procs \ {p} : in(q, LockLabels) # 1
    BY <2>2, OneLocking DEF IInv
  <2>4. \A q \in Procs : Valid(q) /\ pc[q] \in LockLabels => q = p
    BY <2>3 DEF in
  <2>5. \A q \in Procs : /\ in(q, LockLabels)' = in(q, LockLabels)
                         /\ in(q, UserLabels)' = 0 /\ in(q, HolderLabels)' = 0
                         /\ in(q, UserLabels) = 0 /\ in(q, HolderLabels) = 0
    <3>1. \A q \in Procs : in(q, UserLabels) = 0 /\ in(q, HolderLabels) = 0
      BY <2>1, NobodyCounted
    <3>2. in(p, LockLabels)' = 1 /\ in(p, UserLabels)' = 0 /\ in(p, HolderLabels)' = 0
      BY <2>1, <2>2 DEF in, LockLabels, UserLabels, HolderLabels
    <3>3. \A q \in Procs \ {p} : /\ in(q, LockLabels)' = in(q, LockLabels)
                                 /\ in(q, UserLabels)' = in(q, UserLabels)
                                 /\ in(q, HolderLabels)' = in(q, HolderLabels)
      BY <2>1, <2>2 DEF in
    <3> QED
      BY <2>2, <3>1, <3>2, <3>3
  <2>6. BIGCOUNT \in Nat /\ BIGCOUNT # 0
    BY SemAssumption, FS_CardinalityType
  <2>7. /\ pc' \in [Procs -> Labels] /\ sem' \in [Members -> Int]
        /\ undo' \in [Procs -> [Members -> Int]]
    <3>1. CASE Set("val", 1, "create.setval0", "create.setval1")
      BY <3>1 DEF IInv, Types, Members, Labels
    <3>2. CASE Set("count", BIGCOUNT, "create.setval1", "create.end")
      BY <2>6, <3>2 DEF IInv, Types, Members, Labels
    <3> QED
      BY <1>2, <3>1, <3>2
  <2>8. Types' /\ Generations'
    BY <2>1, <2>7 DEF IInv, Types, Generations, Valid
  <2>9. \A q \in Procs : /\ undo'[q].lock = undo[q].lock
                         /\ undo[q].count = 0 => undo'[q].count = 0
                         /\ undo[q].val = 0 => undo'[q].val = 0
    <3>1. CASE Set("val", 1, "create.setval0", "create.setval1")
      BY <3>1 DEF IInv, Types, Members
    <3>2. CASE Set("count", BIGCOUNT, "create.setval1", "create.end")
      BY <3>2 DEF IInv, Types, Members
    <3> QED
      BY <1>2, <3>1, <3>2
  <2>10. UndoCorrect'
    BY <2>5, <2>9 DEF IInv, UndoCorrect
  <2>11. \A q \in Procs \ {p} : Valid(q)' =>
            pc'[q] \notin {"create.setval0", "create.setval1", "create.end"}
    BY <2>1, <2>2, <2>4 DEF LockLabels
  <2>12. On(LockLabels)' = On(LockLabels) /\ On(UserLabels)' = {} /\ On(HolderLabels)' = {}
    BY <2>5 DEF On, in
  <2>13. Locking' = Locking /\ Users' = {} /\ Holders' = {}
    BY <2>12 DEF Locking, Users, Holders, LockLabels, UserLabels, HolderLabels
  <2>14. CASE Set("val", 1, "create.setval0", "create.setval1")
    <3>1. sem'.val = 1 /\ sem'.count = 0 /\ sem'.lock = sem.lock /\ pc'[p] = "create.setval1"
      BY <2>1, <2>14 DEF IInv, Types, Members
    <3> QED
      BY <2>2, <2>8, <2>10, <2>11, <2>13, <3>1
         DEF IInv, Creating, LockHeld, CounterCorrect, CriticalSection
  <2>15. CASE Set("count", BIGCOUNT, "create.setval1", "create.end")
    <3>1. /\ sem'.val = sem.val /\ sem'.count = BIGCOUNT /\ sem'.lock = sem.lock
          /\ pc'[p] = "create.end" /\ sem.val = 1
      BY <2>1, <2>15 DEF IInv, Types, Members, Creating
    <3>2. Cardinality({}) = 0
      BY FS_EmptySet
    <3> QED
      BY <2>2, <2>6, <2>8, <2>10, <2>11, <2>13, <3>1, <3>2
         DEF IInv, Creating, LockHeld, CounterCorrect, CriticalSection
  <2> QED
    BY <1>2, <2>14, <2>15
<1> QED
  BY <1>1, <1>2 DEF CreateSetval0, CreateSetval1, Setval, Goto

\* Every operation of the library is one of the arrays of operations.
LEMMA SemopInv ==
  ASSUME IInv, NEW p \in Procs,
         \/ Semop(p, op_lock, "create.lock", "create.getval")
         \/ Semop(p, op_endcreate, "create.end", "using")
         \/ Semop(p, op_open, "open.semop", "using")
         \/ Semop(p, op_wait, "using", "holding")
         \/ Semop(p, op_signal, "holding", "using")
         \/ Semop(p, op_close, "close.semop", "close.getval")
         \/ Semop(p, op_unlock, "close.unlock", "idle")
  PROVE  IInv'
<1> USE DEF bit, LockLabels, UserLabels, HolderLabels, Labels
<1>1. CASE Semop(p, op_lock, "create.lock", "create.getval")
  <2>1. Semop(p, Op({"lock"}, 0, 0, 1), "create.lock", "create.getval")
    BY <1>1 DEF op_lock
  <2> QED
    BY <2>1, SemopStep
<1>2. CASE Semop(p, op_endcreate, "create.end", "using")
  <2>1. Semop(p, Op({}, 0, -1, -1), "create.end", "using")
    BY <1>2 DEF op_endcreate
  <2> QED
    BY <2>1, SemopStep
<1>3. CASE Semop(p, op_open, "open.semop", "using")
  <2>1. Semop(p, Op({}, 0, -1, 0), "open.semop", "using")
    BY <1>3 DEF op_open
  <2> QED
    BY <2>1, SemopStep
<1>4. CASE Semop(p, op_wait, "using", "holding")
  <2>1. Semop(p, Op({}, -1, 0, 0), "using", "holding")
    BY <1>4 DEF op_wait
  <2> QED
    BY <2>1, SemopStep
<1>5. CASE Semop(p, op_signal, "holding", "using")
  <2>1. Semop(p, Op({}, 1, 0, 0), "holding", "using")
    BY <1>5 DEF op_signal
  <2> QED
    BY <2>1, SemopStep
<1>6. CASE Semop(p, op_close, "close.semop", "close.getval")
  <2>1. Semop(p, Op({"lock"}, 0, 1, 1), "close.semop", "close.getval")
    BY <1>6 DEF op_close
  <2> QED
    BY <2>1, SemopStep
<1>7. CASE Semop(p, op_unlock, "close.unlock", "idle")
  <2>1. Semop(p, Op({}, 0, 0, -1), "close.unlock", "idle")
    BY <1>7 DEF op_unlock
  <2> QED
    BY <2>1, SemopStep
<1> QED
  BY <1>1, <1>2, <1>3, <1>4, <1>5, <1>6, <1>7

\* The steps that only look: at the counter, or where to go on.
LEMMA LookInv ==
  ASSUME IInv, NEW p \in Procs, NEW to \in Labels, UNCHANGED <<kernel, id>>,
         Goto(p, to),
         \/ pc[p] = "create.getval" /\ Valid(p)
            /\ to = IF sem.count = 0 THEN "create.setval0" ELSE "create.end"
         \/ pc[p] = "using" /\ to = "close.semop"
         \/ pc[p] = "close.getval" /\ to \in {"close.rm", "close.unlock"}
  PROVE  IInv'
<1>1. /\ pc \in [Procs -> Labels] /\ id \in [Procs -> Nat] /\ id[p] <= gen
      /\ pc' = [pc EXCEPT ![p] = to] /\ UNCHANGED <<gen, live, sem, undo, id>>
  BY DEF IInv, Types, Generations, Goto, kernel
<1>2. Valid(p)' = Valid(p) /\ pc'[p] = to
  BY <1>1 DEF Valid
<1>3. /\ in(p, LockLabels)' = in(p, LockLabels) /\ in(p, UserLabels)' = in(p, UserLabels)
      /\ in(p, HolderLabels)' = in(p, HolderLabels)
  BY <1>1, <1>2 DEF in, LockLabels, UserLabels, HolderLabels
<1>4. /\ to \in {"create.setval0", "create.setval1"} => sem.count = 0
      /\ to # "create.setval1"
      /\ to = "create.end" => sem.count # 0
  OBVIOUS
<1> QED
  BY <1>1, <1>3, <1>4, LabelStep

LEMMA OpenInv ==
  ASSUME IInv, NEW p \in Procs, Open(p)
  PROVE  IInv'
<1>1. /\ pc \in [Procs -> Labels] /\ id \in [Procs -> Nat] /\ gen \in Nat
  BY DEF IInv, Types
<1>2. /\ pc[p] = "idle" /\ pc' = [pc EXCEPT ![p] = "open.semop"]
      /\ id' = [id EXCEPT ![p] = gen] /\ UNCHANGED <<gen, live, sem, undo>>
  BY DEF Open, Goto, kernel
<1>3. /\ id' \in [Procs -> Nat] /\ id'[p] <= gen /\ pc'[p] = "open.semop"
      /\ \A q \in Procs \ {p} : id'[q] = id[q]
  BY <1>1, <1>2
<1>4. /\ in(p, LockLabels)' = in(p, LockLabels) /\ in(p, UserLabels)' = in(p, UserLabels)
      /\ in(p, HolderLabels)' = in(p, HolderLabels)
  BY <1>2, <1>3 DEF in, LockLabels, UserLabels, HolderLabels
<1>5. "open.semop" \in Labels
  BY DEF Labels
<1> QED
  BY <1>2, <1>3, <1>4, <1>5, LabelStep

LEMMA FailsInv ==
  ASSUME IInv, NEW p \in Procs, NEW from, Fails(p, from)
  PROVE  IInv'
BY ErrorInv DEF Fails

LEMMA SleepInv ==
  ASSUME IInv, NEW p \in Procs, NEW op, NEW from, Sleep(p, op, from)
  PROVE  IInv'
BY StillInv DEF Sleep, kernel

LEMMA StepInv ==
  ASSUME IInv, NEW p \in Procs, Step(p)
  PROVE  IInv'
<1>1. CASE Create(p) \/ CreateAgain(p)
  BY <1>1, CreateInv
<1>2. CASE CreateLock(p)
  BY <1>2, SemopInv, SleepInv DEF CreateLock
<1>3. CASE CreateRemoved(p)
  BY <1>3, FailsInv DEF CreateRemoved
<1>4. CASE CreateGetval(p)
  <2>1. "create.setval0" \in Labels /\ "create.end" \in Labels
    BY DEF Labels
  <2> QED
    BY <1>4, <2>1, FailsInv, LookInv DEF CreateGetval
<1>5. CASE CreateSetval0(p) \/ CreateSetval1(p)
  BY <1>5, SetvalInv
<1>6. CASE CreateEnd(p)
  BY <1>6, SemopInv, FailsInv DEF CreateEnd
<1>7. CASE Open(p)
  BY <1>7, OpenInv
<1>8. CASE OpenSemop(p)
  BY <1>8, SemopInv, SleepInv, FailsInv DEF OpenSemop
<1>9. CASE Wait(p)
  BY <1>9, SemopInv, SleepInv, FailsInv DEF Wait
<1>10. CASE Signal(p)
  BY <1>10, SemopInv, FailsInv DEF Signal
<1>11. CASE Close(p)
  <2>1. "close.semop" \in Labels
    BY DEF Labels
  <2> QED
    BY <1>11, <2>1, SemopInv, SleepInv, FailsInv, LookInv DEF Close
<1>12. CASE CloseGetval(p)
  <2>1. "close.rm" \in Labels /\ "close.unlock" \in Labels
    BY DEF Labels
  <2> QED
    BY <1>12, <2>1, ErrorInv, FailsInv, LookInv DEF CloseGetval
<1>13. CASE CloseRm(p)
  BY <1>13, RemoveInv, FailsInv DEF CloseRm
<1>14. CASE CloseUnlock(p)
  BY <1>14, SemopInv, FailsInv DEF CloseUnlock
<1>15. CASE Rm(p)
  BY <1>15, RemoveInv, FailsInv DEF Rm
<1>16. CASE Exit(p)
  BY <1>16, ExitInv
<1> QED
  BY <1>1, <1>2, <1>3, <1>4, <1>5, <1>6, <1>7, <1>8, <1>9, <1>10, <1>11, <1>12, <1>13,
     <1>14, <1>15, <1>16 DEF Step

LEMMA NextInv == IInv /\ [Next]_vars => IInv'
<1> SUFFICES ASSUME IInv, [Next]_vars PROVE IInv'
  OBVIOUS
<1>1. CASE \E p \in Procs : Step(p)
  BY <1>1, StepInv
<1>2. CASE Finished \/ UNCHANGED vars
  BY <1>2, StillInv DEF Finished, vars
<1> QED
  BY <1>1, <1>2 DEF Next

LEMMA Invariant == Spec => []IInv
<1>1. Init => IInv
  BY InitInv
<1>2. IInv /\ [Next]_vars => IInv'
  BY NextInv
<1> QED
  BY <1>1, <1>2, PTL DEF Spec
----------------------------------------------------------------------------
\* The rest of TypeOK: the value is 0 or 1, even in a set that is not yet
\* initialised, and the processes that have it from sem_create() have it.
Bounds ==
    /\ gen <= MaxSets /\ exits \in 0..MaxExits
    /\ sem.val \in {0, 1}
    /\ asleep \subseteq Procs /\ creator \subseteq Procs
    /\ \A p \in creator : pc[p] \in UserLabels

\* What a step of process p can do to the sets there are, to the sleepers and to
\* the creators.
Moves(p) ==
    /\ \A q \in Procs \ {p} : pc'[q] = pc[q] /\ id'[q] = id[q]
    /\ gen' <= MaxSets /\ exits' \in 0..MaxExits
    /\ asleep' \subseteq asleep \cup {p} /\ creator' \subseteq creator \cup {p}
    /\ \/ gen' = gen /\ live' = live
       \/ gen' = gen /\ live' = FALSE
       \/ gen' = gen + 1 /\ live = FALSE
    /\ pc'[p] = "close.rm" =>
          /\ pc[p] = "close.getval" /\ Valid(p) /\ sem.count = BIGCOUNT
          /\ UNCHANGED <<gen, live, id, creator>>
    /\ p \in creator' =>
          /\ pc'[p] \in UserLabels
          /\ (p \in creator /\ id'[p] = id[p]) \/ (pc[p] = "create.end" /\ Valid(p))

\* A semop() ...
LEMMA SemopMoves ==
  ASSUME IInv, Bounds, NEW p \in Procs, NEW op, NEW from, NEW to,
         Semop(p, op, from, to), to # "close.rm",
         \/ creator' = creator /\ (p \in creator => to \in UserLabels)
         \/ creator' = creator \ {p}
         \/ from = "create.end" /\ to = "using" /\ creator' = creator \cup {p}
  PROVE  Moves(p)
<1>1. pc \in [Procs -> Labels]
  BY DEF IInv, Types
<1>2. /\ pc[p] = from /\ Valid(p) /\ asleep' = asleep \ {p}
      /\ pc' = [pc EXCEPT ![p] = to] /\ UNCHANGED <<gen, live, id, exits>>
  BY DEF Semop, Goto
<1> QED
  BY <1>1, <1>2 DEF Moves, Bounds, UserLabels

\* ... and one that sleeps, ...
LEMMA SleepMoves ==
  ASSUME IInv, Bounds, NEW p \in Procs, NEW op, NEW from, Sleep(p, op, from), from # "close.rm"
  PROVE  Moves(p)
<1>1. pc[p] = from /\ UNCHANGED <<gen, live, pc, id, creator, exits>> /\ asleep' = asleep \cup {p}
  BY DEF Sleep, kernel
<1> QED
  BY <1>1 DEF Moves, Bounds

\* ... an error, ...
LEMMA ErrorMoves ==
  ASSUME IInv, Bounds, NEW p \in Procs, Error(p)
  PROVE  Moves(p)
<1>1. pc \in [Procs -> Labels]
  BY DEF IInv, Types
<1>2. /\ pc' = [pc EXCEPT ![p] = "error"] /\ asleep' = asleep \ {p} /\ creator' = creator \ {p}
      /\ UNCHANGED <<gen, live, id, exits>>
  BY DEF Error, Goto
<1> QED
  BY <1>1, <1>2 DEF Moves, Bounds

\* ... a removal, ...
LEMMA RemoveMoves ==
  ASSUME IInv, Bounds, NEW p \in Procs, Remove(p)
  PROVE  Moves(p)
<1>1. pc \in [Procs -> Labels] /\ id \in [Procs -> Nat]
  BY DEF IInv, Types
<1>2. /\ live' = FALSE /\ pc' = [pc EXCEPT ![p] = "idle"] /\ id' = [id EXCEPT ![p] = 0]
      /\ creator' = creator \ {p} /\ UNCHANGED <<gen, asleep, exits>>
  BY DEF Remove, Goto
<1> QED
  BY <1>1, <1>2 DEF Moves, Bounds

\* ... and every other step.
LEMMA StepMoves ==
  ASSUME IInv, Bounds, NEW p \in Procs, Step(p)
  PROVE  Moves(p)
<1>0. /\ pc \in [Procs -> Labels] /\ id \in [Procs -> Nat] /\ gen \in Nat /\ live \in BOOLEAN
      /\ MaxSets \in Nat /\ MaxExits \in Nat /\ exits \in 0..MaxExits /\ gen <= MaxSets
  BY SemAssumption DEF IInv, Types, Bounds
<1>1. p \in creator => pc[p] \in {"using", "holding", "close.semop"}
  BY DEF Bounds, UserLabels
<1>2. CASE Create(p)
  <2>1. /\ pc[p] \in {"idle", "create"} /\ pc' = [pc EXCEPT ![p] = "create.lock"]
        /\ gen' = IF live THEN gen ELSE gen + 1
        /\ live' = TRUE /\ (live \/ gen < MaxSets)
        /\ id' = [id EXCEPT ![p] = gen'] /\ UNCHANGED <<asleep, creator, exits>>
    BY <1>2 DEF Create, Goto
  <2>2. /\ gen' <= MaxSets /\ pc'[p] = "create.lock" /\ p \notin creator'
        /\ \A q \in Procs \ {p} : pc'[q] = pc[q] /\ id'[q] = id[q]
    BY <1>0, <1>1, <2>1
  <2>3. \/ gen' = gen /\ live' = live
        \/ gen' = gen + 1 /\ live = FALSE
    BY <1>0, <2>1
  <2> QED
    BY <1>0, <2>1, <2>2, <2>3 DEF Moves
<1>3. CASE CreateAgain(p) \/ Open(p)
  <2>1. /\ pc[p] \in {"create.lock", "idle"} /\ UNCHANGED <<gen, live, asleep, creator, exits>>
        /\ \E to \in {"create", "open.semop"} : pc' = [pc EXCEPT ![p] = to]
        /\ \A q \in Procs \ {p} : id'[q] = id[q]
    BY <1>0, <1>3 DEF CreateAgain, Open, Goto, kernel
  <2> QED
    BY <1>0, <1>1, <2>1 DEF Moves
<1>4. CASE CreateLock(p) \/ CreateRemoved(p) \/ CreateEnd(p)
  BY <1>1, <1>4, SemopMoves, SleepMoves, ErrorMoves DEF CreateLock, CreateRemoved, CreateEnd, Fails,
     Semop
<1>5. CASE CreateGetval(p)
  <2>1. CASE Fails(p, "create.getval")
    BY <2>1, ErrorMoves DEF Fails
  <2>2. CASE ~Fails(p, "create.getval")
    <3>1. /\ pc[p] = "create.getval" /\ UNCHANGED <<gen, live, id, asleep, creator, exits>>
          /\ \E to \in {"create.setval0", "create.end"} : pc' = [pc EXCEPT ![p] = to]
      BY <1>5, <2>2 DEF CreateGetval, Goto, kernel
    <3> QED
      BY <1>0, <1>1, <3>1 DEF Moves
  <2> QED
    BY <2>1, <2>2
<1>6. CASE CreateSetval0(p) \/ CreateSetval1(p)
  <2>1. CASE \E from : Fails(p, from)
    BY <2>1, ErrorMoves DEF Fails
  <2>2. CASE ~\E from : Fails(p, from)
    <3>1. /\ pc[p] \in {"create.setval0", "create.setval1"}
          /\ UNCHANGED <<gen, live, id, asleep, creator, exits>>
          /\ \E to \in {"create.setval1", "create.end"} : pc' = [pc EXCEPT ![p] = to]
      BY <1>6, <2>2 DEF CreateSetval0, CreateSetval1, Setval, Goto
    <3> QED
      BY <1>0, <1>1, <3>1 DEF Moves
  <2> QED
    BY <2>1, <2>2
<1>7. CASE OpenSemop(p) \/ Wait(p) \/ Signal(p) \/ CloseUnlock(p)
  BY <1>1, <1>7, SemopMoves, SleepMoves, ErrorMoves DEF OpenSemop, Wait, Signal, CloseUnlock, Fails,
     Semop, UserLabels
<1>8. CASE Close(p)
  <2>1. CASE /\ pc[p] = "using" /\ Goto(p, "close.semop")
             /\ UNCHANGED <<kernel, id, asleep, creator, exits>>
    BY <1>0, <1>1, <2>1 DEF Moves, Goto, kernel, UserLabels
  <2> QED
    BY <1>8, <2>1, SemopMoves, SleepMoves, ErrorMoves DEF Close, Fails
<1>9. CASE CloseGetval(p)
  <2>1. CASE Error(p)
    BY <2>1, ErrorMoves
  <2>2. CASE ~Error(p)
    <3>1. /\ pc[p] = "close.getval" /\ Valid(p)
          /\ UNCHANGED <<gen, live, id, asleep, creator, exits>>
          /\ pc' = [pc EXCEPT ![p] = IF sem.count = BIGCOUNT THEN "close.rm" ELSE "close.unlock"]
      BY <1>9, <2>2 DEF CloseGetval, Fails, Goto, kernel
    <3>2. pc'[p] = IF sem.count = BIGCOUNT THEN "close.rm" ELSE "close.unlock"
      BY <1>0, <3>1
    <3> QED
      BY <1>0, <1>1, <3>1, <3>2 DEF Moves
  <2> QED
    BY <2>1, <2>2
<1>10. CASE CloseRm(p) \/ Rm(p)
  BY <1>10, RemoveMoves, ErrorMoves DEF CloseRm, Rm, Fails
<1>11. CASE Exit(p)
  <2>1. /\ pc' = [pc EXCEPT ![p] = "idle"] /\ id' = [id EXCEPT ![p] = 0]
        /\ asleep' = asleep \ {p} /\ creator' = creator \ {p}
        /\ exits < MaxExits /\ exits' = exits + 1 /\ UNCHANGED <<gen, live>>
    BY <1>11 DEF Exit, Goto
  <2> QED
    BY <1>0, <2>1 DEF Moves
<1> QED
  BY <1>2, <1>3, <1>4, <1>5, <1>6, <1>7, <1>8, <1>9, <1>10, <1>11 DEF Step

\* While a process is in the critical section the value is 0: the sem_signal()
\* or the exit that ends it makes it 1.
LEMMA HolderValue ==
  ASSUME IInv, Bounds, NEW p \in Procs, in(p, HolderLabels) = 1
  PROVE  sem.val = 0
<1>1. p \in Holders /\ p \in Users /\ live
  BY DEF in, Holders, Users, On, HolderLabels, Valid
<1>2. sem.val = 1 - Cardinality(Holders)
  BY <1>1 DEF IInv, CounterCorrect, CriticalSection
<1>3. Cardinality(Holders) # 0 /\ Cardinality(Holders) \in Nat
  BY <1>1, OnZero, OnFinite DEF Holders
<1> QED
  BY <1>2, <1>3 DEF Bounds

\* The value stays 0 or 1: sem_wait() does not pass 0, and only who made it 0
\* makes it 1 again.
LEMMA ValueStep ==
  ASSUME IInv, Bounds, NEW p \in Procs, Step(p)
  PROVE  sem'.val \in {0, 1}
<1>0. /\ Types /\ sem.val \in {0, 1} /\ sem \in [Members -> Int]
      /\ undo[p].val = in(p, HolderLabels) /\ in(p, HolderLabels) \in {0, 1}
  BY DEF IInv, Types, Bounds, UndoCorrect, in
<1> USE DEF Labels
<1>1. CASE sem'.val = sem.val
  BY <1>0, <1>1
<1>2. ASSUME NEW zero, NEW b \in Int, NEW c \in Int, NEW from \in Labels, NEW to \in Labels,
             Semop(p, Op(zero, 0, b, c), from, to)
      PROVE  sem'.val = sem.val
  BY <1>0, <1>2, SemopEffect
<1>3. CASE Semop(p, op_wait, "using", "holding")
  <2>1. Semop(p, Op({}, -1, 0, 0), "using", "holding")
    BY <1>3 DEF op_wait
  <2>2. sem'.val = sem.val + (-1) /\ sem'.val >= 0
    BY <1>0, <2>1, SemopEffect
  <2> QED
    BY <1>0, <2>2
<1>4. CASE Semop(p, op_signal, "holding", "using")
  <2>1. Semop(p, Op({}, 1, 0, 0), "holding", "using")
    BY <1>4 DEF op_signal
  <2>2. pc[p] = "holding" /\ Valid(p) /\ sem'.val = sem.val + 1
    BY <1>0, <2>1, SemopEffect
  <2>3. in(p, HolderLabels) = 1
    BY <2>2 DEF in, HolderLabels
  <2> QED
    BY <2>2, <2>3, HolderValue
<1>5. CASE sem' = Undone(p)
  <2>1. CASE Valid(p)
    <3>1. sem'.val = sem.val + undo[p].val
      BY <1>5, <2>1 DEF Undone, Plus
    <3> QED
      BY <1>0, <3>1, HolderValue
  <2>2. CASE ~Valid(p)
    BY <1>0, <1>5, <2>2 DEF Undone
  <2> QED
    BY <2>1, <2>2
<1>6. CASE sem' = Zero
  BY <1>6 DEF Zero
<1>7. CASE CreateSetval0(p) \/ CreateSetval1(p)
  BY <1>0, <1>5, <1>7 DEF CreateSetval0, CreateSetval1, Setval, Fails, Error, Members
<1>8. CASE Create(p) \/ CreateAgain(p) \/ Open(p)
  BY <1>1, <1>8 DEF Create, CreateAgain, Open, kernel
<1>9. CASE CreateLock(p) \/ CreateRemoved(p) \/ CreateEnd(p)
  <2>1. Semop(p, op_lock, "create.lock", "create.getval") => sem'.val = sem.val
    BY <1>2 DEF op_lock
  <2>2. Semop(p, op_endcreate, "create.end", "using") => sem'.val = sem.val
    BY <1>2 DEF op_endcreate
  <2> QED
    BY <1>1, <1>5, <1>9, <2>1, <2>2 DEF CreateLock, Sleep, kernel, CreateRemoved, CreateEnd, Fails,
       Error
<1>10. CASE CreateGetval(p) \/ CloseGetval(p)
  BY <1>1, <1>5, <1>10 DEF CreateGetval, CloseGetval, kernel, Fails, Error
<1>11. CASE OpenSemop(p) \/ CloseUnlock(p)
  <2>1. Semop(p, op_open, "open.semop", "using") => sem'.val = sem.val
    BY <1>2 DEF op_open
  <2>2. Semop(p, op_unlock, "close.unlock", "idle") => sem'.val = sem.val
    BY <1>2 DEF op_unlock
  <2> QED
    BY <1>1, <1>5, <1>11, <2>1, <2>2 DEF OpenSemop, CloseUnlock, Sleep, kernel, Fails, Error
<1>12. CASE Wait(p) \/ Signal(p)
  BY <1>1, <1>3, <1>4, <1>5, <1>12 DEF Wait, Signal, Sleep, kernel, Fails, Error
<1>13. CASE Close(p)
  <2>1. Semop(p, op_close, "close.semop", "close.getval") => sem'.val = sem.val
    BY <1>2 DEF op_close
  <2> QED
    BY <1>1, <1>5, <1>13, <2>1 DEF Close, Sleep, kernel, Fails, Error
<1>14. CASE CloseRm(p) \/ Rm(p) \/ Exit(p)
  BY <1>5, <1>6, <1>14 DEF CloseRm, Rm, Exit, Remove, Fails, Error
<1> QED
  BY <1>7, <1>8, <1>9, <1>10, <1>11, <1>12, <1>13, <1>14 DEF Step

\* Together they keep Bounds ...
LEMMA BoundsStep ==
  ASSUME IInv, Bounds, NEW p \in Procs, Step(p)
  PROVE  Bounds'
  BY StepMoves, ValueStep DEF Bounds, Moves

\* Between the GETVAL of sem_close() and its IPC_RMID others can be counted by
\* sem_open(), but a sem_create() waits for the lock.
LEMMA KeepStep ==
  ASSUME IInv, Bounds, CreatorsKeepIt, NEW p \in Procs, Step(p)
  PROVE  CreatorsKeepIt'
<1> SUFFICES ASSUME NEW r \in Procs, pc'[r] = "close.rm", Valid(r)',
                    NEW q, q \in creator', q \in Users'
             PROVE  FALSE
  BY DEF CreatorsKeepIt
<1>1. Moves(p)
  BY StepMoves
<1>2. /\ gen \in Nat /\ \A s \in Procs : id[s] \in Nat /\ id[s] <= gen
      /\ live \in BOOLEAN /\ LockHeld /\ CounterCorrect
  BY DEF IInv, Types, Generations
<1>3. q \in Procs /\ pc'[q] \in UserLabels /\ Valid(q)'
  BY DEF Users, On, UserLabels
<1>4. CASE r = p
  <2>1. /\ pc[p] = "close.getval" /\ Valid(p) /\ sem.count = BIGCOUNT
        /\ UNCHANGED <<gen, live, id, creator>>
    BY <1>1, <1>4 DEF Moves
  <2>2. Users = {}
    <3>1. BIGCOUNT \in Nat /\ BIGCOUNT # 0
      BY SemAssumption, FS_CardinalityType
    <3>2. Cardinality(On(UserLabels)) = 0
      BY <1>2, <2>1, <3>1, Sets, OnFinite DEF CounterCorrect
    <3> QED
      BY <3>2, OnZero, Sets
  <2>3. q # p
    BY <1>3, <1>4 DEF UserLabels
  <2>4. pc[q] \in UserLabels /\ Valid(q)
    BY <1>1, <1>3, <2>1, <2>3 DEF Moves, Valid
  <2> QED
    BY <1>3, <2>2, <2>4 DEF Users, On, UserLabels
<1>5. CASE r # p
  <2>1. pc[r] = "close.rm" /\ id'[r] = id[r] /\ id'[r] = gen' /\ live'
    BY <1>1, <1>5 DEF Moves, Valid
  <2>2. gen' = gen /\ live' = live /\ Valid(r)
    <3>1. id[r] \in Nat /\ id[r] <= gen /\ id[r] = gen'
      BY <1>2, <2>1
    <3>2. ~(live' = FALSE) /\ ~(gen' = gen + 1)
      BY <1>2, <2>1, <3>1
    <3> QED
      BY <1>1, <2>1, <3>1, <3>2 DEF Moves, Valid
  <2>3. creator \cap Users = {}
    BY <2>1, <2>2 DEF CreatorsKeepIt
  <2>4. CASE pc[p] = "create.end" /\ Valid(p)
    <3>1. in(p, LockLabels) = 1 /\ in(r, LockLabels) = 1
      BY <2>1, <2>2, <2>4 DEF in, LockLabels
    <3> QED
      BY <1>2, <1>5, <3>1, OneLocking
  <2>5. CASE ~(pc[p] = "create.end" /\ Valid(p))
    <3>1. q \in creator /\ id'[q] = id[q]
      BY <1>1, <1>3, <2>5 DEF Moves
    <3>2. pc[q] \in UserLabels /\ Valid(q)
      BY <1>3, <2>2, <3>1 DEF Bounds, Valid
    <3> QED
      BY <1>3, <2>3, <3>1, <3>2 DEF Users, On, UserLabels
  <2> QED
    BY <2>4, <2>5
<1> QED
  BY <1>4, <1>5

\* Bounds and what sem_close() keeps hold in every state: the induction.
LEMMA BoundsInvariant == Spec => [](Bounds /\ CreatorsKeepIt)
<1>1. Init => Bounds /\ CreatorsKeepIt
  BY SemAssumption DEF Init, Bounds, CreatorsKeepIt, Zero
<1>2. IInv /\ Bounds /\ CreatorsKeepIt /\ [Next]_vars => Bounds' /\ CreatorsKeepIt'
  <2> SUFFICES ASSUME IInv, Bounds, CreatorsKeepIt, [Next]_vars
               PROVE  Bounds' /\ CreatorsKeepIt'
    OBVIOUS
  <2>1. CASE \E p \in Procs : Step(p)
    BY <2>1, BoundsStep, KeepStep
  <2>2. CASE Finished \/ UNCHANGED vars
    BY <2>2 DEF Finished, vars, Bounds, CreatorsKeepIt, Users, On, Valid
  <2> QED
    BY <2>1, <2>2 DEF Next
<1> QED
  BY <1>1, <1>2, Invariant, PTL DEF Spec
----------------------------------------------------------------------------
\* Whatever the processes do, and whenever they exit, the lock member is 1
\* exactly while one of them is between lock and unlock (semaph.c:111-114).
THEOREM LockIsHeld == Spec => []LockHeld
BY Invariant, PTL DEF IInv

\* The counter of an initialised set is BIGCOUNT less the processes that have
\* it, those that exit without sem_close() accounted for (semaph.c:17).
THEOREM CounterCounts == Spec => []CounterCorrect
BY Invariant, PTL DEF IInv

\* Between sem_wait() and sem_signal() the value is 1 less the process there: no
\* initialisation ever meets a semaphore in use (semaph.c:137).
THEOREM SectionIsCritical == Spec => []CriticalSection
BY Invariant, PTL DEF IInv

\* No member is ever negative or above BIGCOUNT, and what an exit takes back is
\* at most 1: sem_close() never finds a counter above BIGCOUNT (semaph.c:248).
THEOREM TypeCorrect == Spec => []TypeOK
<1>1. IInv /\ Bounds => TypeOK
  <2> SUFFICES ASSUME IInv, Bounds PROVE TypeOK
    OBVIOUS
  <2>0. /\ Types /\ Generations /\ UndoCorrect /\ LockHeld /\ CounterCorrect
        /\ BIGCOUNT \in Nat /\ BIGCOUNT # 0 /\ MaxSets \in Nat
    BY SemAssumption, FS_CardinalityType DEF IInv
  <2>1. sem \in [Members -> 0..BIGCOUNT]
    <3>1. sem.lock \in 0..BIGCOUNT
      <4>1. Cardinality(On(LockLabels)) \in Nat
        BY OnFinite
      <4> QED
        BY <2>0, <4>1, Sets DEF LockHeld
    <3>2. sem.count \in 0..BIGCOUNT
      <4>1. Cardinality(On(UserLabels)) \in Nat /\ Cardinality(On(UserLabels)) < BIGCOUNT
        BY OnFinite
      <4> QED
        BY <2>0, <4>1, Sets DEF CounterCorrect
    <3>3. sem.val \in 0..BIGCOUNT
      BY <2>0 DEF Bounds
    <3> QED
      BY <2>0, <3>1, <3>2, <3>3 DEF Types, Members
  <2>2. undo \in [Procs -> [Members -> -1..1]]
    <3>1. \A p \in Procs : \A labels : in(p, labels) \in 0..1
      BY DEF in
    <3>2. \A p \in Procs : undo[p] \in [Members -> -1..1]
      BY <2>0, <3>1 DEF Types, UndoCorrect, Members
    <3> QED
      BY <2>0, <3>2 DEF Types
  <2>3. gen \in 0..MaxSets /\ id \in [Procs -> 0..MaxSets]
    BY <2>0 DEF Types, Generations, Bounds
  <2> QED
    BY <2>0, <2>1, <2>2, <2>3 DEF Types, Bounds, TypeOK
<1> QED
  BY <1>1, Invariant, BoundsInvariant, PTL

\* When sem_close() removes a set, no process has that set from sem_create(),
\* however the closing, the creating and the exits interleave.
THEOREM CreatorsAreKept == Spec => []CreatorsKeepIt
BY BoundsInvariant, PTL
=============================================================================
