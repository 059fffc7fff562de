----------------------------- MODULE DbViewProof ----------------------------
(***************************************************************************)
(* Proofs about DbOpen and DbScan.                                         *)
(*                                                                         *)
(* Both follow the same argument: a step is one of Db, or none, for a view *)
(* of the state in which a process that does what Db does not know of is   *)
(* idle and has no lock.  Core is that view for DbOpen, ScanCore for       *)
(* DbScan, and the definitions with Scan in their names are those of       *)
(* DbScan.                                                                 *)
(***************************************************************************)
EXTENDS DbOpen, DbScan, SequenceTheorems, FiniteSetTheorems, TLAPS

(***************************************************************************)
(* DbOpen, for any number of processes and of openings: no function sees a *)
(* file that is not initialised, and the chains hold the map although      *)
(* files are created and emptied between the calls.                        *)
(*                                                                         *)
(* A step of DbOpen is a step of Db, or none, when one takes a process in  *)
(* db_open(), or with the database closed, for one that is idle and has    *)
(* no lock.  Only the emptying of the files is no step of Db.              *)
(***************************************************************************)
dbPc == [p \in Procs |-> IF pc[p] \in Opening \cup {"closed"} THEN "idle" ELSE pc[p]]
dbLock == [r \in Regions |->
             [p \in Procs |-> IF pc[p] \in Opening THEN "none" ELSE lock[r][p]]]

Core == INSTANCE DbProof WITH pc <- dbPc, lock <- dbLock

\* The invariants of Db.
Good == Core!Control /\ Core!FileInv /\ Core!MapInv({})

OpenTypes ==
    /\ pc \in [Procs -> Labels \cup Opening \cup {"closed"}]
    /\ lock \in [Regions -> [Procs -> {"none", "read", "write"}]]
    /\ oflag \in [Procs -> OpenFlags \cup {{}}]

\* The places at which a process has the whole index file locked.
Initialising == {"open.fstat", "open.write", "open.unlock"}

OpenLocks ==
    /\ \A p \in Procs, r \in Regions :
          /\ pc[p] \in {"open.dat", "open.lock"} => lock[r][p] = "none"
          /\ pc[p] \in Initialising =>
                lock[r][p] = IF r \in IdxRegions THEN "write" ELSE "none"
    /\ \A p, q \in Procs : pc[p] \in Initialising /\ pc[q] \in Initialising => p = q

\* What is in the files when they are not initialised, and while they are emptied.
Contents ==
    /\ ~hdr => table = NoPointers
    /\ \A p \in Procs : pc[p] = "open.write" => ~hdr
    /\ Emptying =>
          /\ table = NoPointers /\ idx = <<>> /\ kv = [k \in Keys |-> NULL]
          /\ \A p \in Procs : pc[p] \in AtRest \cup Opening

\* A process in no function remembers nothing.
Resting ==
    \A p \in Procs : pc[p] \in AtRest \cup Opening => db[p] = NoDb /\ loc[p] = NoLoc

\* A function that has not taken its first lock is called when the file is
\* initialised, or by a process that has locked all of it for that.
Ready ==
    \A p \in Procs : pc[p] = "find" =>
        hdr \/ \E q \in Procs : pc[q] \in {"open.fstat", "open.write"}

\* The inductive invariant.
OpenInv ==
    OpenTypes /\ Good /\ OpenLocks /\ Contents /\ Resting /\ Ready /\ OpenIsReady
----------------------------------------------------------------------------
\* The constants of Db are those of its instance.
LEMMA SameConstants ==
    /\ Core!Chains = Chains /\ Core!Regions = Regions /\ Core!Labels = Labels
    /\ Core!NoDb = NoDb /\ Core!NoLoc = NoLoc
    /\ NHASH \in Nat \ {0} /\ PTR_MAX \in Nat /\ MaxCalls \in Nat
    /\ Hash \in [Keys -> Core!Chains]
    /\ KeyLen \in [Keys -> Nat]
    /\ DatLen \in [Data -> Nat]
    /\ Requests \subseteq Core!Abs!Request
    /\ NULL \notin Data /\ BLANK \notin Keys \cup Data
    /\ NULL \notin Core!Abs!Request /\ EXITED \notin Core!Abs!Request /\ NULL # EXITED
<1>1. Core!Chains = Chains /\ Core!Abs!Request = Abs!Request
  BY DEF Core!Abs!Request, Abs!Request, Core!Chains, Chains, Core!Abs!DB_INSERT,
     Core!Abs!DB_REPLACE, Abs!DB_INSERT, Abs!DB_REPLACE
<1>2. Core!Regions = Regions /\ Core!Labels = Labels /\ Core!NoDb = NoDb /\ Core!NoLoc = NoLoc
  BY DEF Core!Regions, Regions, Core!DATFILE, DATFILE, Core!Labels, Labels, Core!NoDb, NoDb,
     Core!NoLoc, NoLoc
<1> QED BY <1>1, <1>2, DbAssumption

\* Steps of Db keep the invariants of Db.
LEMMA GoodStep == Good /\ [Core!Next]_(Core!vars) => Good'
<1>1. Core!Control /\ [Core!Next]_(Core!vars) => Core!Control'
  BY SameConstants, Core!ControlStep
<1>2. Core!Control /\ Core!FileInv /\ [Core!Next]_(Core!vars) => Core!FileInv'
  BY SameConstants, Core!FileStep
<1>3. Core!Control /\ Core!FileInv /\ Core!MapInv({}) /\ [Core!Next]_(Core!vars) => Core!MapInv({})'
  BY SameConstants, Core!EveryStepGood
<1> QED BY <1>1, <1>2, <1>3 DEF Good

\* The invariants of Db hold when the files are empty.
LEMMA GoodEmpty == Core!Empty => Good
<1>1. Core!Empty => Core!Control /\ Core!FileInv
  BY SameConstants, Core!EmptyFiles
<1>2. Core!Empty => Core!MapInv({})
  BY SameConstants, Core!EmptyGood
<1> QED BY <1>1, <1>2 DEF Good

\* A process that is in no function has no lock.
LEMMA NoLocks ==
    ASSUME OpenInv, NEW p \in Procs, pc[p] \in AtRest, NEW r \in Regions
    PROVE  lock[r][p] = "none"
<1>1. dbPc[p] \in {"idle", "exited"} /\ dbLock[r][p] = lock[r][p]
  BY DEF dbPc, dbLock, AtRest, Opening
<1>2. dbLock[r][p] = Core!LockOf(p, r)
  BY SameConstants DEF OpenInv, Good, Core!Control, Core!LockDiscipline
<1>3. ~Core!Held(p, r)
  BY <1>1 DEF Core!Held, Core!Outside, Core!FreeLocked, Core!TailLocked, Core!DatLocked
<1> QED BY <1>1, <1>2, <1>3 DEF Core!LockOf
----------------------------------------------------------------------------
\* A step of process p inside a function: it begins in one, ends in one or at rest,
\* and leaves what is the others' alone.
LEMMA StepPlaces ==
    ASSUME OpenTypes, NEW p \in Procs, Step(p)
    PROVE  /\ pc[p] \in Labels \ {"idle", "exited"} /\ pc'[p] \in Labels \ {"find"}
           /\ pc' \in [Procs -> Labels \cup Opening \cup {"closed"}]
           /\ \A q \in Procs \ {p} : pc'[q] = pc[q]
           /\ pc[p] = "find" => FindLock(p)
<1> USE DEF Transition, Goto, Lock, Release, OpenTypes, Labels
<1>1. CASE Find(p)
  BY <1>1 DEF Find, FindLock, FindReadPtr, FindReadIdx, FindNext, NotFound, Found
<1>2. CASE DoDelete(p)
  BY <1>2 DEF DoDelete, DelLock, DelWriteDat, DelReadFree, DelWriteIdx, DelWriteFree,
     DelWritePtr, DelUnlock
<1>3. CASE FindFree(p)
  BY <1>3 DEF FindFree, FreeLock, FreeReadPtr, FreeReadIdx, FreeWritePtr, FreeUnlock, FreeNext
<1>4. CASE AppendDat(p)
  BY <1>4 DEF AppendDat, AppendDatLock, AppendDatSeek, AppendDatWrite, AppendDatUnlock
<1>5. CASE AppendIdx(p)
  BY <1>5 DEF AppendIdx, AppendIdxLock, AppendIdxSeek, AppendIdxWrite, AppendIdxUnlock
<1>6. CASE Store(p)
  BY <1>6 DEF Store, StoreHead, StoreWriteDat, StoreWriteIdx, StoreWritePtr, StoreQuit
<1>7. CASE FetchReadDat(p) \/ Unlock(p)
  BY <1>7 DEF FetchReadDat, Unlock
<1> QED BY <1>1, <1>2, <1>3, <1>4, <1>5, <1>6, <1>7 DEF Step

\* What the call of a process that is in a function is about.
LEMMA CallKnown ==
    ASSUME OpenInv, NEW p \in Procs, pc[p] \in Labels \ {"idle", "exited"}
    PROVE  call[p] \in Requests /\ call[p].key \in Keys /\ chainoff(p) \in Chains
<1>1. dbPc[p] = pc[p] /\ pc[p] \notin {"idle", "exited"}
  BY DEF dbPc, Opening, Labels
<1>2. call[p] \in Requests
  BY <1>1 DEF OpenInv, Good, Core!Control, Core!CallOK
<1> QED BY <1>2, DbAssumption DEF Abs!Request, chainoff

\* In a step of process p inside a function its place and the locks mean in Db what
\* they mean here.
LEMMA StepMeans ==
    ASSUME OpenTypes, NEW p \in Procs, Step(p)
    PROVE  /\ dbPc[p] = pc[p] /\ dbPc'[p] = pc'[p]
           /\ \A l : Goto(p, l) => Core!Goto(p, l)
           /\ \A r \in Regions :
                 /\ writew_lock(p, r) => Core!writew_lock(p, r)
                 /\ readw_lock(p, r) => Core!readw_lock(p, r)
                 /\ un_lock(p, r) => Core!un_lock(p, r)
           /\ unlock_all(p) => Core!unlock_all(p)
           /\ lock' = lock => dbLock' = dbLock
<1>1. /\ pc[p] \notin Opening \cup {"closed"} /\ pc'[p] \notin Opening \cup {"closed"}
      /\ \A q \in Procs \ {p} : pc'[q] = pc[q]
      /\ DOMAIN pc = Procs /\ DOMAIN pc' = Procs
  <2>1. Labels \cap (Opening \cup {"closed"}) = {}
    BY DEF Labels, Opening
  <2> QED BY <2>1, StepPlaces DEF OpenTypes
<1>2. dbPc[p] = pc[p] /\ dbPc'[p] = pc'[p]
  BY <1>1 DEF dbPc
<1>3. ASSUME NEW l, Goto(p, l) PROVE Core!Goto(p, l)
  <2>1. pc' = [pc EXCEPT ![p] = l]
    BY <1>3 DEF Goto
  <2>2. dbPc' = [dbPc EXCEPT ![p] = l]
    BY <1>1, <2>1 DEF dbPc
  <2> QED BY <2>2 DEF Core!Goto
<1>4. lock \in [Regions -> [Procs -> {"none", "read", "write"}]]
  BY DEF OpenTypes
<1>5. \A r \in Regions, q \in Procs :
        dbLock[r][q] = IF pc[q] \in Opening THEN "none" ELSE lock[r][q]
  BY DEF dbLock
<1>6. \A r \in Regions, q \in Procs :
        dbLock'[r][q] = IF pc[q] \in Opening THEN "none" ELSE lock'[r][q]
  BY <1>1 DEF dbLock
<1>7. dbLock \in [Regions -> [Procs -> {"none", "read", "write"}]]
  BY <1>4 DEF dbLock
<1>8. dbLock' = [r \in Regions |-> [q \in Procs |-> dbLock'[r][q]]]
  BY DEF dbLock
<1>9. ASSUME NEW r \in Regions, NEW m, lock' = [lock EXCEPT ![r][p] = m]
      PROVE  dbLock' = [dbLock EXCEPT ![r][p] = m]
  <2>1. \A s \in Regions, q \in Procs : lock'[s][q] = IF s = r /\ q = p THEN m ELSE lock[s][q]
    BY <1>4, <1>9
  <2>2. \A s \in Regions, q \in Procs : dbLock'[s][q] = IF s = r /\ q = p THEN m ELSE dbLock[s][q]
    BY <1>1, <1>5, <1>6, <2>1
  <2> QED BY <1>7, <1>8, <2>2
<1>10. ASSUME NEW r \in Regions, writew_lock(p, r) PROVE Core!writew_lock(p, r)
  BY <1>5, <1>9, <1>10 DEF writew_lock, Core!writew_lock
<1>11. ASSUME NEW r \in Regions, readw_lock(p, r) PROVE Core!readw_lock(p, r)
  BY <1>5, <1>9, <1>11 DEF readw_lock, Core!readw_lock
<1>12. ASSUME NEW r \in Regions, un_lock(p, r) PROVE Core!un_lock(p, r)
  BY <1>9, <1>12 DEF un_lock, Core!un_lock
<1>13. ASSUME unlock_all(p) PROVE Core!unlock_all(p)
  <2>1. \A s \in Regions, q \in Procs : lock'[s][q] = IF q = p THEN "none" ELSE lock[s][q]
    BY <1>4, <1>13 DEF unlock_all
  <2>2. \A s \in Regions, q \in Procs : dbLock'[s][q] = IF q = p THEN "none" ELSE dbLock[s][q]
    BY <1>1, <1>5, <1>6, <2>1
  <2>3. dbLock' = [r \in Regions |-> [dbLock[r] EXCEPT ![p] = "none"]]
    BY <1>7, <1>8, <2>2
  <2> QED BY <2>3, SameConstants DEF Core!unlock_all
<1>14. ASSUME lock' = lock PROVE dbLock' = dbLock
  <2>1. \A s \in Regions, q \in Procs : dbLock'[s][q] = dbLock[s][q]
    BY <1>5, <1>6, <1>14
  <2> QED BY <1>7, <1>8, <2>1
<1> QED BY <1>2, <1>3, <1>10, <1>11, <1>12, <1>13, <1>14

\* A step of a process inside a function is a step of Db.
LEMMA StepMaps ==
    ASSUME OpenInv, NEW p \in Procs, Step(p)
    PROVE  Core!Step(p)
<1>0. OpenTypes
  BY DEF OpenInv
<1>1. /\ dbPc[p] = pc[p]
      /\ \A l : Goto(p, l) => Core!Goto(p, l)
      /\ \A r \in Regions :
            /\ writew_lock(p, r) => Core!writew_lock(p, r)
            /\ readw_lock(p, r) => Core!readw_lock(p, r)
            /\ un_lock(p, r) => Core!un_lock(p, r)
      /\ unlock_all(p) => Core!unlock_all(p)
      /\ lock' = lock => dbLock' = dbLock
  BY <1>0, StepMeans, Zenon
<1>2. /\ chainoff(p) \in Regions /\ FREE_OFF \in Regions
      /\ DATFILE \in Regions /\ IDX_TAIL \in Regions
  <2>1. chainoff(p) \in Chains
    BY <1>0, CallKnown, StepPlaces
  <2> QED BY <2>1, DbAssumption DEF Chains, Regions, FREE_OFF, DATFILE, IDX_TAIL
<1>3. Core!chainoff(p) = chainoff(p) /\ Core!FREE_OFF = FREE_OFF /\ Core!DATFILE = DATFILE
      /\ Core!IDX_TAIL = IDX_TAIL
  BY DEF Core!chainoff, chainoff, Core!FREE_OFF, FREE_OFF, Core!DATFILE, DATFILE,
     Core!IDX_TAIL, IDX_TAIL
<1>4. \A from, to : Transition(p, from, to) => Core!Transition(p, from, to)
  BY <1>1 DEF Transition, Core!Transition
<1>5. \A r \in Regions : \A from, to :
        /\ Lock(p, r, from, to) => Core!Lock(p, r, from, to)
        /\ Release(p, r, from, to) => Core!Release(p, r, from, to)
  BY <1>1, <1>4 DEF Lock, Core!Lock, Release, Core!Release, files, Core!files, client, Core!client
<1> USE DEF files, Core!files, client, Core!client
<1>6. CASE Find(p)
  <2>1. FindLock(p) => Core!FindLock(p)
    BY <1>1, <1>2, <1>3, <1>4 DEF FindLock, Core!FindLock
  <2>2. \A d, off : FindNext(p, d, off) => Core!FindNext(p, d, off)
    <3>1. \A r : Core!NotFound(r) = NotFound(r)
      BY DEF NotFound, Core!NotFound, Abs!DB_REPLACE, Core!Abs!DB_REPLACE
    <3> QED BY <1>1, <3>1, SameConstants DEF FindNext, Core!FindNext
  <2>3. FindReadPtr(p) => Core!FindReadPtr(p)
    BY <1>1, <1>3, <2>2 DEF FindReadPtr, Core!FindReadPtr, readptr, Core!readptr
  <2>4. FindReadIdx(p) => Core!FindReadIdx(p)
    BY <1>1, <2>2 DEF FindReadIdx, Core!FindReadIdx, readidx, Core!readidx, Found, Core!Found,
       AfterReadIdx, Core!AfterReadIdx, Abs!DB_INSERT, Core!Abs!DB_INSERT
  <2> QED BY <1>6, <2>1, <2>3, <2>4 DEF Find, Core!Find, Core!Step
<1>7. CASE DoDelete(p)
  <2>1. DelLock(p) => Core!DelLock(p)
    BY <1>2, <1>3, <1>5 DEF DelLock, Core!DelLock
  <2>2. DelWriteDat(p) => Core!DelWriteDat(p)
    BY <1>1, <1>4 DEF DelWriteDat, Core!DelWriteDat
  <2>3. DelReadFree(p) => Core!DelReadFree(p)
    BY <1>1, <1>3, <1>4 DEF DelReadFree, Core!DelReadFree, readptr, Core!readptr
  <2>4. DelWriteIdx(p) => Core!DelWriteIdx(p)
    BY <1>1, <1>4 DEF DelWriteIdx, Core!DelWriteIdx, WriteAt, Core!WriteAt, IdxRecord,
       Core!IdxRecord
  <2>5. DelWriteFree(p) => Core!DelWriteFree(p)
    BY <1>1, <1>3, <1>4 DEF DelWriteFree, Core!DelWriteFree, writeptr, Core!writeptr
  <2>6. DelWritePtr(p) => Core!DelWritePtr(p)
    BY <1>1, <1>4 DEF DelWritePtr, Core!DelWritePtr, writeptr, Core!writeptr
  <2>7. DelUnlock(p) => Core!DelUnlock(p)
    BY <1>1, <1>2, <1>3 DEF DelUnlock, Core!DelUnlock
  <2> QED BY <1>7, <2>1, <2>2, <2>3, <2>4, <2>5, <2>6, <2>7
          DEF DoDelete, Core!DoDelete, Core!Step
<1>8. CASE FindFree(p)
  <2>1. FreeLock(p) => Core!FreeLock(p)
    BY <1>2, <1>3, <1>5 DEF FreeLock, Core!FreeLock
  <2>2. \A save, off : FreeNext(p, save, off) => Core!FreeNext(p, save, off)
    BY <1>1 DEF FreeNext, Core!FreeNext
  <2>3. FreeReadPtr(p) => Core!FreeReadPtr(p)
    BY <1>1, <1>3, <2>2 DEF FreeReadPtr, Core!FreeReadPtr, readptr, Core!readptr
  <2>4. FreeReadIdx(p) => Core!FreeReadIdx(p)
    BY <1>1, <2>2 DEF FreeReadIdx, Core!FreeReadIdx, readidx, Core!readidx, Fits, Core!Fits,
       AfterReadIdx, Core!AfterReadIdx
  <2>5. FreeWritePtr(p) => Core!FreeWritePtr(p)
    BY <1>1, <1>4 DEF FreeWritePtr, Core!FreeWritePtr, writeptr, Core!writeptr
  <2>6. FreeUnlock(p) => Core!FreeUnlock(p)
    BY <1>1, <1>2, <1>3 DEF FreeUnlock, Core!FreeUnlock
  <2> QED BY <1>8, <2>1, <2>3, <2>4, <2>5, <2>6 DEF FindFree, Core!FindFree, Core!Step
<1>9. CASE AppendDat(p)
  <2>1. AppendDatLock(p) => Core!AppendDatLock(p)
    BY <1>2, <1>3, <1>5 DEF AppendDatLock, Core!AppendDatLock
  <2>2. AppendDatSeek(p) => Core!AppendDatSeek(p)
    BY <1>1, <1>4 DEF AppendDatSeek, Core!AppendDatSeek
  <2>3. AppendDatWrite(p) => Core!AppendDatWrite(p)
    BY <1>1, <1>4 DEF AppendDatWrite, Core!AppendDatWrite, WriteAt, Core!WriteAt
  <2>4. AppendDatUnlock(p) => Core!AppendDatUnlock(p)
    BY <1>2, <1>3, <1>5 DEF AppendDatUnlock, Core!AppendDatUnlock
  <2> QED BY <1>9, <2>1, <2>2, <2>3, <2>4 DEF AppendDat, Core!AppendDat, Core!Step
<1>10. CASE AppendIdx(p)
  <2>1. AppendIdxLock(p) => Core!AppendIdxLock(p)
    BY <1>2, <1>3, <1>5 DEF AppendIdxLock, Core!AppendIdxLock
  <2>2. AppendIdxSeek(p) => Core!AppendIdxSeek(p)
    BY <1>1, <1>4 DEF AppendIdxSeek, Core!AppendIdxSeek
  <2>3. AppendIdxWrite(p) => Core!AppendIdxWrite(p)
    BY <1>1, <1>4 DEF AppendIdxWrite, Core!AppendIdxWrite, WriteAt, Core!WriteAt, IdxRecord,
       Core!IdxRecord
  <2>4. AppendIdxUnlock(p) => Core!AppendIdxUnlock(p)
    BY <1>2, <1>3, <1>5 DEF AppendIdxUnlock, Core!AppendIdxUnlock
  <2> QED BY <1>10, <2>1, <2>2, <2>3, <2>4 DEF AppendIdx, Core!AppendIdx, Core!Step
<1>11. CASE Store(p)
  <2>1. StoreHead(p) => Core!StoreHead(p)
    BY <1>1, <1>3 DEF StoreHead, Core!StoreHead, readptr, Core!readptr
  <2>2. StoreWriteDat(p) => Core!StoreWriteDat(p)
    BY <1>1 DEF StoreWriteDat, Core!StoreWriteDat
  <2>3. StoreWriteIdx(p) => Core!StoreWriteIdx(p)
    BY <1>1, <1>4 DEF StoreWriteIdx, Core!StoreWriteIdx, WriteAt, Core!WriteAt, IdxRecord,
       Core!IdxRecord
  <2>4. StoreWritePtr(p) => Core!StoreWritePtr(p)
    BY <1>1, <1>3, <1>4 DEF StoreWritePtr, Core!StoreWritePtr, writeptr, Core!writeptr
  <2>5. StoreQuit(p) => Core!StoreQuit(p)
    BY <1>1, <1>4, SameConstants DEF StoreQuit, Core!StoreQuit
  <2> QED BY <1>11, <2>1, <2>2, <2>3, <2>4, <2>5 DEF Store, Core!Store, Core!Step
<1>12. CASE FetchReadDat(p)
  <2>1. Core!FetchReadDat(p)
    BY <1>1, <1>4, <1>12 DEF FetchReadDat, Core!FetchReadDat
  <2> QED BY <2>1 DEF Core!Step
<1>13. CASE Unlock(p)
  <2>1. Core!Abs!Effect(kv, call[p]) = Abs!Effect(kv, call[p])
    BY DEF Core!Abs!Effect, Abs!Effect, Core!Abs!Refused, Abs!Refused,
       Core!Abs!DB_INSERT, Core!Abs!DB_REPLACE, Abs!DB_INSERT, Abs!DB_REPLACE
  <2>2. Core!Unlock(p)
    BY <1>1, <1>2, <1>3, <1>4, <1>13, <2>1, SameConstants DEF Unlock, Core!Unlock
  <2> QED BY <2>2 DEF Core!Step
<1> QED BY <1>6, <1>7, <1>8, <1>9, <1>10, <1>11, <1>12, <1>13 DEF Step
----------------------------------------------------------------------------
\* What the steps of a process have in common.
Alone(p) ==
    /\ \A q \in Procs \ {p} :
          /\ db'[q] = db[q] /\ loc'[q] = loc[q]
          /\ \A r \in Regions : lock'[r][q] = lock[r][q]
    /\ pc'[p] \in {"idle", "exited"} => db'[p] = NoDb /\ loc'[p] = NoLoc
    /\ lock' \in [Regions -> [Procs -> {"none", "read", "write"}]]

\* A step of a process inside a function leaves what is the others' alone; a
\* process that returns or exits remembers nothing.
LEMMA StepAlone ==
    ASSUME OpenInv, NEW p \in Procs, Step(p)
    PROVE  Alone(p)
<1>1. /\ DOMAIN pc = Procs /\ DOMAIN db = Procs /\ DOMAIN loc = Procs
      /\ lock \in [Regions -> [Procs -> {"none", "read", "write"}]]
      /\ pc[p] \in Labels /\ "none" \in {"none", "read", "write"}
  BY StepPlaces DEF OpenInv, OpenTypes, Good, Core!FileInv, Core!FileTypeOK
<1>2. ASSUME NEW r, NEW m \in {"none", "read", "write"}, lock' = [lock EXCEPT ![r][p] = m]
      PROVE  /\ \A s \in Regions, q \in Procs \ {p} : lock'[s][q] = lock[s][q]
             /\ lock' \in [Regions -> [Procs -> {"none", "read", "write"}]]
  BY <1>1, <1>2
<1>3. ASSUME lock' = lock \/ (\E r : readw_lock(p, r) \/ writew_lock(p, r) \/ un_lock(p, r))
             \/ unlock_all(p)
      PROVE  /\ \A s \in Regions, q \in Procs \ {p} : lock'[s][q] = lock[s][q]
             /\ lock' \in [Regions -> [Procs -> {"none", "read", "write"}]]
  <2>1. CASE \E r : readw_lock(p, r) \/ writew_lock(p, r) \/ un_lock(p, r)
    <3>1. PICK r : readw_lock(p, r) \/ writew_lock(p, r) \/ un_lock(p, r)
      BY <2>1
    <3>2. PICK m \in {"none", "read", "write"} : lock' = [lock EXCEPT ![r][p] = m]
      BY <3>1 DEF readw_lock, writew_lock, un_lock
    <3> QED BY <1>2, <3>2
  <2>2. CASE unlock_all(p)
    BY <1>1, <2>2 DEF unlock_all
  <2> QED BY <1>1, <1>3, <2>1, <2>2
<1> USE DEF Transition, Lock, Release
<1>4. lock' = lock \/ (\E r : readw_lock(p, r) \/ writew_lock(p, r) \/ un_lock(p, r))
      \/ unlock_all(p)
  <2>1. Find(p) \/ DoDelete(p) => lock' = lock \/ (\E r : readw_lock(p, r) \/ writew_lock(p, r) \/ un_lock(p, r))
    BY DEF Find, FindLock, FindReadPtr, FindReadIdx, DoDelete, DelLock, DelWriteDat,
       DelReadFree, DelWriteIdx, DelWriteFree, DelWritePtr, DelUnlock
  <2>2. FindFree(p) => lock' = lock \/ (\E r : writew_lock(p, r) \/ un_lock(p, r))
    BY DEF FindFree, FreeLock, FreeReadPtr, FreeReadIdx, FreeWritePtr, FreeUnlock
  <2>3. AppendDat(p) \/ AppendIdx(p) => lock' = lock \/ (\E r : writew_lock(p, r) \/ un_lock(p, r))
    BY DEF AppendDat, AppendDatLock, AppendDatSeek, AppendDatWrite, AppendDatUnlock,
       AppendIdx, AppendIdxLock, AppendIdxSeek, AppendIdxWrite, AppendIdxUnlock
  <2>4. Store(p) \/ FetchReadDat(p) \/ Unlock(p) =>
          lock' = lock \/ (\E r : un_lock(p, r)) \/ unlock_all(p)
    BY DEF Store, StoreHead, StoreWriteDat, StoreWriteIdx, StoreWritePtr, StoreQuit,
       FetchReadDat, Unlock
  <2> QED BY <2>1, <2>2, <2>3, <2>4 DEF Step
<1>5. /\ \A q \in Procs \ {p} : db'[q] = db[q] /\ loc'[q] = loc[q]
      /\ pc'[p] \in {"idle", "exited"} => db'[p] = NoDb /\ loc'[p] = NoLoc
  <2> USE <1>1 DEF Goto
  <2>1. CASE Find(p)
    BY <2>1 DEF Find, FindLock, FindReadPtr, FindReadIdx, FindNext, NotFound, Found
  <2>2. CASE DoDelete(p)
    BY <2>2 DEF DoDelete, DelLock, DelWriteDat, DelReadFree, DelWriteIdx, DelWriteFree,
       DelWritePtr, DelUnlock
  <2>3. CASE FindFree(p)
    BY <2>3 DEF FindFree, FreeLock, FreeReadPtr, FreeReadIdx, FreeWritePtr, FreeUnlock, FreeNext
  <2>4. CASE AppendDat(p) \/ AppendIdx(p)
    BY <2>4 DEF AppendDat, AppendDatLock, AppendDatSeek, AppendDatWrite, AppendDatUnlock,
       AppendIdx, AppendIdxLock, AppendIdxSeek, AppendIdxWrite, AppendIdxUnlock
  <2>5. CASE Store(p)
    BY <2>5 DEF Store, StoreHead, StoreWriteDat, StoreWriteIdx, StoreWritePtr, StoreQuit
  <2>6. CASE FetchReadDat(p) \/ Unlock(p)
    BY <2>6 DEF FetchReadDat, Unlock
  <2> QED BY <2>1, <2>2, <2>3, <2>4, <2>5, <2>6 DEF Step
<1> QED BY <1>3, <1>4, <1>5 DEF Alone

\* No function goes on from its first lock before the file is initialised: the
\* process that initialises it has every chain locked.
LEMMA StepReady ==
    ASSUME OpenInv, NEW p \in Procs, Step(p)
    PROVE  hdr
<1>1. pc[p] \in Labels \ {"idle", "exited"} /\ (pc[p] = "find" => FindLock(p))
  BY StepPlaces DEF OpenInv
<1>2. CASE pc[p] # "find"
  BY <1>1, <1>2 DEF OpenInv, OpenIsReady, AtRest, Opening, Labels
<1>3. CASE pc[p] = "find"
  <2> SUFFICES ASSUME ~hdr PROVE FALSE
    OBVIOUS
  <2>1. PICK q \in Procs : pc[q] \in {"open.fstat", "open.write"}
    BY <1>3 DEF OpenInv, Ready
  <2>2. chainoff(p) \in Regions /\ chainoff(p) \in IdxRegions
    BY <1>1, CallKnown, DbAssumption DEF Chains, Regions, IdxRegions, DATFILE
  <2>3. lock[chainoff(p)][q] = "write" /\ q # p
    BY <1>3, <2>1, <2>2 DEF OpenInv, OpenLocks, Initialising
  <2> QED BY <1>1, <1>3, <2>3 DEF FindLock, readw_lock, writew_lock
<1> QED BY <1>2, <1>3
----------------------------------------------------------------------------
\* The steps of db_fetch(), db_store() and db_delete().
LEMMA StepInv ==
    ASSUME OpenInv, NEW p \in Procs, Step(p), UNCHANGED openVars
    PROVE  OpenInv'
<1>1. /\ pc[p] \in Labels \ {"idle", "exited"} /\ pc'[p] \in Labels \ {"find"}
      /\ pc' \in [Procs -> Labels \cup Opening \cup {"closed"}]
      /\ \A q \in Procs \ {p} : pc'[q] = pc[q]
  BY StepPlaces DEF OpenInv
<1>2. Alone(p)
  BY StepAlone
<1>3. hdr /\ hdr' /\ oflag' = oflag
  BY StepReady DEF openVars
<1>4. pc[p] \notin AtRest \cup Opening /\ pc'[p] \notin Opening \cup {"closed", "find"}
  BY <1>1 DEF AtRest, Opening, Labels
<1>5. OpenTypes'
  BY <1>1, <1>2, <1>3 DEF OpenInv, OpenTypes, Alone
<1>6. Good'
  <2>1. Core!Next
    BY StepMaps DEF Core!Next
  <2> QED BY <2>1, GoodStep DEF OpenInv
<1>7. OpenLocks'
  BY <1>1, <1>2, <1>4 DEF OpenInv, OpenLocks, Alone, Opening, Initialising
<1>8. Contents'
  <2>1. ~Emptying'
    BY <1>1, <1>3, <1>4 DEF OpenInv, Contents, Emptying, Opening
  <2>2. \A q \in Procs : pc'[q] # "open.write"
    BY <1>1, <1>3, <1>4 DEF OpenInv, Contents, Opening
  <2> QED BY <1>3, <2>1, <2>2 DEF Contents
<1>9. Resting'
  BY <1>1, <1>2, <1>4 DEF OpenInv, Resting, Alone, AtRest, Opening
<1>10. Ready' /\ OpenIsReady'
  BY <1>3 DEF Ready, OpenIsReady
<1> QED BY <1>5, <1>6, <1>7, <1>8, <1>9, <1>10 DEF OpenInv

\* A call of one of them.
LEMMA CallInv ==
    ASSUME OpenInv, NEW p \in Procs, ReadyForCalls, Call(p), UNCHANGED openVars
    PROVE  OpenInv'
<1>1. /\ pc[p] = "idle" /\ pc' = [pc EXCEPT ![p] = "find"]
      /\ UNCHANGED <<table, idx, dat, lock, db, loc>> /\ Abs!Call(p)
  BY DEF Call, Transition, Goto, files
<1>2. UNCHANGED <<hdr, oflag>> /\ pc \in [Procs -> Labels \cup Opening \cup {"closed"}]
  BY DEF OpenInv, OpenTypes, openVars
<1>3. /\ \A q \in Procs : pc'[q] = IF q = p THEN "find" ELSE pc[q]
      /\ pc' \in [Procs -> Labels \cup Opening \cup {"closed"}]
  BY <1>1, <1>2 DEF Labels
<1>4. OpenTypes'
  BY <1>1, <1>2, <1>3 DEF OpenInv, OpenTypes
<1>5. Good'
  <2>1. dbPc[p] = "idle" /\ dbPc' = [dbPc EXCEPT ![p] = "find"] /\ dbLock' = dbLock
    BY <1>1, <1>3 DEF dbPc, dbLock, Opening
  <2>2. Core!Abs!Call(p)
    BY <1>1 DEF Abs!Call, Core!Abs!Call
  <2>3. Core!Call(p)
    BY <1>1, <2>1, <2>2 DEF Call, Core!Call, Core!Transition, Core!Goto, Core!files
  <2>4. Core!Next
    BY <2>3 DEF Core!Next
  <2> QED BY <2>4, GoodStep DEF OpenInv
<1>6. OpenLocks'
  BY <1>1, <1>3 DEF OpenInv, OpenLocks, Initialising
<1>7. Contents'
  <2>1. ~Emptying'
    BY <1>2, <1>3 DEF ReadyForCalls, Emptying
  <2> QED BY <1>1, <1>2, <1>3, <2>1 DEF OpenInv, Contents
<1>8. Resting'
  BY <1>1, <1>3 DEF OpenInv, Resting, AtRest, Opening
<1>9. Ready'
  <2> SUFFICES ASSUME ~hdr PROVE \E q \in Procs : pc'[q] \in {"open.fstat", "open.write"}
    BY <1>2 DEF Ready
  <2>1. PICK q \in Procs : pc[q] \in {"open.fstat", "open.write"}
    BY DEF ReadyForCalls
  <2> QED BY <1>1, <1>3, <2>1
<1>10. OpenIsReady'
  BY <1>2, <1>3 DEF OpenInv, OpenIsReady, AtRest, Opening
<1> QED BY <1>4, <1>5, <1>6, <1>7, <1>8, <1>9, <1>10 DEF OpenInv
----------------------------------------------------------------------------
\* The invariants of Db hold after a step that leaves the files empty.
LEMMA GoodEmptyNext == Core!Empty' => Good'
BY GoodEmpty, PTL

\* When no process is in a function of Db, the files may be emptied.
LEMMA EmptyAgain ==
    ASSUME OpenInv, \A p \in Procs : pc[p] \in AtRest \cup Opening,
           dbPc' = dbPc, dbLock' = dbLock, table' = NoPointers, idx' = <<>>,
           kv' = [k \in Keys |-> NULL], dat' \in {dat, <<>>},
           UNCHANGED <<db, loc, calls, call, ret>>
    PROVE  Good'
<1>1. Core!Control /\ Core!FileInv /\ Core!MapInv({})
  BY DEF OpenInv, Good
<1>2. \A p \in Procs : dbPc[p] \in {"idle", "exited"} /\ db[p] = NoDb /\ loc[p] = NoLoc
  BY DEF OpenInv, Resting, dbPc, AtRest
<1>3. \A r \in Regions, p \in Procs : dbLock[r][p] = "none"
  <2> TAKE r \in Regions, p \in Procs
  <2>1. CASE pc[p] \in Opening
    BY <2>1 DEF dbLock
  <2>2. CASE pc[p] \notin Opening
    <3>1. lock[r][p] = "none"
      BY <2>2, NoLocks
    <3> QED BY <2>2, <3>1 DEF dbLock
  <2> QED BY <2>1, <2>2
<1>4. Core!ControlTypeOK'
  BY <1>1 DEF Core!Control, Core!ControlTypeOK
<1>5. Core!FileTypeOK'
  <2>1. table' \in [0..NHASH -> Core!Ptr]
    BY DbAssumption DEF NoPointers, Core!Ptr
  <2>2. idx' \in Seq(Core!IdxRec) /\ dat' \in Seq(Core!DatRec)
    <3>1. \A S : <<>> \in Seq(S)
      BY EmptySeq
    <3> QED BY <1>1, <3>1 DEF Core!FileInv, Core!FileTypeOK
  <2>3. db' = db /\ loc' = loc /\ ret' = ret
    OBVIOUS
  <2> QED BY <1>1, <2>1, <2>2, <2>3 DEF Core!FileInv, Core!FileTypeOK
<1>6. \A i \in 1..Len(dat)' : dat'[i].data = BLANK \/ DatLen[dat'[i].data] = dat'[i].size
  BY <1>1 DEF Core!MapInv, Core!Good, Core!DataOK
<1>7. \A p \in Procs : Core!CallOK(p)'
  BY <1>1 DEF Core!Control, Core!CallOK
<1>8. Core!Empty'
  BY <1>2, <1>3, <1>4, <1>5, <1>6, <1>7, SameConstants DEF Core!Empty, NoPointers
<1> QED BY <1>8, GoodEmptyNext
----------------------------------------------------------------------------
\* The places of a process that is, for Db, idle.
NotInDb == Opening \cup {"idle", "closed"}

\* The rest of db_open(), and db_close(), change no place and no lock of Db.
LEMMA SamePlaces ==
    ASSUME OpenInv, NEW p \in Procs, pc[p] \in NotInDb, NEW l \in NotInDb, Goto(p, l),
           \A r \in Regions, q \in Procs \ {p} : lock'[r][q] = lock[r][q],
           l \notin Opening => \A r \in Regions : lock'[r][p] = "none"
    PROVE  dbPc' = dbPc /\ dbLock' = dbLock
<1>1. \A q \in Procs : pc'[q] = IF q = p THEN l ELSE pc[q]
  BY DEF OpenInv, OpenTypes, Goto
<1>2. \A q \in Procs : dbPc'[q] = dbPc[q]
  BY <1>1 DEF dbPc, NotInDb
<1>3. ASSUME NEW r \in Regions, NEW q \in Procs PROVE dbLock'[r][q] = dbLock[r][q]
  <2>1. CASE q # p
    BY <1>1, <2>1 DEF dbLock
  <2>2. CASE q = p
    <3>1. pc[p] \notin Opening => lock[r][p] = "none"
      BY NoLocks DEF NotInDb, AtRest
    <3> QED BY <1>1, <2>2, <3>1 DEF dbLock
  <2> QED BY <2>1, <2>2
<1>4. dbPc' = dbPc
  BY <1>2 DEF dbPc
<1>5. dbLock' = dbLock
  BY <1>3 DEF dbLock
<1> QED BY <1>4, <1>5

\* As long as they empty no file, they are no step of Db.
LEMMA GoodKept ==
    ASSUME OpenInv, dbPc' = dbPc, dbLock' = dbLock,
           UNCHANGED <<table, idx, dat, db, loc, calls, kv, call, ret>>
    PROVE  Good'
<1>1. [Core!Next]_(Core!vars)
  BY DEF Core!vars
<1> QED BY <1>1, GoodStep DEF OpenInv

\* db_open() opens the index file.
LEMMA OpenIdxInv ==
    ASSUME OpenInv, NEW p \in Procs, OpenIdx(p)
    PROVE  OpenInv'
<1>1. PICK flag \in OpenFlags :
        LET found == "idx" \in exists \/ "O_CREAT" \in flag
            empties == found /\ "O_TRUNC" \in flag
        IN  /\ EmptyWhenQuiet(flag)
            /\ oflag' = [oflag EXCEPT ![p] = IF found THEN flag ELSE {}]
            /\ Goto(p, IF found THEN "open.dat" ELSE "closed")
            /\ hdr' = (hdr /\ ~empties)
            /\ table' = IF empties THEN NoPointers ELSE table
            /\ idx' = IF empties THEN <<>> ELSE idx
            /\ kv' = IF empties THEN [k \in Keys |-> NULL] ELSE kv
  BY DEF OpenIdx
<1>2. pc[p] = "closed" /\ UNCHANGED <<dat, lock, db, loc, calls, call, ret>>
  BY DEF OpenIdx
<1>3. PICK found \in BOOLEAN : found = ("idx" \in exists \/ "O_CREAT" \in flag)
  OBVIOUS
<1>4. PICK to \in {"open.dat", "closed"} : to = IF found THEN "open.dat" ELSE "closed"
  OBVIOUS
<1>5. /\ Goto(p, to) /\ pc \in [Procs -> Labels \cup Opening \cup {"closed"}]
      /\ oflag' = [oflag EXCEPT ![p] = IF found THEN flag ELSE {}]
      /\ oflag \in [Procs -> OpenFlags \cup {{}}]
  BY <1>1, <1>3, <1>4 DEF OpenInv, OpenTypes
<1>6. /\ \A q \in Procs : pc'[q] = IF q = p THEN to ELSE pc[q]
      /\ pc' \in [Procs -> Labels \cup Opening \cup {"closed"}]
  BY <1>5 DEF Goto, Opening
<1>7. /\ \A q \in Procs \ {p} : oflag'[q] = oflag[q]
      /\ oflag'[p] = IF found THEN flag ELSE {}
      /\ oflag' \in [Procs -> OpenFlags \cup {{}}]
  BY <1>5
<1>8. OpenTypes'
  BY <1>2, <1>6, <1>7 DEF OpenInv, OpenTypes
<1>9. \A r \in Regions : lock[r][p] = "none"
  BY <1>2, NoLocks DEF AtRest
<1>10. dbPc' = dbPc /\ dbLock' = dbLock
  BY <1>2, <1>5, <1>9, SamePlaces DEF NotInDb, Opening
<1>11. OpenLocks'
  BY <1>2, <1>6, <1>9 DEF OpenInv, OpenLocks, Initialising
<1>12. Resting'
  BY <1>2, <1>6 DEF OpenInv, Resting, AtRest
<1>13. CASE found /\ "O_TRUNC" \in flag
  <2>1. /\ ~hdr' /\ table' = NoPointers /\ idx' = <<>> /\ kv' = [k \in Keys |-> NULL]
        /\ \A q \in Procs : pc[q] \in AtRest \cup Opening
    BY <1>1, <1>3, <1>13 DEF EmptyWhenQuiet
  <2>2. \A q \in Procs : pc'[q] \in AtRest \cup Opening
    BY <1>6, <2>1 DEF AtRest, Opening
  <2>3. Good'
    BY <1>2, <1>10, <2>1, EmptyAgain
  <2>4. Contents'
    BY <2>1, <2>2 DEF Contents
  <2>5. Ready' /\ OpenIsReady'
    BY <2>2 DEF Ready, OpenIsReady, AtRest, Opening
  <2> QED BY <1>8, <1>11, <1>12, <2>3, <2>4, <2>5 DEF OpenInv
<1>14. CASE ~(found /\ "O_TRUNC" \in flag)
  <2>1. table' = table /\ idx' = idx /\ kv' = kv /\ hdr' = (hdr /\ TRUE)
    BY <1>1, <1>3, <1>14
  <2>2. Good'
    BY <1>2, <1>10, <2>1, GoodKept
  <2>3. Emptying' => Emptying
    BY <1>4, <1>6, <1>7, <1>14 DEF Emptying
  <2>4. Contents'
    BY <1>6, <2>1, <2>3 DEF OpenInv, Contents, AtRest, Opening
  <2>5. Ready'
    BY <1>2, <1>6, <2>1 DEF OpenInv, Ready
  <2>6. OpenIsReady'
    BY <1>6, <2>1 DEF OpenInv, OpenIsReady, AtRest, Opening
  <2> QED BY <1>8, <1>11, <1>12, <2>2, <2>4, <2>5, <2>6 DEF OpenInv
<1> QED BY <1>13, <1>14

\* db_open() opens the data file.
LEMMA OpenDatInv ==
    ASSUME OpenInv, NEW p \in Procs, OpenDat(p)
    PROVE  OpenInv'
<1>1. PICK found \in BOOLEAN : found = ("dat" \in exists \/ "O_CREAT" \in oflag[p])
  OBVIOUS
<1>2. PICK to \in {"closed", "open.lock", "idle"} :
        to = IF ~found THEN "closed"
             ELSE IF oflag[p] = {"O_CREAT", "O_TRUNC"} THEN "open.lock" ELSE "idle"
  OBVIOUS
<1>3. /\ pc[p] = "open.dat" /\ Goto(p, to)
      /\ dat' = IF found /\ "O_TRUNC" \in oflag[p] THEN <<>> ELSE dat
      /\ UNCHANGED <<table, idx, lock, db, loc, calls, kv, call, ret, hdr, oflag>>
  BY <1>1, <1>2 DEF OpenDat, client
<1>4. pc \in [Procs -> Labels \cup Opening \cup {"closed"}]
  BY DEF OpenInv, OpenTypes
<1>5. /\ \A q \in Procs : pc'[q] = IF q = p THEN to ELSE pc[q]
      /\ pc' \in [Procs -> Labels \cup Opening \cup {"closed"}]
  BY <1>3, <1>4 DEF Goto, Opening, Labels
<1>6. OpenTypes'
  BY <1>3, <1>5 DEF OpenInv, OpenTypes
<1>7. \A r \in Regions : lock[r][p] = "none"
  BY <1>3 DEF OpenInv, OpenLocks
<1>8. dbPc' = dbPc /\ dbLock' = dbLock
  BY <1>3, <1>7, SamePlaces DEF NotInDb, Opening
<1>9. Emptying' => Emptying
  BY <1>3, <1>5 DEF Emptying
<1>10. Good'
  <2>1. CASE found /\ "O_TRUNC" \in oflag[p]
    <3>1. Emptying
      BY <1>3, <2>1 DEF Emptying
    <3>2. /\ table' = NoPointers /\ idx' = <<>> /\ kv' = [k \in Keys |-> NULL]
          /\ \A q \in Procs : pc[q] \in AtRest \cup Opening
      BY <1>3, <3>1 DEF OpenInv, Contents
    <3> QED BY <1>3, <1>8, <3>2, EmptyAgain
  <2>2. CASE ~(found /\ "O_TRUNC" \in oflag[p])
    BY <1>3, <1>8, <2>2, GoodKept
  <2> QED BY <2>1, <2>2
<1>11. OpenLocks'
  BY <1>3, <1>5, <1>7 DEF OpenInv, OpenLocks, Initialising
<1>12. Contents'
  BY <1>3, <1>5, <1>9 DEF OpenInv, Contents, AtRest, Opening
<1>13. Resting'
  BY <1>3, <1>5 DEF OpenInv, Resting, Opening
<1>14. Ready' /\ OpenIsReady'
  BY <1>3, <1>5 DEF OpenInv, Ready, OpenIsReady, AtRest, Opening
<1> QED BY <1>6, <1>10, <1>11, <1>12, <1>13, <1>14 DEF OpenInv

\* db_open() locks the index file, looks at its size, initialises and unlocks it.
LEMMA InitialiseInv ==
    ASSUME OpenInv, NEW p \in Procs, OpenLock(p) \/ OpenFstat(p) \/ OpenWrite(p) \/ OpenUnlock(p)
    PROVE  OpenInv'
<1>1. /\ UNCHANGED <<idx, dat, db, loc, calls, kv, call, ret, oflag>>
      /\ hdr => hdr'
      /\ pc[p] # "open.write" => hdr' = hdr
  BY DEF OpenLock, OpenFstat, OpenWrite, OpenUnlock, Transition, files, client, openVars
<1>2. table' = table
  BY DEF OpenInv, Contents, OpenLock, OpenFstat, OpenWrite, OpenUnlock, Transition, files
<1>3. pc \in [Procs -> Labels \cup Opening \cup {"closed"}]
      /\ lock \in [Regions -> [Procs -> {"none", "read", "write"}]]
  BY DEF OpenInv, OpenTypes
<1>4. PICK to \in {"open.fstat", "open.write", "open.unlock", "idle"} :
        /\ Goto(p, to)
        /\ pc[p] = "open.lock" => to = "open.fstat"
        /\ pc[p] = "open.fstat" => to = IF hdr THEN "open.unlock" ELSE "open.write"
        /\ pc[p] = "open.write" => to = "open.unlock" /\ hdr'
        /\ pc[p] = "open.unlock" => to = "idle"
        /\ pc[p] \in {"open.lock", "open.fstat", "open.write", "open.unlock"}
  BY DEF OpenLock, OpenFstat, OpenWrite, OpenUnlock, Transition
<1>5. /\ \A q \in Procs : pc'[q] = IF q = p THEN to ELSE pc[q]
      /\ pc' \in [Procs -> Labels \cup Opening \cup {"closed"}]
  BY <1>3, <1>4 DEF Goto, Opening, Labels
<1>6. /\ \A r \in Regions, q \in Procs \ {p} : lock'[r][q] = lock[r][q]
      /\ \A r \in Regions :
            lock'[r][p] = IF to # "idle" /\ r \in IdxRegions THEN "write" ELSE "none"
      /\ lock' \in [Regions -> [Procs -> {"none", "read", "write"}]]
  <2>1. CASE OpenLock(p)
    <3>1. \A r \in Regions : lock[r][p] = "none"
      BY <2>1 DEF OpenLock, Transition, OpenInv, OpenLocks
    <3>2. pc[p] = "open.lock"
      BY <2>1 DEF OpenLock, Transition
    <3>3. lock' = [r \in Regions |->
                     IF r \in IdxRegions THEN [lock[r] EXCEPT ![p] = "write"] ELSE lock[r]]
      BY <2>1 DEF OpenLock
    <3> QED BY <1>3, <1>4, <3>1, <3>2, <3>3
  <2>2. CASE OpenUnlock(p)
    <3>1. \A r \in Regions : lock[r][p] = IF r \in IdxRegions THEN "write" ELSE "none"
      BY <2>2 DEF OpenUnlock, Transition, OpenInv, OpenLocks, Initialising
    <3>2. pc[p] = "open.unlock"
      BY <2>2 DEF OpenUnlock, Transition
    <3>3. lock' = [r \in Regions |->
                     IF r \in IdxRegions THEN [lock[r] EXCEPT ![p] = "none"] ELSE lock[r]]
      BY <2>2 DEF OpenUnlock
    <3> QED BY <1>3, <1>4, <3>1, <3>2, <3>3
  <2>3. CASE OpenFstat(p) \/ OpenWrite(p)
    <3>1. pc[p] \in {"open.fstat", "open.write"} /\ lock' = lock
      BY <2>3 DEF OpenFstat, OpenWrite, Transition
    <3>2. \A r \in Regions : lock[r][p] = IF r \in IdxRegions THEN "write" ELSE "none"
      BY <3>1 DEF OpenInv, OpenLocks, Initialising
    <3> QED BY <1>3, <1>4, <3>1, <3>2
  <2> QED BY <2>1, <2>2, <2>3
<1>7. OpenTypes'
  BY <1>1, <1>5, <1>6 DEF OpenInv, OpenTypes
<1>8. Good'
  <2>1. dbPc' = dbPc /\ dbLock' = dbLock
    BY <1>4, <1>6, SamePlaces DEF NotInDb, Opening
  <2> QED BY <1>1, <1>2, <2>1, GoodKept
<1>9. \A q \in Procs \ {p} : pc[q] \notin Initialising
  <2> SUFFICES ASSUME NEW q \in Procs \ {p}, pc[q] \in Initialising PROVE FALSE
    OBVIOUS
  <2>1. CASE OpenLock(p)
    <3>1. FREE_OFF \in IdxRegions /\ FREE_OFF \in Regions
      BY DbAssumption DEF FREE_OFF, IdxRegions, Regions, DATFILE
    <3>2. lock[FREE_OFF][q] = "write"
      BY <3>1 DEF OpenInv, OpenLocks
    <3> QED BY <2>1, <3>1, <3>2 DEF OpenLock
  <2>2. CASE ~OpenLock(p)
    BY <2>2 DEF OpenFstat, OpenWrite, OpenUnlock, Transition, OpenInv, OpenLocks, Initialising
  <2> QED BY <2>1, <2>2
<1>10. OpenLocks'
  BY <1>5, <1>6, <1>9 DEF OpenInv, OpenLocks, Initialising
<1>11. Emptying' => Emptying
  BY <1>1, <1>5 DEF Emptying
<1>12. Contents'
  <2>1. \A q \in Procs : pc'[q] = "open.write" => ~hdr'
    BY <1>1, <1>4, <1>5, <1>9 DEF Initialising
  <2>2. Emptying' => \A q \in Procs : pc'[q] \in AtRest \cup Opening
    BY <1>5, <1>11 DEF OpenInv, Contents, AtRest, Opening
  <2> QED BY <1>1, <1>2, <1>11, <2>1, <2>2 DEF OpenInv, Contents
<1>13. Resting'
  BY <1>1, <1>4, <1>5 DEF OpenInv, Resting, Opening
<1>14. Ready'
  <2> SUFFICES ASSUME NEW q \in Procs, pc'[q] = "find", ~hdr' PROVE to \in {"open.fstat", "open.write"}
    BY <1>5 DEF Ready
  <2>1. PICK s \in Procs : pc[s] \in {"open.fstat", "open.write"}
    BY <1>1, <1>4, <1>5 DEF OpenInv, Ready
  <2>2. s = p
    BY <1>9, <2>1 DEF Initialising
  <2> QED BY <1>1, <1>4, <2>1, <2>2
<1>15. OpenIsReady'
  BY <1>1, <1>5 DEF OpenInv, OpenIsReady, AtRest, Opening
<1> QED BY <1>7, <1>8, <1>10, <1>12, <1>13, <1>14, <1>15 DEF OpenInv

\* db_close().
LEMMA CloseInv ==
    ASSUME OpenInv, NEW p \in Procs, CloseDb(p)
    PROVE  OpenInv'
<1>1. /\ pc[p] = "idle" /\ Goto(p, "closed") /\ oflag' = [oflag EXCEPT ![p] = {}]
      /\ UNCHANGED <<table, idx, dat, lock, db, loc, calls, kv, call, ret, hdr>>
  BY DEF CloseDb, Transition, files, client
<1>2. /\ pc \in [Procs -> Labels \cup Opening \cup {"closed"}]
      /\ oflag \in [Procs -> OpenFlags \cup {{}}]
  BY DEF OpenInv, OpenTypes
<1>3. /\ \A q \in Procs : pc'[q] = IF q = p THEN "closed" ELSE pc[q]
      /\ pc' \in [Procs -> Labels \cup Opening \cup {"closed"}]
      /\ \A q \in Procs \ {p} : oflag'[q] = oflag[q]
      /\ oflag' \in [Procs -> OpenFlags \cup {{}}]
  BY <1>1, <1>2 DEF Goto
<1>4. OpenTypes'
  BY <1>1, <1>3 DEF OpenInv, OpenTypes
<1>5. Good'
  <2>1. \A r \in Regions : lock[r][p] = "none"
    BY <1>1, NoLocks DEF AtRest
  <2>2. dbPc' = dbPc /\ dbLock' = dbLock
    BY <1>1, <2>1, SamePlaces DEF NotInDb
  <2> QED BY <1>1, <2>2, GoodKept
<1>6. OpenLocks'
  BY <1>1, <1>3 DEF OpenInv, OpenLocks, Initialising
<1>7. Contents'
  <2>1. Emptying' => Emptying
    BY <1>3 DEF Emptying
  <2> QED BY <1>1, <1>3, <2>1 DEF OpenInv, Contents, AtRest, Opening
<1>8. Resting'
  BY <1>1, <1>3 DEF OpenInv, Resting, AtRest
<1>9. Ready' /\ OpenIsReady'
  BY <1>1, <1>3 DEF OpenInv, Ready, OpenIsReady, AtRest, Opening
<1> QED BY <1>4, <1>5, <1>6, <1>7, <1>8, <1>9 DEF OpenInv

\* A step that changes nothing.
LEMMA SameInv == OpenInv /\ UNCHANGED allVars => OpenInv'
<1> SUFFICES ASSUME OpenInv, UNCHANGED allVars PROVE OpenInv'
  OBVIOUS
<1>1. UNCHANGED <<table, idx, dat, lock, pc, db, loc, calls, kv, call, ret, hdr, oflag>>
  BY DEF allVars, vars, openVars
<1>2. Good'
  <2>1. dbPc' = dbPc /\ dbLock' = dbLock
    BY <1>1 DEF dbPc, dbLock
  <2> QED BY <1>1, <2>1, GoodKept
<1>3. OpenTypes' /\ OpenLocks' /\ Contents'
  BY <1>1 DEF OpenInv, OpenTypes, OpenLocks, Contents, Emptying
<1>4. Resting' /\ Ready' /\ OpenIsReady'
  BY <1>1 DEF OpenInv, Resting, Ready, OpenIsReady
<1> QED BY <1>2, <1>3, <1>4 DEF OpenInv

\* At first there is no file and the database is closed everywhere.
LEMMA InitInv == OpenInit => OpenInv
<1> SUFFICES ASSUME OpenInit PROVE OpenInv
  OBVIOUS
<1>1. /\ table = NoPointers /\ idx = <<>> /\ dat = <<>> /\ calls = 0 /\ ~hdr
      /\ lock = [r \in Regions |-> [p \in Procs |-> "none"]]
      /\ pc = [p \in Procs |-> "closed"]
      /\ db = [p \in Procs |-> NoDb] /\ loc = [p \in Procs |-> NoLoc]
      /\ oflag = [p \in Procs |-> {}] /\ Abs!Init
  BY DEF OpenInit
<1>2. OpenTypes
  BY <1>1 DEF OpenTypes
<1>3. Core!Init
  <2>1. dbPc = [p \in Procs |-> "idle"]
    BY <1>1 DEF dbPc
  <2>2. dbLock = [r \in Regions |-> [p \in Procs |-> "none"]]
    BY <1>1 DEF dbLock, Opening
  <2>3. Core!Abs!Init
    BY <1>1 DEF Abs!Init, Core!Abs!Init
  <2> QED BY <1>1, <2>1, <2>2, <2>3, SameConstants DEF Core!Init, NoPointers
<1>4. Good
  <2>1. Core!Init => Core!Empty
    BY SameConstants, Core!InitEmpty
  <2> QED BY <1>3, <2>1, GoodEmpty
<1>5. OpenLocks /\ Resting /\ Ready /\ OpenIsReady
  BY <1>1 DEF OpenLocks, Initialising, Resting, Ready, OpenIsReady, AtRest
<1>6. Contents
  BY <1>1 DEF Contents, Emptying
<1> QED BY <1>2, <1>4, <1>5, <1>6 DEF OpenInv

\* The invariants of Db, and what DbOpen adds to them, hold in every state.
THEOREM OpenInvariant == OpenSpec => []OpenInv
<1>1. OpenInv /\ [OpenNext]_allVars => OpenInv'
  <2> SUFFICES ASSUME OpenInv, OpenNext PROVE OpenInv'
    BY SameInv
  <2>1. ASSUME NEW p \in Procs, FunctionStep(p) PROVE OpenInv'
    BY <2>1, OpenDatInv, InitialiseInv, StepInv DEF FunctionStep, Open
  <2> QED BY <2>1, OpenIdxInv, CloseInv, CallInv, SameInv DEF OpenNext, AllClosed
<1> QED BY <1>1, InitInv, PTL DEF OpenSpec

\* No process that is in db_fetch(), db_store() or db_delete(), past its first
\* lock, has an index file that is not initialised: the processes may open and
\* create it at the same time, and call while one of them initialises it.
THEOREM AlwaysReady == OpenSpec => []OpenIsReady
<1>1. OpenInv => OpenIsReady
  BY DEF OpenInv
<1> QED BY <1>1, OpenInvariant, PTL

\* The chains that nobody has write locked hold the map, too, when processes
\* open, create, empty and close the database between their calls.
THEOREM ChainsHoldTheMap == OpenSpec => []ChainsHoldMap
<1>1. OpenInv => ChainsHoldMap
  <2> SUFFICES ASSUME OpenInv PROVE ChainsHoldMap
    OBVIOUS
  <2>1. Core!ChainsHoldMap
    <3>1. Core!Control /\ Core!FileInv /\ Core!MapInv({}) => Core!ChainsHoldMap
      BY SameConstants, Core!MapOnChains
    <3> QED BY <3>1 DEF OpenInv, Good
  <2>2. \A r : Core!WriteLocked(r) /\ r \in Regions => WriteLocked(r)
    BY DEF Core!WriteLocked, WriteLocked, dbLock
  <2>3. \A k \in Keys : Hash[k] \in Regions
    BY DbAssumption DEF Chains, Regions, DATFILE
  <2>4. \A off : Core!List(off) = List(off) /\ Core!readptr(off) = readptr(off)
                 /\ Core!readidx(off) = readidx(off)
    BY DEF Core!List, List, Core!readptr, readptr, Core!readidx, readidx
  <2> QED BY <2>1, <2>2, <2>3, <2>4 DEF Core!ChainsHoldMap, ChainsHoldMap
<1> QED BY <1>1, OpenInvariant, PTL
-----------------------------------------------------------------------------
(***************************************************************************)
(* DbScan, for any number of processes, keys, data and calls: what         *)
(* db_nextrec() returns was stored, and a scan is complete.                *)
(*                                                                         *)
(* For Db the scanner is idle while it is in db_nextrec(): a step of       *)
(* db_nextrec() is none of Db, and the steps of the other functions are    *)
(* those of Db, whose invariants say what the records show.                *)
(***************************************************************************)
\* The scanner is in db_nextrec(), or exited in it.
Away(p) == pc[p] \in InNextrec \/ (pc[p] = "exited" /\ call[p] = NULL)

scanPc == [p \in Procs |-> IF Away(p) THEN "idle" ELSE pc[p]]
scanLock == [r \in Regions |-> [p \in Procs |-> IF Away(p) THEN "none" ELSE lock[r][p]]]
scanDb == [p \in Procs |-> IF Away(p) THEN NoDb ELSE db[p]]

ScanCore == INSTANCE DbProof WITH pc <- scanPc, lock <- scanLock, db <- scanDb

\* The invariants of Db.
ScanGood == ScanCore!Control /\ ScanCore!FileInv /\ ScanCore!MapInv({})

ScanTypes ==
    /\ pc \in [Procs -> Labels \cup InNextrec]
    /\ lock \in [Regions -> [Procs -> {"none", "read", "write"}]]
    /\ db \in [Procs -> [ptroff : Nat, idxoff : Nat, datoff : Nat, datlen : Nat, ptrval : Ptr]]
    /\ \A p \in Procs : Away(p) => p = scanner
    /\ got \in [Keys -> Nat] /\ still \subseteq Keys

\* db_nextrec() has the free list locked against writers, and nothing else.
ScanLock ==
    /\ Away(scanner) => \A r \in Regions :
          lock[r][scanner] = IF pc[scanner] \in InNextrec /\ r = FREE_OFF THEN "read" ELSE "none"
    /\ pc[scanner] \in InNextrec => \A q \in Procs : lock[FREE_OFF][q] # "write"

\* A process in no function remembers nothing.
ScanResting == \A p \in Procs : pc[p] \in {"idle", "exited"} /\ ~Away(p) => db[p] = NoDb

\* The offsets of the index records.
Recs == FIRST .. NHASH + Len(idx)

\* The scan is at a record or at the end of the file, unless another function has
\* moved it.
Place ==
    /\ pos \in (FIRST .. FIRST + Len(idx)) \cup {INSIDE}
    /\ ~mixed => pos # INSIDE

\* db_nextrec() has read the index record before pos, and it has not changed.
InHand ==
    pc[scanner] = "nextrec.readdat" =>
        \E r \in Recs : /\ pos = r + 1 /\ key # BLANK
                        /\ readidx(r).key = key /\ readidx(r).datoff = db[scanner].datoff

Returned ==
    /\ pc[scanner] = "nextrec.unlock" /\ ptr # NULL => key \in Keys /\ <<key, ptr>> \in recent
    /\ pc[scanner] # "nextrec.unlock" => ptr = NULL

\* Every record before pos with a key that nobody touched has been returned, or
\* is about to be.
Before(k) == {r \in Recs : r < pos /\ readidx(r).key = k}
Returning(k) ==
    IF \/ pc[scanner] = "nextrec.readdat" /\ key = k
       \/ pc[scanner] = "nextrec.unlock" /\ ptr # NULL /\ key = k
    THEN 1 ELSE 0
Counted == ~mixed => \A k \in still : got[k] + Returning(k) = Cardinality(Before(k))

\* At the end all of them are before pos.
SeenAll == AtEnd /\ ~mixed => \A r \in Recs : readidx(r).key \in still => r < pos

\* The inductive invariant.
ScanInv ==
    /\ ScanTypes /\ ScanGood /\ ScanLock /\ ScanResting
    /\ Place /\ InHand /\ Returned /\ Counted /\ SeenAll
    /\ still \cap Changing = {}
----------------------------------------------------------------------------
\* The constants of Db are those of its instance.
LEMMA ScanConstants ==
    /\ ScanCore!Chains = Chains /\ ScanCore!Regions = Regions /\ ScanCore!Labels = Labels
    /\ ScanCore!NoDb = NoDb /\ ScanCore!NoLoc = NoLoc
    /\ NHASH \in Nat \ {0} /\ PTR_MAX \in Nat /\ MaxCalls \in Nat
    /\ Hash \in [Keys -> ScanCore!Chains]
    /\ KeyLen \in [Keys -> Nat]
    /\ DatLen \in [Data -> Nat]
    /\ Requests \subseteq ScanCore!Abs!Request
    /\ NULL \notin Data /\ BLANK \notin Keys \cup Data
    /\ NULL \notin ScanCore!Abs!Request /\ EXITED \notin ScanCore!Abs!Request /\ NULL # EXITED
<1>1. ScanCore!Chains = Chains /\ ScanCore!Abs!Request = Abs!Request
  BY DEF ScanCore!Abs!Request, Abs!Request, ScanCore!Chains, Chains, ScanCore!Abs!DB_INSERT,
     ScanCore!Abs!DB_REPLACE, Abs!DB_INSERT, Abs!DB_REPLACE
<1>2. ScanCore!Regions = Regions /\ ScanCore!Labels = Labels /\ ScanCore!NoDb = NoDb /\ ScanCore!NoLoc = NoLoc
  BY DEF ScanCore!Regions, Regions, ScanCore!DATFILE, DATFILE, ScanCore!Labels, Labels,
     ScanCore!NoDb, NoDb,
     ScanCore!NoLoc, NoLoc
<1> QED BY <1>1, <1>2, DbAssumption

\* Steps of Db keep the invariants of Db.
LEMMA ScanGoodStep == ScanGood /\ [ScanCore!Next]_(ScanCore!vars) => ScanGood'
<1>1. ScanCore!Control /\ [ScanCore!Next]_(ScanCore!vars) => ScanCore!Control'
  BY ScanConstants, ScanCore!ControlStep
<1>2. ScanCore!Control /\ ScanCore!FileInv /\ [ScanCore!Next]_(ScanCore!vars) => ScanCore!FileInv'
  BY ScanConstants, ScanCore!FileStep
<1>3. ScanCore!Control /\ ScanCore!FileInv /\ ScanCore!MapInv({}) /\ [ScanCore!Next]_(ScanCore!vars) => ScanCore!MapInv({})'
  BY ScanConstants, ScanCore!EveryStepGood
<1> QED BY <1>1, <1>2, <1>3 DEF ScanGood

\* A process that is in no function has no lock.
LEMMA ScanNoLocks ==
    ASSUME ScanTypes, ScanGood, NEW p \in Procs, pc[p] = "idle", NEW r \in Regions
    PROVE  lock[r][p] = "none" /\ call[p] = NULL
<1>1. scanPc[p] = "idle" /\ scanLock[r][p] = lock[r][p]
  BY DEF scanPc, scanLock, Away, InNextrec
<1>2. scanLock[r][p] = ScanCore!LockOf(p, r) /\ call[p] = NULL
  BY <1>1, ScanConstants DEF ScanGood, ScanCore!Control, ScanCore!LockDiscipline, ScanCore!CallOK
<1>3. ~ScanCore!Held(p, r)
  BY <1>1 DEF ScanCore!Held, ScanCore!Outside, ScanCore!FreeLocked, ScanCore!TailLocked,
     ScanCore!DatLocked
<1> QED BY <1>1, <1>2, <1>3 DEF ScanCore!LockOf
----------------------------------------------------------------------------
\* A step of process p inside a function: it begins in one, ends in one or at rest,
\* and leaves what is the others' alone.
Places(p) ==
    /\ pc[p] \in Labels \ {"idle", "exited"} /\ pc'[p] \in Labels
    /\ pc' \in [Procs -> Labels \cup InNextrec]
    /\ \A q \in Procs \ {p} : pc'[q] = pc[q] /\ call'[q] = call[q]
    /\ pc'[p] = "exited" => call'[p] = EXITED

\* Such is every step.
LEMMA ScanStepPlaces ==
    ASSUME ScanTypes, ScanGood, NEW p \in Procs, Step(p)
    PROVE  Places(p)
<1>1. DOMAIN call = Procs
  BY DEF ScanGood, ScanCore!Control, ScanCore!ControlTypeOK
<1> USE DEF Transition, Goto, Lock, Release, ScanTypes, Labels, client, Places, InNextrec
<1>2. CASE Find(p)
  <2>1. call' = call /\ pc[p] \in {"find", "find.readptr", "find.readidx"}
    BY <1>2 DEF Find, FindLock, FindReadPtr, FindReadIdx
  <2>2. PICK to \in Labels \ {"exited"} : Goto(p, to)
    <3>1. CASE FindLock(p)
      BY <3>1 DEF FindLock
    <3>2. CASE FindReadPtr(p)
      BY <3>2 DEF FindReadPtr, FindNext, NotFound
    <3>3. CASE FindReadIdx(p)
      BY <3>3 DEF FindReadIdx, FindNext, NotFound, Found
    <3> QED BY <1>2, <3>1, <3>2, <3>3 DEF Find
  <2> QED BY <2>1, <2>2
<1>3. CASE DoDelete(p)
  BY <1>1, <1>3 DEF DoDelete, DelLock, DelWriteDat, DelReadFree, DelWriteIdx, DelWriteFree,
     DelWritePtr, DelUnlock
<1>4. CASE FindFree(p)
  <2>1. call' = call
    BY <1>4 DEF FindFree, FreeLock, FreeReadPtr, FreeReadIdx, FreeWritePtr, FreeUnlock
  <2>2. pc[p] \in {"findfree", "findfree.readptr", "findfree.readidx", "findfree.writeptr",
                   "findfree.unlock"}
    BY <1>4 DEF FindFree, FreeLock, FreeReadPtr, FreeReadIdx, FreeWritePtr, FreeUnlock
  <2>3. PICK to \in Labels \ {"exited"} : Goto(p, to)
    BY <1>4 DEF FindFree, FreeLock, FreeReadPtr, FreeReadIdx, FreeWritePtr, FreeUnlock, FreeNext
  <2> QED BY <2>1, <2>2, <2>3
<1>5. CASE AppendDat(p)
  BY <1>1, <1>5 DEF AppendDat, AppendDatLock, AppendDatSeek, AppendDatWrite, AppendDatUnlock
<1>6. CASE AppendIdx(p)
  BY <1>1, <1>6 DEF AppendIdx, AppendIdxLock, AppendIdxSeek, AppendIdxWrite, AppendIdxUnlock
<1>7. CASE Store(p)
  BY <1>1, <1>7 DEF Store, StoreHead, StoreWriteDat, StoreWriteIdx, StoreWritePtr, StoreQuit
<1>8. CASE FetchReadDat(p) \/ Unlock(p)
  BY <1>1, <1>8 DEF FetchReadDat, Unlock
<1> QED BY <1>2, <1>3, <1>4, <1>5, <1>6, <1>7, <1>8 DEF Step

\* What the call of a process that is in a function is about.
LEMMA ScanCallKnown ==
    ASSUME ScanTypes, ScanGood, NEW p \in Procs, pc[p] \in Labels \ {"idle", "exited"}
    PROVE  call[p] \in Requests /\ call[p].key \in Keys /\ chainoff(p) \in Chains
<1>1. scanPc[p] = pc[p] /\ pc[p] \notin {"idle", "exited"}
  BY DEF scanPc, Away, InNextrec, Labels
<1>2. call[p] \in Requests
  BY <1>1 DEF ScanGood, ScanCore!Control, ScanCore!CallOK
<1> QED BY <1>2, DbAssumption DEF Abs!Request, chainoff

\* In a step of process p inside a function its place and the locks mean in Db what
\* they mean here.
LEMMA ScanStepMeans ==
    ASSUME ScanTypes, ScanGood, NEW p \in Procs, Step(p)
    PROVE  /\ scanPc[p] = pc[p] /\ scanPc'[p] = pc'[p]
           /\ scanDb[p] = db[p] /\ scanDb'[p] = db'[p]
           /\ \A e : db' = [db EXCEPT ![p] = e] => scanDb' = [scanDb EXCEPT ![p] = e]
           /\ db' = db => scanDb' = scanDb
           /\ \A l : Goto(p, l) => ScanCore!Goto(p, l)
           /\ \A r \in Regions :
                 /\ writew_lock(p, r) => ScanCore!writew_lock(p, r)
                 /\ readw_lock(p, r) => ScanCore!readw_lock(p, r)
                 /\ un_lock(p, r) => ScanCore!un_lock(p, r)
           /\ unlock_all(p) => ScanCore!unlock_all(p)
           /\ lock' = lock => scanLock' = scanLock
<1>1. /\ ~Away(p) /\ ~Away(p)'
      /\ \A q \in Procs \ {p} : pc'[q] = pc[q] /\ Away(q)' = Away(q)
      /\ DOMAIN pc = Procs /\ DOMAIN pc' = Procs
  <2>1. Places(p)
    BY ScanStepPlaces
  <2>2. Labels \cap InNextrec = {}
    BY DEF Labels, InNextrec
  <2> QED BY <2>1, <2>2, DbAssumption DEF ScanTypes, Places, Away
<1>2. scanPc[p] = pc[p] /\ scanPc'[p] = pc'[p]
  BY <1>1 DEF scanPc
<1>3. ASSUME NEW l, Goto(p, l) PROVE ScanCore!Goto(p, l)
  <2>1. pc' = [pc EXCEPT ![p] = l]
    BY <1>3 DEF Goto
  <2>2. scanPc' = [scanPc EXCEPT ![p] = l]
    BY <1>1, <2>1 DEF scanPc
  <2> QED BY <2>2 DEF ScanCore!Goto
<1>4. lock \in [Regions -> [Procs -> {"none", "read", "write"}]]
  BY DEF ScanTypes
<1>5. \A r \in Regions, q \in Procs :
        scanLock[r][q] = IF Away(q) THEN "none" ELSE lock[r][q]
  BY DEF scanLock
<1>6. \A r \in Regions, q \in Procs :
        scanLock'[r][q] = IF Away(q)' THEN "none" ELSE lock'[r][q]
  BY <1>1 DEF scanLock
<1>7. scanLock \in [Regions -> [Procs -> {"none", "read", "write"}]]
  BY <1>4 DEF scanLock
<1>8. scanLock' = [r \in Regions |-> [q \in Procs |-> scanLock'[r][q]]]
  BY DEF scanLock
<1>9. ASSUME NEW r \in Regions, NEW m, lock' = [lock EXCEPT ![r][p] = m]
      PROVE  scanLock' = [scanLock EXCEPT ![r][p] = m]
  <2>1. \A s \in Regions, q \in Procs : lock'[s][q] = IF s = r /\ q = p THEN m ELSE lock[s][q]
    BY <1>4, <1>9
  <2>2. \A s \in Regions, q \in Procs : scanLock'[s][q] = IF s = r /\ q = p THEN m ELSE scanLock[s][q]
    BY <1>1, <1>5, <1>6, <2>1
  <2> QED BY <1>7, <1>8, <2>2
<1>10. ASSUME NEW r \in Regions, writew_lock(p, r) PROVE ScanCore!writew_lock(p, r)
  BY <1>5, <1>9, <1>10 DEF writew_lock, ScanCore!writew_lock
<1>11. ASSUME NEW r \in Regions, readw_lock(p, r) PROVE ScanCore!readw_lock(p, r)
  BY <1>5, <1>9, <1>11 DEF readw_lock, ScanCore!readw_lock
<1>12. ASSUME NEW r \in Regions, un_lock(p, r) PROVE ScanCore!un_lock(p, r)
  BY <1>9, <1>12 DEF un_lock, ScanCore!un_lock
<1>13. ASSUME unlock_all(p) PROVE ScanCore!unlock_all(p)
  <2>1. \A s \in Regions, q \in Procs : lock'[s][q] = IF q = p THEN "none" ELSE lock[s][q]
    BY <1>4, <1>13 DEF unlock_all
  <2>2. \A s \in Regions, q \in Procs : scanLock'[s][q] = IF q = p THEN "none" ELSE scanLock[s][q]
    BY <1>1, <1>5, <1>6, <2>1
  <2>3. scanLock' = [r \in Regions |-> [scanLock[r] EXCEPT ![p] = "none"]]
    BY <1>7, <1>8, <2>2
  <2> QED BY <2>3, ScanConstants DEF ScanCore!unlock_all
<1>14. ASSUME lock' = lock PROVE scanLock' = scanLock
  <2>1. \A s \in Regions, q \in Procs : scanLock'[s][q] = scanLock[s][q]
    BY <1>1, <1>5, <1>6, <1>14
  <2> QED BY <1>7, <1>8, <2>1
<1>15. scanDb[p] = db[p] /\ scanDb'[p] = db'[p]
  BY <1>1 DEF scanDb
<1>16. ASSUME NEW e, db' = [db EXCEPT ![p] = e] PROVE scanDb' = [scanDb EXCEPT ![p] = e]
  BY <1>1, <1>16 DEF scanDb, ScanTypes
<1>17. ASSUME db' = db PROVE scanDb' = scanDb
  BY <1>1, <1>17 DEF scanDb
<1> QED BY <1>2, <1>3, <1>10, <1>11, <1>12, <1>13, <1>14, <1>15, <1>16, <1>17

\* A step of a process inside a function is a step of Db.
LEMMA ScanStepMaps ==
    ASSUME ScanTypes, ScanGood, NEW p \in Procs, Step(p)
    PROVE  ScanCore!Step(p)
<1>1. /\ scanPc[p] = pc[p]
      /\ \A l : Goto(p, l) => ScanCore!Goto(p, l)
      /\ \A r \in Regions :
            /\ writew_lock(p, r) => ScanCore!writew_lock(p, r)
            /\ readw_lock(p, r) => ScanCore!readw_lock(p, r)
            /\ un_lock(p, r) => ScanCore!un_lock(p, r)
      /\ unlock_all(p) => ScanCore!unlock_all(p)
      /\ lock' = lock => scanLock' = scanLock
      /\ scanDb[p] = db[p] /\ scanDb'[p] = db'[p]
      /\ \A e : db' = [db EXCEPT ![p] = e] => scanDb' = [scanDb EXCEPT ![p] = e]
      /\ db' = db => scanDb' = scanDb
  BY ScanStepMeans, Zenon
<1>2. /\ chainoff(p) \in Regions /\ FREE_OFF \in Regions
      /\ DATFILE \in Regions /\ IDX_TAIL \in Regions
  <2>1. chainoff(p) \in Chains
    BY ScanCallKnown, ScanStepPlaces DEF Places
  <2> QED BY <2>1, DbAssumption DEF Chains, Regions, FREE_OFF, DATFILE, IDX_TAIL
<1>3. ScanCore!chainoff(p) = chainoff(p) /\ ScanCore!FREE_OFF = FREE_OFF /\ ScanCore!DATFILE = DATFILE
      /\ ScanCore!IDX_TAIL = IDX_TAIL
  BY DEF ScanCore!chainoff, chainoff, ScanCore!FREE_OFF, FREE_OFF, ScanCore!DATFILE, DATFILE,
     ScanCore!IDX_TAIL, IDX_TAIL
<1>4. \A from, to : Transition(p, from, to) => ScanCore!Transition(p, from, to)
  BY <1>1 DEF Transition, ScanCore!Transition
<1>5. \A r \in Regions : \A from, to :
        /\ Lock(p, r, from, to) => ScanCore!Lock(p, r, from, to)
        /\ Release(p, r, from, to) => ScanCore!Release(p, r, from, to)
  BY <1>1, <1>4 DEF Lock, ScanCore!Lock, Release, ScanCore!Release, files, ScanCore!files, client,
     ScanCore!client
<1> USE DEF files, ScanCore!files, client, ScanCore!client
<1>6. CASE Find(p)
  <2>1. FindLock(p) => ScanCore!FindLock(p)
    BY <1>1, <1>2, <1>3, <1>4 DEF FindLock, ScanCore!FindLock
  <2>2. \A d, off : FindNext(p, d, off) => ScanCore!FindNext(p, d, off)
    <3>1. \A r : ScanCore!NotFound(r) = NotFound(r)
      BY DEF NotFound, ScanCore!NotFound, Abs!DB_REPLACE, ScanCore!Abs!DB_REPLACE
    <3> QED BY <1>1, <3>1, ScanConstants DEF FindNext, ScanCore!FindNext
  <2>3. FindReadPtr(p) => ScanCore!FindReadPtr(p)
    BY <1>1, <1>3, <2>2 DEF FindReadPtr, ScanCore!FindReadPtr, readptr, ScanCore!readptr
  <2>4. FindReadIdx(p) => ScanCore!FindReadIdx(p)
    BY <1>1, <2>2 DEF FindReadIdx, ScanCore!FindReadIdx, readidx, ScanCore!readidx, Found,
       ScanCore!Found,
       AfterReadIdx, ScanCore!AfterReadIdx, Abs!DB_INSERT, ScanCore!Abs!DB_INSERT
  <2> QED BY <1>6, <2>1, <2>3, <2>4 DEF Find, ScanCore!Find, ScanCore!Step
<1>7. CASE DoDelete(p)
  <2>1. DelLock(p) => ScanCore!DelLock(p)
    BY <1>2, <1>3, <1>5 DEF DelLock, ScanCore!DelLock
  <2>2. DelWriteDat(p) => ScanCore!DelWriteDat(p)
    BY <1>1, <1>4 DEF DelWriteDat, ScanCore!DelWriteDat
  <2>3. DelReadFree(p) => ScanCore!DelReadFree(p)
    BY <1>1, <1>3, <1>4 DEF DelReadFree, ScanCore!DelReadFree, readptr, ScanCore!readptr
  <2>4. DelWriteIdx(p) => ScanCore!DelWriteIdx(p)
    BY <1>1, <1>4 DEF DelWriteIdx, ScanCore!DelWriteIdx, WriteAt, ScanCore!WriteAt, IdxRecord,
       ScanCore!IdxRecord
  <2>5. DelWriteFree(p) => ScanCore!DelWriteFree(p)
    BY <1>1, <1>3, <1>4 DEF DelWriteFree, ScanCore!DelWriteFree, writeptr, ScanCore!writeptr
  <2>6. DelWritePtr(p) => ScanCore!DelWritePtr(p)
    BY <1>1, <1>4 DEF DelWritePtr, ScanCore!DelWritePtr, writeptr, ScanCore!writeptr
  <2>7. DelUnlock(p) => ScanCore!DelUnlock(p)
    BY <1>1, <1>2, <1>3 DEF DelUnlock, ScanCore!DelUnlock
  <2> QED BY <1>7, <2>1, <2>2, <2>3, <2>4, <2>5, <2>6, <2>7
          DEF DoDelete, ScanCore!DoDelete, ScanCore!Step
<1>8. CASE FindFree(p)
  <2>1. FreeLock(p) => ScanCore!FreeLock(p)
    BY <1>2, <1>3, <1>5 DEF FreeLock, ScanCore!FreeLock
  <2>2. \A save, off : FreeNext(p, save, off) => ScanCore!FreeNext(p, save, off)
    BY <1>1 DEF FreeNext, ScanCore!FreeNext
  <2>3. FreeReadPtr(p) => ScanCore!FreeReadPtr(p)
    BY <1>1, <1>3, <2>2 DEF FreeReadPtr, ScanCore!FreeReadPtr, readptr, ScanCore!readptr
  <2>4. FreeReadIdx(p) => ScanCore!FreeReadIdx(p)
    BY <1>1, <2>2 DEF FreeReadIdx, ScanCore!FreeReadIdx, readidx, ScanCore!readidx, Fits,
       ScanCore!Fits,
       AfterReadIdx, ScanCore!AfterReadIdx
  <2>5. FreeWritePtr(p) => ScanCore!FreeWritePtr(p)
    BY <1>1, <1>4 DEF FreeWritePtr, ScanCore!FreeWritePtr, writeptr, ScanCore!writeptr
  <2>6. FreeUnlock(p) => ScanCore!FreeUnlock(p)
    BY <1>1, <1>2, <1>3 DEF FreeUnlock, ScanCore!FreeUnlock
  <2> QED BY <1>8, <2>1, <2>3, <2>4, <2>5, <2>6 DEF FindFree, ScanCore!FindFree, ScanCore!Step
<1>9. CASE AppendDat(p)
  <2>1. AppendDatLock(p) => ScanCore!AppendDatLock(p)
    BY <1>2, <1>3, <1>5 DEF AppendDatLock, ScanCore!AppendDatLock
  <2>2. AppendDatSeek(p) => ScanCore!AppendDatSeek(p)
    <3> SUFFICES ASSUME AppendDatSeek(p) PROVE ScanCore!AppendDatSeek(p)
      OBVIOUS
    <3>1. db' = [db EXCEPT ![p] = [db[p] EXCEPT !.datoff = Len(dat) + 1,
                                                !.datlen = DatLen[call[p].data]]]
      BY DEF AppendDatSeek, ScanTypes
    <3>2. scanDb' = [scanDb EXCEPT ![p] = [db[p] EXCEPT !.datoff = Len(dat) + 1,
                                                    !.datlen = DatLen[call[p].data]]]
      BY <1>1, <3>1
    <3>3. scanDb' = [scanDb EXCEPT ![p].datoff = Len(dat) + 1,
                               ![p].datlen = DatLen[call[p].data]]
      BY <1>1, <3>2 DEF scanDb, ScanTypes
    <3> QED BY <1>1, <1>4, <3>3 DEF AppendDatSeek, ScanCore!AppendDatSeek
  <2>3. AppendDatWrite(p) => ScanCore!AppendDatWrite(p)
    BY <1>1, <1>4 DEF AppendDatWrite, ScanCore!AppendDatWrite, WriteAt, ScanCore!WriteAt
  <2>4. AppendDatUnlock(p) => ScanCore!AppendDatUnlock(p)
    BY <1>2, <1>3, <1>5 DEF AppendDatUnlock, ScanCore!AppendDatUnlock
  <2> QED BY <1>9, <2>1, <2>2, <2>3, <2>4 DEF AppendDat, ScanCore!AppendDat, ScanCore!Step
<1>10. CASE AppendIdx(p)
  <2>1. AppendIdxLock(p) => ScanCore!AppendIdxLock(p)
    BY <1>2, <1>3, <1>5 DEF AppendIdxLock, ScanCore!AppendIdxLock
  <2>2. AppendIdxSeek(p) => ScanCore!AppendIdxSeek(p)
    <3> SUFFICES ASSUME AppendIdxSeek(p) PROVE ScanCore!AppendIdxSeek(p)
      OBVIOUS
    <3>1. db' = [db EXCEPT ![p] = [db[p] EXCEPT !.idxoff = NHASH + Len(idx) + 1,
                                                !.ptrval = loc[p].ptrval]]
      BY DEF AppendIdxSeek, ScanTypes
    <3>2. scanDb' = [scanDb EXCEPT ![p] = [db[p] EXCEPT !.idxoff = NHASH + Len(idx) + 1,
                                                    !.ptrval = loc[p].ptrval]]
      BY <1>1, <3>1
    <3>3. scanDb' = [scanDb EXCEPT ![p].idxoff = NHASH + Len(idx) + 1,
                               ![p].ptrval = loc[p].ptrval]
      BY <1>1, <3>2 DEF scanDb, ScanTypes
    <3> QED BY <1>1, <1>4, <3>3 DEF AppendIdxSeek, ScanCore!AppendIdxSeek
  <2>3. AppendIdxWrite(p) => ScanCore!AppendIdxWrite(p)
    BY <1>1, <1>4 DEF AppendIdxWrite, ScanCore!AppendIdxWrite, WriteAt, ScanCore!WriteAt, IdxRecord,
       ScanCore!IdxRecord
  <2>4. AppendIdxUnlock(p) => ScanCore!AppendIdxUnlock(p)
    BY <1>2, <1>3, <1>5 DEF AppendIdxUnlock, ScanCore!AppendIdxUnlock
  <2> QED BY <1>10, <2>1, <2>2, <2>3, <2>4 DEF AppendIdx, ScanCore!AppendIdx, ScanCore!Step
<1>11. CASE Store(p)
  <2>1. StoreHead(p) => ScanCore!StoreHead(p)
    BY <1>1, <1>3 DEF StoreHead, ScanCore!StoreHead, readptr, ScanCore!readptr
  <2>2. StoreWriteDat(p) => ScanCore!StoreWriteDat(p)
    BY <1>1 DEF StoreWriteDat, ScanCore!StoreWriteDat
  <2>3. StoreWriteIdx(p) => ScanCore!StoreWriteIdx(p)
    BY <1>1, <1>4 DEF StoreWriteIdx, ScanCore!StoreWriteIdx, WriteAt, ScanCore!WriteAt, IdxRecord,
       ScanCore!IdxRecord
  <2>4. StoreWritePtr(p) => ScanCore!StoreWritePtr(p)
    BY <1>1, <1>3, <1>4 DEF StoreWritePtr, ScanCore!StoreWritePtr, writeptr, ScanCore!writeptr
  <2>5. StoreQuit(p) => ScanCore!StoreQuit(p)
    BY <1>1, <1>4, ScanConstants DEF StoreQuit, ScanCore!StoreQuit
  <2> QED BY <1>11, <2>1, <2>2, <2>3, <2>4, <2>5 DEF Store, ScanCore!Store, ScanCore!Step
<1>12. CASE FetchReadDat(p)
  <2>1. ScanCore!FetchReadDat(p)
    BY <1>1, <1>4, <1>12 DEF FetchReadDat, ScanCore!FetchReadDat
  <2> QED BY <2>1 DEF ScanCore!Step
<1>13. CASE Unlock(p)
  <2>1. ScanCore!Abs!Effect(kv, call[p]) = Abs!Effect(kv, call[p])
    BY DEF ScanCore!Abs!Effect, Abs!Effect, ScanCore!Abs!Refused, Abs!Refused,
       ScanCore!Abs!DB_INSERT, ScanCore!Abs!DB_REPLACE, Abs!DB_INSERT, Abs!DB_REPLACE
  <2>2. ScanCore!Unlock(p)
    BY <1>1, <1>2, <1>3, <1>4, <1>13, <2>1, ScanConstants DEF Unlock, ScanCore!Unlock
  <2> QED BY <2>2 DEF ScanCore!Step
<1> QED BY <1>6, <1>7, <1>8, <1>9, <1>10, <1>11, <1>12, <1>13 DEF Step
----------------------------------------------------------------------------
\* What the steps of a process have in common.
ScanAlone(p) ==
    /\ \A q \in Procs \ {p} :
          db'[q] = db[q] /\ \A r \in Regions : lock'[r][q] = lock[r][q]
    /\ pc'[p] \in {"idle", "exited"} => db'[p] = NoDb
    /\ db' = [db EXCEPT ![p] = db'[p]]
    /\ lock' \in [Regions -> [Procs -> {"none", "read", "write"}]]
    /\ \A r \in Regions : lock'[r][p] = "write" =>
          lock[r][p] = "write" \/ \A q \in Procs \ {p} : lock[r][q] = "none"

\* A step of a process inside a function leaves what is the others' alone.
LEMMA ScanStepAlone ==
    ASSUME ScanTypes, ScanGood, NEW p \in Procs, Step(p)
    PROVE  ScanAlone(p)
<1>1. /\ DOMAIN pc = Procs /\ DOMAIN db = Procs
      /\ lock \in [Regions -> [Procs -> {"none", "read", "write"}]]
      /\ pc[p] \in Labels /\ "none" \in {"none", "read", "write"}
  BY ScanStepPlaces DEF ScanTypes, Places
<1> DEFINE Fine == /\ \A r \in Regions, q \in Procs \ {p} : lock'[r][q] = lock[r][q]
                   /\ lock' \in [Regions -> [Procs -> {"none", "read", "write"}]]
                   /\ \A r \in Regions : lock'[r][p] = "write" =>
                         lock[r][p] = "write" \/ \A q \in Procs \ {p} : lock[r][q] = "none"
<1>2. ASSUME NEW r, NEW m \in {"none", "read", "write"}, lock' = [lock EXCEPT ![r][p] = m],
             m = "write" => \A q \in Procs \ {p} : lock[r][q] = "none"
      PROVE  Fine
  <2>1. \A s \in Regions, q \in Procs :
          lock'[s][q] = IF s = r /\ q = p THEN m ELSE lock[s][q]
    BY <1>1, <1>2
  <2>2. lock' \in [Regions -> [Procs -> {"none", "read", "write"}]]
    BY <1>1, <1>2
  <2> QED BY <1>2, <2>1, <2>2
<1>3. ASSUME lock' = lock \/ (\E r : readw_lock(p, r) \/ writew_lock(p, r) \/ un_lock(p, r))
             \/ unlock_all(p)
      PROVE  Fine
  <2>1. CASE \E r : readw_lock(p, r) \/ writew_lock(p, r) \/ un_lock(p, r)
    <3>1. PICK r : readw_lock(p, r) \/ writew_lock(p, r) \/ un_lock(p, r)
      BY <2>1
    <3>2. PICK m \in {"none", "read", "write"} :
            /\ lock' = [lock EXCEPT ![r][p] = m]
            /\ m = "write" => \A q \in Procs \ {p} : lock[r][q] = "none"
      BY <3>1 DEF readw_lock, writew_lock, un_lock
    <3> QED BY <1>2, <3>2
  <2>2. CASE unlock_all(p)
    BY <1>1, <2>2 DEF unlock_all
  <2> QED BY <1>1, <1>3, <2>1, <2>2
<1> USE DEF Transition, Lock, Release
<1>4. lock' = lock \/ (\E r : readw_lock(p, r) \/ writew_lock(p, r) \/ un_lock(p, r))
      \/ unlock_all(p)
  <2>1. Find(p) \/ DoDelete(p) =>
          lock' = lock \/ (\E r : readw_lock(p, r) \/ writew_lock(p, r) \/ un_lock(p, r))
    BY DEF Find, FindLock, FindReadPtr, FindReadIdx, DoDelete, DelLock, DelWriteDat,
       DelReadFree, DelWriteIdx, DelWriteFree, DelWritePtr, DelUnlock
  <2>2. FindFree(p) => lock' = lock \/ (\E r : writew_lock(p, r) \/ un_lock(p, r))
    BY DEF FindFree, FreeLock, FreeReadPtr, FreeReadIdx, FreeWritePtr, FreeUnlock
  <2>3. AppendDat(p) \/ AppendIdx(p) => lock' = lock \/ (\E r : writew_lock(p, r) \/ un_lock(p, r))
    BY DEF AppendDat, AppendDatLock, AppendDatSeek, AppendDatWrite, AppendDatUnlock,
       AppendIdx, AppendIdxLock, AppendIdxSeek, AppendIdxWrite, AppendIdxUnlock
  <2>4. Store(p) \/ FetchReadDat(p) \/ Unlock(p) =>
          lock' = lock \/ (\E r : un_lock(p, r)) \/ unlock_all(p)
    BY DEF Store, StoreHead, StoreWriteDat, StoreWriteIdx, StoreWritePtr, StoreQuit,
       FetchReadDat, Unlock
  <2> QED BY <2>1, <2>2, <2>3, <2>4 DEF Step
<1>5. /\ \A q \in Procs \ {p} : db'[q] = db[q]
      /\ pc'[p] \in {"idle", "exited"} => db'[p] = NoDb
  <2> USE <1>1 DEF Goto
  <2>1. CASE Find(p)
    BY <2>1 DEF Find, FindLock, FindReadPtr, FindReadIdx, FindNext, NotFound, Found
  <2>2. CASE DoDelete(p)
    BY <2>2 DEF DoDelete, DelLock, DelWriteDat, DelReadFree, DelWriteIdx, DelWriteFree,
       DelWritePtr, DelUnlock
  <2>3. CASE FindFree(p)
    BY <2>3 DEF FindFree, FreeLock, FreeReadPtr, FreeReadIdx, FreeWritePtr, FreeUnlock, FreeNext
  <2>4. CASE AppendDat(p) \/ AppendIdx(p)
    BY <2>4 DEF AppendDat, AppendDatLock, AppendDatSeek, AppendDatWrite, AppendDatUnlock,
       AppendIdx, AppendIdxLock, AppendIdxSeek, AppendIdxWrite, AppendIdxUnlock
  <2>5. CASE Store(p)
    BY <2>5 DEF Store, StoreHead, StoreWriteDat, StoreWriteIdx, StoreWritePtr, StoreQuit
  <2>6. CASE FetchReadDat(p) \/ Unlock(p)
    BY <2>6 DEF FetchReadDat, Unlock
  <2> QED BY <2>1, <2>2, <2>3, <2>4, <2>5, <2>6 DEF Step
<1>6. db' = db \/ \E e : db' = [db EXCEPT ![p] = e]
  <2>1. Find(p) => db' = db \/ \E e : db' = [db EXCEPT ![p] = e]
    BY DEF Find, FindLock, FindReadPtr, FindReadIdx, FindNext, AfterReadIdx
  <2>2. DoDelete(p) => db' = db \/ \E e : db' = [db EXCEPT ![p] = e]
    BY DEF DoDelete, DelLock, DelWriteDat, DelReadFree, DelWriteIdx, DelWriteFree, DelWritePtr,
       DelUnlock
  <2>3. FindFree(p) => db' = db \/ \E e : db' = [db EXCEPT ![p] = e]
    BY DEF FindFree, FreeLock, FreeReadPtr, FreeReadIdx, FreeWritePtr, FreeUnlock
  <2>4. AppendDat(p) \/ AppendIdx(p) => db' = db \/ \E e : db' = [db EXCEPT ![p] = e]
    BY DEF AppendDat, AppendDatLock, AppendDatSeek, AppendDatWrite, AppendDatUnlock,
       AppendIdx, AppendIdxLock, AppendIdxSeek, AppendIdxWrite, AppendIdxUnlock
  <2>5. Store(p) \/ FetchReadDat(p) \/ Unlock(p) => db' = db \/ \E e : db' = [db EXCEPT ![p] = e]
    BY DEF Store, StoreHead, StoreWriteDat, StoreWriteIdx, StoreWritePtr, StoreQuit,
       FetchReadDat, Unlock
  <2> QED BY <2>1, <2>2, <2>3, <2>4, <2>5 DEF Step
<1>7. db' = [db EXCEPT ![p] = db'[p]]
  BY <1>6 DEF ScanTypes
<1> QED BY <1>3, <1>4, <1>5, <1>7 DEF ScanAlone
----------------------------------------------------------------------------
DbTypes == [Procs -> [ptroff : Nat, idxoff : Nat, datoff : Nat, datlen : Nat, ptrval : Ptr]]

\* A step of another function, by process p, for the processes ...
Moves(p) ==
    /\ ScanAlone(p) /\ ScanGood'
    /\ ~Away(p) /\ ~Away(p)' /\ pc[p] \notin InNextrec /\ pc'[p] \notin InNextrec
    /\ pc' \in [Procs -> Labels \cup InNextrec]
    /\ \A q \in Procs \ {p} : pc'[q] = pc[q] /\ call'[q] = call[q]
    /\ db' \in DbTypes

\* ... and for the index records.
Changed(p) ==
    /\ Recs \subseteq Recs'
    /\ \A k \in Keys \ Changing :
          /\ \A r \in Recs' : readidx(r).key' = k => r \in Recs /\ readidx(r).key = k
          /\ \A r \in Recs : readidx(r).key = k => readidx(r).key' = k
    /\ pc[p] \notin FreeLocked => \A r \in Recs : readidx(r).key # BLANK =>
          readidx(r).key' = readidx(r).key /\ readidx(r).datoff' = readidx(r).datoff

\* The step is one of Db.
LEMMA CoreStep ==
    ASSUME ScanTypes, ScanGood, NEW p \in Procs, Call(p) \/ Step(p)
    PROVE  ScanCore!Call(p) \/ ScanCore!Step(p)
<1>1. CASE Step(p)
  BY <1>1, ScanStepMaps
<1>2. CASE Call(p)
  <2>1. /\ pc[p] = "idle" /\ pc' = [pc EXCEPT ![p] = "find"] /\ calls < MaxCalls
        /\ calls' = calls + 1 /\ Abs!Call(p)
        /\ UNCHANGED <<table, idx, dat, lock, db, loc>>
    BY <1>2 DEF Call, Transition, Goto, files
  <2>2. /\ DOMAIN pc = Procs /\ DOMAIN pc' = Procs
        /\ \A q \in Procs \ {p} : pc'[q] = pc[q] /\ call'[q] = call[q]
        /\ pc'[p] = "find" /\ ~Away(p) /\ ~Away(p)'
    BY <2>1 DEF ScanTypes, ScanGood, ScanCore!Control, ScanCore!ControlTypeOK, Abs!Call, Away,
       InNextrec
  <2>3. \A q \in Procs : Away(q)' = Away(q)
    BY <2>2 DEF Away
  <2>4. scanPc[p] = "idle" /\ scanPc' = [scanPc EXCEPT ![p] = "find"]
    BY <2>1, <2>2, <2>3 DEF scanPc
  <2>5. scanLock' = scanLock /\ scanDb' = scanDb
    BY <2>1, <2>3 DEF scanLock, scanDb
  <2>6. ScanCore!Abs!Call(p)
    BY <2>1 DEF Abs!Call, ScanCore!Abs!Call
  <2> QED BY <2>1, <2>4, <2>5, <2>6 DEF ScanCore!Call, ScanCore!Transition, ScanCore!Goto,
     ScanCore!files
<1> QED BY <1>1, <1>2

\* A step of another function, for the processes and for the index records.
LEMMA StepMoves ==
    ASSUME ScanTypes, ScanGood, NEW p \in Procs, Call(p) \/ Step(p)
    PROVE  Moves(p) /\ Changed(p) /\ pc[p] = scanPc[p]
<1>1. ScanCore!Call(p) \/ ScanCore!Step(p)
  BY CoreStep
<1>2. ScanGood'
  <2>1. ScanCore!Next
    BY <1>1 DEF ScanCore!Next
  <2> QED BY <2>1, ScanGoodStep
<1>3. Changed(p) /\ pc[p] = scanPc[p]
  <2>1. /\ ScanCore!Recs \subseteq ScanCore!Recs'
        /\ \A k \in Keys : ~ScanCore!Changes(p, k) =>
              \A r \in ScanCore!Recs' :
                  ScanCore!readidx(r).key' = k => r \in ScanCore!Recs /\ ScanCore!readidx(r).key = k
        /\ \A k \in Keys : ~ScanCore!Changes(p, k) =>
              \A r \in ScanCore!Recs : ScanCore!readidx(r).key = k => ScanCore!readidx(r).key' = k
        /\ scanPc[p] \notin ScanCore!FreeLocked =>
              \A r \in ScanCore!Recs : ScanCore!readidx(r).key # BLANK =>
                  /\ ScanCore!readidx(r).key' = ScanCore!readidx(r).key
                  /\ ScanCore!readidx(r).datoff' = ScanCore!readidx(r).datoff
    BY <1>1, ScanConstants, ScanCore!KeyStep DEF ScanGood
  <2>2. ScanCore!Recs = Recs /\ ScanCore!FreeLocked = FreeLocked
    BY DEF ScanCore!Recs, Recs, FIRST, ScanCore!FreeLocked, FreeLocked
  <2>3. ScanCore!Recs' = Recs'
    BY DEF ScanCore!Recs, Recs, FIRST
  <2>4. \A r : ScanCore!readidx(r) = readidx(r) /\ ScanCore!readidx(r)' = readidx(r)'
    BY DEF ScanCore!readidx, readidx
  <2>5. \A k \in Keys \ Changing : ~ScanCore!Changes(p, k)
    BY DEF Changing, ScanCore!Changes
  <2>6. pc[p] = scanPc[p]
    <3>1. CASE Step(p)
      BY <3>1, ScanStepMeans
    <3>2. CASE Call(p)
      BY <3>2 DEF Call, Transition, scanPc, Away, InNextrec
    <3> QED BY <3>1, <3>2
  <2> QED BY <2>1, <2>2, <2>3, <2>4, <2>5, <2>6 DEF Changed
<1>4. CASE Step(p)
  <2>1. scanDb' \in DbTypes
    BY <1>2 DEF ScanGood, ScanCore!FileInv, ScanCore!FileTypeOK, DbTypes, ScanCore!Ptr, Ptr
  <2>2. db' = [db EXCEPT ![p] = db'[p]] /\ scanDb'[p] = db'[p]
    BY <1>4, ScanStepAlone, ScanStepMeans DEF ScanAlone
  <2>3. db' \in DbTypes
    BY <2>1, <2>2 DEF DbTypes, ScanTypes
  <2>4. ~Away(p) /\ ~Away(p)' /\ pc[p] \notin InNextrec /\ pc'[p] \notin InNextrec
    <3>1. Labels \cap InNextrec = {}
      BY DEF Labels, InNextrec
    <3> QED BY <1>4, <3>1, ScanStepPlaces, DbAssumption DEF Places, Away
  <2> QED BY <1>2, <1>3, <1>4, <2>3, <2>4, ScanStepPlaces, ScanStepAlone DEF Moves, Places
<1>5. CASE Call(p)
  <2>1. /\ pc[p] = "idle" /\ pc' = [pc EXCEPT ![p] = "find"] /\ Abs!Call(p)
        /\ UNCHANGED <<lock, db>>
    BY <1>5 DEF Call, Transition, Goto
  <2>2. /\ pc'[p] = "find" /\ \A q \in Procs \ {p} : pc'[q] = pc[q] /\ call'[q] = call[q]
        /\ pc' \in [Procs -> Labels \cup InNextrec]
    BY <2>1 DEF ScanTypes, Labels, ScanGood, ScanCore!Control, ScanCore!ControlTypeOK, Abs!Call
  <2>3. ScanAlone(p)
    BY <2>1, <2>2 DEF ScanAlone, ScanTypes
  <2> QED BY <1>2, <1>3, <2>1, <2>2, <2>3 DEF Moves, Away, InNextrec, ScanTypes, DbTypes
<1> QED BY <1>3, <1>4, <1>5
----------------------------------------------------------------------------
\* While the scanner is in db_nextrec(), no function changes the free list.
LEMMA NobodyFrees ==
    ASSUME ScanTypes, ScanGood, ScanLock, pc[scanner] \in InNextrec, NEW q \in Procs
    PROVE  scanPc[q] \notin FreeLocked
<1> SUFFICES ASSUME scanPc[q] \in FreeLocked PROVE FALSE
  OBVIOUS
<1>1. ~Away(q) /\ FREE_OFF \in Regions
  BY DbAssumption DEF scanPc, FreeLocked, FREE_OFF, Regions, DATFILE
<1>2. ScanCore!FREE_OFF = FREE_OFF /\ ScanCore!FreeLocked = FreeLocked
  BY DEF ScanCore!FREE_OFF, FREE_OFF, ScanCore!FreeLocked, FreeLocked
<1>3. call[q].fn # "fetch"
  BY DEF ScanGood, ScanCore!Control, ScanCore!CallOK, ScanCore!Deleting, ScanCore!Storing,
     FreeLocked
<1>4. ScanCore!LockOf(q, FREE_OFF) = "write"
  BY <1>2, <1>3 DEF ScanCore!LockOf, ScanCore!Held
<1>5. scanLock[FREE_OFF][q] = "write"
  BY <1>1, <1>4, ScanConstants DEF ScanGood, ScanCore!Control, ScanCore!LockDiscipline
<1> QED BY <1>1, <1>5 DEF scanLock, ScanLock

\* The index file only grows.
LEMMA Lengths ==
    ASSUME ScanGood, ScanGood', Recs \subseteq Recs'
    PROVE  /\ Len(idx) \in Nat /\ Len(idx') \in Nat /\ NHASH \in Nat /\ FIRST = NHASH + 1
           /\ idx \in Seq(ScanCore!IdxRec) /\ Len(idx') >= Len(idx)
<1>1. /\ idx \in Seq(ScanCore!IdxRec) /\ idx' \in Seq(ScanCore!IdxRec)
      /\ NHASH \in Nat /\ FIRST = NHASH + 1
  BY DbAssumption DEF ScanGood, ScanCore!FileInv, ScanCore!FileTypeOK, FIRST
<1>2. Len(idx) \in Nat /\ Len(idx') \in Nat
  BY <1>1
<1>3. Len(idx) > 0 => NHASH + Len(idx) \in Recs'
  <2>1. Len(idx) > 0 => NHASH + Len(idx) \in Recs
    BY <1>1, <1>2 DEF Recs
  <2> QED BY <2>1
<1>4. Recs' = FIRST .. NHASH + Len(idx')
  BY DEF Recs
<1> QED BY <1>1, <1>2, <1>3, <1>4

\* The file offset after a step of the scanner in another function.
LEMMA PosStep ==
    ASSUME ScanTypes, ScanGood, Place, Call(scanner) \/ Step(scanner), Recs \subseteq Recs'
    PROVE  PosAfter(scanner) \in (FIRST .. FIRST + Len(idx')) \cup {INSIDE}
<1>0. scanner \in Procs /\ pc[scanner] = scanPc[scanner]
  BY ScanAssumption, StepMoves
<1>1. ~Away(scanner) /\ Moves(scanner)
  BY <1>0, StepMoves DEF Moves
<1>2. scanDb[scanner] = db[scanner]
  BY <1>0, <1>1 DEF scanDb
<1>3. /\ Len(idx) \in Nat /\ Len(idx') \in Nat /\ NHASH \in Nat /\ FIRST = NHASH + 1
      /\ idx \in Seq(ScanCore!IdxRec) /\ Len(idx') >= Len(idx)
  BY <1>1, Lengths DEF Moves
<1>5. ScanCore!Recs = Recs
  BY DEF ScanCore!Recs, Recs, FIRST
<1>6. /\ pc[scanner] \in {"find.readidx", "findfree.readidx"} => loc[scanner].offset \in Recs
      /\ pc[scanner] \in {"dodelete.writeidx", "reuse.writeidx"} => db[scanner].idxoff \in Recs
  BY <1>0, <1>2, <1>5 DEF ScanGood, ScanCore!FileInv, ScanCore!LocalOK, ScanCore!HasRec
<1>7. pc[scanner] = "append.idxwrite" =>
        Len(idx') = Len(idx) + 1 /\ db[scanner].idxoff = NHASH + Len(idx) + 1
  <2> SUFFICES ASSUME pc[scanner] = "append.idxwrite"
               PROVE  Len(idx') = Len(idx) + 1 /\ db[scanner].idxoff = NHASH + Len(idx) + 1
    OBVIOUS
  <2>1. db[scanner].idxoff = NHASH + Len(idx) + 1
    BY <1>0, <1>2 DEF ScanGood, ScanCore!FileInv, ScanCore!AppendAtEnd
  <2>2. AppendIdxWrite(scanner)
    BY DEF Step, Call, Find, FindLock, FindReadPtr, FindReadIdx, FetchReadDat, DoDelete, DelLock,
       DelWriteDat, DelReadFree, DelWriteIdx, DelWriteFree, DelWritePtr, DelUnlock, FindFree,
       FreeLock, FreeReadPtr, FreeReadIdx, FreeWritePtr, FreeUnlock, AppendDat, AppendDatLock,
       AppendDatSeek, AppendDatWrite, AppendDatUnlock, AppendIdx, AppendIdxLock, AppendIdxSeek,
       AppendIdxUnlock, Store, StoreHead, StoreWriteDat, StoreWriteIdx, StoreWritePtr, StoreQuit,
       Unlock, Transition, Lock, Release
  <2>3. PICK rec : idx' = WriteAt(idx, db[scanner].idxoff - NHASH, rec)
    BY <2>2 DEF AppendIdxWrite
  <2>4. db[scanner].idxoff - NHASH = Len(idx) + 1
    BY <1>3, <2>1
  <2>5. idx' = Append(idx, rec)
    BY <2>3, <2>4 DEF WriteAt
  <2> QED BY <1>3, <2>1, <2>5
<1>8. \A x \in FIRST .. FIRST + Len(idx) : x \in FIRST .. FIRST + Len(idx')
  BY <1>3
<1>9. \A r \in Recs : r + 1 \in FIRST .. FIRST + Len(idx')
  BY <1>3 DEF Recs
<1>10. CASE pc[scanner] \in {"find.readidx", "findfree.readidx"}
  BY <1>6, <1>9, <1>10 DEF PosAfter
<1>11. CASE pc[scanner] \in {"dodelete.writeidx", "reuse.writeidx"}
  BY <1>6, <1>9, <1>11 DEF PosAfter
<1>12. CASE pc[scanner] = "append.idxwrite"
  <2>1. PosAfter(scanner) = db[scanner].idxoff + 1
    BY <1>12 DEF PosAfter
  <2> QED BY <1>3, <1>7, <1>12, <2>1
<1>13. CASE pc[scanner] = "append.idxseek"
  <2>1. PosAfter(scanner) = FIRST + Len(idx)
    BY <1>13 DEF PosAfter
  <2> QED BY <1>3, <2>1
<1>14. PosAfter(scanner) \in {pos, INSIDE} \/ pc[scanner] \in
         {"find.readidx", "findfree.readidx", "dodelete.writeidx", "reuse.writeidx",
          "append.idxwrite", "append.idxseek"}
  BY DEF PosAfter
<1> QED BY <1>8, <1>10, <1>11, <1>12, <1>13, <1>14 DEF Place

\* A step of another function, of any process, between those of the scan.
LEMMA OtherInv ==
    ASSUME ScanInv, NEW p \in Procs, Call(p) \/ Step(p), Other(p)
    PROVE  ScanInv'
<1>1. /\ Moves(p) /\ Changed(p) /\ pc[p] = scanPc[p]
      /\ scanner \in Procs
  BY StepMoves, ScanAssumption DEF ScanInv
<1>2. /\ pos' = IF p = scanner THEN PosAfter(p) ELSE pos
      /\ mixed' = (mixed \/ p = scanner)
      /\ key' = key /\ ptr' = ptr /\ got' = got
      /\ still' = still \ Changing'
      /\ recent' = IF pc'[scanner] \in InNextrec THEN recent \cup Current' ELSE {}
  BY DEF Other, Observe
<1>3. /\ \A q \in Procs : Away(q)' = Away(q)
      /\ pc'[scanner] \in InNextrec => p # scanner
      /\ p # scanner => pc'[scanner] = pc[scanner] /\ db'[scanner] = db[scanner]
      /\ p = scanner => pc[scanner] \notin InNextrec /\ pc'[scanner] \notin InNextrec
  BY <1>1 DEF Moves, Away, ScanAlone
<1>4. ScanTypes'
  BY <1>1, <1>2, <1>3 DEF ScanInv, ScanTypes, Moves, DbTypes, ScanAlone
<1>5. ScanLock'
  <2>1. Away(scanner)' => \A r \in Regions : lock'[r][scanner] = lock[r][scanner]
    BY <1>1, <1>3 DEF Moves, ScanAlone
  <2>2. ASSUME pc'[scanner] \in InNextrec, NEW q \in Procs, lock'[FREE_OFF][q] = "write"
        PROVE  FALSE
    <3>1. FREE_OFF \in Regions /\ p # scanner /\ pc[scanner] \in InNextrec
      BY <1>3, <2>2, DbAssumption DEF FREE_OFF, Regions, DATFILE
    <3>2. lock[FREE_OFF][scanner] = "read" /\ lock[FREE_OFF][q] # "write"
      BY <3>1 DEF ScanInv, ScanLock, Away
    <3> QED BY <1>1, <2>2, <3>1, <3>2 DEF Moves, ScanAlone
  <2> QED BY <1>1, <1>3, <2>1, <2>2 DEF ScanInv, ScanLock, Away
<1>6. ScanResting'
  BY <1>1, <1>3 DEF ScanInv, ScanResting, Moves, ScanAlone
<1>7. /\ Len(idx) \in Nat /\ Len(idx') \in Nat /\ NHASH \in Nat /\ FIRST = NHASH + 1
      /\ Len(idx') >= Len(idx)
  BY <1>1, Lengths DEF ScanInv, Moves, Changed
<1>9. Place'
  <2>1. CASE p = scanner
    BY <1>1, <1>2, <2>1, PosStep DEF ScanInv, Place, Changed
  <2>2. CASE p # scanner
    <3>1. pos' = pos /\ (mixed' => mixed) /\ (mixed => mixed')
      BY <1>2, <2>2
    <3>2. pos \in (FIRST .. FIRST + Len(idx)) \cup {INSIDE} /\ (~mixed => pos # INSIDE)
      BY DEF ScanInv, Place
    <3>3. pos \in (FIRST .. FIRST + Len(idx')) \cup {INSIDE}
      BY <1>7, <3>2
    <3> QED BY <3>1, <3>2, <3>3 DEF Place
  <2> QED BY <2>1, <2>2
<1>10. InHand'
  <2> SUFFICES ASSUME pc'[scanner] = "nextrec.readdat"
               PROVE  \E r \in Recs' : /\ pos' = r + 1 /\ key' # BLANK
                                       /\ readidx(r).key' = key'
                                       /\ readidx(r).datoff' = db'[scanner].datoff
    BY DEF InHand
  <2>1. p # scanner /\ pc[scanner] = "nextrec.readdat" /\ db'[scanner] = db[scanner]
    BY <1>3 DEF InNextrec
  <2>2. PICK r \in Recs : /\ pos = r + 1 /\ key # BLANK
                          /\ readidx(r).key = key /\ readidx(r).datoff = db[scanner].datoff
    BY <2>1 DEF ScanInv, InHand
  <2>3. pc[p] \notin FreeLocked
    BY <1>1, <2>1, NobodyFrees DEF ScanInv, InNextrec
  <2> QED BY <1>1, <1>2, <2>1, <2>2, <2>3 DEF Changed
<1>11. Returned'
  BY <1>2, <1>3 DEF ScanInv, Returned, InNextrec
<1>12. \A k \in still' : k \in still /\ k \in Keys \ Changing
  BY <1>2 DEF ScanInv, ScanTypes
<1>13. Counted'
  <2> SUFFICES ASSUME ~mixed', NEW k \in still'
               PROVE  got'[k] + Returning(k)' = Cardinality(Before(k)')
    BY DEF Counted
  <2>1. p # scanner /\ ~mixed /\ pos' = pos /\ pc'[scanner] = pc[scanner]
    BY <1>2, <1>3
  <2>2. Before(k)' = Before(k)
    BY <1>1, <1>12, <2>1 DEF Before, Changed
  <2>3. Returning(k)' = Returning(k)
    BY <1>2, <2>1 DEF Returning
  <2> QED BY <1>2, <1>12, <2>1, <2>2, <2>3 DEF ScanInv, Counted
<1>14. SeenAll'
  <2> SUFFICES ASSUME AtEnd', ~mixed', NEW r \in Recs', readidx(r).key' \in still'
               PROVE  r < pos'
    BY DEF SeenAll
  <2>1. p # scanner /\ ~mixed /\ pos' = pos /\ pc'[scanner] = pc[scanner]
    BY <1>2, <1>3
  <2>2. r \in Recs /\ readidx(r).key \in still
    BY <1>1, <1>12 DEF Changed
  <2> QED BY <1>2, <2>1, <2>2 DEF ScanInv, SeenAll, AtEnd
<1>15. still' \cap Changing' = {}
  BY <1>2
<1> QED BY <1>1, <1>4, <1>5, <1>6, <1>9, <1>10, <1>11, <1>13, <1>14, <1>15 DEF ScanInv, Moves
----------------------------------------------------------------------------
\* A step of db_nextrec() to place l, for everybody else: the scanner's lock and its
\* DB structure are its own.
Lurks(l) ==
    /\ pc[scanner] \in InNextrec \cup {"idle"} /\ l \in InNextrec \cup {"idle", "exited"}
    /\ Goto(scanner, l)
    /\ UNCHANGED <<table, idx, dat, loc, calls, kv, call, ret>>
    /\ lock' \in [Regions -> [Procs -> {"none", "read", "write"}]]
    /\ \A r \in Regions :
          /\ lock'[r][scanner] = IF l \in InNextrec /\ r = FREE_OFF THEN "read" ELSE "none"
          /\ \A q \in Procs \ {scanner} : lock'[r][q] = lock[r][q]
    /\ l \in InNextrec => \A q \in Procs \ {scanner} : lock[FREE_OFF][q] # "write"
    /\ db' \in DbTypes
    /\ \A q \in Procs \ {scanner} : db'[q] = db[q]
    /\ l = "idle" => db'[scanner] = NoDb
    /\ got' \in [Keys -> Nat] /\ still' \subseteq Keys

\* It is no step of Db.
LEMMA LurkingInv ==
    ASSUME ScanInv, NEW l, Lurks(l)
    PROVE  /\ ScanTypes' /\ ScanGood' /\ ScanLock' /\ ScanResting'
           /\ Changing' = Changing /\ pc'[scanner] = l
<1>0. scanner \in Procs /\ FREE_OFF \in Regions
  BY ScanAssumption, DbAssumption DEF FREE_OFF, Regions, DATFILE
<1>1. /\ \A q \in Procs : pc'[q] = IF q = scanner THEN l ELSE pc[q]
      /\ pc' \in [Procs -> Labels \cup InNextrec]
      /\ call' = call
  BY <1>0 DEF Lurks, Goto, ScanInv, ScanTypes, Labels
<1>2. call[scanner] = NULL
  <2>1. scanPc[scanner] = "idle"
    BY <1>0 DEF scanPc, Lurks, Away
  <2> QED BY <1>0, <2>1 DEF ScanInv, ScanGood, ScanCore!Control, ScanCore!CallOK
<1>3. /\ \A q \in Procs \ {scanner} : Away(q)' = Away(q)
      /\ Away(scanner)' = (l # "idle")
      /\ Away(scanner) = (pc[scanner] # "idle")
  BY <1>0, <1>1, <1>2 DEF Away, Lurks, InNextrec
<1>4. scanPc' = scanPc
  <2>1. \A q \in Procs : scanPc'[q] = scanPc[q]
    BY <1>0, <1>1, <1>3 DEF scanPc, Lurks
  <2> QED BY <2>1 DEF scanPc
<1>5. scanLock' = scanLock
  <2> SUFFICES ASSUME NEW r \in Regions, NEW q \in Procs PROVE scanLock'[r][q] = scanLock[r][q]
    BY DEF scanLock
  <2>1. CASE q # scanner
    BY <1>3, <2>1 DEF scanLock, Lurks
  <2>2. CASE q = scanner
    <3>1. pc[scanner] = "idle" => lock[r][scanner] = "none"
      BY <1>0, ScanNoLocks DEF ScanInv
    <3>2. l = "idle" => lock'[r][scanner] = "none"
      BY DEF Lurks, InNextrec
    <3> QED BY <1>0, <1>3, <2>2, <3>1, <3>2 DEF scanLock
  <2> QED BY <2>1, <2>2
<1>6. scanDb' = scanDb
  <2>1. \A q \in Procs : scanDb'[q] = scanDb[q]
    BY <1>0, <1>3 DEF scanDb, Lurks, ScanInv, ScanResting
  <2> QED BY <2>1 DEF scanDb
<1>7. ScanGood'
  <2>1. [ScanCore!Next]_(ScanCore!vars)
    BY <1>4, <1>5, <1>6 DEF ScanCore!vars, Lurks
  <2> QED BY <2>1, ScanGoodStep DEF ScanInv
<1>8. ScanTypes'
  BY <1>1, <1>3 DEF ScanTypes, Lurks, ScanInv, DbTypes
<1>9. ScanLock'
  <2>1. \A r \in Regions :
          lock'[r][scanner] = IF pc'[scanner] \in InNextrec /\ r = FREE_OFF THEN "read" ELSE "none"
    BY <1>0, <1>1 DEF Lurks
  <2>2. pc'[scanner] \in InNextrec => \A q \in Procs : lock'[FREE_OFF][q] # "write"
    BY <1>0, <1>1, <2>1 DEF Lurks
  <2> QED BY <2>1, <2>2 DEF ScanLock
<1>10. ScanResting'
  BY <1>0, <1>1, <1>3 DEF ScanInv, ScanResting, Lurks
<1>11. Changing' = Changing
  BY <1>1 DEF Changing
<1> QED BY <1>0, <1>1, <1>7, <1>8, <1>9, <1>10, <1>11

\* What db_nextrec() sees of a record is in the database now.
LEMMA SeenNow ==
    ASSUME ScanInv, pc[scanner] \in InNextrec, NEW r \in Recs,
           NEW k, k = readidx(r).key, k # BLANK, NEW d, d = dat[readidx(r).datoff].data
    PROVE  k \in Keys /\ <<k, d>> \in Current
<1>1. ScanCore!Recs = Recs /\ ScanCore!FreeLocked = FreeLocked /\ ScanCore!readidx(r) = readidx(r)
  BY DEF ScanCore!Recs, Recs, FIRST, ScanCore!FreeLocked, FreeLocked, ScanCore!readidx, readidx
<1>2. \A p \in Procs : scanPc[p] \notin ScanCore!FreeLocked
  BY <1>1, NobodyFrees DEF ScanInv
<1>3. /\ k \in Keys
      /\ \/ d = kv[k]
         \/ \E p \in Procs : /\ call[p] \in Requests /\ call[p].fn = "store"
                             /\ ~ScanCore!Abs!Refused(kv, call[p])
                             /\ call[p].key = k /\ call[p].data = d
         \/ /\ r > PTR_MAX
            /\ \A p \in Procs : scanPc[p] \in {"append.idxunlock", "store.writeptr"}
                                    => scanDb[p].idxoff # r
  BY <1>1, <1>2, ScanConstants, ScanCore!SeenRecord DEF ScanInv, ScanGood
<1>4. CASE d = kv[k]
  BY <1>3, <1>4 DEF Current
<1>5. CASE \E p \in Procs : /\ call[p] \in Requests /\ call[p].fn = "store"
                            /\ ~ScanCore!Abs!Refused(kv, call[p])
                            /\ call[p].key = k /\ call[p].data = d
  <2>1. PICK p \in Procs : /\ call[p] \in Requests /\ call[p].fn = "store"
                           /\ ~ScanCore!Abs!Refused(kv, call[p])
                           /\ call[p].key = k /\ call[p].data = d
    BY <1>5
  <2>2. ~Abs!Refused(kv, call[p])
    BY <2>1 DEF ScanCore!Abs!Refused, Abs!Refused, ScanCore!Abs!DB_INSERT, ScanCore!Abs!DB_REPLACE,
       Abs!DB_INSERT, Abs!DB_REPLACE
  <2> QED BY <1>3, <2>1, <2>2 DEF Current
<1>6. CASE /\ r > PTR_MAX
           /\ \A p \in Procs : scanPc[p] \in {"append.idxunlock", "store.writeptr"}
                                   => scanDb[p].idxoff # r
  <2>1. r \in LeftBehind
    BY <1>6 DEF LeftBehind, Recs, scanPc, scanDb, Away, InNextrec
  <2> QED BY <1>3, <2>1 DEF Current
<1> QED BY <1>3, <1>4, <1>5, <1>6

\* What is written where.
LEMMA Offsets ==
    ASSUME ScanInv
    PROVE  /\ Len(idx) \in Nat /\ NHASH \in Nat /\ FIRST = NHASH + 1
           /\ idx \in Seq(ScanCore!IdxRec) /\ scanner \in Procs /\ ScanCore!IdxRec = IdxRec
<1>1. idx \in Seq(ScanCore!IdxRec) /\ NHASH \in Nat /\ FIRST = NHASH + 1
  BY DbAssumption DEF ScanInv, ScanGood, ScanCore!FileInv, ScanCore!FileTypeOK, FIRST
<1>2. Len(idx) \in Nat
  BY <1>1
<1> QED BY <1>1, <1>2, ScanAssumption DEF ScanCore!IdxRec, IdxRec, ScanCore!Ptr, Ptr

\* What a step of db_nextrec() leaves alone.
Leaves(l) ==
    /\ ScanTypes' /\ ScanGood' /\ ScanLock' /\ ScanResting'
    /\ pc'[scanner] = l
    /\ Recs' = Recs /\ \A r : readidx(r)' = readidx(r)
    /\ \A k : pos' = pos => Before(k)' = Before(k)
    /\ pos' = pos => Place'
    /\ still' = still /\ still' \cap Changing' = {} /\ mixed' = mixed
    /\ Current' = Current

\* It changes neither the files nor what others may be changing.
LEMMA LurkingLeaves ==
    ASSUME ScanInv, NEW l, Lurks(l), mixed' = mixed, still' = still \ Changing'
    PROVE  Leaves(l)
<1>1. /\ ScanTypes' /\ ScanGood' /\ ScanLock' /\ ScanResting' /\ Changing' = Changing /\ pc'[scanner] = l
  BY LurkingInv
<1>2. still' = still /\ still' \cap Changing' = {}
  BY <1>1 DEF ScanInv
<1>3. idx' = idx /\ dat' = dat /\ kv' = kv /\ call' = call
  BY DEF Lurks
<1>4. Recs' = Recs /\ \A r : readidx(r)' = readidx(r)
  BY <1>3 DEF Recs, readidx
<1>5. \A k : pos' = pos => Before(k)' = Before(k)
  BY <1>4 DEF Before
<1>6. pos' = pos => Place'
  BY <1>3 DEF ScanInv, Place
<1>7. \A p \in Procs : LET at == {"append.idxunlock", "store.writeptr"} IN
        /\ pc'[p] \in at <=> pc[p] \in at
        /\ pc[p] \in at => db'[p] = db[p]
  BY DEF Lurks, Goto, InNextrec, ScanInv, ScanTypes
<1>8. LeftBehind' = LeftBehind
  BY <1>3, <1>7 DEF LeftBehind
<1>9. Current' = Current
  BY <1>3, <1>4, <1>8 DEF Current, Abs!Refused, Abs!DB_INSERT, Abs!DB_REPLACE
<1> QED BY <1>1, <1>2, <1>4, <1>5, <1>6, <1>9 DEF Leaves

\* db_nextrec() locks the free list.
LEMMA LockInv == ASSUME ScanInv, NextrecLock PROVE ScanInv'
<1>1. /\ pc[scanner] = "idle" /\ Goto(scanner, "nextrec.readidx")
      /\ \A q \in Procs \ {scanner} : lock[FREE_OFF][q] # "write"
      /\ lock' = [lock EXCEPT ![FREE_OFF][scanner] = "read"]
      /\ UNCHANGED <<table, idx, dat, db, loc, calls, kv, call, ret, pos, key, ptr, got, mixed>>
      /\ still' = still \ Changing'
  BY DEF NextrecLock, Transition, readw_lock, files, client, handle, Observe
<1>2. FREE_OFF \in Regions /\ scanner \in Procs
  BY Offsets, DbAssumption DEF FREE_OFF, Regions, DATFILE
<1>3. /\ lock' \in [Regions -> [Procs -> {"none", "read", "write"}]]
      /\ \A r \in Regions, q \in Procs :
            lock'[r][q] = IF r = FREE_OFF /\ q = scanner THEN "read" ELSE lock[r][q]
  BY <1>1, <1>2 DEF ScanInv, ScanTypes
<1>4. \A r \in Regions : lock[r][scanner] = "none"
  BY <1>1, <1>2, ScanNoLocks DEF ScanInv
<1>5. Lurks("nextrec.readidx")
  BY <1>1, <1>2, <1>3, <1>4 DEF Lurks, InNextrec, ScanInv, ScanTypes, DbTypes
<1>6. Leaves("nextrec.readidx")
  BY <1>1, <1>5, LurkingLeaves
<1>7. InHand' /\ Returned' /\ SeenAll'
  BY <1>1, <1>6 DEF Leaves, InHand, Returned, SeenAll, AtEnd, ScanInv
<1>8. Counted'
  <2>1. \A k : Returning(k)' = Returning(k)
    BY <1>1, <1>6 DEF Leaves, Returning
  <2> QED BY <1>1, <1>6, <2>1 DEF Leaves, ScanInv, Counted
<1> QED BY <1>1, <1>6, <1>7, <1>8 DEF Leaves, ScanInv

\* What db_nextrec() finds is no record.
LEMMA DumpInv == ASSUME ScanInv, NextrecDump PROVE ScanInv'
<1>1. /\ pc[scanner] = "nextrec.readidx" /\ Goto(scanner, "exited") /\ pos = INSIDE
      /\ lock' = [r \in Regions |-> [lock[r] EXCEPT ![scanner] = "none"]]
      /\ UNCHANGED <<table, idx, dat, db, loc, calls, kv, call, ret, pos, key, ptr, got, mixed>>
      /\ still' = still \ Changing'
  BY DEF NextrecDump, Transition, unlock_all, files, client, handle, Observe
<1>2. scanner \in Procs
  BY Offsets
<1>3. /\ lock' \in [Regions -> [Procs -> {"none", "read", "write"}]]
      /\ \A r \in Regions, q \in Procs :
            lock'[r][q] = IF q = scanner THEN "none" ELSE lock[r][q]
  BY <1>1, <1>2 DEF ScanInv, ScanTypes
<1>4. Lurks("exited")
  BY <1>1, <1>2, <1>3 DEF Lurks, InNextrec, ScanInv, ScanTypes, DbTypes
<1>5. Leaves("exited")
  BY <1>1, <1>4, LurkingLeaves
<1>6. mixed
  BY <1>1 DEF ScanInv, Place
<1>7. InHand' /\ Returned' /\ SeenAll' /\ Counted'
  BY <1>1, <1>5, <1>6 DEF Leaves, InHand, Returned, SeenAll, AtEnd, Counted, ScanInv
<1> QED BY <1>1, <1>5, <1>7 DEF Leaves, ScanInv

\* The lock of the free list stays while db_nextrec() goes on.
LEMMA StaysLocked ==
    ASSUME ScanInv, pc[scanner] \in InNextrec, NEW l \in InNextrec, Goto(scanner, l),
           UNCHANGED <<table, idx, dat, lock, loc, calls, kv, call, ret, got, mixed>>,
           db' \in DbTypes, \A q \in Procs \ {scanner} : db'[q] = db[q],
           still' = still \ Changing'
    PROVE  Leaves(l)
<1>1. lock \in [Regions -> [Procs -> {"none", "read", "write"}]]
  BY DEF ScanInv, ScanTypes
<1>2. /\ \A r \in Regions :
            lock[r][scanner] = IF r = FREE_OFF THEN "read" ELSE "none"
      /\ \A q \in Procs : lock[FREE_OFF][q] # "write"
  BY DEF ScanInv, ScanLock, Away
<1>3. Lurks(l)
  BY <1>1, <1>2 DEF Lurks, InNextrec, ScanInv, ScanTypes
<1> QED BY <1>3, LurkingLeaves

\* db_nextrec() reads the data record.
LEMMA ReadDatInv == ASSUME ScanInv, NextrecReadDat PROVE ScanInv'
<1>1. /\ pc[scanner] = "nextrec.readdat" /\ Goto(scanner, "nextrec.unlock")
      /\ UNCHANGED <<table, idx, dat, lock, db, loc, calls, kv, call, ret, pos, key, got, mixed>>
      /\ still' = still \ Changing'
      /\ ptr' = dat[db[scanner].datoff].data
  BY DEF NextrecReadDat, Transition, files, client, Observe
<1>2. Leaves("nextrec.unlock")
  BY <1>1, StaysLocked DEF InNextrec, ScanInv, ScanTypes, DbTypes
<1>3. pc'[scanner] = "nextrec.unlock"
  BY <1>2 DEF Leaves
<1>4. PICK r \in Recs : /\ pos = r + 1 /\ key # BLANK /\ readidx(r).key = key
                        /\ readidx(r).datoff = db[scanner].datoff
  BY <1>1 DEF ScanInv, InHand
<1>5. key \in Keys /\ <<key, ptr'>> \in Current
  BY <1>1, <1>4, SeenNow DEF InNextrec
<1>6. <<key, ptr'>> \in recent'
  BY <1>2, <1>3, <1>5 DEF NextrecReadDat, Observe, InNextrec, Leaves
<1>7. ptr' # NULL
  <2>1. dat[db[scanner].datoff].data \in Data \cup {BLANK}
    <3>1. PICK i \in 1..Len(idx) : i = r - NHASH
      BY <1>4, Offsets DEF Recs
    <3>2. readidx(r).datoff \in 1..Len(dat)
      BY <3>1 DEF ScanInv, ScanGood, ScanCore!FileInv, ScanCore!FilesOK, readidx
    <3>3. dat \in Seq(ScanCore!DatRec)
      BY DEF ScanInv, ScanGood, ScanCore!FileInv, ScanCore!FileTypeOK
    <3>4. dat[db[scanner].datoff] \in ScanCore!DatRec
      BY <1>4, <3>2, <3>3
    <3> QED BY <3>4 DEF ScanCore!DatRec
  <2> QED BY <1>1, <2>1, DbAssumption, ScanAssumption
<1>8. InHand' /\ Returned'
  BY <1>1, <1>3, <1>5, <1>6 DEF InHand, Returned
<1>9. SeenAll'
  BY <1>7 DEF SeenAll, AtEnd
<1>10. Counted'
  <2>1. \A k : Returning(k)' = Returning(k)
    BY <1>1, <1>3, <1>7 DEF Returning
  <2> QED BY <1>1, <1>2, <2>1 DEF Leaves, ScanInv, Counted
<1> QED BY <1>1, <1>2, <1>8, <1>9, <1>10 DEF Leaves, ScanInv

\* db_nextrec() reads an index record, or finds the end of the file.
LEMMA ReadIdxInv == ASSUME ScanInv, NextrecReadIdx PROVE ScanInv'
<1>1. /\ pc[scanner] = "nextrec.readidx" /\ pos # INSIDE
      /\ UNCHANGED <<table, idx, dat, lock, loc, calls, kv, call, ret, got, mixed>>
      /\ still' = still \ Changing' /\ ptr = NULL
  BY DEF NextrecReadIdx, files, client, Observe, ScanInv, Returned
<1>2. /\ Len(idx) \in Nat /\ NHASH \in Nat /\ FIRST = NHASH + 1 /\ idx \in Seq(IdxRec)
      /\ scanner \in Procs /\ pos \in FIRST .. FIRST + Len(idx)
  BY <1>1, Offsets DEF ScanInv, Place
<1>3. CASE pos = FIRST + Len(idx)
  <2>1. /\ Goto(scanner, "nextrec.unlock") /\ ptr' = NULL
        /\ UNCHANGED <<pos, key, db>>
    BY <1>3 DEF NextrecReadIdx
  <2>2. Leaves("nextrec.unlock")
    BY <1>1, <2>1, StaysLocked DEF InNextrec, ScanInv, ScanTypes, DbTypes
  <2>3. pc'[scanner] = "nextrec.unlock"
    BY <2>2 DEF Leaves
  <2>4. InHand' /\ Returned'
    BY <2>1, <2>3 DEF InHand, Returned
  <2>5. SeenAll'
    <3>1. \A r \in Recs : r < pos
      BY <1>2, <1>3 DEF Recs
    <3> QED BY <2>1, <2>2, <3>1 DEF SeenAll, Leaves
  <2>6. Counted'
    <3>1. \A k : Returning(k)' = Returning(k)
      BY <1>1, <2>1, <2>3 DEF Returning
    <3> QED BY <1>1, <2>1, <2>2, <3>1 DEF Leaves, ScanInv, Counted
  <2> QED BY <2>1, <2>2, <2>4, <2>5, <2>6 DEF Leaves, ScanInv
<1>4. CASE pos # FIRST + Len(idx)
  <2>0. PICK l : l = IF readidx(pos).key = BLANK THEN "nextrec.readidx" ELSE "nextrec.readdat"
    OBVIOUS
  <2>1. /\ Goto(scanner, l) /\ pos' = pos + 1 /\ key' = readidx(pos).key /\ ptr' = ptr
        /\ db' = [db EXCEPT ![scanner] = AfterReadIdx(@, pos)]
    BY <1>4, <2>0 DEF NextrecReadIdx
  <2>2. pos \in Recs /\ pos \in Nat
    BY <1>2, <1>4 DEF Recs
  <2>3. readidx(pos) \in IdxRec
    BY <1>2, <2>2 DEF Recs, readidx
  <2>4. /\ db' \in DbTypes /\ db'[scanner].datoff = readidx(pos).datoff
        /\ \A q \in Procs \ {scanner} : db'[q] = db[q]
    <3>1. db \in DbTypes
      BY DEF ScanInv, ScanTypes, DbTypes
    <3>2. AfterReadIdx(db[scanner], pos) \in
            [ptroff : Nat, idxoff : Nat, datoff : Nat, datlen : Nat, ptrval : Ptr]
      BY <1>2, <2>2, <2>3, <3>1 DEF AfterReadIdx, DbTypes, IdxRec
    <3>3. AfterReadIdx(db[scanner], pos).datoff = readidx(pos).datoff
      BY <1>2, <3>1 DEF AfterReadIdx, DbTypes
    <3> QED BY <1>2, <2>1, <3>1, <3>2, <3>3 DEF DbTypes
  <2>5. Leaves(l)
    BY <1>1, <2>0, <2>1, <2>4, StaysLocked DEF InNextrec
  <2>6. pc'[scanner] = l /\ Recs' = Recs /\ \A r : readidx(r)' = readidx(r)
    BY <2>5 DEF Leaves
  <2>7. Place'
    <3>1. pos' \in FIRST .. FIRST + Len(idx)
      BY <1>2, <1>4, <2>1
    <3> QED BY <1>1, <2>1, <3>1, ScanAssumption DEF Place
  <2>8. InHand'
    BY <2>0, <2>1, <2>2, <2>4, <2>6 DEF InHand
  <2>9. Returned' /\ SeenAll'
    BY <1>1, <2>0, <2>1, <2>6 DEF Returned, SeenAll, AtEnd
  <2>10. Counted'
    <3> SUFFICES ASSUME ~mixed, NEW k \in still
                 PROVE  got[k] + Returning(k)' = Cardinality(Before(k)')
      BY <1>1, <2>5 DEF Counted, Leaves
    <3>1. k # BLANK /\ got[k] \in Nat
      BY DbAssumption DEF ScanInv, ScanTypes
    <3>2. Returning(k) = 0 /\ Cardinality(Before(k)) = got[k]
      <4>1. Returning(k) = 0
        BY <1>1 DEF Returning
      <4> QED BY <3>1, <4>1 DEF ScanInv, Counted
    <3>3. Before(k)' = {r \in Recs : r < pos + 1 /\ readidx(r).key = k}
      BY <2>1, <2>6 DEF Before
    <3>4. \A r \in Recs : r < pos + 1 <=> r < pos \/ r = pos
      BY <1>2, <2>2 DEF Recs
    <3>5. CASE readidx(pos).key # k
      <4>1. Before(k)' = Before(k)
        BY <3>3, <3>4, <3>5 DEF Before
      <4>2. Returning(k)' = 0
        BY <1>1, <2>0, <2>1, <2>6, <3>5 DEF Returning
      <4> QED BY <3>1, <3>2, <4>1, <4>2
    <3>6. CASE readidx(pos).key = k
      <4>1. Before(k)' = Before(k) \cup {pos} /\ pos \notin Before(k)
        BY <2>2, <3>3, <3>4, <3>6 DEF Before
      <4>2. IsFiniteSet(Before(k))
        <5>1. IsFiniteSet(Recs)
          BY <1>2, FS_Interval DEF Recs
        <5> QED BY <5>1, FS_Subset DEF Before
      <4>3. Returning(k)' = 1
        BY <2>0, <2>1, <2>6, <3>1, <3>6 DEF Returning
      <4> QED BY <3>1, <3>2, <4>1, <4>2, <4>3, FS_AddElement
    <3> QED BY <3>5, <3>6
  <2> QED BY <2>5, <2>7, <2>8, <2>9, <2>10 DEF Leaves, ScanInv
<1> QED BY <1>3, <1>4

\* db_nextrec() unlocks the free list and returns.
LEMMA UnlockInv == ASSUME ScanInv, NextrecUnlock PROVE ScanInv'
<1>1. /\ pc[scanner] = "nextrec.unlock" /\ Goto(scanner, "idle")
      /\ lock' = [lock EXCEPT ![FREE_OFF][scanner] = "none"]
      /\ got' = IF ptr = NULL THEN got ELSE [got EXCEPT ![key] = @ + 1]
      /\ key' = NULL /\ ptr' = NULL /\ db' = [db EXCEPT ![scanner] = NoDb]
      /\ UNCHANGED <<table, idx, dat, loc, calls, kv, call, ret, pos, mixed>>
      /\ still' = still \ Changing'
  BY DEF NextrecUnlock, Transition, un_lock, files, client, Observe
<1>2. FREE_OFF \in Regions /\ scanner \in Procs
  BY Offsets, DbAssumption DEF FREE_OFF, Regions, DATFILE
<1>3. /\ lock' \in [Regions -> [Procs -> {"none", "read", "write"}]]
      /\ \A r \in Regions, q \in Procs :
            lock'[r][q] = IF r = FREE_OFF /\ q = scanner THEN "none" ELSE lock[r][q]
  BY <1>1, <1>2 DEF ScanInv, ScanTypes
<1>4. \A r \in Regions : lock'[r][scanner] = "none"
  BY <1>1, <1>2, <1>3 DEF ScanInv, ScanLock, Away, InNextrec
<1>5. /\ ptr # NULL => key \in Keys
      /\ got \in [Keys -> Nat] /\ got' \in [Keys -> Nat]
  BY <1>1 DEF ScanInv, Returned, ScanTypes
<1>6. NoDb \in [ptroff : Nat, idxoff : Nat, datoff : Nat, datlen : Nat, ptrval : Ptr]
  BY DbAssumption DEF NoDb, Ptr
<1>7. Lurks("idle")
  <2>1. db' \in DbTypes /\ db'[scanner] = NoDb /\ \A q \in Procs \ {scanner} : db'[q] = db[q]
    BY <1>1, <1>2, <1>6 DEF ScanInv, ScanTypes, DbTypes
  <2> QED BY <1>1, <1>2, <1>3, <1>4, <1>5, <2>1 DEF Lurks, InNextrec, ScanInv, ScanTypes
<1>8. Leaves("idle")
  BY <1>1, <1>7, LurkingLeaves
<1>9. pc'[scanner] = "idle"
  BY <1>8 DEF Leaves
<1>10. InHand' /\ Returned' /\ SeenAll'
  BY <1>1, <1>9 DEF InHand, Returned, SeenAll, AtEnd
<1>11. Counted'
  <2> SUFFICES ASSUME ~mixed, NEW k \in still
               PROVE  got'[k] + Returning(k)' = Cardinality(Before(k))
    BY <1>1, <1>8 DEF Counted, Leaves
  <2>1. Returning(k)' = 0 /\ Returning(k) = IF ptr # NULL /\ key = k THEN 1 ELSE 0
    BY <1>1, <1>9 DEF Returning
  <2>2. got[k] + Returning(k) = Cardinality(Before(k)) /\ k \in Keys
    BY DEF ScanInv, Counted, ScanTypes
  <2> QED BY <1>1, <1>5, <2>1, <2>2
<1> QED BY <1>1, <1>8, <1>10, <1>11 DEF Leaves, ScanInv
----------------------------------------------------------------------------
\* db_rewind() starts a scan.
LEMMA RewindInv == ASSUME ScanInv, Rewind PROVE ScanInv'
<1>1. /\ pc[scanner] = "idle" /\ pos' = FIRST /\ got' = [k \in Keys |-> 0]
      /\ still' = Keys \ Changing /\ mixed' = FALSE
      /\ UNCHANGED <<vars, key, ptr, recent>>
  BY DEF Rewind
<1>2. UNCHANGED <<table, idx, dat, lock, pc, db, loc, calls, kv, call, ret>>
  BY <1>1 DEF vars
<1>3. /\ \A p \in Procs : Away(p)' = Away(p)
      /\ Changing' = Changing /\ Recs' = Recs
  BY <1>2 DEF Away, Changing, Recs
<1>4. ScanGood'
  <2>1. scanPc' = scanPc /\ scanLock' = scanLock /\ scanDb' = scanDb
    BY <1>2, <1>3 DEF scanPc, scanLock, scanDb
  <2>2. [ScanCore!Next]_(ScanCore!vars)
    BY <1>2, <2>1 DEF ScanCore!vars
  <2> QED BY <2>2, ScanGoodStep DEF ScanInv
<1>5. ScanTypes' /\ ScanLock' /\ ScanResting'
  <2>1. got' \in [Keys -> Nat] /\ still' \subseteq Keys
    BY <1>1
  <2>2. Away(scanner)' = Away(scanner)
    BY <1>2 DEF Away
  <2> QED BY <1>2, <1>3, <2>1, <2>2 DEF ScanInv, ScanTypes, ScanLock, ScanResting
<1>6. /\ Len(idx) \in Nat /\ NHASH \in Nat /\ FIRST = NHASH + 1
  BY Offsets
<1>7. Place'
  <2>1. pos' \in FIRST .. FIRST + Len(idx) /\ pos' # INSIDE
    BY <1>1, <1>6, ScanAssumption
  <2> QED BY <1>2, <2>1 DEF Place
<1>8. InHand' /\ Returned' /\ SeenAll'
  BY <1>1, <1>2 DEF InHand, Returned, SeenAll, AtEnd, ScanInv
<1>9. Counted'
  <2> SUFFICES ASSUME NEW k \in Keys PROVE got'[k] + Returning(k)' = Cardinality(Before(k)')
    BY <1>1 DEF Counted
  <2>1. Before(k)' = {}
    BY <1>1, <1>3, <1>6 DEF Before, Recs
  <2>2. Returning(k)' = 0
    BY <1>1, <1>2 DEF Returning
  <2> QED BY <1>1, <2>1, <2>2, FS_EmptySet
<1>10. still' \cap Changing' = {}
  BY <1>1, <1>3
<1> QED BY <1>4, <1>5, <1>7, <1>8, <1>9, <1>10 DEF ScanInv

\* Nothing happens.
LEMMA ScanSameInv == ASSUME ScanInv, UNCHANGED scanVars PROVE ScanInv'
<1>1. UNCHANGED <<table, idx, dat, lock, pc, db, loc, calls, kv, call, ret>>
  BY DEF scanVars, vars
<1>2. UNCHANGED <<pos, key, ptr, got, still, recent, mixed>>
  BY DEF scanVars, handle, history
<1>3. /\ \A p : Away(p)' = Away(p)
      /\ Changing' = Changing /\ Recs' = Recs /\ \A r : readidx(r)' = readidx(r)
  BY <1>1 DEF Away, Changing, Recs, readidx
<1>4. ScanGood'
  <2>1. scanPc' = scanPc /\ scanLock' = scanLock /\ scanDb' = scanDb
    BY <1>1, <1>3 DEF scanPc, scanLock, scanDb
  <2>2. [ScanCore!Next]_(ScanCore!vars)
    BY <1>1, <2>1 DEF ScanCore!vars
  <2> QED BY <2>2, ScanGoodStep DEF ScanInv
<1>5. ScanTypes' /\ ScanLock' /\ ScanResting'
  BY <1>1, <1>2, <1>3 DEF ScanInv, ScanTypes, ScanLock, ScanResting
<1>6. Place' /\ InHand' /\ Returned' /\ SeenAll'
  BY <1>1, <1>2, <1>3 DEF ScanInv, Place, InHand, Returned, SeenAll, AtEnd
<1>7. Counted'
  <2>1. \A k : Returning(k)' = Returning(k) /\ Before(k)' = Before(k)
    BY <1>1, <1>2, <1>3 DEF Returning, Before
  <2> QED BY <1>2, <2>1 DEF ScanInv, Counted
<1> QED BY <1>2, <1>3, <1>4, <1>5, <1>6, <1>7 DEF ScanInv

\* In the beginning the files are empty and nobody is in a function.
LEMMA ScanInitInv == ScanInit => ScanInv
<1> SUFFICES ASSUME ScanInit PROVE ScanInv
  OBVIOUS
<1>1. /\ table = [off \in 0..NHASH |-> 0] /\ idx = <<>> /\ dat = <<>> /\ calls = 0
      /\ lock = [r \in Regions |-> [p \in Procs |-> "none"]]
      /\ pc = [p \in Procs |-> "idle"]
      /\ db = [p \in Procs |-> NoDb] /\ loc = [p \in Procs |-> NoLoc] /\ Abs!Init
      /\ pos = FIRST /\ key = NULL /\ ptr = NULL /\ got = [k \in Keys |-> 0]
      /\ still = Keys /\ mixed = FALSE
  BY DEF ScanInit, Init
<1>2. scanner \in Procs /\ NHASH \in Nat /\ FIRST = NHASH + 1 /\ Len(idx) = 0
  BY <1>1, ScanAssumption, DbAssumption DEF FIRST
<1>3. pc[scanner] = "idle" /\ \A p \in Procs : ~Away(p)
  BY <1>1, <1>2 DEF Away, InNextrec
<1>4. ScanTypes
  <2>1. NoDb \in [ptroff : Nat, idxoff : Nat, datoff : Nat, datlen : Nat, ptrval : Ptr]
    BY DbAssumption DEF NoDb, Ptr
  <2> QED BY <1>1, <1>3, <2>1 DEF ScanTypes, Labels
<1>5. ScanGood
  <2>1. scanPc = [p \in Procs |-> "idle"] /\ scanDb = [p \in Procs |-> NoDb]
    BY <1>1, <1>3 DEF scanPc, scanDb
  <2>2. scanLock = [r \in Regions |-> [p \in Procs |-> "none"]]
    BY <1>1 DEF scanLock
  <2>3. ScanCore!Abs!Init
    BY <1>1 DEF Abs!Init, ScanCore!Abs!Init
  <2>4. ScanCore!Init
    BY <1>1, <2>1, <2>2, <2>3, ScanConstants DEF ScanCore!Init
  <2>5. ScanCore!Init => ScanCore!Empty
    BY ScanConstants, ScanCore!InitEmpty
  <2>6. ScanCore!Empty => ScanCore!Control /\ ScanCore!FileInv
    BY ScanConstants, ScanCore!EmptyFiles
  <2>7. ScanCore!Empty => ScanCore!MapInv({})
    BY ScanConstants, ScanCore!EmptyGood
  <2> QED BY <2>4, <2>5, <2>6, <2>7 DEF ScanGood
<1>6. ScanLock /\ ScanResting
  BY <1>1, <1>2, <1>3 DEF ScanLock, ScanResting, InNextrec
<1>7. Place
  BY <1>1, <1>2, ScanAssumption DEF Place
<1>8. InHand /\ Returned /\ SeenAll
  BY <1>1, <1>3 DEF InHand, Returned, SeenAll, AtEnd
<1>9. Counted
  <2> SUFFICES ASSUME NEW k \in Keys PROVE got[k] + Returning(k) = Cardinality(Before(k))
    BY <1>1 DEF Counted
  <2>1. Before(k) = {}
    BY <1>1, <1>2 DEF Before, Recs
  <2>2. Returning(k) = 0
    BY <1>3 DEF Returning
  <2> QED BY <1>1, <2>1, <2>2, FS_EmptySet
<1>10. Changing = {}
  <2>1. \A p \in Procs : call[p] \notin Requests
    BY <1>1, DbAssumption DEF Abs!Init
  <2> QED BY <2>1 DEF Changing
<1> QED BY <1>4, <1>5, <1>6, <1>7, <1>8, <1>9, <1>10 DEF ScanInv

\* The invariants of Db, and what DbScan adds to them, hold in every state.
THEOREM ScanInvariant == ScanSpec => []ScanInv
<1>1. ScanInv /\ [ScanNext]_scanVars => ScanInv'
  <2> SUFFICES ASSUME ScanInv, ScanNext PROVE ScanInv'
    BY ScanSameInv
  <2>1. ASSUME NEW p \in Procs, Other(p) PROVE ScanInv'
    BY <2>1, OtherInv DEF Other
  <2>2. CASE Nextrec
    BY <2>2, LockInv, ReadIdxInv, DumpInv, ReadDatInv, UnlockInv DEF Nextrec
  <2>3. CASE Finished /\ UNCHANGED <<handle, history>>
    BY <2>3, ScanSameInv DEF Finished, scanVars
  <2> QED BY <2>1, <2>2, <2>3, RewindInv DEF ScanNext
<1> QED BY <1>1, ScanInitInv, PTL DEF ScanSpec

\* Whatever db_nextrec() returns was in the database, key and data together, at
\* some moment of the call, was being stored, or was left behind by a store that
\* ended: for any number of processes that add, delete and reuse records.
THEOREM ReturnsStored == ScanSpec => []NextrecReturnsStored
<1>1. ScanInv => NextrecReturnsStored
  BY DEF ScanInv, Returned, NextrecReturnsStored
<1> QED BY <1>1, ScanInvariant, PTL

\* At the end of a scan the records with a key that nobody touched are the one of
\* the map and those left behind.
LEMMA EndOfScan == ScanInv => ScanComplete
<1> SUFFICES ASSUME ScanInv, AtEnd, ~mixed, NEW k \in still
             PROVE  got[k] = (IF kv[k] = NULL THEN 0 ELSE 1)
                             + Cardinality({o \in LeftBehind : readidx(o).key = k})
  BY DEF ScanComplete, Complete
<1> DEFINE all == {r \in Recs : readidx(r).key = k}
<1> DEFINE left == {o \in LeftBehind : readidx(o).key = k}
<1>1. /\ Len(idx) \in Nat /\ NHASH \in Nat /\ PTR_MAX \in Nat /\ FIRST = NHASH + 1
      /\ k \in Keys /\ got[k] \in Nat
  BY Offsets, DbAssumption DEF ScanInv, ScanTypes
<1>2. got[k] = Cardinality(all)
  <2>1. Returning(k) = 0
    BY DEF Returning, AtEnd
  <2>2. Before(k) = all
    BY DEF Before, ScanInv, SeenAll
  <2> QED BY <1>1, <2>1, <2>2 DEF ScanInv, Counted
<1>3. /\ \A r, s \in Recs :
            /\ readidx(r).key = k /\ r <= PTR_MAX
            /\ readidx(s).key = k /\ s <= PTR_MAX
            => kv[k] # NULL /\ r = s
      /\ kv[k] # NULL => \E r \in Recs : readidx(r).key = k /\ r <= PTR_MAX
      /\ \A p \in Procs, r \in Recs :
            scanPc[p] \in {"append.idxunlock", "store.writeptr"} /\ readidx(r).key = k
                => scanDb[p].idxoff # r
  <2>1. \A p \in Procs : ~ScanCore!Changes(p, k)
    BY DEF ScanCore!Changes, Changing, ScanInv
  <2>2. ScanCore!Recs = Recs /\ \A r : ScanCore!readidx(r) = readidx(r)
    BY DEF ScanCore!Recs, Recs, FIRST, ScanCore!readidx, readidx
  <2> QED BY <1>1, <2>1, <2>2, ScanConstants, ScanCore!KeptKey DEF ScanInv, ScanGood
<1>4. left = {r \in all : r > PTR_MAX}
  BY <1>3 DEF LeftBehind, Recs, scanPc, scanDb, Away, InNextrec
<1>5. IsFiniteSet(left)
  <2>1. IsFiniteSet(Recs)
    BY <1>1, FS_Interval DEF Recs
  <2> QED BY <1>4, <2>1, FS_Subset
<1>6. \A r \in Recs : r > PTR_MAX \/ r <= PTR_MAX
  BY <1>1 DEF Recs
<1>7. CASE kv[k] = NULL
  <2>1. all = left
    BY <1>3, <1>4, <1>6, <1>7
  <2>2. Cardinality(left) \in Nat
    BY <1>5, FS_CardinalityType
  <2>3. got[k] = Cardinality(left)
    BY <1>2, <2>1, Zenon
  <2> QED BY <1>7, <2>2, <2>3
<1>8. CASE kv[k] # NULL
  <2>1. PICK r \in Recs : readidx(r).key = k /\ r <= PTR_MAX
    BY <1>3, <1>8
  <2>2. all = left \cup {r} /\ r \notin left
    BY <1>1, <1>3, <1>4, <1>6, <2>1 DEF Recs
  <2>3. Cardinality(all) = Cardinality(left) + 1 /\ Cardinality(left) \in Nat
    BY <1>5, <2>2, FS_AddElement, FS_CardinalityType
  <2> QED BY <1>2, <1>8, <2>3
<1> QED BY <1>7, <1>8

\* A scan from db_rewind() to the end of the file, with a handle that is used for
\* nothing else, returns every record that nobody touched exactly once, and nothing
\* else that nobody touched but the records left behind: for any number of
\* processes, keys and records around it.
THEOREM ScansAreComplete == ScanSpec => []ScanComplete
BY EndOfScan, ScanInvariant, PTL
=============================================================================
