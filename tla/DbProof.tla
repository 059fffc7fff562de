------------------------------ MODULE DbProof ------------------------------
(***************************************************************************)
(* Proofs about Db, for any number of processes, keys, data, chains and    *)
(* calls: its types, the locks it holds, and that appends extend the files;*)
(* that the files hold the map; and that Db implements KVStore.            *)
(*                                                                         *)
(* What List of DbProps computes is the least set of records that is       *)
(* closed under the pointers.  The inductive invariant says which records  *)
(* are on which list, and in which order, with two functions own and dep,  *)
(* and what every process knows of the lists that it has locked.           *)
(***************************************************************************)
EXTENDS DbProps, SequenceTheorems, FiniteSetTheorems, WellFoundedInduction, TLAPS

\* The offsets of the index records in the file, and what a pointer may be.
Recs == NHASH + 1 .. NHASH + Len(idx)
Target == {0} \cup (Recs \cap Ptr)

\* No pointer and no data offset in the index file dangles.
FilesOK ==
    /\ \A off \in 0..NHASH : table[off] \in Target
    /\ \A i \in 1..Len(idx) : idx[i].ptr \in Target /\ idx[i].datoff \in 1..Len(dat)

\* The steps that are only in db_store(), and those not in db_fetch().
Storing ==
    {"store.head", "store.rehead", "findfree", "findfree.readptr",
     "findfree.readidx", "findfree.writeptr", "findfree.unlock",
     "append.datlock", "append.datseek", "append.datwrite", "append.datunlock",
     "append.idxlock", "append.idxseek", "append.idxwrite", "append.idxunlock",
     "reuse.writedat", "reuse.writeidx", "replace.writedat", "store.writeptr"}
Deleting ==
    {"dodelete", "dodelete.writedat", "dodelete.readptr", "dodelete.writeidx",
     "dodelete.writefree", "dodelete.writeptr", "dodelete.unlock"}

\* Where a process is fits the call it is in.
CallOK(p) ==
    /\ pc[p] \notin {"idle", "exited"} => call[p] \in Requests
    /\ pc[p] = "idle" => call[p] = NULL
    /\ pc[p] = "exited" => call[p] = EXITED
    /\ pc[p] \in Storing => call[p].fn = "store"
    /\ pc[p] \in Deleting => call[p].fn \in {"delete", "store"}
    /\ pc[p] = "fetch.readdat" => call[p].fn = "fetch"

\* The steps that use the index record at idxoff and its data record, and
\* those that have a data record for a new index record.
HasRec ==
    {"fetch.readdat", "dodelete", "dodelete.writedat", "dodelete.readptr",
     "dodelete.writeidx", "dodelete.writefree", "dodelete.writeptr",
     "findfree.writeptr", "reuse.writedat", "reuse.writeidx", "replace.writedat"}
HasDat ==
    {"append.datunlock", "append.idxlock", "append.idxseek", "append.idxwrite"}

\* The offsets a process has read are those of records, until it is done.
LocalOK(p) ==
    /\ pc[p] \in {"find.readidx", "findfree.readidx"} => loc[p].offset \in Recs
    /\ pc[p] \in HasRec => db[p].idxoff \in Recs \cap Ptr /\ db[p].datoff \in 1..Len(dat)
    /\ pc[p] = "findfree.unlock" /\ loc[p].offset # 0 =>
          db[p].idxoff \in Recs \cap Ptr /\ db[p].datoff \in 1..Len(dat)
    /\ pc[p] \in HasDat => db[p].datoff \in 1..Len(dat)
    /\ pc[p] \in {"append.idxunlock", "store.writeptr"} => db[p].idxoff \in Recs
    /\ db[p].ptroff \in 0..NHASH \cup Recs
    /\ loc[p].saveoffset \in 0..NHASH \cup Recs
    /\ db[p].ptrval \in Target
    /\ loc[p].offset \in Target
    /\ loc[p].freeptr \in Target
    /\ loc[p].saveptr \in Target
    /\ loc[p].ptrval \in Target

\* The first part of the inductive invariant: places, calls and locks.
Control ==
    /\ ControlTypeOK
    /\ \A p \in Procs : CallOK(p)
    /\ LockDiscipline

\* What every call has.
LEMMA RequestFn ==
    ASSUME NEW r \in Requests
    PROVE  /\ r.fn \in {"fetch", "delete", "store"}
           /\ r.key \in Keys
           /\ r.fn = "store" => r.data \in Data
           /\ Hash[r.key] \in Chains
  BY DbAssumption DEF Abs!Request

\* The locked regions are different ones.
LEMMA RegionFacts ==
    /\ FREE_OFF \in Regions /\ IDX_TAIL \in Regions /\ DATFILE \in Regions
    /\ FREE_OFF # IDX_TAIL /\ FREE_OFF # DATFILE /\ IDX_TAIL # DATFILE
    /\ \A c \in Chains : c \in Regions /\ c # FREE_OFF /\ c # IDX_TAIL /\ c # DATFILE
  BY DbAssumption DEF FREE_OFF, IDX_TAIL, DATFILE, Regions, Chains

\* A step that changes one lock of p as its place in the code changes keeps the
\* discipline, when the lock it takes is free ...
LEMMA LockStep ==
    ASSUME NEW p \in Procs, NEW r \in Regions, NEW mode \in {"none", "read", "write"},
           ControlTypeOK, LockDiscipline,
           lock' = [lock EXCEPT ![r][p] = mode],
           mode # "none" => \A q \in Procs \ {p} : lock[r][q] # "write",
           mode = "write" => \A q \in Procs \ {p} : lock[r][q] = "none",
           \A q \in Procs \ {p} : pc'[q] = pc[q] /\ call'[q] = call[q],
           \A s \in Regions : LockOf(p, s)' = IF s = r THEN mode ELSE LockOf(p, s)
    PROVE  LockDiscipline'
<1>1. \A q \in Procs \ {p}, s \in Regions : LockOf(q, s)' = LockOf(q, s)
  BY DEF LockOf, Held, chainoff
<1>2. \A q \in Procs, s \in Regions :
        lock'[s][q] = IF q = p /\ s = r THEN mode ELSE lock[s][q]
  BY DEF ControlTypeOK
<1>3. \A q \in Procs, s \in Regions : lock'[s][q] = LockOf(q, s)'
  BY <1>1, <1>2 DEF LockDiscipline
<1>4. \A q1, q2 \in Procs, s \in Regions :
        q1 # q2 /\ lock'[s][q1] = "write" => lock'[s][q2] = "none"
  BY <1>2 DEF LockDiscipline, ControlTypeOK
<1> QED BY <1>3, <1>4 DEF LockDiscipline

\* ... and so does one that changes neither.
LEMMA NoLockStep ==
    ASSUME NEW p \in Procs, LockDiscipline, lock' = lock,
           \A q \in Procs \ {p} : pc'[q] = pc[q] /\ call'[q] = call[q],
           \A s \in Regions : LockOf(p, s)' = LockOf(p, s)
    PROVE  LockDiscipline'
<1>1. \A q \in Procs, s \in Regions : LockOf(q, s)' = LockOf(q, s)
  BY DEF LockOf, Held, chainoff
<1> QED BY <1>1 DEF LockDiscipline

----------------------------------------------------------------------------
\* The labels, the call and the types of the interface, step by step.
LEMMA Calls ==
    ASSUME NEW p \in Procs, Control, Call(p) \/ Step(p)
    PROVE  \A q \in Procs : CallOK(q)'
<1> USE DEF Control, ControlTypeOK, CallOK, Storing, Deleting,
            Transition, Goto, Lock, Release, client
<1>1. CASE Call(p)
  BY <1>1, DbAssumption DEF Call, Abs!Call
<1>2. CASE Find(p)
  <2>1. CASE FindLock(p) \/ FindReadPtr(p)
    BY <2>1, RequestFn DEF FindLock, FindReadPtr, FindNext, NotFound
  <2>2. CASE FindReadIdx(p)
    BY <2>2, RequestFn DEF FindReadIdx, FindNext, NotFound, Found
  <2> QED BY <1>2, <2>1, <2>2 DEF Find
<1>3. CASE DoDelete(p)
  BY <1>3 DEF DoDelete, DelLock, DelWriteDat, DelReadFree, DelWriteIdx,
              DelWriteFree, DelWritePtr, DelUnlock
<1>4. CASE FindFree(p)
  BY <1>4 DEF FindFree, FreeLock, FreeReadPtr, FreeReadIdx, FreeWritePtr,
              FreeUnlock, FreeNext
<1>5. CASE AppendDat(p) \/ AppendIdx(p)
  BY <1>5 DEF AppendDat, AppendDatLock, AppendDatSeek, AppendDatWrite, AppendDatUnlock,
              AppendIdx, AppendIdxLock, AppendIdxSeek, AppendIdxWrite, AppendIdxUnlock
<1>6. CASE Store(p)
  BY <1>6 DEF Store, StoreHead, StoreWriteDat, StoreWriteIdx, StoreWritePtr, StoreQuit
<1>7. CASE FetchReadDat(p) \/ Unlock(p)
  BY <1>7 DEF FetchReadDat, Unlock
<1> QED BY <1>1, <1>2, <1>3, <1>4, <1>5, <1>6, <1>7 DEF Step

\* The types of the labels, the locks, the calls and the map, step by step.
LEMMA ControlTypes ==
    ASSUME NEW p \in Procs, Control, Call(p) \/ Step(p)
    PROVE  ControlTypeOK'
<1> USE DEF Control, Labels, Transition, Goto, Lock, Release, client
<1> USE RegionFacts
<1>0. pc[p] \notin {"idle", "exited"} =>
        /\ call[p] \in Requests /\ call[p].key \in Keys /\ chainoff(p) \in Regions
        /\ call[p].fn \in {"fetch", "delete", "store"}
        /\ call[p].fn = "store" => call[p].data \in Data
  BY RequestFn DEF CallOK, chainoff
<1>1. pc' \in [Procs -> Labels]
  <2> USE DEF ControlTypeOK
  <2>1. CASE Call(p) \/ FetchReadDat(p) \/ Unlock(p)
    BY <2>1 DEF Call, FetchReadDat, Unlock
  <2>2. CASE Find(p)
    <3>1. CASE FindLock(p)
      BY <3>1 DEF FindLock
    <3>2. CASE FindReadPtr(p)
      BY <1>0, <3>2 DEF FindReadPtr, FindNext, NotFound
    <3>3. CASE FindReadIdx(p)
      BY <1>0, <3>3 DEF FindReadIdx, FindNext, NotFound, Found
    <3> QED BY <2>2, <3>1, <3>2, <3>3 DEF Find
  <2>3. CASE DoDelete(p)
    BY <2>3 DEF DoDelete, DelLock, DelWriteDat, DelReadFree, DelWriteIdx,
                DelWriteFree, DelWritePtr, DelUnlock
  <2>4. CASE FindFree(p)
    BY <2>4 DEF FindFree, FreeLock, FreeReadPtr, FreeReadIdx, FreeWritePtr,
                FreeUnlock, FreeNext
  <2>5. CASE AppendDat(p) \/ AppendIdx(p)
    BY <2>5 DEF AppendDat, AppendDatLock, AppendDatSeek, AppendDatWrite, AppendDatUnlock,
                AppendIdx, AppendIdxLock, AppendIdxSeek, AppendIdxWrite, AppendIdxUnlock
  <2>6. CASE Store(p)
    BY <2>6 DEF Store, StoreHead, StoreWriteDat, StoreWriteIdx, StoreWritePtr, StoreQuit
  <2> QED BY <2>1, <2>2, <2>3, <2>4, <2>5, <2>6 DEF Step
<1>2. lock' \in [Regions -> [Procs -> {"none", "read", "write"}]]
  <2> DEFINE One == \E r \in Regions : un_lock(p, r) \/ readw_lock(p, r) \/ writew_lock(p, r)
  <2>1. ASSUME One PROVE lock' \in [Regions -> [Procs -> {"none", "read", "write"}]]
    <3>1. PICK r \in Regions, mode \in {"none", "read", "write"} :
            lock' = [lock EXCEPT ![r][p] = mode]
      BY <2>1 DEF un_lock, readw_lock, writew_lock
    <3> QED BY <3>1 DEF ControlTypeOK
  <2>2. CASE StoreQuit(p)
    <3>1. \A r \in Regions : [lock[r] EXCEPT ![p] = "none"] \in [Procs -> {"none", "read", "write"}]
      BY DEF ControlTypeOK
    <3> QED BY <2>2, <3>1 DEF StoreQuit, unlock_all
  <2>3. CASE ~StoreQuit(p)
    <3>1. One \/ lock' = lock
      <4>1. CASE Call(p) \/ FetchReadDat(p) \/ Unlock(p)
        BY <1>0, <4>1 DEF Call, FetchReadDat, Unlock
      <4>2. CASE Find(p)
        BY <1>0, <4>2 DEF Find, FindLock, FindReadPtr, FindReadIdx
      <4>3. CASE DoDelete(p)
        BY <4>3 DEF DoDelete, DelLock, DelWriteDat, DelReadFree, DelWriteIdx,
                    DelWriteFree, DelWritePtr, DelUnlock
      <4>4. CASE FindFree(p)
        BY <4>4 DEF FindFree, FreeLock, FreeReadPtr, FreeReadIdx, FreeWritePtr, FreeUnlock
      <4>5. CASE AppendDat(p) \/ AppendIdx(p)
        BY <4>5 DEF AppendDat, AppendDatLock, AppendDatSeek, AppendDatWrite, AppendDatUnlock,
                    AppendIdx, AppendIdxLock, AppendIdxSeek, AppendIdxWrite, AppendIdxUnlock
      <4>6. CASE Store(p)
        BY <2>3, <4>6 DEF Store, StoreHead, StoreWriteDat, StoreWriteIdx, StoreWritePtr
      <4> QED BY <4>1, <4>2, <4>3, <4>4, <4>5, <4>6 DEF Step
    <3> HIDE DEF One
    <3> QED BY <2>1, <3>1 DEF ControlTypeOK
  <2> QED BY <2>2, <2>3
<1>3. /\ calls' \in 0..MaxCalls /\ kv' \in [Keys -> Data \cup {BLANK, NULL}]
      /\ call' \in [Procs -> Requests \cup {NULL, EXITED}]
  <2> USE DEF ControlTypeOK
  <2>1. CASE Call(p)
    BY <2>1, DbAssumption DEF Call, Abs!Call
  <2>2. CASE Unlock(p)
    <3>1. kv' \in [Keys -> Data \cup {BLANK, NULL}]
      BY <1>0, <2>2 DEF Unlock, Abs!Effect
    <3> QED BY <2>2, <3>1 DEF Unlock
  <2>3. CASE StoreQuit(p)
    BY <1>0, <2>3 DEF StoreQuit
  <2>4. CASE UNCHANGED client
    BY <2>4
  <2>5. CASE Find(p) \/ FetchReadDat(p) \/ FindFree(p)
    BY <2>4, <2>5 DEF Find, FindLock, FindReadPtr, FindReadIdx, FetchReadDat,
       FindFree, FreeLock, FreeReadPtr, FreeReadIdx, FreeWritePtr, FreeUnlock
  <2>6. CASE DoDelete(p)
    BY <2>4, <2>6 DEF DoDelete, DelLock, DelWriteDat, DelReadFree, DelWriteIdx,
       DelWriteFree, DelWritePtr, DelUnlock
  <2>7. CASE AppendDat(p) \/ AppendIdx(p)
    BY <2>4, <2>7 DEF AppendDat, AppendDatLock, AppendDatSeek, AppendDatWrite, AppendDatUnlock,
       AppendIdx, AppendIdxLock, AppendIdxSeek, AppendIdxWrite, AppendIdxUnlock
  <2>8. CASE Store(p) /\ ~StoreQuit(p)
    BY <2>4, <2>8 DEF Store, StoreHead, StoreWriteDat, StoreWriteIdx, StoreWritePtr
  <2> QED BY <2>1, <2>2, <2>3, <2>5, <2>6, <2>7, <2>8 DEF Step
<1> HIDE DEF Labels
<1> QED BY <1>1, <1>2, <1>3 DEF ControlTypeOK

\* LockStep for each lock operation: when p takes a write lock, ...
LEMMA TakeWrite ==
    ASSUME NEW p \in Procs, NEW r \in Regions, ControlTypeOK, LockDiscipline,
           writew_lock(p, r),
           \A q \in Procs \ {p} : pc'[q] = pc[q] /\ call'[q] = call[q],
           \A s \in Regions : LockOf(p, s)' = IF s = r THEN "write" ELSE LockOf(p, s)
    PROVE  LockDiscipline'
  BY LockStep DEF writew_lock

\* ... when it takes a read lock ...
LEMMA TakeRead ==
    ASSUME NEW p \in Procs, NEW r \in Regions, ControlTypeOK, LockDiscipline,
           readw_lock(p, r),
           \A q \in Procs \ {p} : pc'[q] = pc[q] /\ call'[q] = call[q],
           \A s \in Regions : LockOf(p, s)' = IF s = r THEN "read" ELSE LockOf(p, s)
    PROVE  LockDiscipline'
  BY LockStep DEF readw_lock

\* ... when a process unlocks a region.
LEMMA Drop ==
    ASSUME NEW p \in Procs, NEW r \in Regions, ControlTypeOK, LockDiscipline,
           un_lock(p, r),
           \A q \in Procs \ {p} : pc'[q] = pc[q] /\ call'[q] = call[q],
           \A s \in Regions : LockOf(p, s)' = IF s = r THEN "none" ELSE LockOf(p, s)
    PROVE  LockDiscipline'
  BY LockStep DEF un_lock

\* The locks, step by step: a step that takes or drops a lock moves the process
\* into or out of the places that call for it, other steps stay where they are.
LEMMA Locks ==
    ASSUME NEW p \in Procs, Control, Call(p) \/ Step(p)
    PROVE  LockDiscipline'
<1> USE DEF CallOK, Storing, Deleting, Transition, Goto, Lock, Release, client
<1> USE RegionFacts
<1>0. /\ LockDiscipline /\ ControlTypeOK /\ CallOK(p)
      /\ pc[p] \notin {"idle", "exited"} => chainoff(p) \in Chains
  BY RequestFn DEF Control, chainoff
<1> DEFINE Moves(r, mode) ==
             \A s \in Regions : LockOf(p, s)' = IF s = r THEN mode ELSE LockOf(p, s)
<1> DEFINE Stays == \A s \in Regions : LockOf(p, s)' = LockOf(p, s)
<1> DEFINE Others == \A q \in Procs \ {p} : pc'[q] = pc[q] /\ call'[q] = call[q]
<1> USE DEF LockOf, Held, FreeLocked, TailLocked, DatLocked, Outside
<1>t. pc \in [Procs -> Labels] /\ call \in [Procs -> Requests \cup {NULL, EXITED}]
  BY <1>0 DEF ControlTypeOK
<1>1. CASE FindLock(p)
  <2>1. Others /\ chainoff(p) \in Regions
    BY <1>0, <1>t, <1>1 DEF FindLock
  <2>2. CASE call[p].fn = "fetch"
    <3>1. readw_lock(p, chainoff(p)) /\ Moves(chainoff(p), "read")
      BY <1>0, <1>t, <1>1, <2>2 DEF FindLock, chainoff
    <3> HIDE DEF LockOf
    <3> QED BY <1>0, <2>1, <3>1, TakeRead
  <2>3. CASE call[p].fn # "fetch"
    <3>1. writew_lock(p, chainoff(p)) /\ Moves(chainoff(p), "write")
      BY <1>0, <1>t, <1>1, <2>3 DEF FindLock, chainoff
    <3> HIDE DEF LockOf
    <3> QED BY <1>0, <2>1, <3>1, TakeWrite
  <2> QED BY <2>2, <2>3
<1>2. CASE DelLock(p) \/ FreeLock(p)
  <2>1. Others /\ writew_lock(p, FREE_OFF) /\ Moves(FREE_OFF, "write")
    BY <1>0, <1>t, <1>2 DEF DelLock, FreeLock, chainoff
  <2> HIDE DEF LockOf
  <2> QED BY <1>0, <2>1, TakeWrite
<1>3. CASE AppendDatLock(p)
  <2>1. Others /\ writew_lock(p, DATFILE) /\ Moves(DATFILE, "write")
    BY <1>0, <1>t, <1>3 DEF AppendDatLock, chainoff
  <2> HIDE DEF LockOf
  <2> QED BY <1>0, <2>1, TakeWrite
<1>4. CASE AppendIdxLock(p)
  <2>1. Others /\ writew_lock(p, IDX_TAIL) /\ Moves(IDX_TAIL, "write")
    BY <1>0, <1>t, <1>4 DEF AppendIdxLock, chainoff
  <2> HIDE DEF LockOf
  <2> QED BY <1>0, <2>1, TakeWrite
<1>5. CASE DelUnlock(p) \/ FreeUnlock(p)
  <2>1. Others /\ un_lock(p, FREE_OFF) /\ Moves(FREE_OFF, "none")
    BY <1>0, <1>t, <1>5 DEF DelUnlock, FreeUnlock, chainoff
  <2> HIDE DEF LockOf
  <2> QED BY <1>0, <2>1, Drop
<1>6. CASE AppendDatUnlock(p)
  <2>1. Others /\ un_lock(p, DATFILE) /\ Moves(DATFILE, "none")
    BY <1>0, <1>t, <1>6 DEF AppendDatUnlock, chainoff
  <2> HIDE DEF LockOf
  <2> QED BY <1>0, <2>1, Drop
<1>7. CASE AppendIdxUnlock(p)
  <2>1. Others /\ un_lock(p, IDX_TAIL) /\ Moves(IDX_TAIL, "none")
    BY <1>0, <1>t, <1>7 DEF AppendIdxUnlock, chainoff
  <2> HIDE DEF LockOf
  <2> QED BY <1>0, <2>1, Drop
<1>8. CASE Unlock(p)
  <2>1. Others /\ un_lock(p, chainoff(p)) /\ chainoff(p) \in Regions
    BY <1>0, <1>t, <1>8 DEF Unlock
  <2>2. Moves(chainoff(p), "none")
    BY <1>0, <1>t, <1>8 DEF Unlock, chainoff
  <2> HIDE DEF LockOf
  <2> QED BY <1>0, <2>1, <2>2, Drop
<1>9. CASE StoreQuit(p)
  <2>1. Others
    BY <1>0, <1>t, <1>9 DEF StoreQuit
  <2>2. \A s \in Regions : LockOf(p, s)' = "none"
    BY <1>0, <1>t, <1>9 DEF StoreQuit
  <2>3. \A q \in Procs \ {p}, s \in Regions : LockOf(q, s)' = LockOf(q, s)
    BY <2>1 DEF chainoff
  <2>4. \A q \in Procs, s \in Regions :
          lock'[s][q] = IF q = p THEN "none" ELSE lock[s][q]
    BY <1>0, <1>t, <1>9 DEF StoreQuit, unlock_all, ControlTypeOK
  <2> HIDE DEF LockOf
  <2> QED BY <1>0, <2>2, <2>3, <2>4 DEF LockDiscipline
<1>10. CASE \/ Call(p) \/ FindReadPtr(p) \/ FindReadIdx(p) \/ FetchReadDat(p)
  <2>1. Others /\ lock' = lock
    BY <1>0, <1>t, <1>10 DEF Call, Abs!Call, FindReadPtr, FindReadIdx, FindNext, FetchReadDat
  <2>2. Stays
    BY <1>0, <1>t, <1>10 DEF Call, Abs!Call, FindReadPtr, FindReadIdx, FindNext, FetchReadDat,
                       NotFound, Found, chainoff
  <2> HIDE DEF LockOf
  <2> QED BY <1>0, <2>1, <2>2, NoLockStep
<1>11. CASE \/ DelWriteDat(p) \/ DelReadFree(p) \/ DelWriteIdx(p)
            \/ DelWriteFree(p) \/ DelWritePtr(p)
  <2>1. Others /\ Stays /\ lock' = lock
    BY <1>0, <1>t, <1>11 DEF DelWriteDat, DelReadFree, DelWriteIdx, DelWriteFree, DelWritePtr,
                       chainoff
  <2> HIDE DEF LockOf
  <2> QED BY <1>0, <2>1, NoLockStep
<1>12. CASE \/ StoreHead(p) \/ FreeReadPtr(p) \/ FreeReadIdx(p) \/ FreeWritePtr(p)
  <2>1. Others /\ Stays /\ lock' = lock
    BY <1>0, <1>t, <1>12 DEF StoreHead, FreeReadPtr, FreeReadIdx, FreeWritePtr, FreeNext, chainoff
  <2> HIDE DEF LockOf
  <2> QED BY <1>0, <2>1, NoLockStep
<1>13. CASE \/ AppendDatSeek(p) \/ AppendDatWrite(p) \/ AppendIdxSeek(p)
            \/ AppendIdxWrite(p)
  <2>1. Others /\ Stays /\ lock' = lock
    BY <1>0, <1>t, <1>13 DEF AppendDatSeek, AppendDatWrite, AppendIdxSeek, AppendIdxWrite, chainoff
  <2> HIDE DEF LockOf
  <2> QED BY <1>0, <2>1, NoLockStep
<1>14. CASE StoreWriteDat(p) \/ StoreWriteIdx(p) \/ StoreWritePtr(p)
  <2>1. Others /\ Stays /\ lock' = lock
    BY <1>0, <1>t, <1>14 DEF StoreWriteDat, StoreWriteIdx, StoreWritePtr, chainoff
  <2> HIDE DEF LockOf
  <2> QED BY <1>0, <2>1, NoLockStep
<1> QED
  BY <1>1, <1>2, <1>3, <1>4, <1>5, <1>6, <1>7, <1>8, <1>9, <1>10, <1>11, <1>12, <1>13, <1>14
  DEF Step, Find, DoDelete, FindFree, AppendDat, AppendIdx, Store

\* Every step keeps the places, the calls and the locks right.
LEMMA ControlStep == Control /\ [Next]_vars => Control'
<1> SUFFICES ASSUME Control, [Next]_vars PROVE Control'
  OBVIOUS
<1>1. ASSUME NEW p \in Procs, Call(p) \/ Step(p) PROVE Control'
  BY <1>1, Calls, ControlTypes, Locks DEF Control
<1>2. CASE UNCHANGED vars
  BY <1>2 DEF vars, Control, ControlTypeOK, CallOK, LockDiscipline, LockOf, Held, chainoff
<1> QED BY <1>1, <1>2 DEF Next, Finished

\* At every moment each process is at a place of a function that its call can
\* reach, and holds exactly the locks lock_reg() has given it there: the calls
\* to un_lock() in db_fetch(), db_store(), db_delete(), _db_dodelete(),
\* _db_findfree(), _db_writedat() and _db_writeidx() undo every lock on every
\* path.  Inductive by itself.
THEOREM ControlInvariant == Spec => []Control
<1>1. Init => Control
  BY DbAssumption DEF Init, Abs!Init, Control, ControlTypeOK, CallOK, LockDiscipline,
     LockOf, Held, Outside, FreeLocked, TailLocked, DatLocked, Labels, Storing, Deleting
<1> QED BY <1>1, ControlStep, PTL DEF Spec
----------------------------------------------------------------------------
\* What a write does to the files.
LEMMA WritePtrOK ==
    ASSUME FileTypeOK, FilesOK, NEW off \in 0..NHASH \cup Recs, NEW val \in Target,
           writeptr(off, val), dat' = dat
    PROVE  /\ table' \in [0..NHASH -> Ptr] /\ idx' \in Seq(IdxRec)
           /\ Len(idx') = Len(idx)
           /\ FilesOK'
<1> USE DEF FileTypeOK, FilesOK, Target, Recs
<1>0. NHASH \in Nat /\ PTR_MAX \in Nat /\ val \in Ptr
  BY DbAssumption DEF Ptr
<1>1. CASE off \in 0..NHASH
  BY <1>0, <1>1 DEF writeptr
<1>2. CASE off \notin 0..NHASH
  <2> DEFINE i == off - NHASH
  <2> DEFINE rec == [idx[i] EXCEPT !.ptr = val]
  <2>1. i \in 1..Len(idx) /\ idx' = [idx EXCEPT ![i] = rec] /\ table' = table
    BY <1>0, <1>2 DEF writeptr
  <2>2. idx[i] \in IdxRec
    BY <2>1
  <2>3. rec \in IdxRec /\ rec.ptr = val /\ rec.datoff = idx[i].datoff
    BY <1>0, <2>2 DEF IdxRec
  <2> HIDE DEF rec, i
  <2> QED BY <1>0, <2>1, <2>3, ExceptSeq
<1> QED BY <1>1, <1>2

\* An index record overwritten or appended.
LEMMA WriteIdxOK ==
    ASSUME FileTypeOK, FilesOK, NEW i \in 1..Len(idx) + 1, NEW rec \in IdxRec,
           rec.ptr \in Target, rec.datoff \in 1..Len(dat),
           idx' = WriteAt(idx, i, rec), table' = table, dat' = dat
    PROVE  /\ idx' \in Seq(IdxRec)
           /\ Len(idx') = IF i = Len(idx) + 1 THEN i ELSE Len(idx)
           /\ FilesOK'
<1> USE DEF FileTypeOK, FilesOK, Target, Recs, WriteAt
<1>0. NHASH \in Nat /\ PTR_MAX \in Nat
  BY DbAssumption
<1>1. CASE i = Len(idx) + 1
  <2>1. idx' = Append(idx, rec) /\ Len(idx') = Len(idx) + 1 /\ idx' \in Seq(IdxRec)
    BY <1>1
  <2>2. \A j \in 1..Len(idx') : idx'[j] = IF j = i THEN rec ELSE idx[j]
    BY <1>1, <2>1
  <2> QED BY <1>0, <1>1, <2>1, <2>2
<1>2. CASE i # Len(idx) + 1
  BY <1>0, <1>2, ExceptSeq
<1> QED BY <1>1, <1>2

\* A data record overwritten.
LEMMA WriteDatOK ==
    ASSUME FileTypeOK, NEW i \in 1..Len(dat), NEW d \in Data \cup {BLANK},
           dat' = [dat EXCEPT ![i].data = d]
    PROVE  dat' \in Seq(DatRec) /\ Len(dat') = Len(dat)
<1> DEFINE rec == [dat[i] EXCEPT !.data = d]
<1>0. dat \in Seq(DatRec)
  BY DEF FileTypeOK
<1>1. dat[i] \in DatRec
  BY <1>0
<1>2. rec \in DatRec
  BY <1>1 DEF DatRec
<1>3. dat' = [dat EXCEPT ![i] = rec]
  OBVIOUS
<1> HIDE DEF rec
<1> QED BY <1>0, <1>2, <1>3, ExceptSeq

\* The files and what the processes remember of them.
FileInv ==
    /\ FileTypeOK
    /\ FilesOK
    /\ \A p \in Procs : LocalOK(p)
    /\ AppendAtEnd

DbType == [ptroff : Nat, idxoff : Nat, datoff : Nat, datlen : Nat, ptrval : Ptr]
LocType == [offset : Ptr, saveoffset : Nat, freeptr : Ptr, saveptr : Ptr,
            ptrval : Ptr, rc : Result]

\* A process that does not step keeps what it remembers: files only grow.
LEMMA OthersOK ==
    ASSUME NEW q \in Procs, LocalOK(q), FileTypeOK,
           Len(idx') \in Nat, Len(dat') \in Nat,
           Len(idx') >= Len(idx), Len(dat') >= Len(dat),
           pc'[q] = pc[q], db'[q] = db[q], loc'[q] = loc[q]
    PROVE  LocalOK(q)'
<1>1. NHASH \in Nat /\ PTR_MAX \in Nat /\ Len(idx) \in Nat /\ Len(dat) \in Nat
  BY DbAssumption DEF FileTypeOK
<1>2. \A x : x \in Recs => x \in Recs'
  BY <1>1 DEF Recs
<1>3. \A x : x \in 1..Len(dat) => x \in 1..Len(dat')
  BY <1>1
<1>4. \A x : x \in Target => x \in Target'
  BY <1>2 DEF Target
<1> QED BY <1>2, <1>3, <1>4 DEF LocalOK

\* Everything but process p's own memory stays as it is.
Keeps(p) ==
    \A q \in Procs \ {p} : pc'[q] = pc[q] /\ db'[q] = db[q] /\ loc'[q] = loc[q]

MemoryTypeOK ==
    db \in [Procs -> DbType] /\ loc \in [Procs -> LocType] /\ ret \in [Procs -> Result]

\* The parts of FileInv, for any process.
LEMMA FileParts ==
    ASSUME NEW p \in Procs, Control, FileInv
    PROVE  /\ FileTypeOK /\ FilesOK /\ LocalOK(p) /\ MemoryTypeOK /\ pc \in [Procs -> Labels]
           /\ idx \in Seq(IdxRec) /\ dat \in Seq(DatRec) /\ table \in [0..NHASH -> Ptr]
           /\ Len(idx) \in Nat /\ Len(dat) \in Nat
<1>1. FileTypeOK /\ FilesOK /\ LocalOK(p)
  BY DEF FileInv
<1>2. /\ idx \in Seq(IdxRec) /\ dat \in Seq(DatRec) /\ table \in [0..NHASH -> Ptr]
  BY <1>1 DEF FileTypeOK
<1>3. MemoryTypeOK
  BY <1>1 DEF FileTypeOK, MemoryTypeOK, DbType, LocType
<1>4. Len(idx) \in Nat /\ Len(dat) \in Nat
  BY <1>2
<1>5. pc \in [Procs -> Labels]
  BY DEF Control, ControlTypeOK
<1> QED BY <1>1, <1>2, <1>3, <1>4, <1>5

\* Steps that leave the files alone: reads, locks, calls and returns.
LEMMA ReadStep ==
    ASSUME NEW p \in Procs, FileInv, UNCHANGED files, Keeps(p), MemoryTypeOK',
           LocalOK(p)',
           /\ pc'[p] = "append.datwrite" => db'[p].datoff = Len(dat) + 1
           /\ pc'[p] = "append.idxwrite" => db'[p].idxoff = NHASH + Len(idx) + 1
    PROVE  FileInv'
<1>1. FileTypeOK'
  BY DEF FileInv, FileTypeOK, MemoryTypeOK, DbType, LocType, files
<1>2. FilesOK'
  BY DEF FileInv, FilesOK, Target, Recs, files
<1>3. \A q \in Procs \ {p} : LocalOK(q)'
  <2>1. Len(idx) \in Nat /\ Len(dat) \in Nat /\ idx' = idx /\ dat' = dat
    BY DEF FileInv, FileTypeOK, files
  <2> QED BY <2>1, OthersOK DEF FileInv, Keeps
<1>4. AppendAtEnd'
  BY DEF FileInv, FileTypeOK, AppendAtEnd, files, Keeps
<1> QED BY <1>1, <1>2, <1>3, <1>4 DEF FileInv

\* What the pointers in the files, and a record, are good for.
LEMMA PtrOK ==
    ASSUME FileInv, NEW off \in 0..NHASH \cup Recs
    PROVE  /\ readptr(off) \in Target
           /\ off \in Recs => readidx(off) \in IdxRec /\ readidx(off).ptr \in Target
                               /\ readidx(off).datoff \in 1..Len(dat)
  BY DbAssumption DEF FileInv, FileTypeOK, FilesOK, readptr, readidx, Recs

\* A pointer fits its field, and is that of a record unless it is 0.
LEMMA TargetOK ==
    FileInv => \A t \in Target : t \in Ptr /\ (t # 0 => t \in Recs) /\ t \in 0..NHASH \cup Recs
  BY DbAssumption DEF Target, Recs, Ptr, FileInv, FileTypeOK

\* They are the same as long as nobody writes.
LEMMA SameTargets ==
    UNCHANGED files => Recs' = Recs /\ Target' = Target /\ dat' = dat
  BY DEF files, Recs, Target

\* The next iteration of _db_find()'s loop.
LEMMA FindNextOK ==
    ASSUME NEW p \in Procs, call[p] \in Requests, MemoryTypeOK, pc \in [Procs -> Labels],
           NEW off \in Ptr, NEW d \in DbType, FindNext(p, d, off)
    PROVE  /\ loc' \in [Procs -> LocType] /\ db' \in [Procs -> DbType]
           /\ \A q \in Procs \ {p} : loc'[q] = loc[q] /\ db'[q] = db[q] /\ pc'[q] = pc[q]
           /\ loc'[p].offset = off
           /\ loc'[p].saveoffset = 0 /\ loc'[p].freeptr = 0
           /\ loc'[p].saveptr = 0 /\ loc'[p].ptrval = 0
           /\ db'[p] = d \/ (db'[p].ptroff = 0 /\ db'[p].ptrval = 0)
           /\ pc'[p] \in {"find.readidx", "unlock", "store.head"}
           /\ pc'[p] = "find.readidx" => off # 0
<1> DEFINE after == IF off # 0 THEN [pc |-> "find.readidx", rc |-> NULL]
                               ELSE NotFound(call[p])
<1>1. /\ after.pc \in {"find.readidx", "unlock", "store.head"}
      /\ after.pc = "find.readidx" => off # 0
      /\ after.rc \in Result
  BY DEF NotFound, Result
<1>2. /\ pc' = [pc EXCEPT ![p] = after.pc]
      /\ loc' = [loc EXCEPT ![p] = [NoLoc EXCEPT !.offset = off, !.rc = after.rc]]
      /\ db' = [db EXCEPT ![p] = IF off # 0 THEN d ELSE NoDb]
  BY DEF FindNext, Goto
<1>3. 0 \in Ptr /\ 0 \in Nat
  BY DbAssumption DEF Ptr
<1> HIDE DEF after
<1>4. NoDb \in DbType /\ NoDb.ptroff = 0 /\ NoDb.ptrval = 0
  BY <1>3 DEF NoDb, DbType
<1>5. [NoLoc EXCEPT !.offset = off, !.rc = after.rc] \in LocType
  BY <1>1, <1>3 DEF NoLoc, LocType
<1> QED BY <1>1, <1>2, <1>4, <1>5 DEF MemoryTypeOK, NoLoc

\* What _db_readidx() puts into the DB structure.
LEMMA AfterReadIdxOK ==
    ASSUME NEW d \in DbType, FileInv, NEW off \in Recs
    PROVE  /\ AfterReadIdx(d, off) \in DbType
           /\ AfterReadIdx(d, off).ptroff = d.ptroff
           /\ AfterReadIdx(d, off).idxoff = off
           /\ AfterReadIdx(d, off).ptrval = readidx(off).ptr
           /\ AfterReadIdx(d, off).datoff = readidx(off).datoff
<1>1. readidx(off) \in IdxRec /\ off \in Nat
  BY PtrOK, DbAssumption DEF Recs
<1> HIDE DEF readidx
<1> QED BY <1>1 DEF AfterReadIdx, DbType, IdxRec

\* The steps of _db_find().
LEMMA FindFiles ==
    ASSUME NEW p \in Procs, Control, FileInv, Find(p)
    PROVE  FileInv'
<1> USE DEF Transition, Goto, client
<1>0. /\ call[p] \in Requests /\ chainoff(p) \in 0..NHASH /\ chainoff(p) \in Nat
      /\ NULL \in Result /\ 0 \in Result /\ 1 \in Result /\ -1 \in Result
  <2>1. call[p] \in Requests
    BY DEF Control, CallOK, Find, FindLock, FindReadPtr, FindReadIdx
  <2> QED BY <2>1, RequestFn, DbAssumption DEF chainoff, Chains, Result
<1>1. /\ FileTypeOK /\ LocalOK(p) /\ MemoryTypeOK /\ pc \in [Procs -> Labels]
  BY FileParts
<1>2. CASE FindLock(p)
  <2>1. UNCHANGED files /\ Keeps(p) /\ MemoryTypeOK' /\ pc'[p] = "find.readptr"
    BY <1>1, <1>2 DEF FindLock, Keeps, MemoryTypeOK
  <2>2. LocalOK(p)'
    BY <1>1, <1>2, <2>1 DEF FindLock, LocalOK, HasRec, HasDat, Target, Recs, files
  <2> QED BY <2>1, <2>2, ReadStep
<1>3. CASE FindReadPtr(p)
  <2> DEFINE off == readptr(chainoff(p))
  <2>0. off \in Target /\ off \in Ptr /\ (off # 0 => off \in Recs)
    BY <1>0, PtrOK, TargetOK
  <2> DEFINE d == [db[p] EXCEPT !.ptroff = chainoff(p)]
  <2>1. FindNext(p, d, off) /\ UNCHANGED files /\ UNCHANGED ret
    BY <1>3 DEF FindReadPtr
  <2>2. d \in DbType /\ d.ptroff = chainoff(p) /\ d.ptrval = db[p].ptrval
    BY <1>0, <1>1 DEF MemoryTypeOK, DbType
  <2> HIDE DEF off, d
  <2>3. /\ Keeps(p) /\ MemoryTypeOK'
        /\ loc'[p].offset = off
        /\ loc'[p].saveoffset = 0 /\ loc'[p].freeptr = 0
        /\ loc'[p].saveptr = 0 /\ loc'[p].ptrval = 0
        /\ db'[p] = d \/ (db'[p].ptroff = 0 /\ db'[p].ptrval = 0)
        /\ pc'[p] \in {"find.readidx", "unlock", "store.head"}
        /\ pc'[p] = "find.readidx" => off # 0
    BY <1>0, <1>1, <2>0, <2>1, <2>2, FindNextOK DEF Keeps, MemoryTypeOK
  <2>4. 0 \in Target /\ 0 \in 0..NHASH
    BY DbAssumption DEF Target
  <2>5. LocalOK(p)'
    BY <1>0, <1>1, <2>0, <2>1, <2>2, <2>3, <2>4, SameTargets DEF LocalOK, HasRec, HasDat
  <2> QED BY <2>1, <2>3, <2>5, ReadStep
<1>4. CASE FindReadIdx(p)
  <2> DEFINE off == loc[p].offset
  <2> DEFINE rec == readidx(off)
  <2>0. /\ off \in Recs /\ off \in Ptr /\ off \in Nat
        /\ rec \in IdxRec /\ rec.ptr \in Target /\ rec.ptr \in Ptr
        /\ rec.ptr # 0 => rec.ptr \in Recs
        /\ rec.datoff \in 1..Len(dat)
    <3>1. off \in Recs /\ off \in Ptr
      BY <1>1, <1>4 DEF FindReadIdx, LocalOK, FileTypeOK
    <3>2. rec \in IdxRec /\ rec.ptr \in Target /\ rec.datoff \in 1..Len(dat)
      BY <3>1, PtrOK
    <3> QED BY <3>1, <3>2, TargetOK, DbAssumption DEF Ptr
  <2>1. UNCHANGED files /\ UNCHANGED ret
    BY <1>4 DEF FindReadIdx
  <2> DEFINE read == AfterReadIdx(db[p], off)
  <2>2. /\ read \in DbType /\ read.ptroff = db[p].ptroff /\ read.idxoff = off
        /\ read.ptrval = rec.ptr /\ read.datoff = rec.datoff
    BY <1>1, <2>0, AfterReadIdxOK DEF MemoryTypeOK
  <2>3. CASE rec.key = call[p].key
    <3> DEFINE after == Found(call[p], rec.datlen)
    <3>1. /\ pc' = [pc EXCEPT ![p] = after.pc]
          /\ db' = [db EXCEPT ![p] = read]
          /\ loc' = [loc EXCEPT ![p].rc = after.rc]
      BY <1>4, <2>3 DEF FindReadIdx
    <3>2. /\ after.pc \in {"fetch.readdat", "unlock", "dodelete", "replace.writedat"}
          /\ after.rc \in Result
      BY <1>0 DEF Found
    <3> HIDE DEF after, read, rec
    <3>3. Keeps(p) /\ MemoryTypeOK'
      BY <1>1, <2>1, <2>2, <3>1, <3>2 DEF Keeps, MemoryTypeOK, LocType
    <3>4. LocalOK(p)'
      BY <1>1, <2>0, <2>1, <2>2, <3>1, <3>2
      DEF LocalOK, HasRec, HasDat, Target, Recs, files, MemoryTypeOK, LocType
    <3> QED BY <1>1, <2>1, <3>1, <3>2, <3>3, <3>4, ReadStep
  <2>4. CASE rec.key # call[p].key
    <3> DEFINE miss == [read EXCEPT !.ptroff = off]
    <3>1. FindNext(p, miss, rec.ptr)
      BY <1>4, <2>4 DEF FindReadIdx
    <3>2. /\ miss \in DbType /\ miss.ptroff = off /\ miss.ptrval = rec.ptr
      BY <2>0, <2>2 DEF DbType
    <3> HIDE DEF miss, read, rec
    <3>3. /\ Keeps(p) /\ MemoryTypeOK'
          /\ loc'[p].offset = rec.ptr
          /\ loc'[p].saveoffset = 0 /\ loc'[p].freeptr = 0
          /\ loc'[p].saveptr = 0 /\ loc'[p].ptrval = 0
          /\ db'[p] = miss \/ (db'[p].ptroff = 0 /\ db'[p].ptrval = 0)
          /\ pc'[p] \in {"find.readidx", "unlock", "store.head"}
          /\ pc'[p] = "find.readidx" => rec.ptr # 0
      BY <1>0, <1>1, <2>0, <2>1, <3>1, <3>2, FindNextOK DEF Keeps, MemoryTypeOK
    <3>4. 0 \in Target /\ 0 \in 0..NHASH
      BY DbAssumption DEF Target
    <3>5. LocalOK(p)'
      BY <1>1, <2>0, <2>1, <3>2, <3>3, <3>4, SameTargets DEF LocalOK, HasRec, HasDat
    <3> QED BY <2>1, <3>3, <3>5, ReadStep
  <2> QED BY <2>3, <2>4
<1> QED BY <1>2, <1>3, <1>4 DEF Find

\* Locks, and what else leaves a process's memory alone.
LEMMA LockFiles ==
    ASSUME NEW p \in Procs, Control, FileInv,
           \/ DelLock(p) \/ DelUnlock(p) \/ FreeLock(p) \/ FreeUnlock(p)
           \/ AppendDatLock(p) \/ AppendDatUnlock(p)
           \/ AppendIdxLock(p) \/ AppendIdxUnlock(p)
    PROVE  FileInv'
<1>1. /\ FileTypeOK /\ LocalOK(p) /\ MemoryTypeOK /\ pc \in [Procs -> Labels]
  BY FileParts
<1>2. /\ UNCHANGED files /\ db' = db /\ loc' = loc /\ ret' = ret
      /\ \A q \in Procs \ {p} : pc'[q] = pc[q]
      /\ pc'[p] \notin {"append.datwrite", "append.idxwrite"}
  BY <1>1 DEF DelLock, DelUnlock, FreeLock, FreeUnlock, AppendDatLock, AppendDatUnlock,
     AppendIdxLock, AppendIdxUnlock, Lock, Release, Transition, Goto, client
<1>3. LocalOK(p)'
  <2>1. \/ pc[p] = "dodelete" /\ pc'[p] = "dodelete.writedat"
        \/ pc[p] = "dodelete.unlock" /\ pc'[p] \in {"unlock", "store.rehead"}
        \/ pc[p] = "findfree" /\ pc'[p] = "findfree.readptr"
        \/ pc[p] = "findfree.unlock" /\ loc[p].offset = 0 /\ pc'[p] = "append.datlock"
        \/ pc[p] = "findfree.unlock" /\ loc[p].offset # 0 /\ pc'[p] = "reuse.writedat"
        \/ pc[p] = "append.datlock" /\ pc'[p] = "append.datseek"
        \/ pc[p] = "append.datunlock" /\ pc'[p] = "append.idxlock"
        \/ pc[p] = "append.idxlock" /\ pc'[p] = "append.idxseek"
        \/ pc[p] = "append.idxunlock" /\ pc'[p] = "store.writeptr"
    BY <1>1 DEF DelLock, DelUnlock, FreeLock, FreeUnlock, AppendDatLock, AppendDatUnlock,
       AppendIdxLock, AppendIdxUnlock, Lock, Release, Transition, Goto
  <2> QED BY <1>1, <1>2, <2>1, SameTargets DEF LocalOK, HasRec, HasDat
<1> QED BY <1>1, <1>2, <1>3, ReadStep DEF Keeps, MemoryTypeOK

\* Calls, returns and exits.
LEMMA InterfaceFiles ==
    ASSUME NEW p \in Procs, Control, FileInv,
           Call(p) \/ FetchReadDat(p) \/ Unlock(p) \/ StoreQuit(p)
    PROVE  FileInv'
<1> USE DEF Transition, Goto, client
<1>1. /\ FileTypeOK /\ LocalOK(p) /\ MemoryTypeOK /\ pc \in [Procs -> Labels]
  BY FileParts
<1>2. /\ NoDb \in DbType /\ NoLoc \in LocType /\ NULL \in Result
      /\ 0 \in Target /\ 0 \in 0..NHASH \cup Recs
  BY DbAssumption DEF NoDb, NoLoc, DbType, LocType, Ptr, Result, Target, Recs
<1>3. CASE Call(p)
  <2>1. UNCHANGED files /\ Keeps(p) /\ MemoryTypeOK' /\ pc'[p] = "find" /\ db' = db /\ loc' = loc
    BY <1>1, <1>2, <1>3 DEF Call, Abs!Call, Keeps, MemoryTypeOK
  <2>2. LocalOK(p)'
    BY <1>1, <2>1, SameTargets DEF LocalOK, HasRec, HasDat
  <2> QED BY <2>1, <2>2, ReadStep
<1>4. CASE FetchReadDat(p)
  <2>1. dat[db[p].datoff].data \in Result
    <3>1. db[p].datoff \in 1..Len(dat) /\ dat \in Seq(DatRec)
      BY <1>1, <1>4 DEF FetchReadDat, LocalOK, HasRec, FileTypeOK
    <3>2. dat[db[p].datoff] \in DatRec
      BY <3>1
    <3> QED BY <3>2 DEF DatRec, Result
  <2>2. /\ UNCHANGED files /\ Keeps(p) /\ MemoryTypeOK' /\ pc'[p] = "unlock" /\ db' = db
        /\ loc'[p] = [loc[p] EXCEPT !.rc = dat[db[p].datoff].data]
    BY <1>1, <1>4, <2>1 DEF FetchReadDat, Keeps, MemoryTypeOK, LocType
  <2>3. LocalOK(p)'
    BY <1>1, <2>2, SameTargets DEF LocalOK, HasRec, HasDat, MemoryTypeOK, LocType
  <2> QED BY <2>2, <2>3, ReadStep
<1>5. CASE Unlock(p) \/ StoreQuit(p)
  <2>1. loc[p].rc \in Result
    BY <1>1 DEF MemoryTypeOK, LocType
  <2>2. /\ UNCHANGED files /\ Keeps(p) /\ MemoryTypeOK' /\ pc'[p] \in {"idle", "exited"}
        /\ db'[p] = NoDb /\ loc'[p] = NoLoc
    BY <1>1, <1>2, <1>5, <2>1 DEF Unlock, StoreQuit, Keeps, MemoryTypeOK
  <2>3. LocalOK(p)'
    BY <1>2, <2>2, SameTargets DEF LocalOK, HasRec, HasDat, NoDb, NoLoc
  <2> QED BY <2>2, <2>3, ReadStep
<1> QED BY <1>3, <1>4, <1>5

\* The other steps of db_store() and _db_dodelete() that only read.
LEMMA ReadFiles ==
    ASSUME NEW p \in Procs, Control, FileInv,
           \/ DelReadFree(p) \/ StoreHead(p) \/ FreeReadPtr(p) \/ FreeReadIdx(p)
           \/ AppendDatSeek(p) \/ AppendIdxSeek(p)
    PROVE  FileInv'
<1> USE DEF Transition, Goto, client
<1>1. /\ FileTypeOK /\ LocalOK(p) /\ MemoryTypeOK /\ pc \in [Procs -> Labels]
  BY FileParts
<1>2. /\ FREE_OFF \in 0..NHASH \cup Recs /\ readptr(FREE_OFF) \in Target
      /\ \A t \in Target : t \in Ptr /\ (t # 0 => t \in Recs) /\ t \in 0..NHASH \cup Recs
  BY PtrOK, TargetOK, DbAssumption DEF FREE_OFF
<1>3. CASE DelReadFree(p)
  <2>1. /\ UNCHANGED files /\ Keeps(p) /\ MemoryTypeOK' /\ pc'[p] = "dodelete.writeidx" /\ db' = db
        /\ loc'[p] = [loc[p] EXCEPT !.freeptr = readptr(FREE_OFF), !.saveptr = db[p].ptrval]
    <3> DEFINE new == [loc[p] EXCEPT !.freeptr = readptr(FREE_OFF), !.saveptr = db[p].ptrval]
    <3>1. /\ UNCHANGED <<files, db, ret>> /\ loc' = [loc EXCEPT ![p] = new]
          /\ pc' = [pc EXCEPT ![p] = "dodelete.writeidx"]
      BY <1>1, <1>3 DEF DelReadFree, MemoryTypeOK
    <3> HIDE DEF readptr
    <3>2. new \in LocType
      <4>1. readptr(FREE_OFF) \in Ptr /\ db[p].ptrval \in Ptr /\ loc[p] \in LocType
        BY <1>1, <1>2 DEF MemoryTypeOK, DbType
      <4> QED BY <4>1 DEF LocType
    <3> HIDE DEF new
    <3>3. loc' \in [Procs -> LocType] /\ loc'[p] = new
          /\ \A q \in Procs \ {p} : loc'[q] = loc[q]
      BY <1>1, <3>1, <3>2 DEF MemoryTypeOK
    <3>4. pc'[p] = "dodelete.writeidx" /\ \A q \in Procs \ {p} : pc'[q] = pc[q]
      BY <1>1, <3>1
    <3>5. Keeps(p) /\ MemoryTypeOK'
      BY <1>1, <3>1, <3>3, <3>4 DEF Keeps, MemoryTypeOK
    <3> QED BY <3>1, <3>3, <3>4, <3>5 DEF new
  <2>2. LocalOK(p)'
    BY <1>1, <1>2, <1>3, <2>1, SameTargets
    DEF DelReadFree, LocalOK, HasRec, HasDat, MemoryTypeOK, LocType
  <2> QED BY <2>1, <2>2, ReadStep
<1>4. CASE StoreHead(p)
  <2>1. readptr(chainoff(p)) \in Target
    <3>1. call[p] \in Requests
      BY <1>4 DEF StoreHead, Control, CallOK
    <3>2. chainoff(p) \in 0..NHASH
      BY <3>1, RequestFn, DbAssumption DEF chainoff, Chains
    <3> QED BY <3>2, PtrOK
  <2>2. /\ UNCHANGED files /\ Keeps(p) /\ MemoryTypeOK' /\ db' = db
        /\ pc'[p] \in {"findfree", "append.datlock"}
        /\ loc'[p] = [loc[p] EXCEPT !.ptrval = readptr(chainoff(p))]
    BY <1>1, <1>2, <1>4, <2>1 DEF StoreHead, Keeps, MemoryTypeOK, LocType
  <2>3. LocalOK(p)'
    BY <1>1, <2>1, <2>2, SameTargets DEF LocalOK, HasRec, HasDat, MemoryTypeOK, LocType
  <2> QED BY <2>2, <2>3, ReadStep
<1>5. CASE AppendDatSeek(p)
  <2>1. DatLen[call[p].data] \in Nat /\ Len(dat) \in Nat
    <3>1. call[p] \in Requests /\ call[p].fn = "store"
      BY <1>5 DEF AppendDatSeek, Control, CallOK, Storing
    <3> QED BY <1>1, <3>1, RequestFn, DbAssumption DEF FileTypeOK
  <2> DEFINE new == [db[p] EXCEPT !.datoff = Len(dat) + 1, !.datlen = DatLen[call[p].data]]
  <2>a. new \in DbType
    <3>1. db[p] \in DbType
      BY <1>1 DEF MemoryTypeOK
    <3>2. Len(dat) + 1 \in Nat
      BY <2>1
    <3> QED BY <2>1, <3>1, <3>2 DEF DbType
  <2>b. db' = [db EXCEPT ![p] = new] /\ UNCHANGED files /\ UNCHANGED <<loc, ret>>
        /\ pc' = [pc EXCEPT ![p] = "append.datwrite"]
    BY <1>5 DEF AppendDatSeek
  <2>2. Keeps(p) /\ MemoryTypeOK' /\ pc'[p] = "append.datwrite" /\ db'[p] = new
    <3> HIDE DEF new
    <3> QED BY <1>1, <2>a, <2>b DEF Keeps, MemoryTypeOK
  <2>3. LocalOK(p)' /\ db'[p].datoff = Len(dat) + 1
    BY <1>1, <2>1, <2>2, <2>b, SameTargets DEF LocalOK, HasRec, HasDat, MemoryTypeOK, DbType
  <2> QED BY <2>2, <2>3, <2>b, ReadStep
<1>6. CASE AppendIdxSeek(p)
  <2>1. loc[p].ptrval \in Target /\ NHASH + Len(idx) + 1 \in Nat /\ loc[p].ptrval \in Ptr
    BY <1>1, <1>2, DbAssumption DEF LocalOK, FileTypeOK
  <2> DEFINE new == [db[p] EXCEPT !.idxoff = NHASH + Len(idx) + 1, !.ptrval = loc[p].ptrval]
  <2>a. new \in DbType
    BY <1>1, <2>1 DEF MemoryTypeOK, DbType
  <2>b. db' = [db EXCEPT ![p] = new] /\ UNCHANGED files /\ UNCHANGED <<loc, ret>>
        /\ pc[p] = "append.idxseek" /\ pc' = [pc EXCEPT ![p] = "append.idxwrite"]
    BY <1>6 DEF AppendIdxSeek
  <2>2. Keeps(p) /\ MemoryTypeOK' /\ pc'[p] = "append.idxwrite" /\ db'[p] = new
    <3> HIDE DEF new
    <3> QED BY <1>1, <2>a, <2>b DEF Keeps, MemoryTypeOK
  <2>3. LocalOK(p)' /\ db'[p].idxoff = NHASH + Len(idx) + 1
    BY <1>1, <2>1, <2>2, <2>b, SameTargets DEF LocalOK, HasRec, HasDat, MemoryTypeOK, DbType
  <2> QED BY <2>2, <2>3, <2>b, ReadStep
<1>7. CASE FreeReadPtr(p)
  <2>1. /\ UNCHANGED files /\ Keeps(p) /\ MemoryTypeOK' /\ db' = db
        /\ pc'[p] \in {"findfree.readidx", "findfree.unlock"}
        /\ pc'[p] = "findfree.readidx" => readptr(FREE_OFF) # 0
        /\ pc'[p] = "findfree.unlock" => readptr(FREE_OFF) = 0
        /\ loc'[p] = [loc[p] EXCEPT !.saveoffset = FREE_OFF, !.offset = readptr(FREE_OFF)]
    BY <1>1, <1>2, <1>7 DEF FreeReadPtr, FreeNext, Keeps, MemoryTypeOK, LocType, FREE_OFF
  <2>2. LocalOK(p)'
    BY <1>1, <1>2, <2>1, SameTargets DEF LocalOK, HasRec, HasDat, MemoryTypeOK, LocType
  <2> QED BY <2>1, <2>2, ReadStep
<1>8. CASE FreeReadIdx(p)
  <2> DEFINE off == loc[p].offset
  <2> DEFINE rec == readidx(off)
  <2> DEFINE read == AfterReadIdx(db[p], off)
  <2>0. off \in Recs /\ off \in Ptr /\ off \in Nat /\ off # 0
    BY <1>1, <1>8, DbAssumption DEF FreeReadIdx, LocalOK, FileTypeOK, Recs
  <2>1. rec.ptr \in Target /\ rec.datoff \in 1..Len(dat)
    BY <2>0, PtrOK
  <2>2. /\ read \in DbType /\ read.ptroff = db[p].ptroff /\ read.idxoff = off
        /\ read.ptrval = rec.ptr /\ read.datoff = rec.datoff
    BY <1>1, <2>0, AfterReadIdxOK DEF MemoryTypeOK
  <2>3. db'[p] = read /\ db' \in [Procs -> DbType] /\ UNCHANGED files /\ UNCHANGED ret
        /\ \A q \in Procs \ {p} : db'[q] = db[q]
    BY <1>1, <1>8, <2>2 DEF FreeReadIdx, MemoryTypeOK
  <2>4. CASE Fits(rec, call[p])
    <3>1. pc'[p] = "findfree.writeptr" /\ loc' = loc /\ Keeps(p) /\ MemoryTypeOK'
      BY <1>1, <1>8, <2>3, <2>4 DEF FreeReadIdx, Keeps, MemoryTypeOK
    <3> HIDE DEF read, rec
    <3>2. LocalOK(p)'
      BY <1>1, <2>0, <2>1, <2>2, <2>3, <3>1, SameTargets DEF LocalOK, HasRec, HasDat
    <3> QED BY <2>3, <3>1, <3>2, ReadStep
  <2>5. CASE ~Fits(rec, call[p])
    <3>1. FreeNext(p, off, rec.ptr)
      BY <1>8, <2>5 DEF FreeReadIdx
    <3> HIDE DEF read, rec
    <3>2. /\ Keeps(p) /\ MemoryTypeOK'
          /\ pc'[p] \in {"findfree.readidx", "findfree.unlock"}
          /\ pc'[p] = "findfree.readidx" => rec.ptr # 0
          /\ pc'[p] = "findfree.unlock" => rec.ptr = 0
          /\ loc'[p] = [loc[p] EXCEPT !.saveoffset = off, !.offset = rec.ptr]
      <4> DEFINE new == [loc[p] EXCEPT !.saveoffset = off, !.offset = rec.ptr]
      <4>1. off \in Nat /\ rec.ptr \in Ptr
        BY <1>2, <2>0, <2>1, DbAssumption DEF Recs
      <4>2. new \in LocType
        BY <1>1, <4>1 DEF MemoryTypeOK, LocType
      <4>3. /\ loc' = [loc EXCEPT ![p] = new]
            /\ pc' = [pc EXCEPT ![p] = IF rec.ptr # 0 THEN "findfree.readidx" ELSE "findfree.unlock"]
        BY <1>1, <3>1 DEF FreeNext, MemoryTypeOK
      <4> HIDE DEF new
      <4>4. loc' \in [Procs -> LocType] /\ loc'[p] = new
            /\ \A q \in Procs \ {p} : loc'[q] = loc[q]
        BY <1>1, <4>2, <4>3 DEF MemoryTypeOK
      <4>5. /\ pc'[p] = IF rec.ptr # 0 THEN "findfree.readidx" ELSE "findfree.unlock"
            /\ \A q \in Procs \ {p} : pc'[q] = pc[q]
        BY <1>1, <4>3
      <4>6. Keeps(p) /\ MemoryTypeOK'
        BY <1>1, <2>3, <4>4, <4>5 DEF Keeps, MemoryTypeOK
      <4> QED BY <4>4, <4>5, <4>6 DEF new
    <3>3. LocalOK(p)'
      BY <1>1, <1>2, <2>0, <2>1, <2>2, <2>3, <3>2, SameTargets
      DEF LocalOK, HasRec, HasDat, MemoryTypeOK, LocType
    <3> QED BY <2>3, <3>2, <3>3, ReadStep
  <2> QED BY <2>4, <2>5
<1> QED BY <1>3, <1>4, <1>5, <1>6, <1>7, <1>8

\* Steps that write into the files.  An append moves the end of a file, which no
\* other process may be about to append at.
LEMMA WriteStep ==
    ASSUME NEW p \in Procs, FileInv, Keeps(p), MemoryTypeOK',
           table' \in [0..NHASH -> Ptr], idx' \in Seq(IdxRec), dat' \in Seq(DatRec),
           FilesOK',
           Len(idx') >= Len(idx), Len(dat') >= Len(dat),
           Len(idx') # Len(idx) => \A q \in Procs \ {p} : pc[q] # "append.idxwrite",
           Len(dat') # Len(dat) => \A q \in Procs \ {p} : pc[q] # "append.datwrite",
           pc'[p] \notin {"append.datwrite", "append.idxwrite"},
           LocalOK(p)'
    PROVE  FileInv'
<1>1. FileTypeOK'
  BY DEF FileTypeOK, MemoryTypeOK, DbType, LocType
<1>2. Len(idx') \in Nat /\ Len(dat') \in Nat
  OBVIOUS
<1>3. \A q \in Procs \ {p} : LocalOK(q)'
  BY <1>2, OthersOK DEF FileInv, Keeps
<1>4. AppendAtEnd'
  BY DEF FileInv, AppendAtEnd, Keeps
<1> QED BY <1>1, <1>3, <1>4 DEF FileInv

\* A write to the data file leaves the index file as it is.
LEMMA DatGrows ==
    ASSUME FileInv, table' = table, idx' = idx, dat' \in Seq(DatRec), Len(dat') >= Len(dat)
    PROVE  FilesOK' /\ Recs' = Recs /\ Target' = Target
<1>1. Recs' = Recs /\ Target' = Target
  BY DEF Recs, Target
<1>2. Len(dat) \in Nat /\ Len(dat') \in Nat
  BY DEF FileInv, FileTypeOK
<1> QED BY <1>1, <1>2 DEF FileInv, FilesOK

\* The three writes to the data file.
LEMMA DatWrites ==
    ASSUME NEW p \in Procs, Control, FileInv,
           DelWriteDat(p) \/ StoreWriteDat(p) \/ AppendDatWrite(p)
    PROVE  FileInv'
<1> USE DEF Transition, Goto, client
<1>1. /\ FileTypeOK /\ LocalOK(p) /\ MemoryTypeOK /\ pc \in [Procs -> Labels]
      /\ idx \in Seq(IdxRec) /\ dat \in Seq(DatRec) /\ table \in [0..NHASH -> Ptr]
      /\ Len(idx) \in Nat /\ Len(dat) \in Nat
  BY FileParts
<1>2. CASE DelWriteDat(p)
  <2>1. db[p].datoff \in 1..Len(dat) /\ dat' = [dat EXCEPT ![db[p].datoff].data = BLANK]
        /\ table' = table /\ idx' = idx /\ UNCHANGED <<db, loc, ret>>
        /\ pc[p] = "dodelete.writedat"
        /\ pc' = [pc EXCEPT ![p] = "dodelete.readptr"]
    BY <1>1, <1>2 DEF DelWriteDat, LocalOK, HasRec
  <2>2. dat' \in Seq(DatRec) /\ Len(dat') = Len(dat)
    BY <1>1, <2>1, WriteDatOK
  <2>3. FilesOK' /\ Recs' = Recs /\ Target' = Target
    BY <1>1, <2>1, <2>2, DatGrows
  <2>4. Keeps(p) /\ MemoryTypeOK' /\ pc'[p] = "dodelete.readptr"
    BY <1>1, <2>1 DEF Keeps, MemoryTypeOK
  <2>5. LocalOK(p)'
    BY <1>1, <2>1, <2>2, <2>3, <2>4 DEF LocalOK, HasRec, HasDat
  <2>6. /\ table' \in [0..NHASH -> Ptr] /\ idx' \in Seq(IdxRec) /\ Len(idx') = Len(idx)
        /\ Len(idx') >= Len(idx) /\ Len(dat') >= Len(dat)
        /\ pc'[p] \notin {"append.datwrite", "append.idxwrite"}
    BY <1>1, <2>1, <2>2, <2>4
  <2> QED BY <2>2, <2>3, <2>4, <2>5, <2>6, WriteStep
<1>3. CASE StoreWriteDat(p)
  <2> DEFINE new == [db[p] EXCEPT !.datlen = DatLen[call[p].data]]
  <2>0. call[p].data \in Data /\ DatLen[call[p].data] \in Nat
    <3>1. call[p] \in Requests /\ call[p].fn = "store"
      BY <1>3 DEF StoreWriteDat, Control, CallOK, Storing
    <3> QED BY <3>1, RequestFn, DbAssumption
  <2>1. db[p].datoff \in 1..Len(dat) /\ dat' = [dat EXCEPT ![db[p].datoff].data = call[p].data]
        /\ table' = table /\ idx' = idx /\ UNCHANGED <<loc, ret>>
        /\ db' = [db EXCEPT ![p] = new]
    BY <1>1, <1>3 DEF StoreWriteDat, LocalOK, HasRec
  <2>2. dat' \in Seq(DatRec) /\ Len(dat') = Len(dat)
    BY <1>1, <2>0, <2>1, WriteDatOK
  <2>3. FilesOK' /\ Recs' = Recs /\ Target' = Target
    BY <1>1, <2>1, <2>2, DatGrows
  <2>a. new \in DbType /\ new.ptroff = db[p].ptroff /\ new.idxoff = db[p].idxoff
        /\ new.datoff = db[p].datoff /\ new.ptrval = db[p].ptrval
    <3>1. db[p] \in DbType
      BY <1>1 DEF MemoryTypeOK
    <3> QED BY <2>0, <3>1 DEF DbType
  <2> HIDE DEF new
  <2>4. Keeps(p) /\ MemoryTypeOK' /\ db'[p] = new
        /\ \/ pc[p] = "reuse.writedat" /\ pc'[p] = "reuse.writeidx"
           \/ pc'[p] = "unlock"
    BY <1>1, <1>3, <2>1, <2>a DEF StoreWriteDat, Keeps, MemoryTypeOK
  <2>5. LocalOK(p)'
    BY <1>1, <2>1, <2>2, <2>3, <2>4, <2>a DEF LocalOK, HasRec, HasDat
  <2>6. /\ table' \in [0..NHASH -> Ptr] /\ idx' \in Seq(IdxRec) /\ Len(idx') = Len(idx)
        /\ Len(idx') >= Len(idx) /\ Len(dat') >= Len(dat)
        /\ pc'[p] \notin {"append.datwrite", "append.idxwrite"}
    BY <1>1, <2>1, <2>2, <2>4
  <2> QED BY <2>2, <2>3, <2>4, <2>5, <2>6, WriteStep
<1>4. CASE AppendDatWrite(p)
  <2> DEFINE rec == [data |-> call[p].data, size |-> db[p].datlen]
  <2>0. rec \in DatRec
    <3>1. call[p] \in Requests /\ call[p].fn = "store"
      BY <1>4 DEF AppendDatWrite, Control, CallOK, Storing
    <3>2. call[p].data \in Data /\ db[p].datlen \in Nat
      BY <1>1, <3>1, RequestFn DEF MemoryTypeOK, DbType
    <3> QED BY <3>2 DEF DatRec
  <2>1. /\ pc[p] = "append.datwrite" /\ db[p].datoff = Len(dat) + 1
        /\ dat' = WriteAt(dat, db[p].datoff, rec)
        /\ table' = table /\ idx' = idx /\ UNCHANGED <<db, loc, ret>>
        /\ pc' = [pc EXCEPT ![p] = "append.datunlock"]
    BY <1>4 DEF AppendDatWrite, FileInv, AppendAtEnd
  <2> HIDE DEF rec
  <2>2. dat' = Append(dat, rec) /\ dat' \in Seq(DatRec) /\ Len(dat') = Len(dat) + 1
    BY <1>1, <2>0, <2>1 DEF WriteAt
  <2>3. FilesOK' /\ Recs' = Recs /\ Target' = Target
    BY <1>1, <2>1, <2>2, DatGrows
  <2>4. Keeps(p) /\ MemoryTypeOK' /\ pc'[p] = "append.datunlock"
    BY <1>1, <2>1 DEF Keeps, MemoryTypeOK
  <2>5. LocalOK(p)'
    BY <1>1, <2>1, <2>2, <2>3, <2>4 DEF LocalOK, HasRec, HasDat
  <2>6. \A q \in Procs \ {p} : pc[q] # "append.datwrite"
    <3> SUFFICES ASSUME NEW q \in Procs \ {p}, pc[q] = "append.datwrite" PROVE FALSE
      OBVIOUS
    <3>1. LockOf(p, DATFILE) = "write" /\ LockOf(q, DATFILE) = "write"
      BY <2>1, RegionFacts DEF LockOf, Held, DatLocked, Control, CallOK, Storing
    <3> QED BY <3>1, RegionFacts DEF Control, LockDiscipline
  <2>7. /\ table' \in [0..NHASH -> Ptr] /\ idx' \in Seq(IdxRec) /\ Len(idx') = Len(idx)
        /\ Len(idx') >= Len(idx) /\ Len(dat') >= Len(dat)
        /\ pc'[p] \notin {"append.datwrite", "append.idxwrite"}
    BY <1>1, <2>1, <2>2, <2>4
  <2> QED BY <2>2, <2>3, <2>4, <2>5, <2>6, <2>7, WriteStep
<1> QED BY <1>2, <1>3, <1>4

\* The index records that are written have their types.
LEMMA IdxRecordOK ==
    ASSUME NEW p \in Procs, Control, FileInv, call[p] \in Requests,
           NEW key \in Keys \cup {BLANK}, NEW ptr \in Target, db[p].datoff \in 1..Len(dat)
    PROVE  /\ IdxRecord(p, key, ptr) \in IdxRec
           /\ IdxRecord(p, key, ptr).ptr \in Target
           /\ IdxRecord(p, key, ptr).datoff \in 1..Len(dat)
<1>1. db[p] \in DbType /\ KeyLen[call[p].key] \in Nat /\ ptr \in Ptr
  BY RequestFn, DbAssumption, TargetOK DEF FileInv, FileTypeOK, DbType
<1> QED BY <1>1 DEF IdxRecord, IdxRec, DbType

\* The three writes of an index record.
LEMMA IdxWrites ==
    ASSUME NEW p \in Procs, Control, FileInv,
           DelWriteIdx(p) \/ StoreWriteIdx(p) \/ AppendIdxWrite(p)
    PROVE  FileInv'
<1> USE DEF Transition, Goto, client
<1>1. /\ FileTypeOK /\ LocalOK(p) /\ MemoryTypeOK /\ pc \in [Procs -> Labels]
      /\ idx \in Seq(IdxRec) /\ dat \in Seq(DatRec) /\ table \in [0..NHASH -> Ptr]
      /\ Len(idx) \in Nat /\ Len(dat) \in Nat /\ NHASH \in Nat /\ FilesOK
      /\ call[p] \in Requests /\ call[p].key \in Keys
      /\ loc[p].freeptr \in Target /\ loc[p].ptrval \in Target
      /\ loc[p].freeptr \in Ptr /\ loc[p].ptrval \in Ptr
  <2>1. call[p] \in Requests
    BY DEF Control, CallOK, DelWriteIdx, StoreWriteIdx, AppendIdxWrite
  <2>2. call[p].key \in Keys /\ NHASH \in Nat
    BY <2>1, RequestFn, DbAssumption
  <2>3. /\ FileTypeOK /\ LocalOK(p) /\ FilesOK /\ pc \in [Procs -> Labels]
    BY DEF FileInv, Control, ControlTypeOK
  <2>4. /\ MemoryTypeOK
        /\ idx \in Seq(IdxRec) /\ dat \in Seq(DatRec) /\ table \in [0..NHASH -> Ptr]
    BY <2>3 DEF FileTypeOK, MemoryTypeOK, DbType, LocType
  <2>5. Len(idx) \in Nat /\ Len(dat) \in Nat
    BY <2>4
  <2>6. loc[p].freeptr \in Target /\ loc[p].ptrval \in Target
    BY <2>3 DEF LocalOK
  <2>7. loc[p].freeptr \in Ptr /\ loc[p].ptrval \in Ptr
    BY <2>4 DEF MemoryTypeOK, LocType
  <2> QED BY <2>1, <2>2, <2>3, <2>4, <2>5, <2>6, <2>7
<1> DEFINE i == db[p].idxoff - NHASH
<1>2. CASE DelWriteIdx(p) \/ StoreWriteIdx(p)
  <2>1. PICK key \in Keys \cup {BLANK}, ptr \in {loc[p].freeptr, loc[p].ptrval} :
          /\ idx' = WriteAt(idx, i, IdxRecord(p, key, ptr))
          /\ db' = [db EXCEPT ![p].ptrval = ptr]
    BY <1>1, <1>2 DEF DelWriteIdx, StoreWriteIdx
  <2>2. /\ table' = table /\ dat' = dat /\ UNCHANGED <<loc, ret>>
        /\ db[p].datoff \in 1..Len(dat) /\ db[p].idxoff \in Recs \cap Ptr
        /\ \/ pc[p] = "dodelete.writeidx" /\ pc' = [pc EXCEPT ![p] = "dodelete.writefree"]
           \/ pc[p] = "reuse.writeidx" /\ pc' = [pc EXCEPT ![p] = "store.writeptr"]
    BY <1>1, <1>2 DEF DelWriteIdx, StoreWriteIdx, LocalOK, HasRec
  <2>3. i \in 1..Len(idx) /\ i \in 1..Len(idx) + 1
    BY <1>1, <2>2 DEF Recs
  <2>4. /\ idx' \in Seq(IdxRec) /\ Len(idx') = Len(idx) /\ FilesOK'
        /\ Recs' = Recs /\ Target' = Target
    <3> HIDE DEF i
    <3>1. /\ idx' \in Seq(IdxRec) /\ FilesOK'
          /\ Len(idx') = IF i = Len(idx) + 1 THEN i ELSE Len(idx)
      BY <1>1, <2>1, <2>2, <2>3, IdxRecordOK, WriteIdxOK
    <3> QED BY <1>1, <2>3, <3>1 DEF Recs, Target
  <2> DEFINE new == [db[p] EXCEPT !.ptrval = ptr]
  <2>5. new \in DbType /\ new.ptroff = db[p].ptroff /\ new.idxoff = db[p].idxoff
        /\ new.datoff = db[p].datoff /\ new.ptrval = ptr /\ db' = [db EXCEPT ![p] = new]
    BY <1>1, <2>1 DEF MemoryTypeOK, DbType
  <2> HIDE DEF new
  <2>6. Keeps(p) /\ MemoryTypeOK' /\ db'[p] = new
        /\ \/ pc[p] = "dodelete.writeidx" /\ pc'[p] = "dodelete.writefree"
           \/ pc[p] = "reuse.writeidx" /\ pc'[p] = "store.writeptr"
    BY <1>1, <2>2, <2>5 DEF Keeps, MemoryTypeOK
  <2>7. LocalOK(p)'
    BY <1>1, <2>1, <2>2, <2>4, <2>5, <2>6 DEF LocalOK, HasRec, HasDat
  <2>8. /\ table' \in [0..NHASH -> Ptr] /\ dat' \in Seq(DatRec) /\ Len(dat') = Len(dat)
        /\ Len(idx') >= Len(idx) /\ Len(dat') >= Len(dat)
        /\ pc'[p] \notin {"append.datwrite", "append.idxwrite"}
    BY <1>1, <2>2, <2>4, <2>6
  <2> QED BY <2>4, <2>6, <2>7, <2>8, WriteStep
<1>3. CASE AppendIdxWrite(p)
  <2> DEFINE rec == IdxRecord(p, call[p].key, loc[p].ptrval)
  <2>1. /\ pc[p] = "append.idxwrite" /\ i = Len(idx) + 1 /\ db[p].datoff \in 1..Len(dat)
        /\ db[p].idxoff = NHASH + Len(idx) + 1
        /\ idx' = WriteAt(idx, i, rec)
        /\ table' = table /\ dat' = dat /\ UNCHANGED <<db, loc, ret>>
        /\ pc' = [pc EXCEPT ![p] = "append.idxunlock"]
    BY <1>1, <1>3 DEF AppendIdxWrite, FileInv, AppendAtEnd, LocalOK, HasDat
  <2>2. /\ idx' \in Seq(IdxRec) /\ FilesOK' /\ Len(idx') = Len(idx) + 1
    <3>1. rec \in IdxRec /\ rec.ptr \in Target /\ rec.datoff \in 1..Len(dat)
      BY <1>1, <2>1, IdxRecordOK
    <3> HIDE DEF rec, i
    <3>2. i \in 1..Len(idx) + 1
      BY <1>1, <2>1
    <3> QED BY <1>1, <2>1, <3>1, <3>2, WriteIdxOK
  <2>3. /\ \A x : x \in Recs => x \in Recs'
        /\ \A x : x \in Target => x \in Target'
        /\ db[p].idxoff \in Recs'
    BY <1>1, <2>1, <2>2 DEF Recs, Target
  <2>4. Keeps(p) /\ MemoryTypeOK' /\ pc'[p] = "append.idxunlock"
    BY <1>1, <2>1 DEF Keeps, MemoryTypeOK
  <2>5. LocalOK(p)'
    BY <1>1, <2>1, <2>3, <2>4 DEF LocalOK, HasRec, HasDat
  <2>6. \A q \in Procs \ {p} : pc[q] # "append.idxwrite"
    <3> SUFFICES ASSUME NEW q \in Procs \ {p}, pc[q] = "append.idxwrite" PROVE FALSE
      OBVIOUS
    <3>1. LockOf(p, IDX_TAIL) = "write" /\ LockOf(q, IDX_TAIL) = "write"
      BY <2>1, RegionFacts DEF LockOf, Held, TailLocked, Control, CallOK, Storing
    <3> QED BY <3>1, RegionFacts DEF Control, LockDiscipline
  <2>7. /\ table' \in [0..NHASH -> Ptr] /\ dat' \in Seq(DatRec) /\ Len(dat') = Len(dat)
        /\ Len(idx') >= Len(idx) /\ Len(dat') >= Len(dat)
        /\ pc'[p] \notin {"append.datwrite", "append.idxwrite"}
    BY <1>1, <2>1, <2>2, <2>4
  <2> QED BY <2>2, <2>4, <2>5, <2>6, <2>7, WriteStep
<1> QED BY <1>2, <1>3

\* The four writes of a pointer.
LEMMA PtrWrites ==
    ASSUME NEW p \in Procs, Control, FileInv,
           DelWriteFree(p) \/ DelWritePtr(p) \/ FreeWritePtr(p) \/ StoreWritePtr(p)
    PROVE  FileInv'
<1> USE DEF Transition, Goto, client
<1>1. /\ FileTypeOK /\ LocalOK(p) /\ MemoryTypeOK /\ pc \in [Procs -> Labels] /\ FilesOK
      /\ dat \in Seq(DatRec) /\ Len(idx) \in Nat /\ Len(dat) \in Nat
  BY FileParts
<1>2. PICK off \in 0..NHASH \cup Recs, val \in Target :
        writeptr(off, val) /\ dat' = dat /\ UNCHANGED <<db, ret>>
  <2>1. CASE DelWriteFree(p)
    <3>1. FREE_OFF \in 0..NHASH \cup Recs /\ db[p].idxoff \in Target
      BY <1>1, <2>1, DbAssumption DEF DelWriteFree, LocalOK, HasRec, Target, FREE_OFF
    <3> QED BY <2>1, <3>1 DEF DelWriteFree
  <2>2. CASE DelWritePtr(p)
    BY <1>1, <2>2 DEF DelWritePtr, LocalOK
  <2>3. CASE FreeWritePtr(p)
    BY <1>1, <2>3 DEF FreeWritePtr, LocalOK
  <2>4. CASE StoreWritePtr(p)
    <3>1. call[p] \in Requests
      BY <2>4 DEF StoreWritePtr, Control, CallOK
    <3>2. chainoff(p) \in 0..NHASH \cup Recs
      BY <3>1, RequestFn, DbAssumption DEF chainoff, Chains
    <3>3. db[p].idxoff \in Target
      BY <1>1, <2>4, DbAssumption DEF StoreWritePtr, LocalOK, Target, Recs, Ptr
    <3> QED BY <2>4, <3>2, <3>3 DEF StoreWritePtr
  <2> QED BY <2>1, <2>2, <2>3, <2>4
<1>9. /\ 0 \in Ptr /\ 0 \in Target
      /\ \/ loc' = loc
         \/ loc' = [loc EXCEPT ![p].saveptr = 0]
         \/ loc' = [loc EXCEPT ![p].ptrval = 0]
  BY DbAssumption DEF Ptr, Target, DelWriteFree, DelWritePtr, FreeWritePtr, StoreWritePtr
<1>10. /\ \A q \in Procs \ {p} : loc'[q] = loc[q]
       /\ loc'[p].offset = loc[p].offset /\ loc'[p].saveoffset = loc[p].saveoffset
       /\ loc'[p].freeptr = loc[p].freeptr
       /\ loc'[p].saveptr \in {0, loc[p].saveptr} /\ loc'[p].ptrval \in {0, loc[p].ptrval}
       /\ loc' \in [Procs -> LocType]
  <2>1. loc \in [Procs -> LocType] /\ loc[p] \in LocType
    BY <1>1 DEF MemoryTypeOK
  <2>2. CASE loc' = loc
    BY <2>1, <2>2
  <2>3. CASE loc' = [loc EXCEPT ![p].saveptr = 0]
    BY <1>9, <2>1, <2>3 DEF LocType
  <2>4. CASE loc' = [loc EXCEPT ![p].ptrval = 0]
    BY <1>9, <2>1, <2>4 DEF LocType
  <2> QED BY <1>9, <2>2, <2>3, <2>4
<1>3. /\ table' \in [0..NHASH -> Ptr] /\ idx' \in Seq(IdxRec) /\ Len(idx') = Len(idx)
      /\ FilesOK'
  BY <1>1, <1>2, WritePtrOK
<1>4. Recs' = Recs /\ Target' = Target
  BY <1>3 DEF Recs, Target
<1>5. /\ \A q \in Procs \ {p} : pc'[q] = pc[q]
      /\ \/ pc[p] = "dodelete.writefree" /\ pc'[p] = "dodelete.writeptr"
         \/ pc[p] = "dodelete.writeptr" /\ pc'[p] = "dodelete.unlock"
         \/ pc[p] = "findfree.writeptr" /\ pc'[p] = "findfree.unlock"
         \/ pc[p] = "store.writeptr" /\ pc'[p] = "unlock"
  BY <1>1 DEF DelWriteFree, DelWritePtr, FreeWritePtr, StoreWritePtr
<1>6. LocalOK(p)'
  BY <1>1, <1>2, <1>4, <1>5, <1>9, <1>10 DEF LocalOK, HasRec, HasDat
<1>7. Keeps(p) /\ MemoryTypeOK'
  BY <1>1, <1>2, <1>5, <1>10 DEF Keeps, MemoryTypeOK
<1>8. /\ dat' \in Seq(DatRec) /\ Len(dat') = Len(dat)
      /\ Len(idx') >= Len(idx) /\ Len(dat') >= Len(dat)
      /\ pc'[p] \notin {"append.datwrite", "append.idxwrite"}
  BY <1>1, <1>2, <1>3, <1>5
<1> QED BY <1>3, <1>6, <1>7, <1>8, WriteStep
----------------------------------------------------------------------------
\* Every step keeps the files and what the processes remember of them right.
LEMMA FileStep == Control /\ FileInv /\ [Next]_vars => FileInv'
<1> SUFFICES ASSUME Control, FileInv, [Next]_vars PROVE FileInv'
  OBVIOUS
<1>1. ASSUME NEW p \in Procs, Call(p) \/ Step(p) PROVE FileInv'
  BY <1>1, FindFiles, LockFiles, InterfaceFiles, ReadFiles, DatWrites, IdxWrites, PtrWrites
  DEF Step, Find, DoDelete, FindFree, AppendDat, AppendIdx, Store
<1>2. CASE UNCHANGED vars
  BY <1>2 DEF vars, FileInv, FileTypeOK, FilesOK, LocalOK, Recs, Target, AppendAtEnd
<1> QED BY <1>1, <1>2 DEF Next, Finished

\* No pointer in the index file and no offset that _db_find(), _db_findfree() or
\* an append has put into the DB structure or a local variable dangles, and an
\* append is at the end of its file: between the seek and the write() the lock
\* on the end of the file keeps every other process out.  Inductive given
\* Control.
THEOREM FileInvariant == Spec => []FileInv
<1>1. Init => FileInv
  <2> SUFFICES ASSUME Init PROVE FileInv
    OBVIOUS
  <2>1. FileTypeOK
    BY DbAssumption, EmptySeq DEF Init, Abs!Init, FileTypeOK, NoDb, NoLoc, Ptr, Result
  <2>2. FilesOK /\ \A p \in Procs : LocalOK(p)
    BY DbAssumption DEF Init, FilesOK, LocalOK, NoDb, NoLoc, Target, Recs, HasRec, HasDat
  <2>3. AppendAtEnd
    BY DEF Init, AppendAtEnd
  <2> QED BY <2>1, <2>2, <2>3 DEF FileInv
<1> QED BY <1>1, FileStep, ControlInvariant, PTL DEF Spec

\* Only the return from a function and the exit in db_store() change the map.
LEMMA KvKept ==
    ASSUME NEW p \in Procs, Call(p) \/ Step(p), ~Unlock(p), ~StoreQuit(p)
    PROVE  kv' = kv
<1> USE DEF client
<1>1. CASE Call(p)
  BY <1>1 DEF Call, Abs!Call
<1>2. CASE Find(p) \/ FetchReadDat(p) \/ FindFree(p)
  BY <1>2 DEF Find, FindLock, FindReadPtr, FindReadIdx, FetchReadDat,
     FindFree, FreeLock, FreeReadPtr, FreeReadIdx, FreeWritePtr, FreeUnlock, Lock
<1>3. CASE DoDelete(p)
  BY <1>3 DEF DoDelete, DelLock, DelWriteDat, DelReadFree, DelWriteIdx,
     DelWriteFree, DelWritePtr, DelUnlock, Lock
<1>4. CASE AppendDat(p) \/ AppendIdx(p)
  BY <1>4 DEF AppendDat, AppendDatLock, AppendDatSeek, AppendDatWrite, AppendDatUnlock,
     AppendIdx, AppendIdxLock, AppendIdxSeek, AppendIdxWrite, AppendIdxUnlock, Lock, Release
<1>5. CASE Store(p)
  BY <1>5 DEF Store, StoreHead, StoreWriteDat, StoreWriteIdx, StoreWritePtr
<1> QED BY <1>1, <1>2, <1>3, <1>4, <1>5 DEF Step

\* Every variable has its type; so every pointer that _db_writeidx(),
\* _db_dodelete() and _db_findfree() write fits its field, and only the last
\* _db_writeptr() of db_store() can fail.
THEOREM TypeCorrect == Spec => []TypeOK
<1> DEFINE Plain == kv \in [Keys -> Data \cup {NULL}]
<1>1. Control /\ FileInv /\ Plain => TypeOK
  BY DEF Control, FileInv, TypeOK
<1>2. Init => Plain
  BY DEF Init, Abs!Init
<1>3. Control /\ Plain /\ [Next]_vars => Plain'
  <2> SUFFICES ASSUME Control, Plain, [Next]_vars PROVE Plain'
    OBVIOUS
  <2>1. ASSUME NEW p \in Procs, Call(p) \/ Step(p) PROVE Plain'
    <3>1. CASE Unlock(p)
      <4>1. call[p] \in Requests
        BY <3>1 DEF Unlock, Transition, Control, CallOK
      <4> QED BY <3>1, <4>1, RequestFn DEF Unlock, Abs!Effect
    <3>2. CASE StoreQuit(p)
      BY <3>2 DEF StoreQuit
    <3>3. CASE ~Unlock(p) /\ ~StoreQuit(p)
      BY <2>1, <3>3, KvKept
    <3> QED BY <3>1, <3>2, <3>3
  <2>2. CASE UNCHANGED vars
    BY <2>2 DEF vars
  <2> QED BY <2>1, <2>2 DEF Next, Finished
<1> HIDE DEF Plain
<1> QED BY <1>1, <1>2, <1>3, ControlInvariant, FileInvariant, PTL DEF Spec

\* The locks of every process are those its place in db_fetch(), db_store() or
\* db_delete() calls for, and a write lock is exclusive.
THEOREM LocksDisciplined == Spec => []LockDiscipline
<1>1. Control => LockDiscipline
  BY DEF Control
<1> QED BY <1>1, ControlInvariant, PTL

\* The write() of an append in _db_writedat() and _db_writeidx() goes to the end
\* of the file, however many processes append.
THEOREM AppendsAtEnd == Spec => []AppendAtEnd
<1>1. FileInv => AppendAtEnd
  BY DEF FileInv
<1> QED BY <1>1, FileInvariant, PTL
----------------------------------------------------------------------------
\* Every set of natural numbers has a least element ...
LEMMA Least ==
    ASSUME NEW T, T \subseteq Nat, T # {}
    PROVE  \E x \in T : \A y \in T : x <= y
<1> DEFINE R == OpToRel(<, Nat)
<1>1. IsWellFoundedOn(R, Nat)
  BY NatLessThanWellFounded
<1>2. \A x, y \in Nat : y < x => <<y, x>> \in R
  BY DEF OpToRel
<1> HIDE DEF R
<1>3. PICK x \in T : \A y \in T : ~(<<y, x>> \in R)
  BY <1>1, WFMin, Zenon
<1>4. \A y \in T : ~(y < x)
  BY <1>2, <1>3, Zenon
<1>5. \A y \in T : y \in Nat
  OBVIOUS
<1> QED BY <1>4, <1>5

\* ... and a set of them with an upper bound has a greatest one.
LEMMA Greatest ==
    ASSUME NEW T, T \subseteq Nat, T # {}, NEW b \in Nat, \A x \in T : x <= b
    PROVE  \E x \in T : \A y \in T : y <= x
<1> DEFINE U == {b - x : x \in T}
<1>0. \A x \in T : b - x \in Nat
  OBVIOUS
<1>1. U \subseteq Nat /\ U # {}
  BY <1>0
<1>2. PICK u \in U : \A v \in U : u <= v
  BY <1>1, Least
<1>3. PICK x \in T : u = b - x
  BY <1>2
<1>4. \A y \in T : b - x <= b - y
  BY <1>2, <1>3
<1> QED BY <1>4

\* A set that has 0 and, with a number, its successor, has every number.
LEMMA Induction ==
    ASSUME NEW T, 0 \in T, \A n \in Nat : n \in T => n + 1 \in T
    PROVE  \A n \in Nat : n \in T
<1> SUFFICES ASSUME Nat \ T # {} PROVE FALSE
  BY Zenon
<1>1. PICK n \in Nat \ T : \A m \in Nat \ T : n <= m
  BY Least
<1>2. n # 0 /\ n - 1 \in Nat
  BY <1>1
<1>3. n - 1 \in T
  BY <1>1, <1>2
<1> QED BY <1>1, <1>2, <1>3

\* The number of offsets of n records after the first h offsets.
LEMMA IntervalSize ==
    ASSUME NEW h \in Nat, NEW n \in Nat
    PROVE  IsFiniteSet(h + 1 .. h + n) /\ Cardinality(h + 1 .. h + n) = n
<1> DEFINE a == h + 1
<1> DEFINE b == h + n
<1>1. a \in Int /\ b \in Int /\ (IF a > b THEN 0 ELSE b - a + 1) = n
  OBVIOUS
<1> HIDE DEF a, b
<1>2. IsFiniteSet(a..b) /\ Cardinality(a..b) = IF a > b THEN 0 ELSE b - a + 1
  BY <1>1, FS_Interval
<1>3. IsFiniteSet(a..b) /\ Cardinality(a..b) = n
  BY <1>1, <1>2
<1> QED BY <1>3 DEF a, b
----------------------------------------------------------------------------
\* Where the pointers of T lead.
Closed(T) == \A o \in T : readptr(o) = 0 \/ readptr(o) \in T

\* The equation of the function in List.
IsReach(reach, off) ==
    reach = [n \in 0..Len(idx) |->
               IF n = 0 THEN {off} \ {0}
               ELSE reach[n - 1] \cup ({readptr(o) : o \in reach[n - 1]} \ {0})]

\* There is such a function.
LEMMA ReachExists ==
    ASSUME NEW off, Len(idx) \in Nat
    PROVE  \E reach : IsReach(reach, off)
<1> DEFINE Up(g, m) ==
        g = [n \in 0..m |-> IF n = 0 THEN {off} \ {0}
               ELSE g[n - 1] \cup ({readptr(o) : o \in g[n - 1]} \ {0})]
<1> DEFINE T == {m \in Nat : \E g : Up(g, m)}
<1>1. 0 \in T
  <2> DEFINE g == [n \in 0..0 |-> {off} \ {0}]
  <2>1. Up(g, 0)
    OBVIOUS
  <2> QED BY <2>1
<1>2. ASSUME NEW m \in Nat, m \in T PROVE m + 1 \in T
  <2>1. PICK g : Up(g, m)
    BY <1>2
  <2> DEFINE h == [n \in 0..m + 1 |-> IF n <= m THEN g[n]
                     ELSE g[m] \cup ({readptr(o) : o \in g[m]} \ {0})]
  <2> HIDE DEF readptr
  <2>2. \A n \in 0..m : h[n] = g[n]
    OBVIOUS
  <2>3. \A n \in 0..m + 1 : h[n] = IF n = 0 THEN {off} \ {0}
               ELSE h[n - 1] \cup ({readptr(o) : o \in h[n - 1]} \ {0})
    <3> SUFFICES ASSUME NEW n \in 0..m + 1
                 PROVE  h[n] = IF n = 0 THEN {off} \ {0}
                          ELSE h[n - 1] \cup ({readptr(o) : o \in h[n - 1]} \ {0})
      OBVIOUS
    <3>1. CASE n <= m
      <4>1. n \in 0..m /\ (n # 0 => n - 1 \in 0..m) /\ h[n] = g[n]
        BY <3>1
      <4>2. g[n] = IF n = 0 THEN {off} \ {0}
                   ELSE g[n - 1] \cup ({readptr(o) : o \in g[n - 1]} \ {0})
        BY <2>1, <4>1
      <4> HIDE DEF h
      <4> QED BY <2>2, <4>1, <4>2
    <3>2. CASE n = m + 1
      <4>1. h[n] = g[m] \cup ({readptr(o) : o \in g[m]} \ {0}) /\ h[m] = g[m] /\ n - 1 = m /\ n # 0
        BY <3>2
      <4> HIDE DEF h
      <4> QED BY <4>1
    <3> QED BY <3>1, <3>2
  <2>4. DOMAIN h = 0..m + 1 /\ h = [n \in 0..m + 1 |-> h[n]]
    OBVIOUS
  <2> HIDE DEF h
  <2>5. Up(h, m + 1)
    BY <2>3, <2>4
  <2> QED BY <2>5
<1> HIDE DEF T
<1>3. Len(idx) \in T
  BY <1>1, <1>2, Induction
<1> QED BY <1>3 DEF T, IsReach

\* List is the last of these sets.
LEMMA ListReach ==
    ASSUME NEW off, Len(idx) \in Nat
    PROVE  \E reach : IsReach(reach, off) /\ List(off) = reach[Len(idx)]
<1> DEFINE g == CHOOSE reach : IsReach(reach, off)
<1>1. IsReach(g, off)
  BY ReachExists, Zenon
<1>2. List(off) = g[Len(idx)]
  BY DEF List, IsReach
<1> HIDE DEF g
<1> QED BY <1>1, <1>2

\* Every pointer in the index file is 0 or the offset of a record.
PtrsInFile == Len(idx) \in Nat /\ \A r \in Recs : readptr(r) = 0 \/ readptr(r) \in Recs

\* The set in step n of List holds records only, the first one among them; it
\* grows with n, as far as the pointers lead, and if there is still one that
\* leads out of it, it has more than n elements.
LEMMA ReachGrows ==
    ASSUME PtrsInFile, NEW off \in Recs, NEW reach, IsReach(reach, off)
    PROVE  \A n \in 0..Len(idx) :
              /\ reach[n] \subseteq Recs /\ off \in reach[n]
              /\ \A T : off \in T /\ Closed(T) => reach[n] \subseteq T
              /\ Closed(reach[n]) \/ Cardinality(reach[n]) >= n + 1
<1> DEFINE Good(n) ==
              /\ reach[n] \subseteq Recs /\ off \in reach[n]
              /\ \A T : off \in T /\ Closed(T) => reach[n] \subseteq T
              /\ Closed(reach[n]) \/ Cardinality(reach[n]) >= n + 1
<1> DEFINE G == {n \in Nat : n \in 0..Len(idx) => Good(n)}
<1>0. Len(idx) \in Nat /\ NHASH \in Nat /\ IsFiniteSet(Recs) /\ off # 0
  <2>1. Len(idx) \in Nat /\ NHASH \in Nat
    BY DbAssumption DEF PtrsInFile
  <2>2. IsFiniteSet(Recs)
    BY <2>1, FS_Interval DEF Recs
  <2> QED BY <2>1, <2>2 DEF Recs
<1>1. 0 \in G
  <2>1. reach[0] = {off}
    BY <1>0 DEF IsReach
  <2>2. Cardinality(reach[0]) = 1
    BY <2>1, FS_Singleton
  <2>3. Good(0)
    BY <2>1, <2>2
  <2> HIDE DEF Good
  <2> QED BY <2>3
<1>2. ASSUME NEW n \in Nat, n \in G PROVE n + 1 \in G
  <2> SUFFICES ASSUME n + 1 \in 0..Len(idx) PROVE Good(n + 1)
    OBVIOUS
  <2>1. Good(n)
    BY <1>0, <1>2
  <2>2. reach[n + 1] = reach[n] \cup ({readptr(o) : o \in reach[n]} \ {0})
    BY <1>0 DEF IsReach
  <2>3. \A o \in reach[n] : readptr(o) = 0 \/ readptr(o) \in Recs
    BY <2>1 DEF PtrsInFile
  <2>4. reach[n + 1] \subseteq Recs /\ off \in reach[n + 1]
    BY <2>1, <2>2, <2>3
  <2>5. \A T : off \in T /\ Closed(T) => reach[n + 1] \subseteq T
    BY <2>1, <2>2 DEF Closed
  <2>6. CASE Closed(reach[n])
    <3>1. reach[n + 1] = reach[n]
      BY <2>2, <2>6 DEF Closed
    <3> QED BY <2>4, <2>5, <2>6, <3>1
  <2>7. CASE ~Closed(reach[n])
    <3>1. PICK o \in reach[n] : readptr(o) # 0 /\ readptr(o) \notin reach[n]
      BY <2>7 DEF Closed
    <3> DEFINE x == readptr(o)
    <3>2. IsFiniteSet(reach[n]) /\ IsFiniteSet(reach[n + 1])
      BY <1>0, <2>1, <2>4, FS_Subset
    <3>3. x \notin reach[n] /\ reach[n] \cup {x} \subseteq reach[n + 1]
      BY <2>2, <3>1
    <3> HIDE DEF x
    <3>4. Cardinality(reach[n] \cup {x}) = Cardinality(reach[n]) + 1
      BY <3>2, <3>3, FS_AddElement
    <3>5. Cardinality(reach[n] \cup {x}) <= Cardinality(reach[n + 1])
      BY <3>2, <3>3, FS_Subset
    <3>6. Cardinality(reach[n]) \in Nat /\ Cardinality(reach[n + 1]) \in Nat
      BY <3>2, FS_CardinalityType
    <3>7. Cardinality(reach[n + 1]) >= n + 1 + 1
      BY <2>1, <2>7, <3>4, <3>5, <3>6
    <3> QED BY <2>4, <2>5, <3>7
  <2> QED BY <2>6, <2>7
<1> HIDE DEF G
<1>3. \A n \in Nat : n \in G
  BY <1>1, <1>2, Induction
<1> QED BY <1>3 DEF G

\* What List computes: the least set of offsets that holds the first one and is
\* closed under the pointers.
ListIsLeast ==
    PtrsInFile =>
        \A off \in {0} \cup Recs :
            /\ List(off) \subseteq Recs
            /\ off # 0 => off \in List(off)
            /\ Closed(List(off))
            /\ \A T : (off = 0 \/ off \in T) /\ Closed(T) => List(off) \subseteq T

\* List takes as many steps as there are records: after that nothing new can be
\* found.
LEMMA ListLeast == ListIsLeast
<1> SUFFICES ASSUME PtrsInFile, NEW off \in {0} \cup Recs
             PROVE  /\ List(off) \subseteq Recs
                    /\ off # 0 => off \in List(off)
                    /\ Closed(List(off))
                    /\ \A T : (off = 0 \/ off \in T) /\ Closed(T) => List(off) \subseteq T
  BY DEF ListIsLeast
<1>0. Len(idx) \in Nat /\ NHASH \in Nat
  BY DbAssumption DEF PtrsInFile
<1>1. PICK reach : IsReach(reach, off) /\ List(off) = reach[Len(idx)]
  BY <1>0, ListReach
<1>2. CASE off = 0
  <2> DEFINE G == {n \in Nat : n \in 0..Len(idx) => reach[n] = {}}
  <2>1. 0 \in G
    BY <1>0, <1>1, <1>2 DEF IsReach
  <2>2. ASSUME NEW n \in Nat, n \in G PROVE n + 1 \in G
    <3> SUFFICES ASSUME n + 1 \in 0..Len(idx) PROVE reach[n + 1] = {}
      OBVIOUS
    <3>1. reach[n + 1] = reach[n] \cup ({readptr(o) : o \in reach[n]} \ {0})
      BY <1>0, <1>1 DEF IsReach
    <3>2. reach[n] = {}
      BY <1>0, <2>2
    <3> QED BY <3>1, <3>2
  <2> HIDE DEF G
  <2>3. Len(idx) \in G
    BY <1>0, <2>1, <2>2, Induction
  <2>4. List(off) = {}
    BY <1>0, <1>1, <2>3 DEF G
  <2> QED BY <1>2, <2>4 DEF Closed
<1>3. CASE off # 0
  <2>1. off \in Recs /\ Len(idx) \in 0..Len(idx)
    BY <1>0, <1>3
  <2>2. /\ List(off) \subseteq Recs /\ off \in List(off)
        /\ \A T : off \in T /\ Closed(T) => List(off) \subseteq T
        /\ Closed(List(off)) \/ Cardinality(List(off)) >= Len(idx) + 1
    BY <1>1, <2>1, ReachGrows
  <2>3. IsFiniteSet(Recs) /\ Cardinality(Recs) = Len(idx)
    BY <1>0, IntervalSize DEF Recs
  <2>4. Cardinality(List(off)) \in Nat /\ Cardinality(List(off)) <= Len(idx)
    BY <2>2, <2>3, FS_Subset, FS_CardinalityType
  <2>5. Closed(List(off))
    BY <1>0, <2>2, <2>4
  <2> QED BY <1>3, <2>2, <2>5
<1> QED BY <1>2, <1>3
----------------------------------------------------------------------------
\* Two functions describe the lists: own[o] is the head of the list that offset o
\* is on, Nowhere if it is on none, and dep[o] grows along a list from 0 at its
\* head.
Nowhere == -1

Ordered(own, dep) ==
    /\ own \in [Nat -> Nowhere..NHASH] /\ dep \in [Nat -> Nat]
    /\ \A a \in 0..NHASH : own[a] = a /\ dep[a] = 0
    /\ \A x \in Nat : own[x] # Nowhere /\ x > NHASH => dep[x] > 0
    /\ \A x, y \in Nat : own[x] # Nowhere /\ own[x] = own[y] /\ dep[x] = dep[y] => x = y

\* s comes next after o on the list of o; it is 0 when o is the last.
Follows(own, dep, o, s) ==
    IF s = 0
    THEN \A x \in Nat : own[x] = own[o] => dep[x] <= dep[o]
    ELSE /\ s \in Nat /\ own[s] = own[o] /\ dep[o] < dep[s]
         /\ \A x \in Nat : own[x] = own[o] /\ dep[o] < dep[x] => dep[s] <= dep[x]

\* Only one offset comes next.
LEMMA FollowsOne ==
    ASSUME NEW own, NEW dep, Ordered(own, dep), NEW o \in Nat, own[o] # Nowhere,
           NEW s, NEW t, Follows(own, dep, o, s), Follows(own, dep, o, t)
    PROVE  s = t
<1>1. dep \in [Nat -> Nat] /\ own[o] # Nowhere
  BY DEF Ordered
<1>2. CASE s = 0 /\ t # 0
  BY <1>1, <1>2 DEF Follows
<1>3. CASE s # 0 /\ t = 0
  BY <1>1, <1>3 DEF Follows
<1>4. CASE s # 0 /\ t # 0
  <2>1. s \in Nat /\ t \in Nat /\ own[s] = own[o] /\ own[t] = own[o] /\ dep[s] = dep[t]
    BY <1>1, <1>4 DEF Follows
  <2> QED BY <1>1, <2>1 DEF Ordered
<1> QED BY <1>2, <1>3, <1>4

\* An offset comes next after one offset only.
LEMMA FollowsOther ==
    ASSUME NEW own, NEW dep, Ordered(own, dep), NEW o1 \in Nat, NEW o2 \in Nat,
           own[o1] # Nowhere, NEW s, s # 0,
           Follows(own, dep, o1, s), Follows(own, dep, o2, s)
    PROVE  o1 = o2
<1>1. dep \in [Nat -> Nat]
  BY DEF Ordered
<1>2. s \in Nat /\ own[o1] = own[s] /\ own[o2] = own[s] /\ dep[o1] = dep[o2]
  BY <1>1 DEF Follows
<1> QED BY <1>2 DEF Ordered

\* On a list that a step leaves alone the same offsets follow each other.
LEMMA FollowsSame ==
    ASSUME NEW own, NEW dep, NEW own2, NEW dep2, NEW o \in Nat, NEW s,
           \A x \in Nat : own[x] = own[o] \/ own2[x] = own[o] =>
               own2[x] = own[x] /\ dep2[x] = dep[x],
           Follows(own, dep, o, s)
    PROVE  Follows(own2, dep2, o, s)
<1>1. own2[o] = own[o] /\ dep2[o] = dep[o]
  OBVIOUS
<1> QED BY <1>1 DEF Follows

\* Offset r becomes the first record on list a, taken from where it was.
Put(own, r, a) == [own EXCEPT ![r] = a]
Shift(own, dep, r, a) ==
    [x \in Nat |-> IF x = r THEN 1
                   ELSE IF own[x] = a /\ x > NHASH THEN dep[x] + 1 ELSE dep[x]]

\* Then r comes first on list a, before the record that was first; every other
\* list stays as it was, except that where r was, the record after it takes its
\* place.
LEMMA PutFirst ==
    ASSUME NEW own, NEW dep, Ordered(own, dep), NEW r \in Nat, r > NHASH,
           NEW a \in 0..NHASH, own[r] # a
    PROVE  LET own2 == Put(own, r, a)
               dep2 == Shift(own, dep, r, a)
           IN  /\ Ordered(own2, dep2)
               /\ Follows(own2, dep2, a, r)
               /\ \A s : Follows(own, dep, a, s) => Follows(own2, dep2, r, s)
               /\ \A o \in Nat : \A s :
                      own[o] = a /\ o # a /\ Follows(own, dep, o, s) => Follows(own2, dep2, o, s)
               /\ \A o \in Nat : \A s :
                      own[o] # Nowhere /\ own[o] # a /\ o # r /\ s # r /\ Follows(own, dep, o, s)
                          => Follows(own2, dep2, o, s)
               /\ \A o \in Nat : \A s :
                      own[o] = own[r] /\ own[r] # Nowhere
                      /\ Follows(own, dep, o, r) /\ Follows(own, dep, r, s)
                          => Follows(own2, dep2, o, s)
<1> DEFINE own2 == Put(own, r, a)
<1> DEFINE dep2 == Shift(own, dep, r, a)
<1>0. NHASH \in Nat /\ a \in Nat /\ a # r /\ r # 0
  BY DbAssumption
<1>1. /\ own \in [Nat -> Nowhere..NHASH] /\ dep \in [Nat -> Nat]
      /\ \A h \in 0..NHASH : own[h] = h /\ dep[h] = 0
      /\ \A x \in Nat : own[x] # Nowhere /\ x > NHASH => dep[x] > 0
      /\ \A x, y \in Nat : own[x] # Nowhere /\ own[x] = own[y] /\ dep[x] = dep[y] => x = y
  BY DEF Ordered
<1>2. \A x \in Nat : own2[x] = IF x = r THEN a ELSE own[x]
  BY <1>1 DEF Put
<1>3. /\ \A x \in Nat : dep2[x] = IF x = r THEN 1
                        ELSE IF own[x] = a /\ x > NHASH THEN dep[x] + 1 ELSE dep[x]
      /\ dep2 \in [Nat -> Nat]
  BY <1>1 DEF Shift
<1>4. own2 \in [Nat -> Nowhere..NHASH]
  BY <1>0, <1>1 DEF Put, Nowhere
<1>5. \A x \in Nat : own[x] = a /\ x # a => x > NHASH /\ dep[x] > 0
  BY <1>0, <1>1 DEF Nowhere
<1>6. own[a] = a /\ dep[a] = 0 /\ own2[a] = a /\ dep2[a] = 0 /\ own2[r] = a /\ dep2[r] = 1
  BY <1>0, <1>1, <1>2, <1>3
<1>7. \A x \in Nat : own[x] = a /\ x # a => own2[x] = a /\ dep2[x] = dep[x] + 1 /\ dep[x] > 0 /\ x # r
  BY <1>2, <1>3, <1>5
<1>8. \A x \in Nat : own[x] # a /\ x # r => own2[x] = own[x] /\ dep2[x] = dep[x]
  BY <1>2, <1>3
<1>9. a # Nowhere
  BY <1>0 DEF Nowhere
<1> HIDE DEF own2, dep2
<1>10. Ordered(own2, dep2)
  <2>1. \A h \in 0..NHASH : own2[h] = h /\ dep2[h] = 0
    BY <1>0, <1>1, <1>6, <1>8
  <2>2. ASSUME NEW x \in Nat, own2[x] # Nowhere, x > NHASH PROVE dep2[x] > 0
    <3>1. CASE x = r
      BY <1>6, <3>1
    <3>2. CASE x # r /\ own[x] = a
      <4>1. x # a /\ dep[x] \in Nat
        BY <1>0, <1>1, <2>2
      <4> QED BY <1>7, <3>2, <4>1
    <3>3. CASE x # r /\ own[x] # a
      BY <1>1, <1>8, <2>2, <3>3
    <3> QED BY <3>1, <3>2, <3>3
  <2>3. ASSUME NEW x \in Nat, NEW y \in Nat, own2[x] # Nowhere, own2[x] = own2[y],
               dep2[x] = dep2[y]
        PROVE  x = y
    <3>1. CASE own2[x] = a
      <4>1. ASSUME NEW z \in Nat, own2[z] = a
            PROVE  \/ z = r /\ dep2[z] = 1
                   \/ z = a /\ dep2[z] = 0
                   \/ z # r /\ z # a /\ own[z] = a /\ dep2[z] = dep[z] + 1 /\ dep[z] \in Nat /\ dep[z] > 0
        <5>1. z # r => own[z] = a
          BY <1>2, <4>1
        <5>2. z # r /\ z # a => dep2[z] = dep[z] + 1 /\ dep[z] \in Nat /\ dep[z] > 0
          BY <1>1, <1>7, <5>1
        <5> QED BY <1>6, <5>1, <5>2
      <4>2. own2[y] = a
        BY <2>3, <3>1
      <4>3. \/ x = y
            \/ own[x] = a /\ own[y] = a /\ dep[x] = dep[y]
        <5> DEFINE dx == dep2[x]
        <5> DEFINE ex == dep[x]
        <5> DEFINE ey == dep[y]
        <5>1. dx = dep2[y]
          BY <2>3
        <5>2. \/ x = r /\ dx = 1
              \/ x = a /\ dx = 0
              \/ own[x] = a /\ dx = ex + 1 /\ ex \in Nat /\ ex > 0
          BY <3>1, <4>1
        <5>3. \/ y = r /\ dx = 1
              \/ y = a /\ dx = 0
              \/ own[y] = a /\ dx = ey + 1 /\ ey \in Nat /\ ey > 0
          BY <4>1, <4>2, <5>1
        <5> HIDE DEF dx, ex, ey
        <5>4. x = y \/ (own[x] = a /\ own[y] = a /\ ex = ey)
          BY <5>2, <5>3
        <5> QED BY <5>4 DEF ex, ey
      <4> QED BY <1>1, <1>9, <4>3
    <3>2. CASE own2[x] # a
      <4>1. x # r /\ y # r /\ own[x] # a /\ own[y] # a
        BY <1>2, <2>3, <3>2
      <4> QED BY <1>1, <1>8, <2>3, <4>1
    <3> QED BY <3>1, <3>2
  <2> QED BY <1>3, <1>4, <2>1, <2>2, <2>3 DEF Ordered
<1>11. \A x \in Nat : own2[x] = a => x = a \/ x = r \/ (own[x] = a /\ x # a /\ dep2[x] = dep[x] + 1 /\ dep[x] > 0)
  BY <1>2, <1>7
<1>12. Follows(own2, dep2, a, r)
  BY <1>0, <1>1, <1>6, <1>11 DEF Follows
<1>13. ASSUME NEW s, Follows(own, dep, a, s) PROVE Follows(own2, dep2, r, s)
  <2>1. CASE s = 0
    <3>1. \A x \in Nat : own[x] = a => dep[x] <= 0
      BY <1>6, <1>13, <2>1 DEF Follows
    <3>2. \A x \in Nat : own2[x] = a => dep2[x] <= 1
      BY <1>1, <1>6, <1>11, <3>1
    <3> QED BY <1>6, <2>1, <3>2 DEF Follows
  <2>2. CASE s # 0
    <3>1. s \in Nat /\ own[s] = a /\ 0 < dep[s] /\ s # a
          /\ \A x \in Nat : own[x] = a /\ 0 < dep[x] => dep[s] <= dep[x]
      BY <1>6, <1>13, <2>2 DEF Follows
    <3>2. own2[s] = a /\ dep2[s] = dep[s] + 1
      BY <1>7, <3>1
    <3>3. \A x \in Nat : own2[x] = a /\ 1 < dep2[x] => dep2[s] <= dep2[x]
      BY <1>1, <1>6, <1>11, <3>1, <3>2
    <3>4. 1 < dep2[s]
      BY <1>1, <3>1, <3>2
    <3> QED BY <1>6, <2>2, <3>1, <3>2, <3>3, <3>4 DEF Follows
  <2> QED BY <2>1, <2>2
<1>14. ASSUME NEW o \in Nat, NEW s, own[o] = a, o # a, Follows(own, dep, o, s)
       PROVE  Follows(own2, dep2, o, s)
  <2>1. own2[o] = a /\ dep2[o] = dep[o] + 1 /\ dep[o] > 0 /\ dep[o] \in Nat
    BY <1>1, <1>7, <1>14
  <2>2. CASE s = 0
    <3>1. \A x \in Nat : own[x] = a => dep[x] <= dep[o]
      BY <1>14, <2>2 DEF Follows
    <3>2. \A x \in Nat : own2[x] = a => dep2[x] <= dep2[o]
      BY <1>1, <1>6, <1>11, <2>1, <3>1
    <3> QED BY <2>1, <2>2, <3>2 DEF Follows
  <2>3. CASE s # 0
    <3>1. s \in Nat /\ own[s] = a /\ dep[o] < dep[s] /\ s # a
          /\ \A x \in Nat : own[x] = a /\ dep[o] < dep[x] => dep[s] <= dep[x]
      BY <1>6, <1>14, <2>1, <2>3 DEF Follows
    <3>2. own2[s] = a /\ dep2[s] = dep[s] + 1 /\ dep[s] \in Nat
      BY <1>1, <1>7, <3>1
    <3>3. \A x \in Nat : own2[x] = a /\ dep2[o] < dep2[x] => dep2[s] <= dep2[x]
      BY <1>1, <1>6, <1>11, <2>1, <3>1, <3>2
    <3> QED BY <2>1, <2>3, <3>1, <3>2, <3>3 DEF Follows
  <2> QED BY <2>2, <2>3
<1>15. ASSUME NEW o \in Nat, NEW s, own[o] # Nowhere, own[o] # a, o # r, s # r,
              Follows(own, dep, o, s)
       PROVE  Follows(own2, dep2, o, s)
  <2>1. own2[o] = own[o] /\ dep2[o] = dep[o]
    BY <1>8, <1>15
  <2>2. \A x \in Nat : own2[x] = own[o] => own[x] = own[o] /\ dep2[x] = dep[x]
    BY <1>2, <1>8, <1>15
  <2>3. CASE s = 0
    BY <1>15, <2>1, <2>2, <2>3 DEF Follows
  <2>4. CASE s # 0
    <3>1. s \in Nat /\ own2[s] = own[o] /\ dep2[s] = dep[s]
      BY <1>8, <1>15, <2>4 DEF Follows
    <3> QED BY <1>15, <2>1, <2>2, <2>4, <3>1 DEF Follows
  <2> QED BY <2>3, <2>4
<1>16. ASSUME NEW o \in Nat, NEW s, own[o] = own[r], own[r] # Nowhere,
              Follows(own, dep, o, r), Follows(own, dep, r, s)
       PROVE  Follows(own2, dep2, o, s)
  <2>1. dep[o] < dep[r] /\ o # r
        /\ \A x \in Nat : own[x] = own[o] /\ dep[o] < dep[x] => dep[r] <= dep[x]
    BY <1>0, <1>1, <1>16 DEF Follows
  <2>2. own2[o] = own[o] /\ dep2[o] = dep[o] /\ own[o] # a
    BY <1>8, <1>16, <2>1
  <2>3. \A x \in Nat : own2[x] = own[o] => own[x] = own[o] /\ dep2[x] = dep[x] /\ x # r
    BY <1>2, <1>8, <2>2
  <2>4. \A x \in Nat : own[x] = own[r] /\ x # r => dep[x] # dep[r]
    BY <1>1, <1>16
  <2>5. CASE s = 0
    <3>1. \A x \in Nat : own[x] = own[r] => dep[x] <= dep[r]
      BY <1>16, <2>5 DEF Follows
    <3>2. \A x \in Nat : own2[x] = own[o] => dep2[x] <= dep2[o]
      BY <1>1, <1>16, <2>1, <2>2, <2>3, <2>4, <3>1
    <3> QED BY <2>2, <2>5, <3>2 DEF Follows
  <2>6. CASE s # 0
    <3>1. s \in Nat /\ own[s] = own[r] /\ dep[r] < dep[s] /\ s # r
          /\ \A x \in Nat : own[x] = own[r] /\ dep[r] < dep[x] => dep[s] <= dep[x]
      BY <1>1, <1>16, <2>6 DEF Follows
    <3>2. own2[s] = own[o] /\ dep2[s] = dep[s]
      BY <1>8, <1>16, <2>2, <3>1
    <3>3. \A x \in Nat : own2[x] = own[o] /\ dep2[o] < dep2[x] => dep2[s] <= dep2[x]
      BY <1>1, <1>16, <2>1, <2>2, <2>3, <2>4, <3>1, <3>2
    <3>4. dep2[o] < dep2[s]
      BY <1>1, <2>1, <2>2, <3>1, <3>2
    <3> QED BY <2>2, <2>6, <3>1, <3>2, <3>3, <3>4 DEF Follows
  <2> QED BY <2>5, <2>6
<1> QED BY <1>10, <1>12, <1>13, <1>14, <1>15, <1>16 DEF own2, dep2

\* Offset r leaves its list.
LEMMA TakeOff ==
    ASSUME NEW own, NEW dep, Ordered(own, dep), NEW r \in Nat, r > NHASH, own[r] # Nowhere
    PROVE  LET own2 == Put(own, r, Nowhere)
           IN  /\ Ordered(own2, dep)
               /\ \A o \in Nat : \A s :
                      own[o] # Nowhere /\ o # r /\ s # r /\ Follows(own, dep, o, s)
                          => Follows(own2, dep, o, s)
               /\ \A o \in Nat : \A s :
                      own[o] = own[r] /\ Follows(own, dep, o, r) /\ Follows(own, dep, r, s)
                          => Follows(own2, dep, o, s)
<1> DEFINE own2 == Put(own, r, Nowhere)
<1>0. NHASH \in Nat /\ r # 0
  BY DbAssumption
<1>1. /\ own \in [Nat -> Nowhere..NHASH] /\ dep \in [Nat -> Nat]
      /\ \A h \in 0..NHASH : own[h] = h /\ dep[h] = 0
      /\ \A x \in Nat : own[x] # Nowhere /\ x > NHASH => dep[x] > 0
      /\ \A x, y \in Nat : own[x] # Nowhere /\ own[x] = own[y] /\ dep[x] = dep[y] => x = y
  BY DEF Ordered
<1>2. \A x \in Nat : own2[x] = IF x = r THEN Nowhere ELSE own[x]
  BY <1>1 DEF Put
<1>3. own2 \in [Nat -> Nowhere..NHASH]
  BY <1>0, <1>1 DEF Put, Nowhere
<1> HIDE DEF own2
<1>4. Ordered(own2, dep)
  <2>1. \A h \in 0..NHASH : own2[h] = h /\ dep[h] = 0
    BY <1>0, <1>1, <1>2
  <2> QED BY <1>1, <1>2, <1>3, <2>1 DEF Ordered
<1>5. ASSUME NEW o \in Nat, NEW s, own[o] # Nowhere, o # r, s # r, Follows(own, dep, o, s)
      PROVE  Follows(own2, dep, o, s)
  <2>1. own2[o] = own[o] /\ \A x \in Nat : own2[x] = own[o] => own[x] = own[o]
    BY <1>2, <1>5
  <2>2. s # 0 => s \in Nat /\ own2[s] = own[o]
    BY <1>2, <1>5 DEF Follows
  <2> QED BY <1>5, <2>1, <2>2 DEF Follows
<1>6. ASSUME NEW o \in Nat, NEW s, own[o] = own[r],
             Follows(own, dep, o, r), Follows(own, dep, r, s)
      PROVE  Follows(own2, dep, o, s)
  <2>1. dep[o] < dep[r] /\ o # r
        /\ \A x \in Nat : own[x] = own[o] /\ dep[o] < dep[x] => dep[r] <= dep[x]
    BY <1>0, <1>1, <1>6 DEF Follows
  <2>2. own2[o] = own[o] /\ \A x \in Nat : own2[x] = own[o] => own[x] = own[r] /\ x # r
    BY <1>2, <1>6, <2>1
  <2>3. \A x \in Nat : own[x] = own[r] /\ x # r => dep[x] # dep[r]
    BY <1>1
  <2>4. CASE s = 0
    <3>1. \A x \in Nat : own2[x] = own[o] => dep[x] <= dep[o]
      BY <1>1, <1>6, <2>1, <2>2, <2>3, <2>4 DEF Follows
    <3> QED BY <2>2, <2>4, <3>1 DEF Follows
  <2>5. CASE s # 0
    <3>1. s \in Nat /\ own[s] = own[r] /\ dep[r] < dep[s] /\ s # r
          /\ \A x \in Nat : own[x] = own[r] /\ dep[r] < dep[x] => dep[s] <= dep[x]
      BY <1>1, <1>6, <2>5 DEF Follows
    <3>2. own2[s] = own[o] /\ dep[o] < dep[s]
      BY <1>1, <1>2, <1>6, <2>1, <3>1
    <3>3. \A x \in Nat : own2[x] = own[o] /\ dep[o] < dep[x] => dep[s] <= dep[x]
      BY <1>1, <1>6, <2>1, <2>2, <2>3, <3>1
    <3> QED BY <2>2, <2>5, <3>1, <3>2, <3>3 DEF Follows
  <2> QED BY <2>4, <2>5
<1> QED BY <1>4, <1>5, <1>6 DEF own2
-----------------------------------------------------------------------------
\* Every offset on a list is that of a list head or of a record, and a pointer has
\* room for it.
Lists(own, dep) ==
    /\ Ordered(own, dep)
    /\ \A x \in Nat : own[x] # Nowhere /\ x > NHASH => x \in Recs /\ x <= PTR_MAX

\* Process p is between two writes of _db_dodelete() that belong together, and
\* the pointer at offset o is still to be written.
Pending(p, o) ==
    \/ pc[p] = "dodelete.writefree" /\ o = FREE_OFF
    \/ pc[p] \in {"dodelete.writefree", "dodelete.writeptr"} /\ o = db[p].ptroff

\* The other pointers are those of the lists.
Pointers(own, dep) ==
    \A o \in Nat :
        own[o] # Nowhere /\ (\A p \in Procs : ~Pending(p, o))
            => Follows(own, dep, o, readptr(o))

\* Record r of the chain of key k has that key.
Hit(own, k, r) == r \in Recs /\ own[r] = Hash[k] /\ readidx(r).key = k

Absent(own, k) == \A r \in Recs : ~Hit(own, k, r)

\* Every record on a chain belongs there, no key is there twice, and the free
\* list holds the deleted records.
Keyed(own) ==
    /\ \A r \in Recs :
          /\ own[r] \in Chains => readidx(r).key \in Keys /\ Hash[readidx(r).key] = own[r]
          /\ own[r] = FREE_OFF => readidx(r).key = BLANK
    /\ \A k \in Keys : \A r, s \in Recs : Hit(own, k, r) /\ Hit(own, k, s) => r = s

\* The chains show v under key k.
Shows(own, k, v) ==
    IF v = NULL THEN Absent(own, k)
    ELSE \E r \in Recs : Hit(own, k, r) /\ dat[readidx(r).datoff].data = v

\* From the first write of a db_store() or a db_delete(), or when it is clear
\* that one will follow, to the return.
Changing ==
    {"dodelete.readptr", "dodelete.writeidx", "dodelete.writefree", "dodelete.writeptr",
     "dodelete.unlock", "unlock"} \cup (Storing \ {"replace.writedat"})

Busy(p, k) == pc[p] \in Changing /\ call[p].fn # "fetch" /\ call[p].key = k

\* Keys that nobody is changing have their data.
MapShown(own) ==
    \A k \in Keys : (\A p \in Procs : ~Busy(p, k)) => Shows(own, k, kv[k])

\* Process p has, at db[p].idxoff, an index record that is on no list.
HasNew(p) ==
    \/ pc[p] \in {"reuse.writedat", "reuse.writeidx", "append.idxunlock", "store.writeptr"}
    \/ pc[p] = "findfree.unlock" /\ loc[p].offset # 0

\* A record on no list is in the hands of one process, or was in those of one
\* that exited because no pointer has room for its offset, or is one of the
\* records in left, which were left behind when a process was killed (DbCrash).
NewRecs(own, left) ==
    /\ \A r \in left : r \in Recs /\ own[r] = Nowhere
    /\ \A p \in Procs : HasNew(p) =>
          db[p].idxoff \in Recs /\ own[db[p].idxoff] = Nowhere /\ db[p].idxoff \notin left
    /\ \A p, q \in Procs : p # q /\ HasNew(p) /\ HasNew(q) => db[p].idxoff # db[q].idxoff
    /\ \A r \in Recs \ left : own[r] = Nowhere =>
          \E p \in Procs : \/ pc[p] = "exited" /\ r > PTR_MAX
                           \/ HasNew(p) /\ db[p].idxoff = r

\* So is a data record that no index record has.
NewDats ==
    /\ \A p \in Procs, r \in Recs : pc[p] \in HasDat => readidx(r).datoff # db[p].datoff
    /\ \A p, q \in Procs :
          p # q /\ pc[p] \in HasDat /\ pc[q] \in HasDat => db[p].datoff # db[q].datoff

\* DataFits, by offset.
DataOK ==
    /\ \A r, s \in Recs : readidx(r).datoff = readidx(s).datoff => r = s
    /\ \A r \in Recs : dat[readidx(r).datoff].size = readidx(r).datlen
    /\ \A i \in 1..Len(dat) : dat[i].data = BLANK \/ DatLen[dat[i].data] = dat[i].size
----------------------------------------------------------------------------
\* What a process knows of the lists it has locked.  _db_find(): the key is not
\* in the part of the chain before loc[p].offset ...
Finding(own, dep, p) ==
    pc[p] = "find.readidx" =>
        /\ own[db[p].ptroff] = chainoff(p)
        /\ Follows(own, dep, db[p].ptroff, loc[p].offset)
        /\ \A x \in Recs : Hit(own, call[p].key, x) => dep[loc[p].offset] <= dep[x]

\* ... the record at db[p].idxoff is the one with the key, ptroff is where its
\* pointer is, the DB structure has what the record says, and the data are
\* overwritten with blanks before the key ...
AtRec ==
    {"fetch.readdat", "dodelete", "dodelete.writedat", "dodelete.readptr",
     "dodelete.writeidx", "replace.writedat"}

AtRecord(own, dep, p) ==
    pc[p] \in AtRec =>
        /\ own[db[p].ptroff] = chainoff(p)
        /\ Follows(own, dep, db[p].ptroff, db[p].idxoff)
        /\ Hit(own, call[p].key, db[p].idxoff)
        /\ db[p].datoff = readidx(db[p].idxoff).datoff
        /\ db[p].datlen = readidx(db[p].idxoff).datlen
        /\ db[p].ptrval = readptr(db[p].idxoff)
        /\ pc[p] \in {"dodelete.readptr", "dodelete.writeidx"} => dat[db[p].datoff].data = BLANK

\* ... and is not there any more once the key is blank, or not there at all.
Gone ==
    {"dodelete.writefree", "dodelete.writeptr", "dodelete.unlock"}
        \cup (Storing \ {"replace.writedat"})

Missing(own, p) == pc[p] \in Gone => Absent(own, call[p].key)

\* _db_dodelete(): the two pointers that it saves, and the state between its
\* writes.
Saved(own, dep, p) ==
    pc[p] = "dodelete.writeidx" =>
        /\ Follows(own, dep, FREE_OFF, loc[p].freeptr)
        /\ loc[p].saveptr = db[p].ptrval

Freed(own, dep, p) ==
    pc[p] = "dodelete.writefree" =>
        /\ Follows(own, dep, FREE_OFF, db[p].idxoff)
        /\ readptr(FREE_OFF) = readptr(db[p].idxoff)

Unlinking(own, dep, p) ==
    pc[p] \in {"dodelete.writefree", "dodelete.writeptr"} =>
        /\ own[db[p].ptroff] = chainoff(p)
        /\ Follows(own, dep, db[p].ptroff, loc[p].saveptr)
        /\ own[db[p].idxoff] = FREE_OFF
        /\ readptr(db[p].ptroff) = db[p].idxoff

\* db_store(): the first record of the chain.
Heads == Storing \ {"store.head", "store.rehead", "replace.writedat"}

Heading(own, dep, p) == pc[p] \in Heads => Follows(own, dep, chainoff(p), loc[p].ptrval)

\* _db_findfree(): saveoffset is where the pointer to the free record is.
Searching(own, dep, p) ==
    pc[p] = "findfree.readidx" =>
        /\ own[loc[p].saveoffset] = FREE_OFF
        /\ Follows(own, dep, loc[p].saveoffset, loc[p].offset)

Taking(own, dep, p) ==
    pc[p] = "findfree.writeptr" =>
        /\ own[loc[p].saveoffset] = FREE_OFF
        /\ Follows(own, dep, loc[p].saveoffset, db[p].idxoff)
        /\ loc[p].offset # 0
        /\ db[p].ptrval = readptr(db[p].idxoff)

\* The data record of a free record, and of a new one, are of the right length.
Reuses(p) ==
    \/ pc[p] \in {"findfree.writeptr", "reuse.writedat", "reuse.writeidx"}
    \/ pc[p] = "findfree.unlock" /\ loc[p].offset # 0

Reusing(p) ==
    Reuses(p) =>
        /\ readidx(db[p].idxoff).key = BLANK
        /\ db[p].datoff = readidx(db[p].idxoff).datoff
        /\ DatLen[call[p].data] = readidx(db[p].idxoff).datlen

Replacing(p) == pc[p] = "replace.writedat" => DatLen[call[p].data] = db[p].datlen

Measured(p) ==
    pc[p] \in HasDat \cup {"append.datwrite"} => db[p].datlen = DatLen[call[p].data]

\* The new data and the new index record are in the files before the record is
\* put on the chain.
Filled(p) ==
    pc[p] \in HasDat \cup {"reuse.writeidx"} =>
        /\ dat[db[p].datoff].data = call[p].data
        /\ dat[db[p].datoff].size = db[p].datlen

Written(p) ==
    pc[p] \in {"append.idxunlock", "store.writeptr"} =>
        /\ readidx(db[p].idxoff).key = call[p].key
        /\ readptr(db[p].idxoff) = loc[p].ptrval
        /\ dat[readidx(db[p].idxoff).datoff].data = call[p].data

\* What the function will return, and what it has done when it does.
Replying(p) ==
    /\ pc[p] \in Deleting \cup Storing \cup {"unlock"} => loc[p].rc = Abs!Reply(kv, call[p])
    /\ pc[p] \in Storing \/ (pc[p] \in Deleting /\ call[p].fn = "store")
          => ~Abs!Refused(kv, call[p])

Done(own, p) ==
    pc[p] = "unlock" => Shows(own, call[p].key, Abs!Effect(kv, call[p])[call[p].key])

At(own, dep, p) ==
    /\ Finding(own, dep, p) /\ AtRecord(own, dep, p) /\ Missing(own, p)
    /\ Saved(own, dep, p) /\ Freed(own, dep, p) /\ Unlinking(own, dep, p)
    /\ Heading(own, dep, p) /\ Searching(own, dep, p) /\ Taking(own, dep, p)
    /\ Reusing(p) /\ Replacing(p) /\ Measured(p) /\ Filled(p) /\ Written(p)
    /\ Replying(p) /\ Done(own, p)

Good(own, dep, left) ==
    /\ Lists(own, dep) /\ Pointers(own, dep)
    /\ Keyed(own) /\ MapShown(own)
    /\ NewRecs(own, left) /\ NewDats /\ DataOK
    /\ \A p \in Procs : At(own, dep, p)

\* The inductive invariant; without crashes, nothing is left behind.
MapInv(left) == \E own, dep : Good(own, dep, left)
----------------------------------------------------------------------------
\* Process p may write on list a.
Owns(p, a) == Held(p, a) /\ call[p].fn # "fetch"

\* Nobody else uses a list that one process may write on.
LEMMA Exclusive ==
    ASSUME Control, NEW p \in Procs, NEW q \in Procs, p # q, NEW a \in Regions, Owns(p, a)
    PROVE  ~Held(q, a)
<1>1. lock[a][p] = "write"
  BY DEF Control, LockDiscipline, LockOf, Owns
<1>2. lock[a][q] = "none"
  BY <1>1 DEF Control, LockDiscipline
<1> QED BY <1>2 DEF Control, LockDiscipline, LockOf

\* The lists that a process has locked.
LEMMA HeldLists ==
    ASSUME Control, NEW p \in Procs
    PROVE  /\ pc[p] \notin Outside =>
                 /\ call[p] \in Requests /\ call[p].key \in Keys /\ chainoff(p) \in Chains
                 /\ Held(p, chainoff(p))
                 /\ call[p].fn # "fetch" => Owns(p, chainoff(p))
           /\ pc[p] \in FreeLocked => Owns(p, FREE_OFF) /\ Held(p, FREE_OFF)
           /\ pc[p] \in Storing \cup Deleting => pc[p] \notin Outside /\ call[p].fn # "fetch"
           /\ \A a \in 0..NHASH : Held(p, a) =>
                 \/ pc[p] \notin Outside /\ a = chainoff(p)
                 \/ pc[p] \in FreeLocked /\ a = FREE_OFF
<1>1. CallOK(p)
  BY DEF Control
<1>2. pc[p] \notin Outside => call[p] \in Requests
  BY <1>1 DEF CallOK, Outside
<1>3. pc[p] \notin Outside => call[p].key \in Keys /\ chainoff(p) \in Chains
  BY <1>2, RequestFn DEF chainoff
<1>4. pc[p] \in Storing \cup Deleting => pc[p] \notin Outside /\ call[p].fn # "fetch"
  BY <1>1 DEF CallOK, Storing, Deleting, Outside
<1>5. pc[p] \in FreeLocked => pc[p] \in Storing \cup Deleting
  BY DEF FreeLocked, Storing, Deleting
<1>6. \A a \in 0..NHASH : a # IDX_TAIL /\ a # DATFILE
  BY DbAssumption DEF IDX_TAIL, DATFILE
<1> QED BY <1>2, <1>3, <1>4, <1>5, <1>6 DEF Held, Owns

\* A step leaves the entry of record x, but for its pointer, and its data alone.
SameEntry(x) ==
    /\ x \in Recs /\ x \in Recs'
    /\ readidx(x).key' = readidx(x).key
    /\ readidx(x).keylen' = readidx(x).keylen
    /\ readidx(x).datoff' = readidx(x).datoff
    /\ readidx(x).datlen' = readidx(x).datlen
    /\ dat'[readidx(x).datoff] = dat[readidx(x).datoff]

\* It leaves list a alone.
SameList(own, dep, own2, dep2, a) ==
    \A x \in Nat : own[x] = a \/ own2[x] = a =>
        /\ own2[x] = own[x] /\ dep2[x] = dep[x] /\ readptr(x)' = readptr(x)
        /\ x > NHASH => SameEntry(x)

\* On such a list the same offsets follow each other, ...
LEMMA SameFollows ==
    ASSUME NEW own, NEW dep, NEW own2, NEW dep2, NEW a, SameList(own, dep, own2, dep2, a)
    PROVE  \A o \in Nat : \A s : own[o] = a /\ Follows(own, dep, o, s) =>
               own2[o] = a /\ Follows(own2, dep2, o, s)
  BY FollowsSame DEF SameList

\* ... a key has the same records, if any, ...
LEMMA SameHits ==
    ASSUME NEW own, NEW dep, NEW own2, NEW dep2, NEW k, SameList(own, dep, own2, dep2, Hash[k])
    PROVE  /\ \A x : Hit(own2, k, x)' <=> Hit(own, k, x)
           /\ \A x : Hit(own, k, x) => SameEntry(x) /\ dep2[x] = dep[x]
           /\ Absent(own2, k)' <=> Absent(own, k)
<1>0. NHASH \in Nat /\ \A x : x \in Recs \/ x \in Recs' => x \in Nat /\ x > NHASH
  BY DbAssumption DEF Recs
<1>1. \A x : Hit(own, k, x) => SameEntry(x) /\ own2[x] = own[x] /\ dep2[x] = dep[x]
  BY <1>0 DEF Hit, SameList
<1>2. \A x : Hit(own2, k, x)' => SameEntry(x) /\ own2[x] = own[x]
  BY <1>0 DEF Hit, SameList
<1>3. \A x : Hit(own2, k, x)' <=> Hit(own, k, x)
  BY <1>1, <1>2 DEF Hit, SameEntry
<1>4. Absent(own2, k)' <=> Absent(own, k)
  BY <1>1, <1>2, <1>3 DEF Absent, SameEntry
<1> QED BY <1>1, <1>3, <1>4

\* ... and the same data.
LEMMA SameShows ==
    ASSUME NEW own, NEW dep, NEW own2, NEW dep2, NEW k, SameList(own, dep, own2, dep2, Hash[k]),
           NEW v, Shows(own, k, v)
    PROVE  Shows(own2, k, v)'
<1>1. CASE v = NULL
  BY <1>1, SameHits DEF Shows
<1>2. CASE v # NULL
  <2>1. PICK r \in Recs : Hit(own, k, r) /\ dat[readidx(r).datoff].data = v
    BY <1>2 DEF Shows
  <2>2. Hit(own2, k, r)' /\ SameEntry(r)
    BY <2>1, SameHits
  <2>3. r \in Recs' /\ dat'[readidx(r).datoff'].data = v
    BY <2>1, <2>2 DEF SameEntry
  <2> QED BY <1>2, <2>2, <2>3 DEF Shows
<1> QED BY <1>1, <1>2

\* The offsets that a process remembers.
LEMMA Remembered ==
    ASSUME NEW p \in Procs, Control, FileInv
    PROVE  /\ NHASH \in Nat /\ FREE_OFF \in 0..NHASH /\ Chains \subseteq 0..NHASH
           /\ 0..NHASH \subseteq Nat /\ 0..NHASH \subseteq Regions
           /\ \A x \in Recs : x \in Nat /\ x > NHASH /\ x # 0 /\ x \notin 0..NHASH
           /\ db[p].ptroff \in 0..NHASH \cup Recs /\ db[p].ptroff \in Nat
           /\ loc[p].saveoffset \in 0..NHASH \cup Recs /\ loc[p].saveoffset \in Nat
           /\ pc[p] \in HasRec => db[p].idxoff \in Recs
           /\ pc[p] \in {"find.readidx", "findfree.readidx"} => loc[p].offset \in Recs
<1>1. LocalOK(p)
  BY DEF FileInv
<1>2. /\ NHASH \in Nat /\ FREE_OFF \in 0..NHASH /\ Chains \subseteq 0..NHASH
      /\ 0..NHASH \subseteq Nat /\ 0..NHASH \subseteq Regions
  BY DbAssumption DEF FREE_OFF, Chains, Regions, DATFILE
<1>3. \A x \in Recs : x \in Nat /\ x > NHASH /\ x # 0 /\ x \notin 0..NHASH
  BY <1>2 DEF Recs
<1> QED BY <1>1, <1>2, <1>3 DEF LocalOK

\* A process q that does not step, when others leave alone the lists it has
\* locked, its new index record and its new data record, and the data of its key.
LEMMA OtherAt ==
    ASSUME NEW q \in Procs, NEW own, NEW dep, NEW own2, NEW dep2,
           Control, FileInv, Lists(own, dep), At(own, dep, q),
           pc'[q] = pc[q], call'[q] = call[q], db'[q] = db[q], loc'[q] = loc[q],
           \A a \in 0..NHASH : Held(q, a) => SameList(own, dep, own2, dep2, a),
           \A x : HasNew(q) /\ x = db[q].idxoff => SameEntry(x) /\ readptr(x)' = readptr(x),
           pc[q] \in HasDat => dat'[db[q].datoff] = dat[db[q].datoff],
           pc[q] \notin Outside => kv'[call[q].key] = kv[call[q].key],
           kv' \in [Keys -> Data \cup {BLANK, NULL}]
    PROVE  At(own2, dep2, q)'
<1> DEFINE h == chainoff(q)
<1> DEFINE k == call[q].key
<1>1. /\ pc[q] \notin Outside => k \in Keys /\ h \in Chains /\ Hash[k] = h /\ Held(q, h)
      /\ pc[q] \in FreeLocked => Held(q, FREE_OFF)
      /\ pc[q] \in Storing \cup Deleting => pc[q] \notin Outside
  BY HeldLists DEF chainoff
<1>2. chainoff(q)' = chainoff(q)
  BY DEF chainoff
<1>3. pc[q] \notin Outside => SameList(own, dep, own2, dep2, h) /\ SameList(own, dep, own2, dep2, Hash[k])
  BY <1>1, Remembered
<1>4. pc[q] \in FreeLocked => SameList(own, dep, own2, dep2, FREE_OFF)
  BY <1>1, Remembered
<1>5. pc[q] \notin Outside =>
        /\ \A o \in Nat : \A s : own[o] = h /\ Follows(own, dep, o, s) =>
               own2[o] = h /\ Follows(own2, dep2, o, s)
        /\ \A o \in Nat : own[o] = h => readptr(o)' = readptr(o)
  BY <1>3, SameFollows DEF SameList
<1>6. pc[q] \notin Outside =>
        /\ \A x : Hit(own2, k, x)' <=> Hit(own, k, x)
        /\ \A x : Hit(own, k, x) => SameEntry(x) /\ dep2[x] = dep[x]
        /\ Absent(own2, k)' <=> Absent(own, k)
  BY <1>3, SameHits
<1>7. pc[q] \in FreeLocked =>
        /\ \A o \in Nat : \A s : own[o] = FREE_OFF /\ Follows(own, dep, o, s) =>
               own2[o] = FREE_OFF /\ Follows(own2, dep2, o, s)
        /\ \A o \in Nat : own[o] = FREE_OFF => readptr(o)' = readptr(o) /\ own2[o] = own[o]
        /\ \A o \in Nat : own[o] = FREE_OFF /\ o > NHASH => SameEntry(o)
  BY <1>4, SameFollows DEF SameList
<1> HIDE DEF h
<1>8. Finding(own2, dep2, q)'
  <2> SUFFICES ASSUME pc[q] = "find.readidx"
               PROVE  /\ own2[db[q].ptroff] = h
                      /\ Follows(own2, dep2, db[q].ptroff, loc[q].offset)
                      /\ \A x \in Recs' : Hit(own2, k, x)' => dep2[loc[q].offset] <= dep2[x]
    BY <1>2 DEF Finding, h
  <2>1. pc[q] \notin Outside
    BY DEF Outside
  <2>2. /\ own[db[q].ptroff] = h /\ Follows(own, dep, db[q].ptroff, loc[q].offset)
        /\ \A x \in Recs : Hit(own, k, x) => dep[loc[q].offset] <= dep[x]
    BY DEF At, Finding, h
  <2>3. own2[db[q].ptroff] = h /\ Follows(own2, dep2, db[q].ptroff, loc[q].offset)
    BY <1>5, <2>1, <2>2, Remembered
  <2>4. loc[q].offset \in Nat /\ loc[q].offset # 0
    BY Remembered
  <2>5. own[loc[q].offset] = h
    BY <2>2, <2>4 DEF Follows
  <2>6. dep2[loc[q].offset] = dep[loc[q].offset]
    BY <1>3, <2>1, <2>4, <2>5 DEF SameList
  <2>7. ASSUME NEW x \in Recs', Hit(own2, k, x)' PROVE dep2[loc[q].offset] <= dep2[x]
    <3>1. Hit(own, k, x) /\ dep2[x] = dep[x] /\ x \in Recs
      BY <1>6, <2>1, <2>7 DEF SameEntry
    <3> QED BY <2>2, <2>6, <3>1
  <2> HIDE DEF k
  <2> QED BY <2>3, <2>7
<1>9. AtRecord(own2, dep2, q)'
  <2> SUFFICES ASSUME pc[q] \in AtRec, NEW r, r = db[q].idxoff
               PROVE  /\ own2[db[q].ptroff] = h
                      /\ Follows(own2, dep2, db[q].ptroff, r)
                      /\ Hit(own2, k, r)'
                      /\ db[q].datoff = readidx(r).datoff'
                      /\ db[q].datlen = readidx(r).datlen'
                      /\ db[q].ptrval = readptr(r)'
                      /\ pc[q] \in {"dodelete.readptr", "dodelete.writeidx"} =>
                            dat'[db[q].datoff].data = BLANK
    BY <1>2 DEF AtRecord, h
  <2>1. pc[q] \notin Outside
    BY DEF Outside, AtRec
  <2>2. /\ own[db[q].ptroff] = h /\ Follows(own, dep, db[q].ptroff, r) /\ Hit(own, k, r)
        /\ db[q].datoff = readidx(r).datoff /\ db[q].datlen = readidx(r).datlen
        /\ db[q].ptrval = readptr(r)
        /\ pc[q] \in {"dodelete.readptr", "dodelete.writeidx"} => dat[db[q].datoff].data = BLANK
    BY DEF At, AtRecord, h
  <2>3. own2[db[q].ptroff] = h /\ Follows(own2, dep2, db[q].ptroff, r)
    BY <1>5, <2>1, <2>2, Remembered
  <2>4. Hit(own2, k, r)' /\ SameEntry(r)
    BY <1>6, <2>1, <2>2
  <2>5. r \in Nat /\ own[r] = h
    BY <1>1, <2>1, <2>2, Remembered DEF Hit
  <2>6. readptr(r)' = readptr(r)
    BY <1>5, <2>1, <2>5
  <2> HIDE DEF k
  <2> QED BY <2>2, <2>3, <2>4, <2>6 DEF SameEntry
<1>10. Missing(own2, q)'
  BY <1>1, <1>6 DEF At, Missing, Gone, Storing, Deleting, Outside
<1>0. own[FREE_OFF] = FREE_OFF
  BY Remembered DEF Lists, Ordered
<1>11. Saved(own2, dep2, q)'
  BY <1>0, <1>7, Remembered DEF At, Saved, FreeLocked
<1>12. Freed(own2, dep2, q)'
  <2> SUFFICES ASSUME pc[q] = "dodelete.writefree", NEW r, r = db[q].idxoff
               PROVE  /\ Follows(own2, dep2, FREE_OFF, r)
                      /\ readptr(FREE_OFF)' = readptr(r)'
    BY DEF Freed
  <2>1. pc[q] \in FreeLocked /\ FREE_OFF \in Nat /\ r \in Nat
    BY Remembered DEF FreeLocked, FREE_OFF, HasRec
  <2>2. /\ Follows(own, dep, FREE_OFF, r) /\ own[r] = FREE_OFF
        /\ readptr(FREE_OFF) = readptr(r)
    BY DEF At, Freed, Unlinking
  <2> QED BY <1>0, <1>7, <2>1, <2>2
<1>13. Unlinking(own2, dep2, q)'
  <2> SUFFICES ASSUME pc[q] \in {"dodelete.writefree", "dodelete.writeptr"},
                      NEW o, o = db[q].ptroff, NEW r, r = db[q].idxoff
               PROVE  /\ own2[o] = h /\ Follows(own2, dep2, o, loc[q].saveptr)
                      /\ own2[r] = FREE_OFF /\ readptr(o)' = r
    BY <1>2 DEF Unlinking, h
  <2>1. pc[q] \notin Outside /\ pc[q] \in FreeLocked /\ pc[q] \in HasRec
    BY DEF Outside, FreeLocked, HasRec
  <2>2. /\ own[o] = h /\ Follows(own, dep, o, loc[q].saveptr)
        /\ own[r] = FREE_OFF /\ readptr(o) = r
    BY DEF At, Unlinking, h
  <2>3. o \in Nat /\ r \in Nat
    BY <2>1, Remembered
  <2> QED BY <1>5, <1>7, <2>1, <2>2, <2>3
<1>14. Heading(own2, dep2, q)'
  <2> SUFFICES ASSUME pc[q] \in Heads PROVE Follows(own2, dep2, h, loc[q].ptrval)
    BY <1>2 DEF Heading, h
  <2>1. pc[q] \notin Outside
    BY <1>1 DEF Heads
  <2>2. Follows(own, dep, h, loc[q].ptrval) /\ own[h] = h /\ h \in Nat
    BY <1>1, <2>1, Remembered DEF At, Heading, h, Lists, Ordered
  <2> QED BY <1>5, <2>1, <2>2
<1>15. Searching(own2, dep2, q)'
  BY <1>7, Remembered DEF At, Searching, FreeLocked
<1>16. Taking(own2, dep2, q)'
  <2> SUFFICES ASSUME pc[q] = "findfree.writeptr", NEW r, r = db[q].idxoff
               PROVE  /\ own2[loc[q].saveoffset] = FREE_OFF
                      /\ Follows(own2, dep2, loc[q].saveoffset, r)
                      /\ loc[q].offset # 0
                      /\ db[q].ptrval = readptr(r)'
    BY DEF Taking
  <2>1. pc[q] \in FreeLocked /\ r \in Recs
    BY Remembered DEF FreeLocked, HasRec
  <2>2. /\ own[loc[q].saveoffset] = FREE_OFF
        /\ Follows(own, dep, loc[q].saveoffset, r)
        /\ loc[q].offset # 0 /\ db[q].ptrval = readptr(r)
    BY DEF At, Taking
  <2>3. own[r] = FREE_OFF /\ r \in Nat
    BY <2>1, <2>2, Remembered DEF Follows
  <2> QED BY <1>7, <2>1, <2>2, <2>3, Remembered
<1>17. Reusing(q)'
  <2> SUFFICES ASSUME Reuses(q), NEW r, r = db[q].idxoff
               PROVE  /\ readidx(r).key' = BLANK /\ db[q].datoff = readidx(r).datoff'
                      /\ DatLen[call[q].data] = readidx(r).datlen'
    BY DEF Reusing, Reuses
  <2>1. /\ readidx(r).key = BLANK /\ db[q].datoff = readidx(r).datoff
        /\ DatLen[call[q].data] = readidx(r).datlen
    BY DEF At, Reusing
  <2>2. SameEntry(r)
    <3>1. CASE pc[q] = "findfree.writeptr"
      <4>1. pc[q] \in FreeLocked /\ r \in Recs
        BY <3>1, Remembered DEF FreeLocked, HasRec
      <4>2. own[r] = FREE_OFF /\ r \in Nat /\ r > NHASH
        BY <3>1, <4>1, Remembered DEF At, Taking, Follows
      <4> QED BY <1>7, <4>1, <4>2
    <3>2. CASE pc[q] # "findfree.writeptr"
      BY <3>2 DEF Reuses, HasNew
    <3> QED BY <3>1, <3>2
  <2> QED BY <2>1, <2>2 DEF SameEntry
<1>18. Replacing(q)' /\ Measured(q)'
  BY DEF At, Replacing, Measured
<1>19. Filled(q)'
  <2> SUFFICES ASSUME pc[q] \in HasDat \cup {"reuse.writeidx"}
               PROVE  dat'[db[q].datoff] = dat[db[q].datoff]
    BY DEF At, Filled
  <2>1. CASE pc[q] = "reuse.writeidx"
    <3>1. \A r : r = db[q].idxoff => SameEntry(r)
      BY <2>1 DEF HasNew
    <3>2. db[q].datoff = readidx(db[q].idxoff).datoff
      BY <2>1 DEF At, Reusing, Reuses
    <3> QED BY <3>1, <3>2 DEF SameEntry
  <2> QED BY <2>1
<1>20. Written(q)'
  <2> SUFFICES ASSUME pc[q] \in {"append.idxunlock", "store.writeptr"}, NEW r, r = db[q].idxoff
               PROVE  /\ readidx(r).key' = call[q].key /\ readptr(r)' = loc[q].ptrval
                      /\ dat'[readidx(r).datoff'].data = call[q].data
    BY DEF Written
  <2>1. SameEntry(r) /\ readptr(r)' = readptr(r)
    BY DEF HasNew
  <2> QED BY <2>1 DEF At, Written, SameEntry
<1>21. Replying(q)' /\ Done(own2, q)'
  <2>1. pc[q] \in Deleting \cup Storing \cup {"unlock"} => pc[q] \notin Outside
    BY DEF Deleting, Storing, Outside
  <2>2. pc[q] \notin Outside =>
          /\ Abs!Reply(kv', call[q]) = Abs!Reply(kv, call[q])
          /\ Abs!Refused(kv', call[q]) = Abs!Refused(kv, call[q])
    BY DEF Abs!Reply, Abs!Refused
  <2>3. Replying(q)'
    BY <2>1, <2>2 DEF At, Replying
  <2>4. pc[q] \notin Outside => Abs!Effect(kv', call[q])[k] = Abs!Effect(kv, call[q])[k]
    <3>1. kv \in [Keys -> Data \cup {BLANK, NULL}]
      BY DEF Control, ControlTypeOK
    <3> QED BY <1>1, <2>2, <3>1 DEF Abs!Effect
  <2>5. Done(own2, q)'
    BY <1>3, <2>1, <2>4, SameShows DEF At, Done
  <2> QED BY <2>3, <2>5
<1> QED BY <1>8, <1>9, <1>10, <1>11, <1>12, <1>13, <1>14, <1>15, <1>16, <1>17, <1>18, <1>19,
       <1>20, <1>21 DEF At
----------------------------------------------------------------------------
\* Only process p steps, and it changes no list but those that it owns.
Others(p) ==
    \A q \in Procs \ {p} :
        pc'[q] = pc[q] /\ call'[q] = call[q] /\ db'[q] = db[q] /\ loc'[q] = loc[q]

Apart(p, own, dep, own2, dep2) ==
    \A a \in 0..NHASH : ~Owns(p, a) => SameList(own, dep, own2, dep2, a)

\* The other processes keep what they know.
LEMMA OthersAt ==
    ASSUME NEW p \in Procs, NEW own, NEW dep, NEW left, NEW own2, NEW dep2,
           Control, FileInv, Good(own, dep, left), Others(p), Apart(p, own, dep, own2, dep2),
           \A q \in Procs \ {p}, x \in Recs :
               HasNew(q) /\ x = db[q].idxoff => SameEntry(x) /\ readptr(x)' = readptr(x),
           \A q \in Procs \ {p} : pc[q] \in HasDat => dat'[db[q].datoff] = dat[db[q].datoff],
           kv' \in [Keys -> Data \cup {BLANK, NULL}],
           \A k \in Keys : kv'[k] = kv[k] \/ Owns(p, Hash[k])
    PROVE  \A q \in Procs \ {p} : At(own2, dep2, q)'
<1> SUFFICES ASSUME NEW q \in Procs, q # p PROVE At(own2, dep2, q)'
  OBVIOUS
<1>1. \A a \in 0..NHASH : Held(q, a) => SameList(own, dep, own2, dep2, a)
  BY Exclusive, Remembered DEF Apart
<1>2. pc[q] \notin Outside => kv'[call[q].key] = kv[call[q].key]
  BY Exclusive, HeldLists, Remembered DEF chainoff
<1>3. HasNew(q) => db[q].idxoff \in Recs
  BY DEF Good, NewRecs
<1>4. /\ pc'[q] = pc[q] /\ call'[q] = call[q] /\ db'[q] = db[q] /\ loc'[q] = loc[q]
      /\ Lists(own, dep) /\ At(own, dep, q)
  BY DEF Others, Good
<1> QED BY <1>1, <1>2, <1>3, <1>4, OtherAt

\* A pointer still to be written is on a list of the process that will write it.
LEMMA PendingOwned ==
    ASSUME NEW p \in Procs, NEW own, NEW dep, NEW left, Control, FileInv, Good(own, dep, left),
           NEW o, Pending(p, o)
    PROVE  Owns(p, own[o]) /\ own[o] \in 0..NHASH
<1>1. pc[p] \in FreeLocked /\ pc[p] \in Deleting
  BY DEF Pending, FreeLocked, Deleting
<1>2. own[FREE_OFF] = FREE_OFF
  BY Remembered DEF Good, Lists, Ordered
<1>3. o = db[p].ptroff => own[o] = chainoff(p)
  BY DEF Pending, Good, At, Unlinking
<1> QED BY <1>1, <1>2, <1>3, HeldLists, Remembered DEF Pending

\* On a list that process p has locked, every pointer is right but those that it
\* is about to write itself.
LEMMA Settled ==
    ASSUME NEW p \in Procs, NEW own, NEW dep, NEW left, Control, FileInv, Good(own, dep, left),
           NEW o \in Nat, own[o] \in 0..NHASH, Held(p, own[o]), ~Pending(p, o)
    PROVE  Follows(own, dep, o, readptr(o))
<1>1. own[o] # Nowhere
  BY Remembered DEF Nowhere
<1>2. \A q \in Procs \ {p} : ~Pending(q, o)
  BY PendingOwned, Exclusive, Remembered
<1> QED BY <1>1, <1>2 DEF Good, Pointers

\* Pointers, step by step.
LEMMA PointersStep ==
    ASSUME NEW p \in Procs, NEW own, NEW dep, NEW left, NEW own2, NEW dep2,
           Control, FileInv, Good(own, dep, left), Others(p), Apart(p, own, dep, own2, dep2),
           Ordered(own2, dep2),
           \A o \in Nat : own2[o] # Nowhere /\ Owns(p, own2[o]) /\ ~Pending(p, o)'
               => Follows(own2, dep2, o, readptr(o)')
    PROVE  Pointers(own2, dep2)'
<1> SUFFICES ASSUME NEW o \in Nat, own2[o] # Nowhere, \A q \in Procs : ~Pending(q, o)'
             PROVE  Follows(own2, dep2, o, readptr(o)')
  BY DEF Pointers
<1>1. CASE Owns(p, own2[o])
  BY <1>1
<1>2. CASE ~Owns(p, own2[o])
  <2>1. own2[o] \in 0..NHASH
    BY Remembered DEF Ordered, Nowhere
  <2>2. SameList(own, dep, own2, dep2, own2[o])
    BY <1>2, <2>1 DEF Apart
  <2>3. own[o] = own2[o] /\ readptr(o)' = readptr(o)
    BY <2>2 DEF SameList
  <2>4. \A q \in Procs \ {p} : ~Pending(q, o)
    BY DEF Others, Pending
  <2>5. ~Pending(p, o)
    BY <1>2, <2>3, PendingOwned
  <2>6. Follows(own, dep, o, readptr(o))
    BY <2>3, <2>4, <2>5 DEF Good, Pointers
  <2> QED BY <2>2, <2>3, <2>6, SameFollows
<1> QED BY <1>1, <1>2

\* Steps change no record but r, in which process p has its key.
OnlyRecord(own, own2, r) ==
    /\ \A x \in Recs : x \in Recs'
    /\ \A x \in Recs' : x # r => SameEntry(x) /\ own2[x] = own[x]

\* Keyed and MapShown, step by step: what is to be shown of r.
LEMMA MapStep ==
    ASSUME NEW p \in Procs, NEW own, NEW own2, NEW r, NEW k \in Keys,
           NEW v, v = kv'[k], Keyed(own), MapShown(own), Others(p), OnlyRecord(own, own2, r),
           call[p].key = k, Hash[k] \in Chains,
           \A j \in Keys : j # k => kv'[j] = kv[j],
           r \in Recs /\ own[r] \in Chains => readidx(r).key = k,
           r \in Recs' /\ own2[r] \in Chains => readidx(r).key' = k /\ own2[r] = Hash[k],
           r \in Recs' /\ own2[r] = FREE_OFF => readidx(r).key' = BLANK,
           r \in Recs' /\ own2[r] \in Chains => Hit(own, k, r) \/ Absent(own, k),
           \/ Busy(p, k)'
           \/ Shows(own2, k, v)'
    PROVE  Keyed(own2)' /\ MapShown(own2)'
<1>0. \A j \in Keys : Hash[j] \in Chains
  BY DbAssumption
<1>1. \A j \in Keys : \A x : j # k => (Hit(own2, j, x)' <=> Hit(own, j, x))
  BY <1>0 DEF Hit, OnlyRecord, SameEntry
<1>2. \A j \in Keys : \A x : j # k /\ Hit(own, j, x) => SameEntry(x)
  BY <1>0 DEF Hit, OnlyRecord
<1>3. ASSUME NEW x \in Recs'
      PROVE  /\ own2[x] \in Chains =>
                   readidx(x).key' \in Keys /\ Hash[readidx(x).key'] = own2[x]
             /\ own2[x] = FREE_OFF => readidx(x).key' = BLANK
  BY DEF Keyed, OnlyRecord, SameEntry
<1>4. ASSUME NEW j \in Keys, NEW x \in Recs', NEW y \in Recs', Hit(own2, j, x)', Hit(own2, j, y)'
      PROVE  x = y
  <2>1. CASE j # k
    <3>1. Hit(own, j, x) /\ Hit(own, j, y)
      BY <1>1, <1>4, <2>1
    <3> QED BY <3>1 DEF Keyed, Hit
  <2>2. CASE j = k
    <3>1. \A z \in Recs' : z # r /\ Hit(own2, k, z)' => Hit(own, k, z)
      BY DEF Hit, OnlyRecord, SameEntry
    <3>2. Hit(own2, k, r)' => Hit(own, k, r) \/ Absent(own, k)
      BY DEF Hit
    <3>3. x = y \/ (Hit(own, k, x) /\ Hit(own, k, y))
      BY <1>4, <2>2, <3>1, <3>2 DEF Absent, Hit
    <3> QED BY <3>3 DEF Keyed, Hit
  <2> QED BY <2>1, <2>2
<1>5. Keyed(own2)'
  BY <1>3, <1>4 DEF Keyed
<1>6. ASSUME NEW j \in Keys, \A q \in Procs : ~Busy(q, j)', NEW u, u = kv'[j]
      PROVE  Shows(own2, j, u)'
  <2>1. CASE j = k
    BY <1>6, <2>1
  <2>2. CASE j # k
    <3>1. \A q \in Procs : ~Busy(q, j)
      BY <1>6, <2>2 DEF Busy, Others
    <3>2. Shows(own, j, u)
      BY <1>6, <2>2, <3>1 DEF MapShown
    <3>3. CASE u = NULL
      <4>1. Absent(own, j)
        BY <3>2, <3>3 DEF Shows
      <4>2. Absent(own2, j)'
        BY <1>1, <2>2, <4>1 DEF Absent, Hit
      <4> QED BY <3>3, <4>2 DEF Shows
    <3>4. CASE u # NULL
      <4>1. PICK x \in Recs : Hit(own, j, x) /\ dat[readidx(x).datoff].data = u
        BY <3>2, <3>4 DEF Shows
      <4>2. Hit(own2, j, x)' /\ SameEntry(x)
        BY <1>1, <1>2, <2>2, <4>1
      <4>3. x \in Recs' /\ dat'[readidx(x).datoff'].data = u
        BY <4>1, <4>2 DEF SameEntry
      <4> QED BY <3>4, <4>2, <4>3 DEF Shows
    <3> QED BY <3>3, <3>4
  <2> QED BY <2>1, <2>2
<1> QED BY <1>5, <1>6 DEF MapShown
----------------------------------------------------------------------------
\* What p may write on, or is on no list.
Loose(p, a) == a = Nowhere \/ Owns(p, a)

\* Apart, from what a step changes.
LEMMA ApartStep ==
    ASSUME NEW p \in Procs, NEW own, NEW dep, NEW own2, NEW dep2, Lists(own, dep),
           \A x \in Nat :
              \/ /\ own2[x] = own[x] /\ dep2[x] = dep[x]
                 /\ x \in 0..NHASH \cup Recs => readptr(x)' = readptr(x)
                 /\ x \in Recs => SameEntry(x)
              \/ Loose(p, own[x]) /\ Loose(p, own2[x])
    PROVE  Apart(p, own, dep, own2, dep2)
<1> SUFFICES ASSUME NEW a \in 0..NHASH, ~Owns(p, a), NEW x \in Nat, own[x] = a \/ own2[x] = a
             PROVE  /\ own2[x] = own[x] /\ dep2[x] = dep[x] /\ readptr(x)' = readptr(x)
                    /\ x > NHASH => SameEntry(x)
  BY DEF Apart, SameList
<1>0. NHASH \in Nat /\ a # Nowhere
  BY DbAssumption DEF Nowhere
<1>1. /\ own2[x] = own[x] /\ dep2[x] = dep[x]
      /\ x \in 0..NHASH \cup Recs => readptr(x)' = readptr(x)
      /\ x \in Recs => SameEntry(x)
  BY <1>0 DEF Loose
<1>2. x > NHASH => x \in Recs
  BY <1>0, <1>1 DEF Lists
<1> QED BY <1>0, <1>1, <1>2

\* NewRecs, step by step: what is to be shown of r.
LEMMA NewRecsStep ==
    ASSUME NEW p \in Procs, NEW own, NEW left, NEW own2, NEW r,
           NewRecs(own, left), Others(p), OnlyRecord(own, own2, r), pc[p] # "exited",
           r \notin Recs \/ own[r] # Nowhere \/ (HasNew(p) /\ r = db[p].idxoff),
           HasNew(p) => r = db[p].idxoff,
           HasNew(p)' => r = db'[p].idxoff /\ r \in Recs' /\ own2[r] = Nowhere,
           r \in Recs' /\ own2[r] = Nowhere => HasNew(p)'
    PROVE  NewRecs(own2, left)'
<1>1. \A q \in Procs \ {p} : HasNew(q)' <=> HasNew(q)
  BY DEF HasNew, Others
<1>2. \A q \in Procs \ {p} : db'[q] = db[q] /\ pc'[q] = pc[q]
  BY DEF Others
<1>3. \A q \in Procs \ {p} : HasNew(q) =>
        db[q].idxoff \in Recs /\ own[db[q].idxoff] = Nowhere /\ db[q].idxoff # r
  BY DEF NewRecs
<1>0. /\ r \notin left
      /\ \A x \in left : x \in Recs' /\ own2[x] = Nowhere
  <2>1. r \notin left
    BY DEF NewRecs
  <2> QED BY <2>1 DEF NewRecs, OnlyRecord
<1>4. ASSUME NEW q \in Procs, HasNew(q)'
      PROVE  /\ db'[q].idxoff \in Recs' /\ own2[db'[q].idxoff] = Nowhere
             /\ db'[q].idxoff \notin left
  <2>1. CASE q = p
    BY <1>0, <1>4, <2>1
  <2>2. CASE q # p
    <3>1. HasNew(q) /\ db'[q] = db[q]
      BY <1>1, <1>2, <1>4, <2>2
    <3>2. /\ db[q].idxoff \in Recs /\ own[db[q].idxoff] = Nowhere
          /\ db[q].idxoff # r /\ db[q].idxoff \notin left
      BY <1>3, <2>2, <3>1 DEF NewRecs
    <3>3. \A x \in Recs : x # r => x \in Recs' /\ own2[x] = own[x]
      BY DEF OnlyRecord
    <3> QED BY <3>1, <3>2, <3>3
  <2> QED BY <2>1, <2>2
<1>5. ASSUME NEW q1 \in Procs, NEW q2 \in Procs, q1 # q2, HasNew(q1)', HasNew(q2)'
      PROVE  db'[q1].idxoff # db'[q2].idxoff
  BY <1>1, <1>2, <1>3, <1>5 DEF NewRecs
<1>6. ASSUME NEW x \in Recs' \ left, own2[x] = Nowhere
      PROVE  \E q \in Procs : \/ pc'[q] = "exited" /\ x > PTR_MAX
                              \/ HasNew(q)' /\ db'[q].idxoff = x
  <2>1. CASE x = r
    BY <1>6, <2>1
  <2>2. CASE x # r
    <3>1. x \in Recs \ left /\ own[x] = Nowhere
      BY <1>6, <2>2 DEF OnlyRecord, SameEntry
    <3>2. PICK q \in Procs : \/ pc[q] = "exited" /\ x > PTR_MAX
                             \/ HasNew(q) /\ db[q].idxoff = x
      BY <3>1 DEF NewRecs
    <3>3. q # p
      BY <2>2, <3>2
    <3> QED BY <1>1, <1>2, <3>2, <3>3
  <2> QED BY <2>1, <2>2
<1> QED BY <1>0, <1>4, <1>5, <1>6 DEF NewRecs

\* NewDats, step by step.
LEMMA NewDatsStep ==
    ASSUME NEW p \in Procs, NEW own, NEW own2, NEW r,
           NewDats, Others(p), OnlyRecord(own, own2, r),
           pc'[p] \in HasDat =>
              \/ pc[p] \in HasDat /\ db'[p].datoff = db[p].datoff
              \/ /\ \A x \in Recs : readidx(x).datoff # db'[p].datoff
                 /\ \A q \in Procs \ {p} : pc[q] \in HasDat => db[q].datoff # db'[p].datoff,
           r \in Recs' =>
              \/ r \in Recs /\ readidx(r).datoff' = readidx(r).datoff
              \/ pc[p] \in HasDat /\ pc'[p] \notin HasDat /\ readidx(r).datoff' = db[p].datoff
    PROVE  NewDats'
<1>1. \A q \in Procs \ {p} : db'[q] = db[q] /\ pc'[q] = pc[q]
  BY DEF Others
<1>2. \A x \in Recs' : x # r => x \in Recs /\ readidx(x).datoff' = readidx(x).datoff
  BY DEF OnlyRecord, SameEntry
<1>3. ASSUME NEW q \in Procs, NEW x \in Recs', pc'[q] \in HasDat
      PROVE  readidx(x).datoff' # db'[q].datoff
  <2>1. CASE q = p
    BY <1>2, <1>3, <2>1 DEF NewDats
  <2>2. CASE q # p
    BY <1>1, <1>2, <1>3, <2>2 DEF NewDats
  <2> QED BY <2>1, <2>2
<1>4. ASSUME NEW q1 \in Procs, NEW q2 \in Procs, q1 # q2, pc'[q1] \in HasDat, pc'[q2] \in HasDat
      PROVE  db'[q1].datoff # db'[q2].datoff
  BY <1>1, <1>4 DEF NewDats
<1> QED BY <1>3, <1>4 DEF NewDats

\* DataOK, when a step writes an index record.
LEMMA DataStep ==
    ASSUME NEW own, NEW own2, NEW r, DataOK, OnlyRecord(own, own2, r), dat' = dat,
           r \in Recs' =>
              /\ \/ r \in Recs /\ readidx(r).datoff' = readidx(r).datoff
                 \/ \A x \in Recs : x # r => readidx(x).datoff # readidx(r).datoff'
              /\ dat[readidx(r).datoff'].size = readidx(r).datlen'
    PROVE  DataOK'
<1>1. \A x \in Recs' : x # r =>
        x \in Recs /\ readidx(x).datoff' = readidx(x).datoff /\ readidx(x).datlen' = readidx(x).datlen
  BY DEF OnlyRecord, SameEntry
<1>2. ASSUME NEW x \in Recs', NEW y \in Recs', readidx(x).datoff' = readidx(y).datoff'
      PROVE  x = y
  BY <1>1, <1>2 DEF DataOK
<1>3. ASSUME NEW x \in Recs' PROVE dat'[readidx(x).datoff'].size = readidx(x).datlen'
  BY <1>1 DEF DataOK
<1>4. \A i \in 1..Len(dat') : dat'[i].data = BLANK \/ DatLen[dat'[i].data] = dat'[i].size
  BY DEF DataOK
<1> QED BY <1>2, <1>3, <1>4 DEF DataOK
----------------------------------------------------------------------------
\* What writes do to the files: a pointer, ...
LEMMA PtrWritten ==
    ASSUME FileInv, NEW off \in 0..NHASH \cup Recs, NEW val, writeptr(off, val), dat' = dat
    PROVE  /\ Recs' = Recs /\ readptr(off)' = val
           /\ \A x \in 0..NHASH \cup Recs : x # off => readptr(x)' = readptr(x)
           /\ \A x \in Recs : SameEntry(x)
<1>0. /\ NHASH \in Nat /\ Len(idx) \in Nat /\ DOMAIN table = 0..NHASH /\ DOMAIN idx = 1..Len(idx)
      /\ \A i \in 1..Len(idx) : idx[i] \in IdxRec
  BY DbAssumption DEF FileInv, FileTypeOK
<1>1. \A x \in Recs : x \notin 0..NHASH /\ x - NHASH \in 1..Len(idx) /\ x \in Int
  BY <1>0 DEF Recs
<1>2. CASE off \in 0..NHASH
  <2>1. /\ idx' = idx /\ Recs' = Recs /\ table'[off] = val
        /\ \A x \in 0..NHASH : x # off => table'[x] = table[x]
    BY <1>0, <1>2 DEF writeptr, Recs
  <2> QED BY <1>0, <1>1, <1>2, <2>1 DEF readptr, readidx, SameEntry
<1>3. CASE off \in Recs
  <2> DEFINE i == off - NHASH
  <2>1. table' = table /\ idx' = [idx EXCEPT ![i].ptr = val]
    BY <1>1, <1>3 DEF writeptr
  <2>2. i \in 1..Len(idx) /\ \A x \in Recs : x # off => x - NHASH # i
    BY <1>0, <1>1, <1>3
  <2>3. DOMAIN idx' = 1..Len(idx) /\ Len(idx') = Len(idx)
    <3>1. idx \in Seq(IdxRec) /\ DOMAIN idx' = DOMAIN idx
      BY <2>1 DEF FileInv, FileTypeOK
    <3>2. idx' \in Seq(IdxRec \cup {[idx[i] EXCEPT !.ptr = val]})
      <4> DEFINE rec == [idx[i] EXCEPT !.ptr = val]
      <4> DEFINE S == IdxRec \cup {rec}
      <4>1. idx \in Seq(S) /\ rec \in S /\ idx' = [idx EXCEPT ![i] = rec]
        BY <2>1, <3>1
      <4> HIDE DEF S, rec, i
      <4>2. idx' \in Seq(S)
        BY <2>2, <4>1, ExceptSeq
      <4> QED BY <4>2 DEF S, rec, i
    <3> QED BY <1>0, <3>1, <3>2
  <2>4. /\ idx'[i].ptr = val
        /\ idx'[i].key = idx[i].key /\ idx'[i].keylen = idx[i].keylen
        /\ idx'[i].datoff = idx[i].datoff /\ idx'[i].datlen = idx[i].datlen
        /\ \A j \in 1..Len(idx) : j # i => idx'[j] = idx[j]
    BY <1>0, <2>1, <2>2 DEF IdxRec
  <2>5. Recs' = Recs
    BY <2>3 DEF Recs
  <2>6. \A x \in Recs : x # off => readidx(x)' = readidx(x)
    BY <1>1, <2>2, <2>4 DEF readidx
  <2>7. \A x \in Recs : SameEntry(x)
    <3> SUFFICES ASSUME NEW x \in Recs PROVE SameEntry(x)
      OBVIOUS
    <3>1. CASE x = off
      BY <2>4, <2>5, <3>1 DEF SameEntry, readidx
    <3>2. CASE x # off
      BY <2>5, <2>6, <3>2 DEF SameEntry
    <3> QED BY <3>1, <3>2
  <2>8. readptr(off)' = val
    BY <1>1, <1>3, <2>4 DEF readptr
  <2>9. \A x \in 0..NHASH \cup Recs : x # off => readptr(x)' = readptr(x)
    <3> HIDE DEF i
    <3>1. \A x \in 0..NHASH : readptr(x)' = readptr(x)
      BY <2>1 DEF readptr
    <3>2. \A x \in Recs : x # off => readptr(x)' = readptr(x)
      BY <1>1, <2>6 DEF readptr, readidx
    <3> QED BY <3>1, <3>2
  <2> QED BY <2>5, <2>7, <2>8, <2>9
<1> QED BY <1>2, <1>3

\* ... an index record, in place of another or at the end, ...
LEMMA IdxWritten ==
    ASSUME FileInv, NEW r, r \in Recs \/ r = NHASH + Len(idx) + 1, NEW rec \in IdxRec,
           idx' = WriteAt(idx, r - NHASH, rec), table' = table, dat' = dat
    PROVE  /\ Recs' = Recs \cup {r} /\ readidx(r)' = rec /\ readptr(r)' = rec.ptr
           /\ \A x \in 0..NHASH \cup Recs : x # r =>
                 readptr(x)' = readptr(x) /\ (x \in Recs => SameEntry(x))
<1> DEFINE i == r - NHASH
<1> DEFINE n == Len(idx)
<1>0. NHASH \in Nat /\ n \in Nat /\ idx \in Seq(IdxRec)
  BY DbAssumption DEF FileInv, FileTypeOK
<1>1. /\ \A x \in Recs : x \notin 0..NHASH /\ x - NHASH \in 1..n /\ x \in Int
      /\ i \in 1..n + 1 /\ r \in Nat /\ r \notin 0..NHASH /\ r = NHASH + i
      /\ \A x \in Recs : x # r => x - NHASH # i
  BY <1>0 DEF Recs
<1>2. /\ idx'[i] = rec
      /\ Len(idx') = IF i = n + 1 THEN i ELSE n
      /\ \A j \in 1..n : j # i => idx'[j] = idx[j]
  <2>1. CASE i = n + 1
    <3>1. idx' = Append(idx, rec)
      BY <2>1 DEF WriteAt
    <3> QED BY <1>0, <2>1, <3>1
  <2>2. CASE i # n + 1
    <3>1. i \in 1..n /\ idx' = [idx EXCEPT ![i] = rec]
      BY <1>0, <1>1, <2>2 DEF WriteAt
    <3> HIDE DEF i
    <3>2. idx' \in Seq(IdxRec) /\ Len(idx') = n
      BY <1>0, <3>1, ExceptSeq
    <3> QED BY <1>0, <2>2, <3>1, <3>2
  <2> QED BY <2>1, <2>2
<1> HIDE DEF i
<1>3. Recs' = Recs \cup {r}
  <2>1. Recs' = NHASH + 1 .. NHASH + Len(idx')
    BY DEF Recs
  <2> HIDE DEF n
  <2>2. i = n + 1 => Recs' = Recs \cup {r}
    <3>1. Recs = NHASH + 1 .. NHASH + n
      BY DEF Recs, n
    <3> QED BY <1>0, <1>1, <1>2, <2>1, <3>1
  <2>3. i # n + 1 => Recs' = Recs /\ r \in Recs
    <3>1. Recs = NHASH + 1 .. NHASH + n
      BY DEF Recs, n
    <3> QED BY <1>0, <1>1, <1>2, <2>1, <3>1
  <2> QED BY <2>2, <2>3
<1>4. readidx(r)' = rec /\ readptr(r)' = rec.ptr
  BY <1>1, <1>2 DEF readidx, readptr, i
<1>5. \A x \in Recs : x # r => readidx(x)' = readidx(x)
  BY <1>1, <1>2 DEF readidx
<1>6. \A x \in 0..NHASH \cup Recs : x # r => readptr(x)' = readptr(x)
  BY <1>1, <1>5 DEF readptr, readidx
<1>7. \A x \in Recs : x # r => SameEntry(x)
  BY <1>3, <1>5 DEF SameEntry
<1> QED BY <1>3, <1>4, <1>6, <1>7

\* ... or data.
LEMMA DatWritten ==
    ASSUME table' = table, idx' = idx
    PROVE  /\ Recs' = Recs /\ \A x : readptr(x)' = readptr(x) /\ readidx(x)' = readidx(x)
           /\ \A x \in Recs :
                 dat'[readidx(x).datoff] = dat[readidx(x).datoff] => SameEntry(x)
  BY DEF Recs, readptr, readidx, SameEntry
----------------------------------------------------------------------------
\* The invariant, over a step that writes into the files and changes no record
\* but r, the one at db[p].idxoff, and no list but those of p.
LEMMA WriteGood ==
    ASSUME NEW p \in Procs, NEW own, NEW dep, NEW left, NEW own2, NEW dep2, NEW r \in Nat, NEW k \in Keys,
           Control, FileInv, Good(own, dep, left),
           Others(p), kv' = kv, call' = call, call[p].key = k,
           pc[p] \in Deleting \cup Storing, pc'[p] \in Changing \ HasDat,
           Ordered(own2, dep2), OnlyRecord(own, own2, r), r \in Recs',
           db[p].idxoff = r, db'[p].idxoff = r,
           \A x \in Nat : x # r => own2[x] = own[x],
           \A x \in Nat : x # r /\ dep2[x] # dep[x] => Owns(p, own[x]),
           \A x \in 0..NHASH \cup Recs :
              x # r /\ readptr(x)' # readptr(x) => own[x] # Nowhere /\ Owns(p, own[x]),
           Loose(p, own[r]), Loose(p, own2[r]), own2[r] = Nowhere \/ own[r] # Nowhere \/ r <= PTR_MAX,
           \A o \in Nat : own2[o] # Nowhere /\ Owns(p, own2[o]) /\ ~Pending(p, o)'
               => Follows(own2, dep2, o, readptr(o)'),
           own2[r] \in Chains =>
              /\ readidx(r).key' = k /\ own2[r] = Hash[k]
              /\ Hit(own, k, r) \/ Absent(own, k),
           own2[r] = FREE_OFF => readidx(r).key' = BLANK,
           r \in Recs /\ own[r] \in Chains => readidx(r).key = k,
           r \notin Recs \/ own[r] # Nowhere \/ HasNew(p),
           HasNew(p)' <=> own2[r] = Nowhere,
           \/ r \in Recs /\ readidx(r).datoff' = readidx(r).datoff
           \/ pc[p] \in HasDat /\ readidx(r).datoff' = db[p].datoff,
           \/ dat' = dat
           \/ r \in Recs /\ \A e \in 1..Len(dat) : e # readidx(r).datoff => dat'[e] = dat[e],
           DataOK', At(own2, dep2, p)'
    PROVE  Good(own2, dep2, left)'
<1>1. /\ Lists(own, dep) /\ Ordered(own, dep) /\ Keyed(own) /\ MapShown(own)
      /\ NewRecs(own, left) /\ NewDats /\ (\A q \in Procs : At(own, dep, q))
  BY DEF Good, Lists
<1>2. /\ NHASH \in Nat /\ 0..NHASH \subseteq Nat
      /\ \A x \in Recs : x \in Nat /\ x > NHASH /\ x # 0 /\ x \notin 0..NHASH
  BY Remembered
<1>3. pc[p] \notin Outside /\ call[p].fn # "fetch" /\ Hash[k] \in Chains
  BY HeldLists DEF chainoff
<1>4. Apart(p, own, dep, own2, dep2)
  <2> SUFFICES ASSUME NEW x \in Nat
               PROVE  \/ /\ own2[x] = own[x] /\ dep2[x] = dep[x]
                         /\ x \in 0..NHASH \cup Recs => readptr(x)' = readptr(x)
                         /\ x \in Recs => SameEntry(x)
                      \/ Loose(p, own[x]) /\ Loose(p, own2[x])
    BY <1>1, ApartStep
  <2>1. CASE x = r
    BY <2>1
  <2>2. CASE x # r
    BY <2>2 DEF Loose, OnlyRecord
  <2> QED BY <2>1, <2>2
<1>5. Lists(own2, dep2)'
  <2>1. ASSUME NEW x \in Nat, own2[x] # Nowhere, x > NHASH PROVE x \in Recs' /\ x <= PTR_MAX
    BY <1>1, <2>1 DEF Lists, OnlyRecord
  <2> QED BY <2>1 DEF Lists
<1>6. Pointers(own2, dep2)'
  BY <1>4, PointersStep
<1>7. Keyed(own2)' /\ MapShown(own2)'
  <2> DEFINE v == kv[k]
  <2>1. Busy(p, k)'
    BY <1>3 DEF Busy
  <2>2. v = kv'[k]
    OBVIOUS
  <2> HIDE DEF v
  <2> QED BY <1>1, <1>3, <2>1, <2>2, MapStep
<1>8. NewRecs(own2, left)'
  <2>1. pc[p] # "exited"
    BY DEF Deleting, Storing
  <2>2. r \notin Recs \/ own[r] # Nowhere \/ (HasNew(p) /\ r = db[p].idxoff)
    OBVIOUS
  <2> QED BY <1>1, <2>1, <2>2, NewRecsStep
<1>9. NewDats'
  <2>1. pc'[p] \notin HasDat
    OBVIOUS
  <2> QED BY <1>1, <2>1, NewDatsStep
<1>10. \A q \in Procs \ {p} : At(own2, dep2, q)'
  <2>1. ASSUME NEW q \in Procs \ {p}, NEW x \in Recs, HasNew(q), x = db[q].idxoff
        PROVE  SameEntry(x) /\ readptr(x)' = readptr(x)
    <3>1. own[x] = Nowhere /\ x # r
      BY <1>1, <2>1 DEF NewRecs
    <3> QED BY <3>1 DEF OnlyRecord
  <2>2. ASSUME NEW q \in Procs \ {p}, pc[q] \in HasDat
        PROVE  dat'[db[q].datoff] = dat[db[q].datoff]
    <3>1. db[q].datoff \in 1..Len(dat)
      BY <2>2 DEF FileInv, LocalOK
    <3>2. r \in Recs => readidx(r).datoff # db[q].datoff
      BY <1>1, <2>2 DEF NewDats
    <3> QED BY <3>1, <3>2
  <2>3. kv' \in [Keys -> Data \cup {BLANK, NULL}]
    BY DEF Control, ControlTypeOK
  <2> QED BY <1>4, <2>1, <2>2, <2>3, OthersAt
<1> QED BY <1>5, <1>6, <1>7, <1>8, <1>9, <1>10 DEF Good

\* What a step of process p starts from.
LEMMA Begin ==
    ASSUME NEW p \in Procs, NEW own, NEW dep, NEW left, Control, FileInv, Good(own, dep, left),
           pc[p] \in Deleting \cup Storing
    PROVE  /\ pc \in [Procs -> Labels] /\ db \in [Procs -> DbType] /\ loc \in [Procs -> LocType]
           /\ call[p] \in Requests /\ call[p].key \in Keys /\ Hash[call[p].key] = chainoff(p)
           /\ chainoff(p) \in Chains /\ chainoff(p) # FREE_OFF /\ call[p].fn # "fetch"
           /\ chainoff(p) # Nowhere /\ FREE_OFF # Nowhere
           /\ Owns(p, chainoff(p)) /\ Held(p, chainoff(p))
           /\ pc[p] \in FreeLocked => Owns(p, FREE_OFF) /\ Held(p, FREE_OFF)
           /\ \A a \in 0..NHASH : Owns(p, a) => a \in {FREE_OFF, chainoff(p)}
           /\ pc[p] \notin FreeLocked => ~Owns(p, FREE_OFF)
           /\ pc[p] \in Storing => call[p].fn = "store" /\ call[p].data \in Data
<1>1. /\ pc \in [Procs -> Labels] /\ db \in [Procs -> DbType] /\ loc \in [Procs -> LocType]
  BY FileParts DEF MemoryTypeOK
<1>2. /\ pc[p] \notin Outside /\ call[p].fn # "fetch" /\ call[p] \in Requests
      /\ call[p].key \in Keys /\ chainoff(p) \in Chains
      /\ Owns(p, chainoff(p)) /\ Held(p, chainoff(p))
      /\ pc[p] \in FreeLocked => Owns(p, FREE_OFF) /\ Held(p, FREE_OFF)
  BY HeldLists
<1>3. chainoff(p) # FREE_OFF /\ chainoff(p) # Nowhere /\ FREE_OFF # Nowhere /\ FREE_OFF \in 0..NHASH
  BY <1>2, DbAssumption DEF Chains, FREE_OFF, Nowhere
<1>4. \A a \in 0..NHASH : Owns(p, a) => a = chainoff(p) \/ (pc[p] \in FreeLocked /\ a = FREE_OFF)
  BY HeldLists DEF Owns
<1>5. pc[p] \in Storing => call[p].fn = "store" /\ call[p].data \in Data
  BY <1>2, RequestFn DEF Control, CallOK
<1> QED BY <1>1, <1>2, <1>3, <1>4, <1>5 DEF chainoff

\* Data written over other data.
Overwrites(d, v) == dat' = [dat EXCEPT ![d].data = v]

\* Then the data of record r, to which they belong, are the only ones that change,
\* and DataOK holds again.
LEMMA DataWritten ==
    ASSUME FileInv, DataOK, NEW r \in Recs, NEW d, d = readidx(r).datoff, NEW v,
           v = BLANK \/ DatLen[v] = dat[d].size,
           table' = table, idx' = idx, Overwrites(d, v),
           NEW own
    PROVE  /\ OnlyRecord(own, own, r) /\ DataOK' /\ Recs' = Recs
           /\ \A x : readptr(x)' = readptr(x) /\ readidx(x)' = readidx(x)
           /\ \A e \in 1..Len(dat) : e # d => dat'[e] = dat[e]
           /\ d \in 1..Len(dat) /\ dat'[d].data = v /\ dat'[d].size = dat[d].size
<1>0. /\ dat \in Seq(DatRec) /\ DOMAIN dat = 1..Len(dat) /\ Len(dat) \in Nat
      /\ \A i \in 1..Len(dat) : dat[i] \in DatRec
  BY DEF FileInv, FileTypeOK
<1>1. \A x \in Recs : readidx(x).datoff \in 1..Len(dat)
  BY PtrOK
<1>2. /\ d \in 1..Len(dat) /\ DOMAIN dat' = DOMAIN dat
      /\ \A e \in 1..Len(dat) : e # d => dat'[e] = dat[e]
      /\ dat'[d].data = v /\ dat'[d].size = dat[d].size
  BY <1>0, <1>1 DEF DatRec, Overwrites
<1>3. Recs' = Recs /\ \A x : readptr(x)' = readptr(x) /\ readidx(x)' = readidx(x)
  BY DatWritten
<1>4. OnlyRecord(own, own, r)
  <2>1. ASSUME NEW x \in Recs, x # r PROVE SameEntry(x)
    <3>1. readidx(x).datoff # d
      BY <2>1 DEF DataOK
    <3> QED BY <1>1, <1>2, <3>1, DatWritten
  <2> QED BY <1>3, <2>1 DEF OnlyRecord
<1>5. Len(dat') = Len(dat)
  <2> DEFINE rec == [dat[d] EXCEPT !.data = v]
  <2> DEFINE S == DatRec \cup {rec}
  <2>1. dat \in Seq(S) /\ rec \in S /\ dat' = [dat EXCEPT ![d] = rec]
    BY <1>0 DEF Overwrites
  <2> HIDE DEF S, rec
  <2> QED BY <1>2, <2>1, ExceptSeq
<1>6. DataOK'
  <2>1. \A i \in 1..Len(dat) : dat'[i].data = BLANK \/ DatLen[dat'[i].data] = dat'[i].size
    BY <1>2 DEF DataOK
  <2>2. \A x \in Recs : dat'[readidx(x).datoff].size = readidx(x).datlen
    BY <1>1, <1>2 DEF DataOK
  <2> QED BY <1>3, <1>5, <2>1, <2>2 DEF DataOK
<1> QED BY <1>2, <1>3, <1>4, <1>6

\* _db_dodelete() blanks the data.
LEMMA DelWriteDatGood ==
    ASSUME NEW p \in Procs, NEW own, NEW dep, NEW left, Control, FileInv, Good(own, dep, left), DelWriteDat(p)
    PROVE  Good(own, dep, left)'
<1> DEFINE h == chainoff(p)
<1>0. PICK r, k, d : r = db[p].idxoff /\ k = call[p].key /\ d = db[p].datoff
  OBVIOUS
<1>1. pc[p] = "dodelete.writedat" /\ pc[p] \in Deleting /\ pc[p] \in FreeLocked /\ pc[p] \in AtRec
  BY DEF DelWriteDat, Transition, Deleting, FreeLocked, AtRec
<1>2. /\ k \in Keys /\ Hash[k] = h /\ h \in Chains /\ Owns(p, h) /\ pc \in [Procs -> Labels]
      /\ call[p].fn # "fetch" /\ h # Nowhere /\ h # FREE_OFF
  BY <1>0, <1>1, Begin
<1>3. /\ pc'[p] = "dodelete.readptr" /\ Others(p) /\ kv' = kv /\ call' = call /\ db' = db /\ loc' = loc
      /\ table' = table /\ idx' = idx /\ Overwrites(d, BLANK)
  BY <1>0, <1>2 DEF DelWriteDat, Transition, Goto, client, Others, Overwrites
<1>4. /\ own[db[p].ptroff] = h /\ Follows(own, dep, db[p].ptroff, r) /\ Hit(own, k, r)
      /\ d = readidx(r).datoff /\ db[p].datlen = readidx(r).datlen /\ db[p].ptrval = readptr(r)
  BY <1>0, <1>1 DEF Good, At, AtRecord
<1>5. r \in Recs /\ r \in Nat /\ own[r] = h /\ readidx(r).key = k /\ NHASH \in Nat
  BY <1>2, <1>4, Remembered DEF Hit
<1>6. /\ OnlyRecord(own, own, r) /\ DataOK' /\ Recs' = Recs
      /\ \A x : readptr(x)' = readptr(x) /\ readidx(x)' = readidx(x)
      /\ \A e \in 1..Len(dat) : e # d => dat'[e] = dat[e]
  <2>1. DataOK
    BY DEF Good
  <2>2. r \in Recs /\ d = readidx(r).datoff /\ table' = table /\ idx' = idx /\ Overwrites(d, BLANK)
    BY <1>3, <1>4, <1>5
  <2>3. OnlyRecord(own, own, r) /\ DataOK' /\ Recs' = Recs
    BY <2>1, <2>2, DataWritten
  <2>4. \A x : readptr(x)' = readptr(x) /\ readidx(x)' = readidx(x)
    BY <2>1, <2>2, DataWritten
  <2>5. \A e \in 1..Len(dat) : e # d => dat'[e] = dat[e]
    BY <2>1, <2>2, DataWritten
  <2> QED BY <2>3, <2>4, <2>5
<1> HIDE DEF h
<1>7. At(own, dep, p)'
  <2>0. dat'[d].data = BLANK
    <3>1. d \in 1..Len(dat)
      BY <1>0, <1>1 DEF FileInv, LocalOK, AtRec, HasRec
    <3>2. dat \in Seq(DatRec) /\ DOMAIN dat = 1..Len(dat) /\ dat[d] \in DatRec
      BY <3>1, FileParts
    <3> QED BY <1>3, <3>1, <3>2 DEF Overwrites, DatRec
  <2>1. AtRecord(own, dep, p)'
    BY <1>0, <1>2, <1>3, <1>4, <1>5, <1>6, <2>0 DEF AtRecord, Hit, chainoff, h
  <2>2. Replying(p)'
    BY <1>1, <1>3 DEF Good, At, Replying, Deleting, Storing
  <2>3. Finding(own, dep, p)' /\ Missing(own, p)' /\ Saved(own, dep, p)' /\ Freed(own, dep, p)'
    BY <1>3 DEF Finding, Missing, Gone, Storing, Saved, Freed
  <2>4. Unlinking(own, dep, p)' /\ Heading(own, dep, p)' /\ Searching(own, dep, p)' /\ Taking(own, dep, p)'
    BY <1>3 DEF Unlinking, Heading, Heads, Storing, Searching, Taking
  <2>5. Reusing(p)' /\ Replacing(p)' /\ Measured(p)' /\ Filled(p)' /\ Written(p)' /\ Done(own, p)'
    BY <1>3 DEF Reusing, Reuses, Replacing, Measured, HasDat, Filled, Written, Done
  <2> QED BY <2>1, <2>2, <2>3, <2>4, <2>5 DEF At
<1>8. ASSUME NEW o \in Nat, own[o] # Nowhere, Owns(p, own[o])
      PROVE  Follows(own, dep, o, readptr(o)')
  <2>1. ~Pending(p, o)
    BY <1>1 DEF Pending
  <2>2. own[o] \in 0..NHASH
    BY <1>5, <1>8 DEF Good, Lists, Ordered, Nowhere
  <2> QED BY <1>6, <1>8, <2>1, <2>2, Settled DEF Owns
<1>9. pc'[p] \in Changing \ HasDat /\ ~HasNew(p)'
  BY <1>3 DEF Changing, HasDat, HasNew
<1>10. Ordered(own, dep) /\ Loose(p, own[r]) /\ own[r] # FREE_OFF
  BY <1>2, <1>5 DEF Good, Lists, Loose
<1>11. own[r] \in Chains => readidx(r).key' = k /\ own[r] = Hash[k] /\ Hit(own, k, r)
  BY <1>2, <1>4, <1>5, <1>6
<1>12. /\ own[r] # Nowhere /\ HasNew(p)' <=> own[r] = Nowhere
       /\ readidx(r).datoff' = readidx(r).datoff
  BY <1>2, <1>5, <1>6, <1>9
<1>13. db[p].idxoff = r /\ db'[p].idxoff = r /\ call[p].key = k /\ pc[p] \in Deleting \cup Storing
  BY <1>0, <1>1, <1>3
<1> QED BY <1>3, <1>4, <1>5, <1>6, <1>7, <1>8, <1>9, <1>10, <1>11, <1>12, <1>13, <1>2, WriteGood

\* db_store() writes the data, into a free record or over the old data.
LEMMA StoreWriteDatGood ==
    ASSUME NEW p \in Procs, NEW own, NEW dep, NEW left, Control, FileInv, Good(own, dep, left), StoreWriteDat(p)
    PROVE  Good(own, dep, left)'
<1> DEFINE h == chainoff(p)
<1>0. PICK r, k, d, v : r = db[p].idxoff /\ k = call[p].key /\ d = db[p].datoff /\ v = call[p].data
  OBVIOUS
<1>1. /\ pc[p] \in {"reuse.writedat", "replace.writedat"} /\ pc[p] \in Storing
      /\ pc[p] \notin FreeLocked /\ pc[p] \in HasRec
  BY DEF StoreWriteDat, Storing, FreeLocked, HasRec
<1>2. /\ k \in Keys /\ Hash[k] = h /\ h \in Chains /\ Owns(p, h) /\ pc \in [Procs -> Labels]
      /\ db \in [Procs -> DbType] /\ loc \in [Procs -> LocType]
      /\ call[p].fn = "store" /\ h # Nowhere /\ h # FREE_OFF /\ v \in Data /\ DatLen[v] \in Nat
      /\ call[p] \in Requests /\ FREE_OFF # Nowhere
  BY <1>0, <1>1, Begin, DbAssumption
<1>3. /\ pc'[p] = IF pc[p] = "reuse.writedat" THEN "reuse.writeidx" ELSE "unlock"
      /\ Others(p) /\ kv' = kv /\ call' = call /\ loc' = loc
      /\ table' = table /\ idx' = idx /\ Overwrites(d, v)
      /\ db' = [db EXCEPT ![p] = [db[p] EXCEPT !.datlen = DatLen[v]]]
  BY <1>0, <1>2 DEF StoreWriteDat, Goto, client, Others, Overwrites
<1>a. /\ db'[p].idxoff = r /\ db'[p].ptroff = db[p].ptroff /\ db'[p].datoff = d
      /\ db'[p].datlen = DatLen[v] /\ db'[p].ptrval = db[p].ptrval
  BY <1>0, <1>2, <1>3 DEF DbType
<1>4. r \in Recs /\ r \in Nat /\ NHASH \in Nat
  BY <1>0, <1>1, Remembered
<1>5. /\ d = readidx(r).datoff /\ DatLen[v] = readidx(r).datlen
      /\ pc[p] = "reuse.writedat" => HasNew(p) /\ own[r] = Nowhere /\ readidx(r).key = BLANK
      /\ pc[p] = "replace.writedat" => ~HasNew(p) /\ own[r] = h /\ Hit(own, k, r)
  <2>1. CASE pc[p] = "reuse.writedat"
    BY <1>0, <2>1 DEF Good, At, Reusing, Reuses, NewRecs, HasNew
  <2>2. CASE pc[p] = "replace.writedat"
    <3>1. /\ d = readidx(r).datoff /\ DatLen[v] = readidx(r).datlen /\ Hit(own, k, r)
      BY <1>0, <2>2 DEF Good, At, AtRecord, AtRec, Replacing
    <3> QED BY <1>2, <2>2, <3>1 DEF Hit, HasNew
  <2> QED BY <1>1, <2>1, <2>2
<1>6. /\ OnlyRecord(own, own, r) /\ DataOK' /\ Recs' = Recs
      /\ \A x : readptr(x)' = readptr(x) /\ readidx(x)' = readidx(x)
      /\ \A e \in 1..Len(dat) : e # d => dat'[e] = dat[e]
      /\ dat'[d].data = v /\ dat'[d].size = DatLen[v]
  <2>1. DataOK /\ DatLen[v] = dat[d].size
    BY <1>4, <1>5 DEF Good, DataOK
  <2>2. r \in Recs /\ d = readidx(r).datoff /\ table' = table /\ idx' = idx /\ Overwrites(d, v)
    BY <1>3, <1>4, <1>5
  <2>3. OnlyRecord(own, own, r) /\ DataOK' /\ Recs' = Recs
    BY <2>1, <2>2, DataWritten
  <2>4. \A x : readptr(x)' = readptr(x) /\ readidx(x)' = readidx(x)
    BY <2>1, <2>2, DataWritten
  <2>5. \A e \in 1..Len(dat) : e # d => dat'[e] = dat[e]
    BY <2>1, <2>2, DataWritten
  <2>6. dat'[d].data = v /\ dat'[d].size = dat[d].size
    BY <2>1, <2>2, DataWritten
  <2> QED BY <2>1, <2>3, <2>4, <2>5, <2>6
<1> HIDE DEF h
<1>7. At(own, dep, p)'
  <2>1. chainoff(p)' = chainoff(p) /\ chainoff(p) = h
    BY <1>3 DEF chainoff, h
  <2>2. /\ loc[p].rc = Abs!Reply(kv, call[p]) /\ ~Abs!Refused(kv, call[p])
    BY <1>1 DEF Good, At, Replying
  <2>3. Replying(p)'
    BY <1>3, <2>2 DEF Replying
  <2>4. /\ Finding(own, dep, p)' /\ AtRecord(own, dep, p)' /\ Saved(own, dep, p)' /\ Freed(own, dep, p)'
        /\ Unlinking(own, dep, p)' /\ Searching(own, dep, p)' /\ Taking(own, dep, p)'
    BY <1>3 DEF Finding, AtRecord, AtRec, Saved, Freed, Unlinking, Searching, Taking
  <2>5. Replacing(p)' /\ Measured(p)' /\ Written(p)'
    BY <1>3 DEF Replacing, Measured, HasDat, Written
  <2>6. Filled(p)' /\ Reusing(p)'
    BY <1>0, <1>3, <1>a, <1>5, <1>6 DEF Filled, Reusing, Reuses, HasDat
  <2>7. Missing(own, p)' /\ Heading(own, dep, p)'
    <3>1. CASE pc[p] = "reuse.writedat"
      <4>1. Absent(own, k) /\ Follows(own, dep, h, loc[p].ptrval)
        BY <1>0, <2>1, <3>1 DEF Good, At, Missing, Gone, Heading, Heads, Storing
      <4>2. Absent(own, k)'
        BY <1>6, <4>1 DEF Absent, Hit
      <4> QED BY <1>0, <1>3, <2>1, <4>1, <4>2 DEF Missing, Heading
    <3>2. CASE pc[p] = "replace.writedat"
      BY <1>3, <3>2 DEF Missing, Gone, Heading, Heads, Storing
    <3> QED BY <1>1, <3>1, <3>2
  <2>8. Done(own, p)'
    <3>1. CASE pc[p] = "reuse.writedat"
      BY <1>3, <3>1 DEF Done
    <3>2. CASE pc[p] = "replace.writedat"
      <4>1. Abs!Effect(kv, call[p])[k] = v
        <5>1. kv \in [Keys -> Data \cup {BLANK, NULL}]
          BY DEF Control, ControlTypeOK
        <5> QED BY <1>0, <1>2, <2>2, <5>1 DEF Abs!Effect
      <4>2. Hit(own, k, r)' /\ dat'[readidx(r).datoff'].data = v /\ v # NULL /\ r \in Recs'
        BY <1>2, <1>4, <1>5, <1>6, <3>2, DbAssumption DEF Hit
      <4>3. Shows(own, k, v)'
        BY <4>2 DEF Shows
      <4> QED BY <1>0, <1>3, <4>1, <4>3 DEF Done
    <3> QED BY <1>1, <3>1, <3>2
  <2> QED BY <2>3, <2>4, <2>5, <2>6, <2>7, <2>8 DEF At
<1>8. ASSUME NEW o \in Nat, own[o] # Nowhere, Owns(p, own[o])
      PROVE  Follows(own, dep, o, readptr(o)')
  <2>1. ~Pending(p, o)
    BY <1>1 DEF Pending
  <2>2. own[o] \in 0..NHASH
    BY <1>4, <1>8 DEF Good, Lists, Ordered, Nowhere
  <2> QED BY <1>6, <1>8, <2>1, <2>2, Settled DEF Owns
<1>9. /\ pc'[p] \in Changing \ HasDat /\ (HasNew(p)' <=> own[r] = Nowhere)
      /\ own[r] # Nowhere \/ HasNew(p)
  BY <1>1, <1>2, <1>3, <1>5 DEF Changing, Storing, HasDat, HasNew
<1>10. Ordered(own, dep) /\ Loose(p, own[r]) /\ own[r] # FREE_OFF
  BY <1>1, <1>2, <1>5 DEF Good, Lists, Loose
<1>11. own[r] \in Chains => readidx(r).key = k /\ own[r] = Hash[k] /\ Hit(own, k, r)
  <2>1. Nowhere \notin Chains
    BY DEF Nowhere, Chains
  <2> QED BY <1>1, <1>2, <1>5, <2>1 DEF Hit
<1>12. readidx(r)' = readidx(r)
  BY <1>6
<1>13. db[p].idxoff = r /\ call[p].key = k /\ pc[p] \in Deleting \cup Storing
  BY <1>0, <1>1
<1> QED BY <1>3, <1>a, <1>4, <1>5, <1>6, <1>7, <1>8, <1>9, <1>10, <1>11, <1>12, <1>13, <1>2, WriteGood

\* _db_dodelete() blanks the key: the record counts as the first of the free
\* list from here on, though no pointer says so yet.
LEMMA DelWriteIdxGood ==
    ASSUME NEW p \in Procs, NEW own, NEW dep, NEW left, Control, FileInv, Good(own, dep, left), DelWriteIdx(p)
    PROVE  \E own2, dep2 : Good(own2, dep2, left)'
<1> DEFINE h == chainoff(p)
<1>0. PICK r, k, o1, f, s1 : /\ r = db[p].idxoff /\ k = call[p].key /\ o1 = db[p].ptroff
                             /\ f = loc[p].freeptr /\ s1 = loc[p].saveptr
  OBVIOUS
<1> DEFINE own2 == Put(own, r, FREE_OFF)
<1> DEFINE dep2 == Shift(own, dep, r, FREE_OFF)
<1> DEFINE rec == IdxRecord(p, BLANK, f)
<1>1. /\ pc[p] = "dodelete.writeidx" /\ pc[p] \in Deleting /\ pc[p] \in FreeLocked
      /\ pc[p] \in AtRec /\ pc[p] \in HasRec
  BY DEF DelWriteIdx, Transition, Deleting, FreeLocked, AtRec, HasRec
<1>2. /\ k \in Keys /\ Hash[k] = h /\ h \in Chains /\ Owns(p, h) /\ Owns(p, FREE_OFF)
      /\ pc \in [Procs -> Labels] /\ db \in [Procs -> DbType] /\ call[p] \in Requests
      /\ call[p].fn # "fetch" /\ h # Nowhere /\ h # FREE_OFF /\ FREE_OFF # Nowhere
      /\ \A a \in 0..NHASH : Owns(p, a) => a \in {FREE_OFF, h}
  BY <1>0, <1>1, Begin
<1>3. /\ pc'[p] = "dodelete.writefree" /\ Others(p) /\ kv' = kv /\ call' = call /\ loc' = loc
      /\ table' = table /\ dat' = dat /\ idx' = WriteAt(idx, r - NHASH, rec)
      /\ db' = [db EXCEPT ![p] = [db[p] EXCEPT !.ptrval = f]]
  BY <1>0, <1>2 DEF DelWriteIdx, Transition, Goto, client, Others
<1>a. db'[p].idxoff = r /\ db'[p].ptroff = o1
  BY <1>0, <1>2, <1>3 DEF DbType
<1>4. /\ own[o1] = h /\ Follows(own, dep, o1, r) /\ Hit(own, k, r)
      /\ db[p].datoff = readidx(r).datoff /\ db[p].datlen = readidx(r).datlen
      /\ Follows(own, dep, FREE_OFF, f) /\ s1 = readptr(r)
  BY <1>0, <1>1 DEF Good, At, AtRecord, Saved
<1>5. /\ r \in Recs /\ r \in Nat /\ own[r] = h /\ readidx(r).key = k /\ NHASH \in Nat /\ r > NHASH
      /\ o1 \in Nat /\ o1 \in 0..NHASH \cup Recs /\ r # FREE_OFF /\ FREE_OFF \in 0..NHASH
      /\ 0..NHASH \subseteq Nat
  BY <1>0, <1>2, <1>4, Remembered DEF Hit
<1>6. /\ Recs' = Recs /\ readidx(r)' = rec /\ readptr(r)' = rec.ptr
      /\ \A x \in 0..NHASH \cup Recs : x # r =>
            readptr(x)' = readptr(x) /\ (x \in Recs => SameEntry(x))
  <2>1. rec \in IdxRec
    <3>1. f \in Target /\ db[p].datoff \in 1..Len(dat)
      BY <1>0, <1>1 DEF FileInv, LocalOK
    <3> QED BY <1>2, <3>1, IdxRecordOK
  <2> HIDE DEF rec
  <2>2. Recs' = Recs \cup {r}
    BY <1>3, <1>5, <2>1, IdxWritten
  <2>3. readidx(r)' = rec /\ readptr(r)' = rec.ptr
    BY <1>3, <1>5, <2>1, IdxWritten
  <2>4. \A x \in 0..NHASH \cup Recs : x # r =>
            readptr(x)' = readptr(x) /\ (x \in Recs => SameEntry(x))
    BY <1>3, <1>5, <2>1, IdxWritten
  <2> QED BY <1>5, <2>2, <2>3, <2>4
<1>7. /\ rec.ptr = f /\ rec.key = BLANK
      /\ rec.datoff = readidx(r).datoff /\ rec.datlen = readidx(r).datlen
  BY <1>4 DEF IdxRecord
<1>8. /\ Ordered(own, dep) /\ own \in [Nat -> Nowhere..NHASH] /\ dep \in [Nat -> Nat]
      /\ own[FREE_OFF] = FREE_OFF
  BY <1>5 DEF Good, Lists, Ordered
<1>9. /\ Ordered(own2, dep2) /\ Follows(own2, dep2, FREE_OFF, r)
      /\ \A s : Follows(own, dep, FREE_OFF, s) => Follows(own2, dep2, r, s)
      /\ \A o \in Nat : \A s :
            own[o] = FREE_OFF /\ o # FREE_OFF /\ Follows(own, dep, o, s) => Follows(own2, dep2, o, s)
      /\ \A o \in Nat : \A s :
            own[o] = h /\ o # r /\ s # r /\ Follows(own, dep, o, s) => Follows(own2, dep2, o, s)
      /\ \A o \in Nat : \A s :
            own[o] = h /\ Follows(own, dep, o, r) /\ Follows(own, dep, r, s)
               => Follows(own2, dep2, o, s)
  BY <1>2, <1>5, <1>8, PutFirst
<1>10. /\ \A x \in Nat : own2[x] = IF x = r THEN FREE_OFF ELSE own[x]
       /\ \A x \in Nat : x # r /\ dep2[x] # dep[x] => own[x] = FREE_OFF
  BY <1>5, <1>8 DEF Put, Shift
<1> HIDE DEF own2, dep2, rec, h
<1>11. OnlyRecord(own, own2, r)
  BY <1>5, <1>6, <1>10, Remembered DEF OnlyRecord
<1>12. DataOK'
  <2>1. DataOK
    BY DEF Good
  <2>2. readidx(r).datoff' = readidx(r).datoff /\ dat[readidx(r).datoff'].size = readidx(r).datlen'
    BY <1>5, <1>6, <1>7, <2>1 DEF DataOK
  <2> QED BY <1>3, <1>5, <1>11, <2>1, <2>2, DataStep
<1>13. ASSUME NEW o \in Nat, own[o] \in {FREE_OFF, h}
       PROVE  Follows(own, dep, o, readptr(o))
  <2>1. ~Pending(p, o) /\ Held(p, own[o]) /\ own[o] \in 0..NHASH
    BY <1>1, <1>2, <1>5, <1>13, Remembered DEF Pending, Owns
  <2> QED BY <2>1, Settled
<1>14. o1 # r /\ readptr(o1) = r /\ Follows(own, dep, r, s1)
  <2>1. Follows(own, dep, o1, readptr(o1)) /\ Follows(own, dep, r, readptr(r))
    BY <1>4, <1>5, <1>13
  <2>2. o1 # r
    BY <1>4, <1>5, <1>8 DEF Follows
  <2> QED BY <1>2, <1>4, <1>5, <1>8, <2>1, <2>2, FollowsOne
<1>15. At(own2, dep2, p)'
  <2>1. chainoff(p)' = chainoff(p) /\ chainoff(p) = h
    BY <1>3 DEF chainoff, h
  <2>2. Unlinking(own2, dep2, p)'
    <3>1. own2[o1] = h /\ own2[r] = FREE_OFF /\ Follows(own2, dep2, o1, s1)
      BY <1>4, <1>5, <1>9, <1>10, <1>14
    <3>2. readptr(o1)' = r
      BY <1>5, <1>6, <1>14
    <3> QED BY <1>0, <1>3, <1>a, <2>1, <3>1, <3>2 DEF Unlinking
  <2>3. Freed(own2, dep2, p)'
    <3>1. Follows(own, dep, FREE_OFF, readptr(FREE_OFF))
      BY <1>5, <1>8, <1>13
    <3>2. readptr(FREE_OFF) = f
      BY <1>2, <1>4, <1>5, <1>8, <3>1, FollowsOne
    <3>3. readptr(FREE_OFF)' = readptr(r)'
      BY <1>5, <1>6, <1>7, <3>2
    <3> QED BY <1>3, <1>a, <1>9, <3>3 DEF Freed
  <2>4. Missing(own2, p)'
    <3>1. \A x \in Recs : x # r => ~Hit(own, k, x)
      BY <1>2, <1>4, <1>5 DEF Good, Keyed
    <3>2. \A x \in Recs' : ~Hit(own2, k, x)'
      BY <1>2, <1>5, <1>6, <1>10, <3>1, Remembered DEF Hit, SameEntry
    <3>3. Absent(own2, k)'
      BY <3>2 DEF Absent
    <3> QED BY <1>0, <1>3, <3>3 DEF Missing
  <2>5. Replying(p)'
    BY <1>1, <1>3 DEF Good, At, Replying, Deleting, Storing
  <2>6. /\ Finding(own2, dep2, p)' /\ AtRecord(own2, dep2, p)' /\ Saved(own2, dep2, p)'
        /\ Heading(own2, dep2, p)' /\ Searching(own2, dep2, p)' /\ Taking(own2, dep2, p)'
    BY <1>3 DEF Finding, AtRecord, AtRec, Saved, Heading, Heads, Storing, Searching, Taking
  <2>7. Reusing(p)' /\ Replacing(p)' /\ Measured(p)' /\ Filled(p)' /\ Written(p)' /\ Done(own2, p)'
    BY <1>3 DEF Reusing, Reuses, Replacing, Measured, HasDat, Filled, Written, Done
  <2> QED BY <2>2, <2>3, <2>4, <2>5, <2>6, <2>7 DEF At
<1>16. ASSUME NEW o \in Nat, own2[o] # Nowhere, Owns(p, own2[o]), ~Pending(p, o)'
       PROVE  Follows(own2, dep2, o, readptr(o)')
  <2>1. o # FREE_OFF /\ o # o1
    BY <1>3, <1>a, <1>16 DEF Pending
  <2>2. CASE o = r
    BY <1>4, <1>6, <1>7, <1>9, <2>2
  <2>3. CASE o # r
    <3>1. own[o] = own2[o] /\ own[o] \in {FREE_OFF, h}
      <4>1. own[o] = own2[o] /\ own[o] \in 0..NHASH
        BY <1>5, <1>8, <1>10, <1>16, <2>3 DEF Nowhere
      <4> QED BY <1>2, <1>16, <4>1
    <3>2. o \in 0..NHASH \cup Recs
      BY <1>2, <1>5, <1>8, <3>1 DEF Good, Lists
    <3>3. readptr(o)' = readptr(o) /\ Follows(own, dep, o, readptr(o))
      BY <1>6, <1>13, <2>3, <3>1, <3>2
    <3>4. CASE own[o] = FREE_OFF
      BY <1>9, <2>1, <3>3, <3>4
    <3>5. CASE own[o] = h
      <4>1. readptr(o) # r
        BY <1>2, <1>4, <1>5, <1>8, <2>1, <3>3, <3>5, FollowsOther
      <4> QED BY <1>9, <2>3, <3>3, <3>5, <4>1
    <3> QED BY <3>1, <3>4, <3>5
  <2> QED BY <2>2, <2>3
<1>17. /\ pc'[p] \in Changing \ HasDat /\ ~HasNew(p)'
       /\ db[p].idxoff = r /\ call[p].key = k /\ pc[p] \in Deleting \cup Storing
  BY <1>0, <1>1, <1>3 DEF Changing, HasDat, HasNew
<1>18. /\ own2[r] = FREE_OFF /\ FREE_OFF \notin Chains /\ readidx(r).key' = BLANK
       /\ readidx(r).datoff' = readidx(r).datoff
       /\ Loose(p, own[r]) /\ Loose(p, own2[r])
  BY <1>2, <1>5, <1>6, <1>7, <1>10 DEF Loose, FREE_OFF, Chains
<1>19. /\ \A x \in Nat : x # r => own2[x] = own[x]
       /\ \A x \in Nat : x # r /\ dep2[x] # dep[x] => Owns(p, own[x])
       /\ \A x \in 0..NHASH \cup Recs :
              x # r /\ readptr(x)' # readptr(x) => own[x] # Nowhere /\ Owns(p, own[x])
       /\ own[r] # Nowhere /\ (HasNew(p)' <=> own2[r] = Nowhere)
  BY <1>2, <1>5, <1>6, <1>10, <1>17, <1>18
<1>20. Good(own2, dep2, left)'
  BY <1>2, <1>3, <1>a, <1>5, <1>6, <1>9, <1>11, <1>12, <1>15, <1>16, <1>17, <1>18, <1>19, WriteGood
<1> QED BY <1>20

\* _db_dodelete(): the head of the free list points to the record ...
LEMMA DelWriteFreeGood ==
    ASSUME NEW p \in Procs, NEW own, NEW dep, NEW left, Control, FileInv, Good(own, dep, left), DelWriteFree(p)
    PROVE  Good(own, dep, left)'
<1> DEFINE h == chainoff(p)
<1>0. PICK r, k, o1, s1 : /\ r = db[p].idxoff /\ k = call[p].key /\ o1 = db[p].ptroff
                          /\ s1 = loc[p].saveptr
  OBVIOUS
<1>1. /\ pc[p] = "dodelete.writefree" /\ pc[p] \in Deleting /\ pc[p] \in FreeLocked
      /\ pc[p] \in Gone /\ pc[p] \in HasRec
  BY DEF DelWriteFree, Transition, Deleting, FreeLocked, Gone, HasRec
<1>2. /\ k \in Keys /\ Hash[k] = h /\ h \in Chains /\ Owns(p, h) /\ Owns(p, FREE_OFF)
      /\ pc \in [Procs -> Labels]
      /\ call[p].fn # "fetch" /\ h # Nowhere /\ h # FREE_OFF /\ FREE_OFF # Nowhere
  BY <1>0, <1>1, Begin
<1>3. /\ pc'[p] = "dodelete.writeptr" /\ Others(p) /\ kv' = kv /\ call' = call /\ db' = db
      /\ loc' = loc /\ dat' = dat /\ writeptr(FREE_OFF, r)
  BY <1>0, <1>2 DEF DelWriteFree, Transition, Goto, client, Others
<1>4. /\ Follows(own, dep, FREE_OFF, r) /\ Absent(own, k)
      /\ own[o1] = h /\ Follows(own, dep, o1, s1) /\ own[r] = FREE_OFF /\ readptr(o1) = r
  BY <1>0, <1>1 DEF Good, At, Freed, Unlinking, Missing
<1>5. /\ r \in Recs /\ r \in Nat /\ NHASH \in Nat /\ r # 0
      /\ o1 \in Nat /\ o1 \in 0..NHASH \cup Recs /\ FREE_OFF \in 0..NHASH
      /\ 0..NHASH \subseteq Nat
  BY <1>0, <1>1, Remembered
<1>6. /\ Recs' = Recs /\ readptr(FREE_OFF)' = r
      /\ \A x \in 0..NHASH \cup Recs : x # FREE_OFF => readptr(x)' = readptr(x)
      /\ \A x \in Recs : SameEntry(x)
  BY <1>3, <1>5, PtrWritten
<1>7. /\ Ordered(own, dep) /\ own[FREE_OFF] = FREE_OFF /\ own \in [Nat -> Nowhere..NHASH]
  BY <1>5 DEF Good, Lists, Ordered
<1> HIDE DEF h
<1>8. OnlyRecord(own, own, r)
  BY <1>6 DEF OnlyRecord
<1>9. DataOK'
  <2>1. DataOK
    BY DEF Good
  <2>2. readidx(r).datoff' = readidx(r).datoff /\ dat[readidx(r).datoff'].size = readidx(r).datlen'
    BY <1>5, <1>6, <2>1 DEF DataOK, SameEntry
  <2> QED BY <1>3, <1>5, <1>8, <2>1, <2>2, DataStep
<1>10. At(own, dep, p)'
  <2>1. chainoff(p)' = chainoff(p) /\ chainoff(p) = h
    BY <1>3 DEF chainoff, h
  <2>2. Unlinking(own, dep, p)'
    <3>1. readptr(o1)' = r
      BY <1>2, <1>4, <1>5, <1>6, <1>7
    <3> QED BY <1>0, <1>3, <1>4, <2>1, <3>1 DEF Unlinking
  <2>3. Missing(own, p)'
    <3>1. Absent(own, k)'
      BY <1>4, <1>6 DEF Absent, Hit, SameEntry
    <3> QED BY <1>0, <1>3, <3>1 DEF Missing
  <2>4. Replying(p)'
    BY <1>1, <1>3 DEF Good, At, Replying, Deleting, Storing
  <2>5. /\ Finding(own, dep, p)' /\ AtRecord(own, dep, p)' /\ Saved(own, dep, p)' /\ Freed(own, dep, p)'
        /\ Heading(own, dep, p)' /\ Searching(own, dep, p)' /\ Taking(own, dep, p)'
    BY <1>3 DEF Finding, AtRecord, AtRec, Saved, Freed, Heading, Heads, Storing, Searching, Taking
  <2>6. Reusing(p)' /\ Replacing(p)' /\ Measured(p)' /\ Filled(p)' /\ Written(p)' /\ Done(own, p)'
    BY <1>3 DEF Reusing, Reuses, Replacing, Measured, HasDat, Filled, Written, Done
  <2> QED BY <2>2, <2>3, <2>4, <2>5, <2>6 DEF At
<1>11. ASSUME NEW o \in Nat, own[o] # Nowhere, Owns(p, own[o]), ~Pending(p, o)'
       PROVE  Follows(own, dep, o, readptr(o)')
  <2>1. o # o1
    BY <1>0, <1>3, <1>11 DEF Pending
  <2>2. CASE o = FREE_OFF
    BY <1>4, <1>6, <2>2
  <2>3. CASE o # FREE_OFF
    <3>1. ~Pending(p, o)
      BY <1>0, <2>1, <2>3 DEF Pending
    <3>2. own[o] \in 0..NHASH /\ o \in 0..NHASH \cup Recs
      BY <1>5, <1>7, <1>11 DEF Nowhere, Good, Lists
    <3> QED BY <1>6, <1>11, <2>3, <3>1, <3>2, Settled DEF Owns
  <2> QED BY <2>2, <2>3
<1>12. /\ pc'[p] \in Changing \ HasDat /\ ~HasNew(p)'
       /\ db[p].idxoff = r /\ db'[p].idxoff = r /\ call[p].key = k /\ pc[p] \in Deleting \cup Storing
  BY <1>0, <1>1, <1>3 DEF Changing, HasDat, HasNew
<1>13. /\ own[r] = FREE_OFF /\ FREE_OFF \notin Chains /\ readidx(r).key' = BLANK
       /\ readidx(r).datoff' = readidx(r).datoff
       /\ Loose(p, own[r])
  BY <1>2, <1>4, <1>5, <1>6 DEF Loose, FREE_OFF, Chains, Good, Keyed, SameEntry
<1>14. /\ \A x \in 0..NHASH \cup Recs :
              x # r /\ readptr(x)' # readptr(x) => own[x] # Nowhere /\ Owns(p, own[x])
       /\ own[r] # Nowhere /\ (HasNew(p)' <=> own[r] = Nowhere)
  BY <1>2, <1>6, <1>7, <1>12, <1>13
<1> QED BY <1>2, <1>3, <1>5, <1>6, <1>7, <1>8, <1>9, <1>10, <1>11, <1>12, <1>13, <1>14, WriteGood

\* ... and the record before it on its chain to the one after it.
LEMMA DelWritePtrGood ==
    ASSUME NEW p \in Procs, NEW own, NEW dep, NEW left, Control, FileInv, Good(own, dep, left), DelWritePtr(p)
    PROVE  Good(own, dep, left)'
<1> DEFINE h == chainoff(p)
<1>0. PICK r, k, o1, s1 : /\ r = db[p].idxoff /\ k = call[p].key /\ o1 = db[p].ptroff
                          /\ s1 = loc[p].saveptr
  OBVIOUS
<1>1. /\ pc[p] = "dodelete.writeptr" /\ pc[p] \in Deleting /\ pc[p] \in FreeLocked
      /\ pc[p] \in Gone /\ pc[p] \in HasRec
  BY DEF DelWritePtr, Transition, Deleting, FreeLocked, Gone, HasRec
<1>2. /\ k \in Keys /\ Hash[k] = h /\ h \in Chains /\ Owns(p, h) /\ Owns(p, FREE_OFF)
      /\ pc \in [Procs -> Labels]
      /\ call[p].fn # "fetch" /\ h # Nowhere /\ h # FREE_OFF /\ FREE_OFF # Nowhere
  BY <1>0, <1>1, Begin
<1>3. /\ pc'[p] = "dodelete.unlock" /\ Others(p) /\ kv' = kv /\ call' = call /\ db' = db
      /\ loc'[p].rc = loc[p].rc /\ dat' = dat /\ writeptr(o1, s1)
  <2>1. loc \in [Procs -> LocType]
    BY FileParts DEF MemoryTypeOK
  <2> QED BY <1>0, <1>2, <2>1 DEF DelWritePtr, Transition, Goto, client, Others, LocType
<1>4. /\ Absent(own, k) /\ own[o1] = h /\ Follows(own, dep, o1, s1) /\ own[r] = FREE_OFF
  BY <1>0, <1>1 DEF Good, At, Unlinking, Missing
<1>5. /\ r \in Recs /\ r \in Nat /\ NHASH \in Nat /\ r # 0
      /\ o1 \in Nat /\ o1 \in 0..NHASH \cup Recs /\ FREE_OFF \in 0..NHASH
      /\ 0..NHASH \subseteq Nat
  BY <1>0, <1>1, Remembered
<1>6. /\ Recs' = Recs /\ readptr(o1)' = s1
      /\ \A x \in 0..NHASH \cup Recs : x # o1 => readptr(x)' = readptr(x)
      /\ \A x \in Recs : SameEntry(x)
  BY <1>3, <1>5, PtrWritten
<1>7. /\ Ordered(own, dep) /\ own[FREE_OFF] = FREE_OFF /\ own \in [Nat -> Nowhere..NHASH]
  BY <1>5 DEF Good, Lists, Ordered
<1> HIDE DEF h
<1>8. OnlyRecord(own, own, r)
  BY <1>6 DEF OnlyRecord
<1>9. DataOK'
  <2>1. DataOK
    BY DEF Good
  <2>2. readidx(r).datoff' = readidx(r).datoff /\ dat[readidx(r).datoff'].size = readidx(r).datlen'
    BY <1>5, <1>6, <2>1 DEF DataOK, SameEntry
  <2> QED BY <1>3, <1>5, <1>8, <2>1, <2>2, DataStep
<1>10. At(own, dep, p)'
  <2>3. Missing(own, p)'
    <3>1. Absent(own, k)'
      BY <1>4, <1>6 DEF Absent, Hit, SameEntry
    <3> QED BY <1>0, <1>3, <3>1 DEF Missing
  <2>4. Replying(p)'
    BY <1>1, <1>3 DEF Good, At, Replying, Deleting, Storing
  <2>5. /\ Finding(own, dep, p)' /\ AtRecord(own, dep, p)' /\ Saved(own, dep, p)' /\ Freed(own, dep, p)'
        /\ Unlinking(own, dep, p)'
        /\ Heading(own, dep, p)' /\ Searching(own, dep, p)' /\ Taking(own, dep, p)'
    BY <1>3 DEF Finding, AtRecord, AtRec, Saved, Freed, Unlinking, Heading, Heads, Storing, Searching, Taking
  <2>6. Reusing(p)' /\ Replacing(p)' /\ Measured(p)' /\ Filled(p)' /\ Written(p)' /\ Done(own, p)'
    BY <1>3 DEF Reusing, Reuses, Replacing, Measured, HasDat, Filled, Written, Done
  <2> QED BY <2>3, <2>4, <2>5, <2>6 DEF At
<1>11. ASSUME NEW o \in Nat, own[o] # Nowhere, Owns(p, own[o]), ~Pending(p, o)'
       PROVE  Follows(own, dep, o, readptr(o)')
  <2>2. CASE o = o1
    BY <1>4, <1>6, <2>2
  <2>3. CASE o # o1
    <3>1. ~Pending(p, o)
      BY <1>0, <1>1, <2>3 DEF Pending
    <3>2. own[o] \in 0..NHASH /\ o \in 0..NHASH \cup Recs
      BY <1>5, <1>7, <1>11 DEF Nowhere, Good, Lists
    <3> QED BY <1>6, <1>11, <2>3, <3>1, <3>2, Settled DEF Owns
  <2> QED BY <2>2, <2>3
<1>12. /\ pc'[p] \in Changing \ HasDat /\ ~HasNew(p)'
       /\ db[p].idxoff = r /\ db'[p].idxoff = r /\ call[p].key = k /\ pc[p] \in Deleting \cup Storing
  BY <1>0, <1>1, <1>3 DEF Changing, HasDat, HasNew
<1>13. /\ own[r] = FREE_OFF /\ FREE_OFF \notin Chains /\ readidx(r).key' = BLANK
       /\ readidx(r).datoff' = readidx(r).datoff
       /\ Loose(p, own[r])
  BY <1>2, <1>4, <1>5, <1>6 DEF Loose, FREE_OFF, Chains, Good, Keyed, SameEntry
<1>14. /\ \A x \in 0..NHASH \cup Recs :
              x # r /\ readptr(x)' # readptr(x) => own[x] # Nowhere /\ Owns(p, own[x])
       /\ own[r] # Nowhere /\ (HasNew(p)' <=> own[r] = Nowhere)
  BY <1>2, <1>4, <1>6, <1>12, <1>13
<1> QED BY <1>2, <1>3, <1>5, <1>6, <1>7, <1>8, <1>9, <1>10, <1>11, <1>12, <1>13, <1>14, WriteGood

\* _db_findfree() takes a record off the free list.
LEMMA FreeWritePtrGood ==
    ASSUME NEW p \in Procs, NEW own, NEW dep, NEW left, Control, FileInv, Good(own, dep, left), FreeWritePtr(p)
    PROVE  \E own2, dep2 : Good(own2, dep2, left)'
<1> DEFINE h == chainoff(p)
<1>0. PICK r, k, o1, s1, b : /\ r = db[p].idxoff /\ k = call[p].key /\ o1 = loc[p].saveoffset
                             /\ s1 = db[p].ptrval /\ b = loc[p].ptrval
  OBVIOUS
<1> DEFINE own2 == Put(own, r, Nowhere)
<1>1. /\ pc[p] = "findfree.writeptr" /\ pc[p] \in Storing /\ pc[p] \in FreeLocked
      /\ pc[p] \in Gone /\ pc[p] \in HasRec /\ pc[p] \in Heads
  BY DEF FreeWritePtr, Transition, Storing, FreeLocked, Gone, HasRec, Heads
<1>2. /\ k \in Keys /\ Hash[k] = h /\ h \in Chains /\ Owns(p, h) /\ Owns(p, FREE_OFF)
      /\ pc \in [Procs -> Labels]
      /\ call[p].fn # "fetch" /\ h # Nowhere /\ h # FREE_OFF /\ FREE_OFF # Nowhere
  BY <1>0, <1>1, Begin
<1>3. /\ pc'[p] = "findfree.unlock" /\ Others(p) /\ kv' = kv /\ call' = call /\ db' = db
      /\ loc' = loc /\ dat' = dat /\ writeptr(o1, s1)
  BY <1>0, <1>2 DEF FreeWritePtr, Transition, Goto, client, Others
<1>4. /\ Absent(own, k) /\ own[o1] = FREE_OFF /\ Follows(own, dep, o1, r) /\ s1 = readptr(r)
      /\ loc[p].offset # 0 /\ Follows(own, dep, h, b)
      /\ db[p].datoff = readidx(r).datoff /\ DatLen[call[p].data] = readidx(r).datlen
      /\ readidx(r).key = BLANK
  BY <1>0, <1>1 DEF Good, At, Taking, Missing, Heading, Reusing, Reuses
<1>5. /\ r \in Recs /\ r \in Nat /\ r > NHASH /\ NHASH \in Nat /\ r # 0
      /\ o1 \in Nat /\ o1 \in 0..NHASH \cup Recs /\ FREE_OFF \in 0..NHASH
      /\ 0..NHASH \subseteq Nat /\ h \in 0..NHASH /\ h \in Nat /\ h # r
  BY <1>0, <1>1, <1>2, Remembered
<1>6. /\ Recs' = Recs /\ readptr(o1)' = s1
      /\ \A x \in 0..NHASH \cup Recs : x # o1 => readptr(x)' = readptr(x)
      /\ \A x \in Recs : SameEntry(x)
  BY <1>3, <1>5, PtrWritten
<1>7. /\ Ordered(own, dep) /\ own[h] = h /\ own \in [Nat -> Nowhere..NHASH] /\ dep \in [Nat -> Nat]
      /\ own[r] = FREE_OFF /\ o1 # r
  <2>1. Ordered(own, dep)
    BY DEF Good, Lists
  <2> QED BY <1>2, <1>4, <1>5, <2>1 DEF Ordered, Follows
<1>8. Follows(own, dep, r, s1)
  <2>1. ~Pending(p, r) /\ Held(p, own[r]) /\ own[r] \in 0..NHASH
    BY <1>1, <1>2, <1>5, <1>7 DEF Pending, Owns
  <2> QED BY <1>4, <1>5, <2>1, Settled
<1>9. /\ Ordered(own2, dep)
      /\ \A o \in Nat : \A s :
             own[o] # Nowhere /\ o # r /\ s # r /\ Follows(own, dep, o, s) => Follows(own2, dep, o, s)
      /\ \A o \in Nat : \A s :
             own[o] = own[r] /\ Follows(own, dep, o, r) /\ Follows(own, dep, r, s)
                => Follows(own2, dep, o, s)
  BY <1>2, <1>5, <1>7, TakeOff
<1>10. \A x \in Nat : own2[x] = IF x = r THEN Nowhere ELSE own[x]
  BY <1>5, <1>7 DEF Put
<1> HIDE DEF own2, h
<1>11. OnlyRecord(own, own2, r)
  BY <1>6, <1>10, Remembered DEF OnlyRecord
<1>12. DataOK'
  <2>1. DataOK
    BY DEF Good
  <2>2. readidx(r).datoff' = readidx(r).datoff /\ dat[readidx(r).datoff'].size = readidx(r).datlen'
    BY <1>5, <1>6, <2>1 DEF DataOK, SameEntry
  <2> QED BY <1>3, <1>5, <1>11, <2>1, <2>2, DataStep
<1>13. At(own2, dep, p)'
  <2>1. chainoff(p)' = chainoff(p) /\ chainoff(p) = h
    BY <1>3 DEF chainoff, h
  <2>2. Heading(own2, dep, p)'
    <3>1. b # r
      BY <1>2, <1>4, <1>5, <1>7 DEF Follows
    <3>2. Follows(own2, dep, h, b)
      BY <1>2, <1>4, <1>5, <1>7, <1>9, <3>1
    <3> QED BY <1>0, <1>3, <2>1, <3>2 DEF Heading
  <2>3. Missing(own2, p)'
    <3>0. Nowhere # Hash[k]
      BY <1>2
    <3>1. \A x \in Recs' : ~Hit(own2, k, x)'
      BY <1>4, <1>6, <1>10, <3>0, Remembered DEF Absent, Hit, SameEntry
    <3>2. Absent(own2, k)'
      BY <3>1 DEF Absent
    <3> QED BY <1>0, <1>3, <3>2 DEF Missing
  <2>4. Replying(p)'
    BY <1>1, <1>3 DEF Good, At, Replying, Deleting, Storing
  <2>5. Reusing(p)'
    BY <1>0, <1>3, <1>4, <1>5, <1>6 DEF Reusing, SameEntry
  <2>6. /\ Finding(own2, dep, p)' /\ AtRecord(own2, dep, p)' /\ Saved(own2, dep, p)'
        /\ Freed(own2, dep, p)' /\ Unlinking(own2, dep, p)'
        /\ Searching(own2, dep, p)' /\ Taking(own2, dep, p)'
    BY <1>3 DEF Finding, AtRecord, AtRec, Saved, Freed, Unlinking, Searching, Taking
  <2>7. Replacing(p)' /\ Measured(p)' /\ Filled(p)' /\ Written(p)' /\ Done(own2, p)'
    BY <1>3 DEF Replacing, Measured, HasDat, Filled, Written, Done
  <2> QED BY <2>2, <2>3, <2>4, <2>5, <2>6, <2>7 DEF At
<1>14. ASSUME NEW o \in Nat, own2[o] # Nowhere, Owns(p, own2[o])
       PROVE  Follows(own2, dep, o, readptr(o)')
  <2>1. o # r /\ own2[o] = own[o]
    BY <1>10, <1>14
  <2>2. CASE o = o1
    BY <1>4, <1>5, <1>6, <1>7, <1>8, <1>9, <2>2
  <2>3. CASE o # o1
    <3>1. ~Pending(p, o)
      BY <1>1 DEF Pending
    <3>2. own[o] \in 0..NHASH /\ o \in 0..NHASH \cup Recs
      BY <1>5, <1>7, <1>14, <2>1 DEF Nowhere, Good, Lists
    <3>3. Follows(own, dep, o, readptr(o)) /\ readptr(o)' = readptr(o)
      BY <1>6, <1>14, <2>1, <2>3, <3>1, <3>2, Settled DEF Owns
    <3>4. readptr(o) # r
      BY <1>4, <1>5, <1>7, <1>14, <2>1, <2>3, <3>3, FollowsOther
    <3> QED BY <1>9, <1>14, <2>1, <3>3, <3>4
  <2> QED BY <2>2, <2>3
<1>15. /\ pc'[p] \in Changing \ HasDat /\ HasNew(p)'
       /\ db[p].idxoff = r /\ db'[p].idxoff = r /\ call[p].key = k /\ pc[p] \in Deleting \cup Storing
  BY <1>0, <1>1, <1>3, <1>4 DEF Changing, Storing, HasDat, HasNew
<1>16. /\ own2[r] = Nowhere /\ Nowhere \notin Chains /\ readidx(r).datoff' = readidx(r).datoff
       /\ Loose(p, own[r]) /\ Loose(p, own2[r]) /\ own[r] \notin Chains
  BY <1>2, <1>5, <1>6, <1>7, <1>10 DEF Loose, FREE_OFF, Nowhere, Chains, SameEntry
<1>17. /\ \A x \in Nat : x # r => own2[x] = own[x]
       /\ \A x \in 0..NHASH \cup Recs :
              x # r /\ readptr(x)' # readptr(x) => own[x] # Nowhere /\ Owns(p, own[x])
       /\ own[r] # Nowhere /\ own2[r] # FREE_OFF /\ (HasNew(p)' <=> own2[r] = Nowhere)
  BY <1>2, <1>4, <1>6, <1>7, <1>10, <1>15, <1>16
<1>18. Good(own2, dep, left)'
  BY <1>2, <1>3, <1>5, <1>6, <1>9, <1>11, <1>12, <1>13, <1>14, <1>15, <1>16, <1>17, WriteGood
<1> QED BY <1>18

\* db_store() writes the index record, over a free one or at the end of the file.
LEMMA NewIdxGood ==
    ASSUME NEW p \in Procs, NEW own, NEW dep, NEW left, Control, FileInv, Good(own, dep, left),
           StoreWriteIdx(p) \/ AppendIdxWrite(p)
    PROVE  Good(own, dep, left)'
<1> DEFINE h == chainoff(p)
<1>0. PICK r, k, d, b, v : /\ r = db[p].idxoff /\ k = call[p].key /\ d = db[p].datoff
                           /\ b = loc[p].ptrval /\ v = call[p].data
  OBVIOUS
<1> DEFINE rec == IdxRecord(p, k, b)
<1>1. /\ pc[p] \in {"reuse.writeidx", "append.idxwrite"} /\ pc[p] \in Storing
      /\ pc[p] \notin FreeLocked /\ pc[p] \in Gone /\ pc[p] \in Heads
      /\ pc[p] \in HasDat \cup {"reuse.writeidx"}
  BY DEF StoreWriteIdx, AppendIdxWrite, Transition, Storing, FreeLocked, Gone, Heads, HasDat
<1>2. /\ k \in Keys /\ Hash[k] = h /\ h \in Chains /\ Owns(p, h) /\ ~Owns(p, FREE_OFF)
      /\ pc \in [Procs -> Labels] /\ db \in [Procs -> DbType] /\ call[p] \in Requests
      /\ call[p].fn # "fetch" /\ h # Nowhere /\ h # FREE_OFF /\ FREE_OFF # Nowhere
  BY <1>0, <1>1, Begin
<1>3. /\ pc'[p] \in {"append.idxunlock", "store.writeptr"}
      /\ Others(p) /\ kv' = kv /\ call' = call /\ loc' = loc
      /\ table' = table /\ dat' = dat /\ idx' = WriteAt(idx, r - NHASH, rec)
      /\ db'[p].idxoff = r
  <2>1. CASE StoreWriteIdx(p)
    <3>1. db' = [db EXCEPT ![p] = [db[p] EXCEPT !.ptrval = b]]
      BY <1>0, <2>1 DEF StoreWriteIdx
    <3> QED BY <1>0, <1>2, <2>1, <3>1 DEF StoreWriteIdx, Transition, Goto, client, Others, DbType
  <2>2. CASE AppendIdxWrite(p)
    BY <1>0, <1>2, <2>2 DEF AppendIdxWrite, Transition, Goto, client, Others
  <2> QED BY <2>1, <2>2
<1>4. /\ Absent(own, k) /\ Follows(own, dep, h, b)
      /\ dat[d].data = v /\ dat[d].size = db[p].datlen
  BY <1>0, <1>1 DEF Good, At, Missing, Heading, Filled
<1>5. /\ r \in Recs \/ r = NHASH + Len(idx) + 1
      /\ r \in Nat /\ r > NHASH /\ NHASH \in Nat /\ own[r] = Nowhere
      /\ r \in Recs => HasNew(p) /\ readidx(r).datoff = d
      /\ r \notin Recs => pc[p] \in HasDat
  <2>1. CASE pc[p] = "reuse.writeidx"
    <3>1. HasNew(p) /\ Reuses(p)
      BY <2>1 DEF HasNew, Reuses
    <3>2. r \in Recs /\ own[r] = Nowhere /\ readidx(r).datoff = d
      BY <1>0, <3>1 DEF Good, NewRecs, At, Reusing
    <3> QED BY <3>1, <3>2, Remembered
  <2>2. CASE pc[p] = "append.idxwrite"
    <3>1. r = NHASH + Len(idx) + 1
      BY <1>0, <2>2 DEF FileInv, AppendAtEnd
    <3>2. NHASH \in Nat /\ Len(idx) \in Nat
      BY DbAssumption DEF FileInv, FileTypeOK
    <3>3. r \in Nat /\ r > NHASH /\ r \notin Recs
      BY <3>1, <3>2 DEF Recs
    <3>4. own[r] = Nowhere
      BY <3>3 DEF Good, Lists
    <3> QED BY <2>2, <3>1, <3>2, <3>3, <3>4 DEF HasDat
  <2> QED BY <1>1, <2>1, <2>2
<1>6. /\ Recs' = Recs \cup {r} /\ readidx(r)' = rec /\ readptr(r)' = rec.ptr
      /\ \A x \in 0..NHASH \cup Recs : x # r =>
            readptr(x)' = readptr(x) /\ (x \in Recs => SameEntry(x))
  <2>1. rec \in IdxRec
    <3>1. b \in Target /\ db[p].datoff \in 1..Len(dat)
      BY <1>0, <1>1 DEF FileInv, LocalOK, HasRec
    <3> QED BY <1>2, <3>1, IdxRecordOK
  <2> HIDE DEF rec
  <2>2. Recs' = Recs \cup {r}
    BY <1>3, <1>5, <2>1, IdxWritten
  <2>3. readidx(r)' = rec /\ readptr(r)' = rec.ptr
    BY <1>3, <1>5, <2>1, IdxWritten
  <2>4. \A x \in 0..NHASH \cup Recs : x # r =>
            readptr(x)' = readptr(x) /\ (x \in Recs => SameEntry(x))
    BY <1>3, <1>5, <2>1, IdxWritten
  <2> QED BY <2>2, <2>3, <2>4
<1>7. rec.ptr = b /\ rec.key = k /\ rec.datoff = d /\ rec.datlen = db[p].datlen
  BY <1>0 DEF IdxRecord
<1>8. Ordered(own, dep) /\ own \in [Nat -> Nowhere..NHASH] /\ Nowhere \notin Chains /\ Nowhere # FREE_OFF
  BY <1>2 DEF Good, Lists, Ordered, Nowhere, Chains
<1> HIDE DEF rec, h
<1>9. OnlyRecord(own, own, r)
  BY <1>6, Remembered DEF OnlyRecord
<1>10. DataOK'
  <2>1. DataOK /\ NewDats
    BY DEF Good
  <2>2. \/ r \in Recs /\ readidx(r).datoff' = readidx(r).datoff
        \/ \A x \in Recs : x # r => readidx(x).datoff # readidx(r).datoff'
    BY <1>0, <1>5, <1>6, <1>7, <2>1 DEF NewDats
  <2>3. dat[readidx(r).datoff'].size = readidx(r).datlen'
    BY <1>4, <1>6, <1>7
  <2> QED BY <1>3, <1>9, <2>1, <2>2, <2>3, DataStep
<1>11. At(own, dep, p)'
  <2>1. chainoff(p)' = chainoff(p) /\ chainoff(p) = h
    BY <1>3 DEF chainoff, h
  <2>2. Missing(own, p)'
    <3>0. Nowhere # Hash[k]
      BY <1>2
    <3>1. \A x \in Recs' : ~Hit(own, k, x)'
      BY <1>4, <1>5, <1>6, <3>0, Remembered DEF Absent, Hit, SameEntry
    <3>2. Absent(own, k)'
      BY <3>1 DEF Absent
    <3> QED BY <1>0, <1>3, <3>2 DEF Missing
  <2>3. Heading(own, dep, p)'
    BY <1>0, <1>3, <1>4, <2>1 DEF Heading
  <2>4. Written(p)'
    BY <1>0, <1>3, <1>4, <1>6, <1>7 DEF Written
  <2>5. Replying(p)'
    BY <1>1, <1>3 DEF Good, At, Replying, Deleting, Storing
  <2>6. /\ Finding(own, dep, p)' /\ AtRecord(own, dep, p)' /\ Saved(own, dep, p)'
        /\ Freed(own, dep, p)' /\ Unlinking(own, dep, p)'
        /\ Searching(own, dep, p)' /\ Taking(own, dep, p)'
    BY <1>3 DEF Finding, AtRecord, AtRec, Saved, Freed, Unlinking, Searching, Taking
  <2>7. Reusing(p)' /\ Replacing(p)' /\ Measured(p)' /\ Filled(p)' /\ Done(own, p)'
    BY <1>3 DEF Reusing, Reuses, Replacing, Measured, HasDat, Filled, Done
  <2> QED BY <2>2, <2>3, <2>4, <2>5, <2>6, <2>7 DEF At
<1>12. ASSUME NEW o \in Nat, own[o] # Nowhere, Owns(p, own[o])
       PROVE  Follows(own, dep, o, readptr(o)')
  <2>1. ~Pending(p, o) /\ o # r
    BY <1>1, <1>5, <1>12 DEF Pending
  <2>2. own[o] \in 0..NHASH /\ o \in 0..NHASH \cup Recs
    BY <1>5, <1>8, <1>12 DEF Nowhere, Good, Lists
  <2> QED BY <1>6, <1>12, <2>1, <2>2, Settled DEF Owns
<1>13. /\ pc'[p] \in Changing \ HasDat /\ HasNew(p)'
       /\ db[p].idxoff = r /\ call[p].key = k /\ pc[p] \in Deleting \cup Storing
  BY <1>0, <1>1, <1>3 DEF Changing, Storing, HasDat, HasNew
<1>14. /\ r \in Recs' /\ Loose(p, own[r])
       /\ own[r] \notin Chains /\ own[r] # FREE_OFF
       /\ r \notin Recs \/ own[r] # Nowhere \/ HasNew(p)
       /\ HasNew(p)' <=> own[r] = Nowhere
  BY <1>5, <1>6, <1>8, <1>13 DEF Loose
<1>15. /\ \/ r \in Recs /\ readidx(r).datoff' = readidx(r).datoff
          \/ pc[p] \in HasDat /\ readidx(r).datoff' = db[p].datoff
       /\ \A x \in 0..NHASH \cup Recs :
              x # r /\ readptr(x)' # readptr(x) => own[x] # Nowhere /\ Owns(p, own[x])
  BY <1>0, <1>5, <1>6, <1>7
<1> QED BY <1>2, <1>3, <1>5, <1>8, <1>9, <1>10, <1>11, <1>12, <1>13, <1>14, <1>15, WriteGood

\* db_store() puts the record on its chain.
LEMMA StoreWritePtrGood ==
    ASSUME NEW p \in Procs, NEW own, NEW dep, NEW left, Control, FileInv, Good(own, dep, left), StoreWritePtr(p)
    PROVE  \E own2, dep2 : Good(own2, dep2, left)'
<1>0. PICK r, k, b, v, h : /\ r = db[p].idxoff /\ k = call[p].key /\ b = loc[p].ptrval
                           /\ v = call[p].data /\ h = chainoff(p)
  OBVIOUS
<1> DEFINE own2 == Put(own, r, h)
<1> DEFINE dep2 == Shift(own, dep, r, h)
<1>1. /\ pc[p] = "store.writeptr" /\ pc[p] \in Storing /\ pc[p] \notin FreeLocked
      /\ pc[p] \in Gone /\ pc[p] \in Heads
  BY DEF StoreWritePtr, Transition, Storing, FreeLocked, Gone, Heads
<1>2. /\ k \in Keys /\ Hash[k] = h /\ h \in Chains /\ Owns(p, h) /\ ~Owns(p, FREE_OFF)
      /\ pc \in [Procs -> Labels] /\ call[p] \in Requests
      /\ call[p].fn = "store" /\ h # Nowhere /\ h # FREE_OFF /\ FREE_OFF # Nowhere
      /\ v \in Data /\ \A a \in 0..NHASH : Owns(p, a) => a = h
  BY <1>0, <1>1, Begin
<1>3. /\ pc'[p] = "unlock" /\ Others(p) /\ kv' = kv /\ call' = call /\ db' = db
      /\ loc'[p].rc = loc[p].rc /\ dat' = dat /\ writeptr(h, r) /\ r <= PTR_MAX
  <2>1. loc \in [Procs -> LocType]
    BY FileParts DEF MemoryTypeOK
  <2> QED BY <1>0, <1>2, <2>1 DEF StoreWritePtr, Transition, Goto, client, Others, LocType
<1>4. /\ HasNew(p) /\ Absent(own, k) /\ Follows(own, dep, h, b)
      /\ readidx(r).key = k /\ readptr(r) = b /\ dat[readidx(r).datoff].data = v
      /\ ~Abs!Refused(kv, call[p])
  BY <1>0, <1>1 DEF HasNew, Good, At, Missing, Heading, Written, Replying
<1>5. /\ r \in Recs /\ r \in Nat /\ r > NHASH /\ NHASH \in Nat /\ r # 0 /\ own[r] = Nowhere
      /\ 0..NHASH \subseteq Nat /\ h \in 0..NHASH /\ h \in Nat /\ h # r
  BY <1>0, <1>2, <1>4, Remembered DEF Good, NewRecs
<1>6. /\ Recs' = Recs /\ readptr(h)' = r
      /\ \A x \in 0..NHASH \cup Recs : x # h => readptr(x)' = readptr(x)
      /\ \A x \in Recs : SameEntry(x)
  BY <1>3, <1>5, PtrWritten
<1>7. /\ Ordered(own, dep) /\ own[h] = h /\ own \in [Nat -> Nowhere..NHASH] /\ dep \in [Nat -> Nat]
  BY <1>5 DEF Good, Lists, Ordered
<1>8. /\ Ordered(own2, dep2) /\ Follows(own2, dep2, h, r)
      /\ \A s : Follows(own, dep, h, s) => Follows(own2, dep2, r, s)
      /\ \A o \in Nat : \A s :
            own[o] = h /\ o # h /\ Follows(own, dep, o, s) => Follows(own2, dep2, o, s)
  BY <1>2, <1>5, <1>7, PutFirst
<1>9. /\ \A x \in Nat : own2[x] = IF x = r THEN h ELSE own[x]
      /\ \A x \in Nat : x # r /\ dep2[x] # dep[x] => own[x] = h
  BY <1>5, <1>7 DEF Put, Shift
<1> HIDE DEF own2, dep2
<1>10. OnlyRecord(own, own2, r)
  BY <1>6, <1>9, Remembered DEF OnlyRecord
<1>11. DataOK'
  <2>1. DataOK
    BY DEF Good
  <2>2. readidx(r).datoff' = readidx(r).datoff /\ dat[readidx(r).datoff'].size = readidx(r).datlen'
    BY <1>5, <1>6, <2>1 DEF DataOK, SameEntry
  <2> QED BY <1>3, <1>5, <1>10, <2>1, <2>2, DataStep
<1>12. At(own2, dep2, p)'
  <2>1. Done(own2, p)'
    <3>1. kv \in [Keys -> Data \cup {BLANK, NULL}]
      BY DEF Control, ControlTypeOK
    <3>2. Abs!Effect(kv, call[p])[k] = v
      BY <1>0, <1>2, <1>4, <3>1 DEF Abs!Effect
    <3>3. r \in Recs' /\ Hit(own2, k, r)' /\ dat'[readidx(r).datoff'].data = v /\ v # NULL
      BY <1>2, <1>3, <1>4, <1>5, <1>6, <1>9, DbAssumption DEF Hit, SameEntry
    <3>4. Shows(own2, k, v)'
      BY <3>3 DEF Shows
    <3> QED BY <1>0, <1>3, <3>2, <3>4 DEF Done
  <2>2. Replying(p)'
    BY <1>1, <1>3 DEF Good, At, Replying, Deleting, Storing
  <2>3. /\ Finding(own2, dep2, p)' /\ AtRecord(own2, dep2, p)' /\ Saved(own2, dep2, p)'
        /\ Freed(own2, dep2, p)' /\ Unlinking(own2, dep2, p)' /\ Missing(own2, p)'
        /\ Heading(own2, dep2, p)' /\ Searching(own2, dep2, p)' /\ Taking(own2, dep2, p)'
    BY <1>3 DEF Finding, AtRecord, AtRec, Saved, Freed, Unlinking, Missing, Gone, Heading, Heads,
       Storing, Searching, Taking
  <2>4. Reusing(p)' /\ Replacing(p)' /\ Measured(p)' /\ Filled(p)' /\ Written(p)'
    BY <1>3 DEF Reusing, Reuses, Replacing, Measured, HasDat, Filled, Written
  <2> QED BY <2>1, <2>2, <2>3, <2>4 DEF At
<1>13. ASSUME NEW o \in Nat, own2[o] # Nowhere, Owns(p, own2[o])
       PROVE  Follows(own2, dep2, o, readptr(o)')
  <2>1. CASE o = h
    BY <1>6, <1>8, <2>1
  <2>2. CASE o = r
    BY <1>4, <1>5, <1>6, <1>8, <2>2
  <2>3. CASE o # h /\ o # r
    <3>1. own[o] = h
      <4>1. own[o] = own2[o] /\ own[o] \in 0..NHASH
        BY <1>5, <1>7, <1>9, <1>13, <2>3 DEF Nowhere
      <4> QED BY <1>2, <1>13, <4>1
    <3>2. ~Pending(p, o) /\ o \in 0..NHASH \cup Recs
      BY <1>1, <1>2, <1>5, <3>1 DEF Pending, Good, Lists
    <3>3. Follows(own, dep, o, readptr(o)) /\ readptr(o)' = readptr(o)
      BY <1>2, <1>5, <1>6, <2>3, <3>1, <3>2, Settled DEF Owns
    <3> QED BY <1>8, <2>3, <3>1, <3>3
  <2> QED BY <2>1, <2>2, <2>3
<1>14. /\ pc'[p] \in Changing \ HasDat /\ ~HasNew(p)'
       /\ db[p].idxoff = r /\ db'[p].idxoff = r /\ call[p].key = k /\ pc[p] \in Deleting \cup Storing
  BY <1>0, <1>1, <1>3 DEF Changing, HasDat, HasNew
<1>15. /\ own2[r] = h /\ readidx(r).datoff' = readidx(r).datoff /\ readidx(r).key' = k
       /\ Loose(p, own[r]) /\ Loose(p, own2[r]) /\ Nowhere \notin Chains
  BY <1>2, <1>4, <1>5, <1>6, <1>9 DEF Loose, Nowhere, Chains, SameEntry
<1>16. /\ \A x \in Nat : x # r => own2[x] = own[x]
       /\ \A x \in Nat : x # r /\ dep2[x] # dep[x] => Owns(p, own[x])
       /\ \A x \in 0..NHASH \cup Recs :
              x # r /\ readptr(x)' # readptr(x) => own[x] # Nowhere /\ Owns(p, own[x])
       /\ own2[r] # Nowhere /\ own2[r] # FREE_OFF /\ (HasNew(p)' <=> own2[r] = Nowhere)
       /\ own[r] \notin Chains
  BY <1>2, <1>5, <1>6, <1>7, <1>9, <1>14, <1>15
<1>17. Good(own2, dep2, left)'
  BY <1>2, <1>3, <1>4, <1>5, <1>6, <1>8, <1>10, <1>11, <1>12, <1>13, <1>14, <1>15, <1>16, WriteGood
<1> QED BY <1>17

\* db_store() adds a data record at the end of the data file.
LEMMA AppendDatWriteGood ==
    ASSUME NEW p \in Procs, NEW own, NEW dep, NEW left, Control, FileInv, Good(own, dep, left), AppendDatWrite(p)
    PROVE  Good(own, dep, left)'
<1> DEFINE h == chainoff(p)
<1>0. PICK k, d, v, b, n : /\ k = call[p].key /\ d = db[p].datoff /\ v = call[p].data
                           /\ b = loc[p].ptrval /\ n = db[p].datlen
  OBVIOUS
<1>1. /\ pc[p] = "append.datwrite" /\ pc[p] \in Storing /\ pc[p] \notin FreeLocked
      /\ pc[p] \in Gone /\ pc[p] \in Heads
  BY DEF AppendDatWrite, Transition, Storing, FreeLocked, Gone, Heads
<1>2. /\ k \in Keys /\ Hash[k] = h /\ h \in Chains /\ Owns(p, h)
      /\ pc \in [Procs -> Labels] /\ call[p].fn # "fetch" /\ h # Nowhere /\ call[p].fn = "store"
  BY <1>0, <1>1, Begin
<1>3. /\ pc'[p] = "append.datunlock" /\ Others(p) /\ kv' = kv /\ call' = call /\ loc' = loc
      /\ db' = db /\ table' = table /\ idx' = idx
      /\ dat' = WriteAt(dat, d, [data |-> v, size |-> n])
  BY <1>0, <1>2 DEF AppendDatWrite, Transition, Goto, client, Others
<1>4. /\ Absent(own, k) /\ Follows(own, dep, h, b) /\ n = DatLen[v]
  BY <1>0, <1>1 DEF Good, At, Missing, Heading, Measured
<1>5. /\ d = Len(dat) + 1 /\ Len(dat) \in Nat /\ dat \in Seq(DatRec)
  BY <1>0, <1>1 DEF FileInv, AppendAtEnd, FileTypeOK
<1>6. /\ \A i \in 1..Len(dat) : dat'[i] = dat[i]
      /\ Len(dat') = d /\ dat'[d].data = v /\ dat'[d].size = n
  <2>1. dat' = Append(dat, [data |-> v, size |-> n])
    BY <1>3, <1>5 DEF WriteAt
  <2> QED BY <1>5, <2>1
<1>7. Recs' = Recs /\ \A x : readptr(x)' = readptr(x) /\ readidx(x)' = readidx(x)
  BY <1>3, DatWritten
<1>8. \A x \in Recs : SameEntry(x) /\ readidx(x).datoff \in 1..Len(dat)
  BY <1>3, <1>6, DatWritten, PtrOK
<1>9. 0 \notin Recs /\ NHASH \in Nat /\ Chains \subseteq 0..NHASH
  BY Remembered
<1>10. /\ Ordered(own, dep) /\ own \in [Nat -> Nowhere..NHASH]
       /\ Lists(own, dep) /\ Keyed(own) /\ MapShown(own) /\ NewRecs(own, left) /\ NewDats /\ DataOK
  BY DEF Good, Lists, Ordered
<1> HIDE DEF h
<1>11. OnlyRecord(own, own, 0)
  BY <1>7, <1>8 DEF OnlyRecord
<1>12. Apart(p, own, dep, own, dep)
  <2>1. \A x \in Nat : x \in Recs => SameEntry(x)
    BY <1>8
  <2> QED BY <1>7, <1>10, <2>1, ApartStep
<1>13. Lists(own, dep)'
  BY <1>7, <1>10 DEF Lists
<1>14. Pointers(own, dep)'
  <2>1. ASSUME NEW o \in Nat, own[o] # Nowhere, Owns(p, own[o])
        PROVE  Follows(own, dep, o, readptr(o)')
    <3>1. ~Pending(p, o) /\ own[o] \in 0..NHASH
      BY <1>1, <1>9, <1>10, <2>1 DEF Pending, Nowhere
    <3> QED BY <1>7, <2>1, <3>1, Settled DEF Owns
  <2> QED BY <1>3, <1>10, <1>12, <2>1, PointersStep
<1>15. Keyed(own)' /\ MapShown(own)'
  <2> DEFINE u == kv[k]
  <2>1. Busy(p, k)' /\ call[p].key = k
    BY <1>0, <1>2, <1>3 DEF Busy, Changing, Storing
  <2>2. u = kv'[k]
    BY <1>3
  <2> HIDE DEF u
  <2> QED BY <1>2, <1>3, <1>7, <1>9, <1>10, <1>11, <2>1, <2>2, MapStep
<1>16. NewRecs(own, left)'
  <2>1. pc[p] # "exited" /\ ~HasNew(p) /\ ~HasNew(p)'
    BY <1>1, <1>3 DEF HasNew
  <2> QED BY <1>3, <1>7, <1>9, <1>10, <1>11, <2>1, NewRecsStep
<1>17. NewDats'
  <2>1. /\ \A x \in Recs : readidx(x).datoff # d
        /\ \A q \in Procs \ {p} : pc[q] \in HasDat => db[q].datoff # d
    BY <1>5, <1>8 DEF FileInv, LocalOK
  <2> QED BY <1>0, <1>3, <1>7, <1>9, <1>10, <1>11, <2>1, NewDatsStep
<1>18. DataOK'
  <2>0. \A i \in 1..Len(dat) : dat[i].data = BLANK \/ DatLen[dat[i].data] = dat[i].size
    BY <1>10 DEF DataOK
  <2>1. ASSUME NEW i \in 1..Len(dat')
        PROVE  dat'[i].data = BLANK \/ DatLen[dat'[i].data] = dat'[i].size
    <3>1. CASE i = d
      BY <1>4, <1>6, <3>1
    <3>2. CASE i # d
      <4>1. i \in 1..Len(dat)
        BY <1>5, <1>6, <3>2
      <4> QED BY <1>6, <2>0, <4>1
    <3> QED BY <3>1, <3>2
  <2>2. \A x \in Recs : dat'[readidx(x).datoff].size = readidx(x).datlen
    BY <1>6, <1>8, <1>10 DEF DataOK
  <2> QED BY <1>7, <1>10, <2>1, <2>2 DEF DataOK
<1>19. At(own, dep, p)'
  <2>1. chainoff(p)' = chainoff(p) /\ chainoff(p) = h
    BY <1>3 DEF chainoff, h
  <2>2. Missing(own, p)'
    <3>1. Absent(own, k)'
      BY <1>4, <1>7 DEF Absent, Hit
    <3> QED BY <1>0, <1>3, <3>1 DEF Missing
  <2>3. Heading(own, dep, p)'
    BY <1>0, <1>3, <1>4, <2>1 DEF Heading
  <2>4. Measured(p)' /\ Filled(p)'
    BY <1>0, <1>3, <1>4, <1>6 DEF Measured, Filled
  <2>5. Replying(p)'
    BY <1>1, <1>3 DEF Good, At, Replying, Deleting, Storing
  <2>6. /\ Finding(own, dep, p)' /\ AtRecord(own, dep, p)' /\ Saved(own, dep, p)'
        /\ Freed(own, dep, p)' /\ Unlinking(own, dep, p)'
        /\ Searching(own, dep, p)' /\ Taking(own, dep, p)'
    BY <1>3 DEF Finding, AtRecord, AtRec, Saved, Freed, Unlinking, Searching, Taking
  <2>7. Reusing(p)' /\ Replacing(p)' /\ Written(p)' /\ Done(own, p)'
    BY <1>3 DEF Reusing, Reuses, Replacing, Written, Done
  <2> QED BY <2>2, <2>3, <2>4, <2>5, <2>6, <2>7 DEF At
<1>20. \A q \in Procs \ {p} : At(own, dep, q)'
  <2>1. ASSUME NEW q \in Procs \ {p}, NEW x \in Recs, HasNew(q), x = db[q].idxoff
        PROVE  SameEntry(x) /\ readptr(x)' = readptr(x)
    BY <1>7, <1>8
  <2>2. ASSUME NEW q \in Procs \ {p}, pc[q] \in HasDat
        PROVE  dat'[db[q].datoff] = dat[db[q].datoff]
    BY <1>6, <2>2 DEF FileInv, LocalOK
  <2>3. kv' \in [Keys -> Data \cup {BLANK, NULL}] /\ \A j \in Keys : kv'[j] = kv[j]
    BY <1>3 DEF Control, ControlTypeOK
  <2> QED BY <1>3, <1>12, <2>1, <2>2, <2>3, OthersAt
<1> QED BY <1>13, <1>14, <1>15, <1>16, <1>17, <1>18, <1>19, <1>20 DEF Good
----------------------------------------------------------------------------
\* The invariant, over a step that leaves the files alone: what is to be shown of
\* the records on no list ...
LEMMA MemKept ==
    ASSUME NEW p \in Procs, NEW own, NEW dep, NEW left, NEW left2, Control, FileInv, Good(own, dep, left),
           Others(p), UNCHANGED files, kv' \in [Keys -> Data \cup {BLANK, NULL}],
           \A k \in Keys : kv'[k] = kv[k] \/ (k = call[p].key /\ Owns(p, Hash[k])),
           \A k \in Keys : \A v : v = kv'[k] =>
              Busy(p, k)' \/ (~Busy(p, k) /\ v = kv[k]) \/ Shows(own, k, v),
           pc[p] \notin {"exited", "dodelete.writefree", "dodelete.writeptr"},
           NewRecs(own, left2)',
           pc'[p] \in HasDat => pc[p] \in HasDat /\ db'[p].datoff = db[p].datoff,
           At(own, dep, p)'
    PROVE  Good(own, dep, left2)'
<1>1. /\ table' = table /\ idx' = idx /\ dat' = dat
      /\ Recs' = Recs /\ \A x : readptr(x)' = readptr(x) /\ readidx(x)' = readidx(x)
      /\ \A x \in Recs : SameEntry(x)
  BY DatWritten DEF files
<1>2. /\ Lists(own, dep) /\ Pointers(own, dep) /\ Keyed(own) /\ MapShown(own)
      /\ NewRecs(own, left) /\ NewDats /\ DataOK
  BY DEF Good
<1>3. \A k : \A x : Hit(own, k, x)' <=> Hit(own, k, x)
  BY <1>1 DEF Hit
<1>4. ASSUME NEW k, NEW v, Shows(own, k, v) PROVE Shows(own, k, v)'
  <2>1. Absent(own, k) => Absent(own, k)'
    BY <1>1, <1>3 DEF Absent
  <2>2. CASE v = NULL
    BY <1>4, <2>1, <2>2 DEF Shows
  <2>3. CASE v # NULL
    BY <1>1, <1>3, <1>4, <2>3 DEF Shows
  <2> QED BY <2>2, <2>3
<1>5. Lists(own, dep)'
  BY <1>1, <1>2 DEF Lists
<1>6. Pointers(own, dep)'
  <2> SUFFICES ASSUME NEW o \in Nat, own[o] # Nowhere, \A q \in Procs : ~Pending(q, o)'
               PROVE  Follows(own, dep, o, readptr(o)')
    BY DEF Pointers
  <2>1. \A q \in Procs : ~Pending(q, o)
    BY DEF Pending, Others
  <2> QED BY <1>1, <1>2, <2>1 DEF Pointers
<1>7. Keyed(own)'
  <2>1. \A r \in Recs :
          /\ own[r] \in Chains => readidx(r).key \in Keys /\ Hash[readidx(r).key] = own[r]
          /\ own[r] = FREE_OFF => readidx(r).key = BLANK
    BY <1>2 DEF Keyed
  <2>2. \A k \in Keys : \A r, s \in Recs : Hit(own, k, r) /\ Hit(own, k, s) => r = s
    BY <1>2 DEF Keyed
  <2> QED BY <1>1, <1>3, <2>1, <2>2 DEF Keyed
<1>8. MapShown(own)'
  <2> SUFFICES ASSUME NEW k \in Keys, \A q \in Procs : ~Busy(q, k)', NEW v, v = kv'[k]
               PROVE  Shows(own, k, v)'
    BY DEF MapShown
  <2>1. CASE ~Busy(p, k) /\ v = kv[k]
    <3>1. \A q \in Procs : ~Busy(q, k)
      BY <2>1 DEF Busy, Others
    <3>2. Shows(own, k, v)
      BY <1>2, <2>1, <3>1 DEF MapShown
    <3> QED BY <1>4, <3>2
  <2>2. CASE Shows(own, k, v)
    BY <1>4, <2>2
  <2> QED BY <2>1, <2>2
<1>10. NewDats'
  <2>1. \A q \in Procs : pc'[q] \in HasDat => pc[q] \in HasDat /\ db'[q].datoff = db[q].datoff
    BY DEF Others
  <2> QED BY <1>1, <1>2, <2>1 DEF NewDats
<1>11. DataOK'
  BY <1>1, <1>2 DEF DataOK
<1>12. \A q \in Procs \ {p} : At(own, dep, q)'
  <2>1. Apart(p, own, dep, own, dep)
    <3>1. \A x \in Nat : x \in Recs => SameEntry(x)
      BY <1>1
    <3> QED BY <1>1, <1>2, <3>1, ApartStep
  <2>2. ASSUME NEW q \in Procs \ {p}, NEW x \in Recs, HasNew(q), x = db[q].idxoff
        PROVE  SameEntry(x) /\ readptr(x)' = readptr(x)
    BY <1>1
  <2>3. \A q \in Procs \ {p} : pc[q] \in HasDat => dat'[db[q].datoff] = dat[db[q].datoff]
    BY <1>1
  <2> QED BY <2>1, <2>2, <2>3, OthersAt
<1> QED BY <1>5, <1>6, <1>7, <1>8, <1>10, <1>11, <1>12 DEF Good

\* ... which are the same unless the process is killed or exits.
LEMMA MemGood ==
    ASSUME NEW p \in Procs, NEW own, NEW dep, NEW left, Control, FileInv, Good(own, dep, left),
           Others(p), UNCHANGED files, kv' \in [Keys -> Data \cup {BLANK, NULL}],
           \A k \in Keys : kv'[k] = kv[k] \/ (k = call[p].key /\ Owns(p, Hash[k])),
           \A k \in Keys : \A v : v = kv'[k] =>
              Busy(p, k)' \/ (~Busy(p, k) /\ v = kv[k]) \/ Shows(own, k, v),
           pc[p] \notin {"exited", "dodelete.writefree", "dodelete.writeptr"},
           HasNew(p)' => HasNew(p) /\ db'[p].idxoff = db[p].idxoff,
           HasNew(p) => HasNew(p)' \/ (pc'[p] = "exited" /\ db[p].idxoff > PTR_MAX),
           pc'[p] \in HasDat => pc[p] \in HasDat /\ db'[p].datoff = db[p].datoff,
           At(own, dep, p)'
    PROVE  Good(own, dep, left)'
<1>1. Recs' = Recs
  BY DatWritten DEF files
<1>2. NewRecs(own, left)
  BY DEF Good
<1>9. NewRecs(own, left)'
  <2>1. \A q \in Procs \ {p} : (HasNew(q)' <=> HasNew(q)) /\ db'[q] = db[q] /\ pc'[q] = pc[q]
    BY DEF HasNew, Others
  <2>2. \A q \in Procs : HasNew(q)' => HasNew(q) /\ db'[q].idxoff = db[q].idxoff
    BY <2>1
  <2>3. \A q \in Procs : HasNew(q)' =>
          /\ db'[q].idxoff \in Recs' /\ own[db'[q].idxoff] = Nowhere
          /\ db'[q].idxoff \notin left
    BY <1>1, <1>2, <2>2 DEF NewRecs
  <2>6. \A r \in left : r \in Recs' /\ own[r] = Nowhere
    BY <1>1, <1>2 DEF NewRecs
  <2>4. \A q1, q2 \in Procs : q1 # q2 /\ HasNew(q1)' /\ HasNew(q2)' => db'[q1].idxoff # db'[q2].idxoff
    BY <1>2, <2>2 DEF NewRecs
  <2>5. ASSUME NEW r \in Recs \ left, own[r] = Nowhere
        PROVE  \E q \in Procs : \/ pc'[q] = "exited" /\ r > PTR_MAX
                                \/ HasNew(q)' /\ db'[q].idxoff = r
    <3>1. PICK q \in Procs : \/ pc[q] = "exited" /\ r > PTR_MAX
                             \/ HasNew(q) /\ db[q].idxoff = r
      BY <1>2, <2>5 DEF NewRecs
    <3> QED BY <2>1, <3>1
  <2> QED BY <1>1, <2>3, <2>4, <2>5, <2>6 DEF NewRecs
<1> QED BY <1>9, MemKept

\* What the files say, over such a step.
LEMMA SameView ==
    ASSUME UNCHANGED files, NEW own
    PROVE  /\ Recs' = Recs /\ dat' = dat
           /\ \A x : readptr(x)' = readptr(x) /\ readidx(x)' = readidx(x)
           /\ \A k : \A x : Hit(own, k, x)' <=> Hit(own, k, x)
           /\ \A k : Absent(own, k)' <=> Absent(own, k)
           /\ \A k : \A v : Shows(own, k, v)' <=> Shows(own, k, v)
<1>1. /\ dat' = dat /\ Recs' = Recs
      /\ \A x : readptr(x)' = readptr(x) /\ readidx(x)' = readidx(x)
  BY DatWritten DEF files
<1>2. \A k : \A x : Hit(own, k, x)' <=> Hit(own, k, x)
  BY <1>1 DEF Hit
<1>3. \A k : Absent(own, k)' <=> Absent(own, k)
  BY <1>1, <1>2 DEF Absent
<1>4. ASSUME NEW k, NEW v PROVE Shows(own, k, v)' <=> Shows(own, k, v)
  <2>1. CASE v = NULL
    BY <1>3, <2>1 DEF Shows
  <2>2. CASE v # NULL
    BY <1>1, <1>2, <2>2 DEF Shows
  <2> QED BY <2>1, <2>2
<1> QED BY <1>1, <1>2, <1>3, <1>4

\* A process in a function.
LEMMA InCall ==
    ASSUME NEW p \in Procs, NEW own, NEW dep, NEW left, Control, FileInv, Good(own, dep, left), pc[p] \notin Outside
    PROVE  /\ pc \in [Procs -> Labels] /\ db \in [Procs -> DbType] /\ loc \in [Procs -> LocType]
           /\ kv \in [Keys -> Data \cup {BLANK, NULL}]
           /\ call[p] \in Requests /\ call[p].key \in Keys /\ Hash[call[p].key] = chainoff(p)
           /\ call[p].fn \in {"fetch", "delete", "store"}
           /\ call[p].fn = "store" => call[p].data \in Data
           /\ chainoff(p) \in Chains /\ chainoff(p) \in 0..NHASH /\ chainoff(p) \in Nat
           /\ chainoff(p) # FREE_OFF /\ chainoff(p) # Nowhere /\ FREE_OFF # Nowhere
           /\ FREE_OFF \in Nat /\ FREE_OFF \in 0..NHASH
           /\ Held(p, chainoff(p)) /\ own[chainoff(p)] = chainoff(p) /\ own[FREE_OFF] = FREE_OFF
           /\ pc[p] \in FreeLocked => Owns(p, FREE_OFF) /\ Held(p, FREE_OFF)
           /\ At(own, dep, p)
<1>1. /\ pc \in [Procs -> Labels] /\ db \in [Procs -> DbType] /\ loc \in [Procs -> LocType]
  BY FileParts DEF MemoryTypeOK
<1>2. kv \in [Keys -> Data \cup {BLANK, NULL}]
  BY DEF Control, ControlTypeOK
<1>3. /\ call[p] \in Requests /\ call[p].key \in Keys /\ chainoff(p) \in Chains
      /\ Held(p, chainoff(p)) /\ (pc[p] \in FreeLocked => Owns(p, FREE_OFF) /\ Held(p, FREE_OFF))
  BY HeldLists
<1>4. /\ call[p].fn \in {"fetch", "delete", "store"}
      /\ call[p].fn = "store" => call[p].data \in Data
  BY <1>3, RequestFn
<1>5. /\ chainoff(p) \in 0..NHASH /\ chainoff(p) \in Nat
      /\ chainoff(p) # FREE_OFF /\ chainoff(p) # Nowhere /\ FREE_OFF # Nowhere
      /\ FREE_OFF \in Nat /\ FREE_OFF \in 0..NHASH
  BY <1>3, DbAssumption DEF Chains, FREE_OFF, Nowhere
<1>6. own[chainoff(p)] = chainoff(p) /\ own[FREE_OFF] = FREE_OFF
  BY <1>5 DEF Good, Lists, Ordered
<1> QED BY <1>1, <1>2, <1>3, <1>4, <1>5, <1>6 DEF Good, chainoff

\* The process that has a chain locked and has not changed it sees the map.
LEMMA Current ==
    ASSUME NEW p \in Procs, NEW own, NEW dep, NEW left, Control, FileInv, Good(own, dep, left),
           pc[p] \notin Outside, NEW k, k = call[p].key, ~Busy(p, k)
    PROVE  /\ Shows(own, k, kv[k])
           /\ \A r : Hit(own, k, r) => kv[k] # NULL /\ dat[readidx(r).datoff].data = kv[k]
           /\ Absent(own, k) => kv[k] = NULL
<1>1. k \in Keys /\ Held(p, Hash[k]) /\ Hash[k] \in Chains
  BY InCall
<1>2. ASSUME NEW q \in Procs PROVE ~Busy(q, k)
  <2>1. CASE q = p
    BY <2>1
  <2>2. CASE q # p
    <3> SUFFICES ASSUME Busy(q, k) PROVE FALSE
      OBVIOUS
    <3>1. pc[q] \in Deleting \cup Storing \cup {"unlock"} /\ call[q].fn # "fetch" /\ call[q].key = k
      BY DEF Busy, Changing, Deleting
    <3>2. pc[q] \notin Outside
      BY <3>1 DEF Deleting, Storing, Outside
    <3>3. Owns(q, Hash[k])
      BY <3>1, <3>2, HeldLists DEF chainoff
    <3>4. Hash[k] \in Regions
      BY <1>1, Remembered
    <3> QED BY <1>1, <2>2, <3>3, <3>4, Exclusive
  <2> QED BY <2>1, <2>2
<1>3. Shows(own, k, kv[k])
  BY <1>1, <1>2 DEF Good, MapShown
<1>4. ASSUME NEW r, Hit(own, k, r)
      PROVE  kv[k] # NULL /\ dat[readidx(r).datoff].data = kv[k]
  <2>1. r \in Recs
    BY <1>4 DEF Hit
  <2>2. kv[k] # NULL
    BY <1>3, <1>4, <2>1 DEF Shows, Absent
  <2>3. PICK s \in Recs : Hit(own, k, s) /\ dat[readidx(s).datoff].data = kv[k]
    BY <1>3, <2>2 DEF Shows
  <2>4. r = s
    BY <1>1, <1>4, <2>1, <2>3 DEF Good, Keyed
  <2> QED BY <2>2, <2>3, <2>4
<1>5. Absent(own, k) => kv[k] = NULL
  BY <1>3 DEF Shows, Absent
<1> QED BY <1>3, <1>4, <1>5

\* The steps that call a function or take the lock on the chain.
LEMMA EnterGood ==
    ASSUME NEW p \in Procs, NEW own, NEW dep, NEW left, Control, FileInv, Good(own, dep, left),
           Call(p) \/ FindLock(p)
    PROVE  Good(own, dep, left)'
<1>1. pc \in [Procs -> Labels] /\ call \in [Procs -> Requests \cup {NULL, EXITED}]
      /\ kv \in [Keys -> Data \cup {BLANK, NULL}]
  BY DEF Control, ControlTypeOK
<1>2. /\ pc[p] \in {"idle", "find"} /\ pc'[p] \in {"find", "find.readptr"}
      /\ Others(p) /\ UNCHANGED files /\ kv' = kv
  <2>1. CASE Call(p)
    <3>1. PICK r \in Requests : call' = [call EXCEPT ![p] = r]
      BY <2>1 DEF Call, Abs!Call
    <3> QED BY <1>1, <2>1, <3>1 DEF Call, Abs!Call, Transition, Goto, Others
  <2>2. CASE FindLock(p)
    BY <1>1, <2>2 DEF FindLock, Transition, Goto, client, Others
  <2> QED BY <2>1, <2>2
<1>3. ~HasNew(p) /\ ~HasNew(p)' /\ pc'[p] \notin HasDat /\ \A k : ~Busy(p, k)
  BY <1>2 DEF HasNew, HasDat, Busy, Changing, Storing
<1>4. At(own, dep, p)'
  <2>1. /\ Finding(own, dep, p)' /\ AtRecord(own, dep, p)' /\ Missing(own, p)'
        /\ Saved(own, dep, p)' /\ Freed(own, dep, p)' /\ Unlinking(own, dep, p)'
        /\ Heading(own, dep, p)' /\ Searching(own, dep, p)' /\ Taking(own, dep, p)'
    BY <1>2 DEF Finding, AtRecord, AtRec, Missing, Gone, Saved, Freed, Unlinking, Heading, Heads,
       Storing, Searching, Taking
  <2>2. /\ Reusing(p)' /\ Replacing(p)' /\ Measured(p)' /\ Filled(p)' /\ Written(p)'
        /\ Replying(p)' /\ Done(own, p)'
    BY <1>2 DEF Reusing, Reuses, Replacing, Measured, HasDat, Filled, Written, Replying,
       Deleting, Storing, Done
  <2> QED BY <2>1, <2>2 DEF At
<1>5. pc[p] \notin {"exited", "dodelete.writefree", "dodelete.writeptr"}
  BY <1>2
<1> QED BY <1>1, <1>2, <1>3, <1>4, <1>5, MemGood

\* The loop of _db_find() goes on after the pointer at offset o, when the key
\* is not in the part of the chain that ends with o.
LEMMA FindNextGood ==
    ASSUME NEW p \in Procs, NEW own, NEW dep, NEW left, Control, FileInv, Good(own, dep, left),
           pc[p] \in {"find.readptr", "find.readidx"},
           NEW o \in Nat, NEW off, own[o] = chainoff(p), Follows(own, dep, o, off),
           \A x \in Recs : Hit(own, call[p].key, x) => dep[o] < dep[x],
           NEW d, FindNext(p, d, off), d.ptroff = o, UNCHANGED <<files, client>>
    PROVE  Good(own, dep, left)'
<1> DEFINE h == chainoff(p)
<1>0. PICK k : k = call[p].key
  OBVIOUS
<1>1. pc[p] \notin Outside /\ ~Busy(p, k)
  BY DEF Outside, Busy, Changing, Storing
<1>2. /\ k \in Keys /\ Hash[k] = h /\ h \in Chains /\ call[p] \in Requests
      /\ call[p].fn \in {"fetch", "delete", "store"}
      /\ pc \in [Procs -> Labels] /\ db \in [Procs -> DbType] /\ loc \in [Procs -> LocType]
      /\ kv \in [Keys -> Data \cup {BLANK, NULL}]
  BY <1>0, <1>1, InCall
<1>3. /\ kv' = kv /\ call' = call /\ chainoff(p)' = h /\ UNCHANGED files
  BY DEF client, chainoff
<1>4. /\ Others(p)
      /\ off # 0 => pc'[p] = "find.readidx" /\ loc'[p].offset = off /\ db'[p].ptroff = o
      /\ off = 0 => pc'[p] = NotFound(call[p]).pc /\ loc'[p].rc = NotFound(call[p]).rc
  BY <1>2, <1>3 DEF FindNext, Goto, NoLoc, Others
<1>5. /\ \A j : \A x : Hit(own, j, x)' <=> Hit(own, j, x)
      /\ \A j : Absent(own, j)' <=> Absent(own, j)
      /\ \A j : \A v : Shows(own, j, v)' <=> Shows(own, j, v)
      /\ Recs' = Recs
  BY <1>3, SameView
<1> HIDE DEF h
<1>6. At(own, dep, p)' /\ ~HasNew(p)' /\ pc'[p] \notin HasDat
  <2>1. CASE off # 0
    <3>1. Finding(own, dep, p)'
      <4>1. ASSUME NEW x \in Recs, Hit(own, k, x) PROVE dep[off] <= dep[x]
        <5>1. x \in Nat /\ own[x] = own[o] /\ dep[o] < dep[x]
          BY <1>0, <1>2, <4>1, Remembered DEF Hit, h
        <5> QED BY <2>1, <5>1 DEF Follows
      <4> QED BY <1>0, <1>3, <1>4, <1>5, <2>1, <4>1 DEF Finding, h
    <3>2. /\ AtRecord(own, dep, p)' /\ Missing(own, p)'
          /\ Saved(own, dep, p)' /\ Freed(own, dep, p)' /\ Unlinking(own, dep, p)'
          /\ Heading(own, dep, p)' /\ Searching(own, dep, p)' /\ Taking(own, dep, p)'
      BY <1>4, <2>1 DEF AtRecord, AtRec, Missing, Gone, Saved, Freed, Unlinking, Heading, Heads,
         Storing, Searching, Taking
    <3>3. /\ Reusing(p)' /\ Replacing(p)' /\ Measured(p)' /\ Filled(p)' /\ Written(p)'
          /\ Replying(p)' /\ Done(own, p)'
      BY <1>4, <2>1 DEF Reusing, Reuses, Replacing, Measured, HasDat, Filled, Written, Replying,
         Deleting, Storing, Done
    <3>4. ~HasNew(p)' /\ pc'[p] \notin HasDat
      BY <1>4, <2>1 DEF HasNew, HasDat
    <3> QED BY <3>1, <3>2, <3>3, <3>4 DEF At
  <2>2. CASE off = 0
    <3>1. Absent(own, k)
      <4> SUFFICES ASSUME NEW x \in Recs, Hit(own, k, x) PROVE FALSE
        BY DEF Absent
      <4>1. x \in Nat /\ own[x] = own[o] /\ dep[o] < dep[x]
        BY <1>0, <1>2, Remembered DEF Hit, h
      <4>2. dep[x] <= dep[o]
        BY <2>2, <4>1 DEF Follows
      <4>3. dep[x] \in Nat /\ dep[o] \in Nat
        BY <4>1 DEF Good, Lists, Ordered
      <4> QED BY <4>1, <4>2, <4>3
    <3>2. kv[k] = NULL /\ Shows(own, k, kv[k])
      BY <1>0, <1>1, <3>1, Current
    <3>3. \/ /\ pc'[p] = "unlock" /\ loc'[p].rc = Abs!Reply(kv, call[p])
             /\ Abs!Effect(kv, call[p])[k] = kv[k]
          \/ /\ pc'[p] = "store.head" /\ loc'[p].rc = Abs!Reply(kv, call[p])
             /\ ~Abs!Refused(kv, call[p])
      BY <1>0, <1>2, <1>4, <2>2, <3>2 DEF NotFound, Abs!Reply, Abs!Effect, Abs!Refused
    <3>4. Replying(p)'
      BY <1>3, <3>3 DEF Replying, Deleting, Storing
    <3>5. Done(own, p)'
      BY <1>0, <1>3, <1>5, <3>2, <3>3 DEF Done
    <3>6. Missing(own, p)'
      BY <1>0, <1>3, <1>5, <3>1 DEF Missing
    <3>7. /\ Finding(own, dep, p)' /\ AtRecord(own, dep, p)'
          /\ Saved(own, dep, p)' /\ Freed(own, dep, p)' /\ Unlinking(own, dep, p)'
          /\ Heading(own, dep, p)' /\ Searching(own, dep, p)' /\ Taking(own, dep, p)'
      BY <3>3 DEF Finding, AtRecord, AtRec, Saved, Freed, Unlinking, Heading, Heads,
         Storing, Searching, Taking
    <3>8. /\ Reusing(p)' /\ Replacing(p)' /\ Measured(p)' /\ Filled(p)' /\ Written(p)'
      BY <3>3 DEF Reusing, Reuses, Replacing, Measured, HasDat, Filled, Written
    <3>9. ~HasNew(p)' /\ pc'[p] \notin HasDat
      BY <3>3 DEF HasNew, HasDat
    <3> QED BY <3>4, <3>5, <3>6, <3>7, <3>8, <3>9 DEF At
  <2> QED BY <2>1, <2>2
<1>7. /\ pc[p] \notin {"exited", "dodelete.writefree", "dodelete.writeptr"}
      /\ ~HasNew(p) /\ \A j : ~Busy(p, j)
  BY DEF HasNew, Busy, Changing, Storing
<1> QED BY <1>2, <1>3, <1>4, <1>6, <1>7, MemGood

\* _db_find() reads the chain pointer ...
LEMMA FindReadPtrGood ==
    ASSUME NEW p \in Procs, NEW own, NEW dep, NEW left, Control, FileInv, Good(own, dep, left), FindReadPtr(p)
    PROVE  Good(own, dep, left)'
<1>0. PICK h, s : h = chainoff(p) /\ s = readptr(chainoff(p))
  OBVIOUS
<1>1. pc[p] = "find.readptr" /\ pc[p] \notin Outside
  BY DEF FindReadPtr, Outside
<1>2. /\ Hash[call[p].key] = h /\ h \in Nat /\ h \in 0..NHASH /\ own[h] = h /\ Held(p, h)
      /\ db \in [Procs -> DbType]
  BY <1>0, <1>1, InCall
<1>3. Follows(own, dep, h, s)
  <2>1. ~Pending(p, h)
    BY <1>1 DEF Pending
  <2> QED BY <1>0, <1>2, <2>1, Settled
<1>4. ASSUME NEW x \in Recs, Hit(own, call[p].key, x) PROVE dep[h] < dep[x]
  <2>1. own[x] = h /\ x \in Nat /\ x > NHASH /\ own[x] # Nowhere
    BY <1>2, <1>4, Remembered DEF Hit, Nowhere
  <2>2. dep[h] = 0 /\ dep[x] > 0
    BY <1>2, <2>1 DEF Good, Lists, Ordered
  <2> QED BY <2>2
<1>5. PICK d : d = [db[p] EXCEPT !.ptroff = h]
  OBVIOUS
<1>6. FindNext(p, d, s) /\ d.ptroff = h /\ UNCHANGED <<files, client>>
  BY <1>0, <1>2, <1>5 DEF FindReadPtr, DbType, client
<1> QED BY <1>0, <1>1, <1>2, <1>3, <1>4, <1>6, FindNextGood

\* ... and a record.
LEMMA FindReadIdxGood ==
    ASSUME NEW p \in Procs, NEW own, NEW dep, NEW left, Control, FileInv, Good(own, dep, left), FindReadIdx(p)
    PROVE  Good(own, dep, left)'
<1>0. PICK h, k, r, o1 : h = chainoff(p) /\ k = call[p].key /\ r = loc[p].offset /\ o1 = db[p].ptroff
  OBVIOUS
<1>1. pc[p] = "find.readidx" /\ pc[p] \notin Outside /\ \A j : ~Busy(p, j)
  BY DEF FindReadIdx, Outside, Busy, Changing, Storing
<1>2. /\ Hash[k] = h /\ k \in Keys /\ h \in 0..NHASH /\ Held(p, h) /\ h # Nowhere
      /\ pc \in [Procs -> Labels] /\ db \in [Procs -> DbType] /\ loc \in [Procs -> LocType]
      /\ kv \in [Keys -> Data \cup {BLANK, NULL}] /\ h \in Chains /\ call[p] \in Requests
      /\ call[p].fn \in {"fetch", "delete", "store"} /\ (call[p].fn = "store" => call[p].data \in Data)
  BY <1>0, <1>1, InCall
<1>3. /\ own[o1] = h /\ Follows(own, dep, o1, r)
      /\ \A x \in Recs : Hit(own, k, x) => dep[r] <= dep[x]
  BY <1>0, <1>1 DEF Good, At, Finding
<1>4. r \in Recs /\ r \in Nat /\ r # 0
  BY <1>0, <1>1, Remembered
<1>5. own[r] = h
  BY <1>3, <1>4 DEF Follows
<1>6. CASE readidx(r).key # k
  <2>1. \A x \in Recs : Hit(own, k, x) => dep[r] < dep[x]
    <3> SUFFICES ASSUME NEW x \in Recs, Hit(own, k, x) PROVE dep[r] < dep[x]
      OBVIOUS
    <3>1. x \in Nat /\ x # r /\ own[x] = own[r] /\ own[r] # Nowhere /\ dep[r] <= dep[x]
      BY <1>2, <1>3, <1>5, <1>6, Remembered DEF Hit
    <3>2. dep[x] # dep[r] /\ dep[x] \in Nat /\ dep[r] \in Nat
      BY <1>4, <3>1 DEF Good, Lists, Ordered
    <3> QED BY <3>1, <3>2
  <2>2. PICK s : s = readptr(r)
    OBVIOUS
  <2>3. s = readidx(r).ptr
    BY <1>4, <2>2, Remembered DEF readptr, readidx
  <2>4. Follows(own, dep, r, s)
    <3>1. ~Pending(p, r)
      BY <1>1 DEF Pending
    <3> QED BY <1>2, <1>4, <1>5, <2>2, <3>1, Settled
  <2>5. PICK d : FindNext(p, d, s) /\ d.ptroff = r /\ UNCHANGED <<files, client>>
    <3>1. FindNext(p, [AfterReadIdx(db[p], r) EXCEPT !.ptroff = r], s) /\ UNCHANGED <<files, client>>
      BY <1>0, <1>6, <2>3 DEF FindReadIdx, client
    <3>2. AfterReadIdx(db[p], r) \in DbType
      BY <1>2, <1>4, AfterReadIdxOK
    <3>3. [AfterReadIdx(db[p], r) EXCEPT !.ptroff = r].ptroff = r
      BY <3>2 DEF DbType
    <3> QED BY <3>1, <3>3
  <2> QED BY <1>0, <1>1, <1>4, <1>5, <2>1, <2>4, <2>5, FindNextGood
<1>7. CASE readidx(r).key = k
  <2>1. Hit(own, k, r)
    BY <1>2, <1>4, <1>5, <1>7 DEF Hit
  <2>2. kv[k] # NULL /\ Shows(own, k, kv[k])
    BY <1>0, <1>1, <2>1, Current
  <2>3. PICK n : n = readidx(r).datlen
    OBVIOUS
  <2>4. /\ pc'[p] = Found(call[p], n).pc /\ loc'[p].rc = Found(call[p], n).rc
        /\ \A q \in Procs \ {p} : pc'[q] = pc[q] /\ loc'[q] = loc[q]
    <3>1. /\ pc' = [pc EXCEPT ![p] = Found(call[p], n).pc]
          /\ loc' = [loc EXCEPT ![p] = [loc[p] EXCEPT !.rc = Found(call[p], n).rc]]
      BY <1>0, <1>7, <2>3 DEF FindReadIdx, Goto
    <3> QED BY <1>2, <3>1 DEF LocType
  <2>5. /\ db' = [db EXCEPT ![p] = AfterReadIdx(db[p], r)]
        /\ UNCHANGED files /\ kv' = kv /\ call' = call
    BY <1>0, <1>7 DEF FindReadIdx, client
  <2>6. /\ db'[p].ptroff = o1 /\ db'[p].idxoff = r /\ db'[p].ptrval = readidx(r).ptr
        /\ db'[p].datoff = readidx(r).datoff /\ db'[p].datlen = n
        /\ \A q \in Procs \ {p} : db'[q] = db[q]
    BY <1>0, <1>2, <2>3, <2>5 DEF AfterReadIdx, DbType
  <2>7. /\ Recs' = Recs /\ \A x : readptr(x)' = readptr(x) /\ readidx(x)' = readidx(x)
        /\ \A j : \A x : Hit(own, j, x)' <=> Hit(own, j, x)
        /\ \A j : \A v : Shows(own, j, v)' <=> Shows(own, j, v)
        /\ chainoff(p)' = h
    BY <1>0, <2>5, SameView DEF chainoff
  <2>8. db'[p].ptrval = readptr(r)
    BY <1>4, <2>6, Remembered DEF readptr, readidx
  <2>9. \/ pc'[p] = "fetch.readdat"
        \/ /\ pc'[p] = "dodelete" /\ loc'[p].rc = Abs!Reply(kv, call[p])
           /\ call[p].fn = "store" => ~Abs!Refused(kv, call[p])
        \/ /\ pc'[p] = "unlock" /\ loc'[p].rc = Abs!Reply(kv, call[p])
           /\ Abs!Effect(kv, call[p])[k] = kv[k]
        \/ /\ pc'[p] = "replace.writedat" /\ loc'[p].rc = Abs!Reply(kv, call[p])
           /\ ~Abs!Refused(kv, call[p]) /\ DatLen[call[p].data] = n
    BY <1>0, <1>2, <2>2, <2>4 DEF Found, Abs!Reply, Abs!Effect, Abs!Refused
  <2>10. At(own, dep, p)'
    <3>1. AtRecord(own, dep, p)'
      BY <1>0, <1>3, <2>1, <2>3, <2>5, <2>6, <2>7, <2>8, <2>9 DEF AtRecord
    <3>2. Replying(p)'
      BY <2>5, <2>9 DEF Replying, Deleting, Storing
    <3>3. Done(own, p)'
      BY <1>0, <2>2, <2>5, <2>7, <2>9 DEF Done
    <3>4. Replacing(p)'
      BY <2>5, <2>6, <2>9 DEF Replacing
    <3>5. /\ Finding(own, dep, p)' /\ Missing(own, p)'
          /\ Saved(own, dep, p)' /\ Freed(own, dep, p)' /\ Unlinking(own, dep, p)'
          /\ Heading(own, dep, p)' /\ Searching(own, dep, p)' /\ Taking(own, dep, p)'
      BY <2>9 DEF Finding, Missing, Gone, Saved, Freed, Unlinking, Heading, Heads,
         Storing, Searching, Taking
    <3>6. /\ Reusing(p)' /\ Measured(p)' /\ Filled(p)' /\ Written(p)'
      BY <2>9 DEF Reusing, Reuses, Measured, HasDat, Filled, Written
    <3> QED BY <3>1, <3>2, <3>3, <3>4, <3>5, <3>6 DEF At
  <2>11. /\ pc[p] \notin {"exited", "dodelete.writefree", "dodelete.writeptr"}
         /\ ~HasNew(p) /\ ~HasNew(p)' /\ pc'[p] \notin HasDat
    BY <1>1, <2>9 DEF HasNew, HasDat
  <2>12. Others(p)
    BY <2>4, <2>5, <2>6 DEF Others
  <2> QED BY <1>1, <1>2, <2>5, <2>10, <2>11, <2>12, MemGood
<1> QED BY <1>6, <1>7

\* db_fetch() reads the data, and the end of the three functions.
LEMMA FetchReadDatGood ==
    ASSUME NEW p \in Procs, NEW own, NEW dep, NEW left, Control, FileInv, Good(own, dep, left), FetchReadDat(p)
    PROVE  Good(own, dep, left)'
<1>0. PICK k, r : k = call[p].key /\ r = db[p].idxoff
  OBVIOUS
<1>1. /\ pc[p] = "fetch.readdat" /\ pc[p] \notin Outside /\ pc[p] \in AtRec
      /\ \A j : ~Busy(p, j)
  BY DEF FetchReadDat, Transition, Outside, AtRec, Busy, Changing, Storing
<1>2. /\ pc \in [Procs -> Labels] /\ loc \in [Procs -> LocType]
      /\ kv \in [Keys -> Data \cup {BLANK, NULL}] /\ call[p].fn = "fetch" /\ k \in Keys
  BY <1>0, <1>1, InCall DEF Control, CallOK
<1>3. /\ pc'[p] = "unlock" /\ Others(p) /\ UNCHANGED files /\ kv' = kv /\ call' = call /\ db' = db
      /\ loc'[p].rc = dat[db[p].datoff].data
  BY <1>2 DEF FetchReadDat, Transition, Goto, client, Others, LocType
<1>4. Hit(own, k, r) /\ db[p].datoff = readidx(r).datoff
  BY <1>0, <1>1 DEF Good, At, AtRecord
<1>5. loc'[p].rc = kv[k] /\ Shows(own, k, kv[k])
  BY <1>0, <1>1, <1>3, <1>4, Current
<1>6. \A j : \A v : Shows(own, j, v)' <=> Shows(own, j, v)
  BY <1>3, SameView
<1>7. At(own, dep, p)'
  <2>1. Done(own, p)'
    BY <1>0, <1>2, <1>3, <1>5, <1>6 DEF Done, Abs!Effect
  <2>2. Replying(p)'
    BY <1>0, <1>2, <1>3, <1>5 DEF Replying, Abs!Reply, Deleting, Storing
  <2>3. /\ Finding(own, dep, p)' /\ AtRecord(own, dep, p)' /\ Missing(own, p)'
        /\ Saved(own, dep, p)' /\ Freed(own, dep, p)' /\ Unlinking(own, dep, p)'
        /\ Heading(own, dep, p)' /\ Searching(own, dep, p)' /\ Taking(own, dep, p)'
    BY <1>3 DEF Finding, AtRecord, AtRec, Missing, Gone, Saved, Freed, Unlinking, Heading, Heads,
       Storing, Searching, Taking
  <2>4. /\ Reusing(p)' /\ Replacing(p)' /\ Measured(p)' /\ Filled(p)' /\ Written(p)'
    BY <1>3 DEF Reusing, Reuses, Replacing, Measured, HasDat, Filled, Written
  <2> QED BY <2>1, <2>2, <2>3, <2>4 DEF At
<1>8. /\ pc[p] \notin {"exited", "dodelete.writefree", "dodelete.writeptr"}
      /\ ~HasNew(p) /\ ~HasNew(p)' /\ pc'[p] \notin HasDat
  BY <1>1, <1>3 DEF HasNew, HasDat
<1> QED BY <1>1, <1>2, <1>3, <1>7, <1>8, MemGood

\* The steps that return, or that end the process.
LEMMA LeaveGood ==
    ASSUME NEW p \in Procs, NEW own, NEW dep, NEW left, Control, FileInv, Good(own, dep, left),
           Unlock(p) \/ StoreQuit(p)
    PROVE  Good(own, dep, left)'
<1>0. PICK k : k = call[p].key
  OBVIOUS
<1>1. pc[p] \in {"unlock", "store.writeptr"} /\ pc[p] \notin Outside
  BY DEF Unlock, StoreQuit, Transition, Outside
<1>2. /\ pc \in [Procs -> Labels] /\ loc \in [Procs -> LocType] /\ db \in [Procs -> DbType]
      /\ kv \in [Keys -> Data \cup {BLANK, NULL}] /\ k \in Keys
      /\ call[p] \in Requests /\ call[p].fn \in {"fetch", "delete", "store"}
      /\ Hash[k] = chainoff(p) /\ (call[p].fn = "store" => call[p].data \in Data)
      /\ call \in [Procs -> Requests \cup {NULL, EXITED}]
  BY <1>0, <1>1, InCall DEF Control, ControlTypeOK
<1>3. /\ pc'[p] \in {"idle", "exited"} /\ Others(p) /\ UNCHANGED files
      /\ HasNew(p) => pc'[p] = "exited" /\ db[p].idxoff > PTR_MAX
  <2>1. CASE Unlock(p)
    BY <1>2, <2>1 DEF Unlock, Transition, Goto, Others, HasNew
  <2>2. CASE StoreQuit(p)
    BY <1>2, <2>2 DEF StoreQuit, Transition, Goto, Others
  <2> QED BY <2>1, <2>2
<1>4. At(own, dep, p)'
  <2>1. /\ Finding(own, dep, p)' /\ AtRecord(own, dep, p)' /\ Missing(own, p)'
        /\ Saved(own, dep, p)' /\ Freed(own, dep, p)' /\ Unlinking(own, dep, p)'
        /\ Heading(own, dep, p)' /\ Searching(own, dep, p)' /\ Taking(own, dep, p)'
    BY <1>3 DEF Finding, AtRecord, AtRec, Missing, Gone, Saved, Freed, Unlinking, Heading, Heads,
       Storing, Searching, Taking
  <2>2. /\ Reusing(p)' /\ Replacing(p)' /\ Measured(p)' /\ Filled(p)' /\ Written(p)'
        /\ Replying(p)' /\ Done(own, p)'
    BY <1>3 DEF Reusing, Reuses, Replacing, Measured, HasDat, Filled, Written, Replying,
       Deleting, Storing, Done
  <2> QED BY <2>1, <2>2 DEF At
<1>5. /\ pc[p] \notin {"exited", "dodelete.writefree", "dodelete.writeptr"}
      /\ ~HasNew(p)' /\ pc'[p] \notin HasDat
  BY <1>1, <1>3 DEF HasNew, HasDat
<1>6. \A j \in Keys : j # k => ~Busy(p, j)
  BY <1>0 DEF Busy
<1>7. /\ \A j \in Keys : kv'[j] = kv[j] \/ (j = k /\ call[p].fn # "fetch")
      /\ kv' \in [Keys -> Data \cup {BLANK, NULL}]
  <2>1. CASE Unlock(p)
    <3>1. kv' = Abs!Effect(kv, call[p])
      BY <2>1 DEF Unlock
    <3> QED BY <1>0, <1>2, <3>1 DEF Abs!Effect
  <2>2. CASE StoreQuit(p)
    <3>1. kv' = [kv EXCEPT ![k] = NULL] /\ call[p].fn = "store"
      BY <1>0, <2>2 DEF StoreQuit, Transition, Control, CallOK, Storing
    <3> QED BY <1>2, <3>1
  <2> QED BY <2>1, <2>2
<1>8. \A v : v = kv'[k] => Shows(own, k, v)
  <2>1. CASE Unlock(p)
    BY <1>0, <2>1 DEF Unlock, Transition, Good, At, Done
  <2>2. CASE StoreQuit(p)
    <3>1. Absent(own, k)
      BY <1>0, <2>2 DEF StoreQuit, Transition, Good, At, Missing, Gone, Storing
    <3>2. kv'[k] = NULL
      BY <1>0, <1>2, <2>2 DEF StoreQuit
    <3> QED BY <3>1, <3>2 DEF Shows
  <2> QED BY <2>1, <2>2
<1>9. \A j \in Keys : kv'[j] = kv[j] \/ (j = call[p].key /\ Owns(p, Hash[j]))
  BY <1>0, <1>1, <1>2, <1>7, HeldLists
<1>10. \A j \in Keys : \A v : v = kv'[j] =>
              Busy(p, j)' \/ (~Busy(p, j) /\ v = kv[j]) \/ Shows(own, j, v)
  BY <1>6, <1>7, <1>8
<1> QED BY <1>3, <1>4, <1>5, <1>7, <1>9, <1>10, MemGood

\* _db_dodelete() reads the head of the free list, db_store() that of the chain,
\* _db_findfree() that of the free list.
LEMMA ReadHeadGood ==
    ASSUME NEW p \in Procs, NEW own, NEW dep, NEW left, Control, FileInv, Good(own, dep, left),
           DelReadFree(p) \/ StoreHead(p) \/ FreeReadPtr(p)
    PROVE  Good(own, dep, left)'
<1>0. PICK h, k, f, s : /\ h = chainoff(p) /\ k = call[p].key
                        /\ f = readptr(FREE_OFF) /\ s = readptr(chainoff(p))
  OBVIOUS
<1>1. /\ pc[p] \in {"dodelete.readptr", "store.head", "store.rehead", "findfree.readptr"}
      /\ pc[p] \notin Outside /\ pc[p] \in Deleting \cup Storing
      /\ pc[p] \in {"dodelete.readptr", "findfree.readptr"} => pc[p] \in FreeLocked
  BY DEF DelReadFree, StoreHead, FreeReadPtr, Transition, Outside, Deleting, Storing, FreeLocked
<1>2. /\ pc \in [Procs -> Labels] /\ loc \in [Procs -> LocType] /\ db \in [Procs -> DbType]
      /\ kv \in [Keys -> Data \cup {BLANK, NULL}] /\ h \in Nat /\ h \in 0..NHASH /\ own[h] = h /\ Held(p, h)
      /\ FREE_OFF \in Nat /\ FREE_OFF \in 0..NHASH /\ own[FREE_OFF] = FREE_OFF
      /\ pc[p] \in FreeLocked => Held(p, FREE_OFF)
  BY <1>0, <1>1, InCall
<1>3. /\ Others(p) /\ UNCHANGED files /\ kv' = kv /\ call' = call /\ db' = db
      /\ loc'[p].rc = loc[p].rc
      /\ \/ /\ pc[p] = "dodelete.readptr" /\ pc'[p] = "dodelete.writeidx"
            /\ loc'[p].freeptr = f /\ loc'[p].saveptr = db[p].ptrval
         \/ /\ pc[p] \in {"store.head", "store.rehead"}
            /\ pc'[p] \in {"findfree", "append.datlock"} /\ loc'[p].ptrval = s
         \/ /\ pc[p] = "findfree.readptr" /\ loc'[p].ptrval = loc[p].ptrval
            /\ loc'[p].saveoffset = FREE_OFF /\ loc'[p].offset = f
            /\ pc'[p] = IF f # 0 THEN "findfree.readidx" ELSE "findfree.unlock"
  <2>1. CASE DelReadFree(p)
    <3>1. loc' = [loc EXCEPT ![p] = [loc[p] EXCEPT !.freeptr = f, !.saveptr = db[p].ptrval]]
      BY <1>0, <2>1 DEF DelReadFree
    <3> QED BY <1>0, <1>2, <2>1, <3>1 DEF DelReadFree, Transition, Goto, client, Others, LocType
  <2>2. CASE StoreHead(p)
    <3>1. loc' = [loc EXCEPT ![p] = [loc[p] EXCEPT !.ptrval = s]]
      BY <1>0, <2>2 DEF StoreHead
    <3> QED BY <1>0, <1>2, <2>2, <3>1 DEF StoreHead, Goto, client, Others, LocType
  <2>3. CASE FreeReadPtr(p)
    <3>1. /\ loc' = [loc EXCEPT ![p] = [loc[p] EXCEPT !.saveoffset = FREE_OFF, !.offset = f]]
          /\ pc' = [pc EXCEPT ![p] = IF f # 0 THEN "findfree.readidx" ELSE "findfree.unlock"]
      BY <1>0, <2>3 DEF FreeReadPtr, FreeNext, Goto
    <3> QED BY <1>0, <1>2, <2>3, <3>1 DEF FreeReadPtr, client, Others, LocType
  <2> QED BY <2>1, <2>2, <2>3
<1>4. /\ pc[p] \in FreeLocked => Follows(own, dep, FREE_OFF, f)
      /\ Follows(own, dep, h, s)
  <2>1. ~Pending(p, FREE_OFF) /\ ~Pending(p, h)
    BY <1>1 DEF Pending
  <2> QED BY <1>0, <1>2, <2>1, Settled
<1>5. /\ Recs' = Recs /\ \A x : readptr(x)' = readptr(x) /\ readidx(x)' = readidx(x)
      /\ \A j : \A x : Hit(own, j, x)' <=> Hit(own, j, x)
      /\ \A j : Absent(own, j)' <=> Absent(own, j)
      /\ chainoff(p)' = h
      /\ dat' = dat
  BY <1>0, <1>3, SameView DEF chainoff
<1>6. At(own, dep, p)'
  <2>0. At(own, dep, p)
    BY DEF Good
  <2>1. AtRecord(own, dep, p)'
    <3> SUFFICES ASSUME pc[p] = "dodelete.readptr", NEW r, r = db[p].idxoff
                 PROVE  /\ own[db[p].ptroff] = h /\ Follows(own, dep, db[p].ptroff, r)
                        /\ Hit(own, k, r)' /\ db[p].datoff = readidx(r).datoff'
                        /\ db[p].datlen = readidx(r).datlen' /\ db[p].ptrval = readptr(r)'
                        /\ dat'[db[p].datoff].data = BLANK
      BY <1>0, <1>3, <1>5 DEF AtRecord, AtRec
    <3> QED BY <1>0, <1>5, <2>0 DEF At, AtRecord, AtRec
  <2>2. Saved(own, dep, p)'
    BY <1>1, <1>3, <1>4 DEF Saved
  <2>3. Missing(own, p)'
    BY <1>3, <1>5, <2>0 DEF At, Missing, Gone, Storing
  <2>4. Heading(own, dep, p)'
    BY <1>0, <1>3, <1>4, <1>5, <2>0 DEF At, Heading, Heads, Storing
  <2>5. Searching(own, dep, p)'
    BY <1>1, <1>2, <1>3, <1>4 DEF Searching
  <2>6. Replying(p)'
    BY <1>1, <1>3, <2>0 DEF At, Replying, Deleting, Storing
  <2>7. /\ Finding(own, dep, p)' /\ Freed(own, dep, p)' /\ Unlinking(own, dep, p)'
        /\ Taking(own, dep, p)'
    BY <1>3 DEF Finding, Freed, Unlinking, Taking
  <2>8. /\ Reusing(p)' /\ Replacing(p)' /\ Measured(p)' /\ Filled(p)' /\ Written(p)' /\ Done(own, p)'
    BY <1>3 DEF Reusing, Reuses, Replacing, Measured, HasDat, Filled, Written, Done
  <2> QED BY <2>1, <2>2, <2>3, <2>4, <2>5, <2>6, <2>7, <2>8 DEF At
<1>7. /\ pc[p] \notin {"exited", "dodelete.writefree", "dodelete.writeptr"}
      /\ ~HasNew(p) /\ ~HasNew(p)' /\ pc'[p] \notin HasDat
      /\ \A j : Busy(p, j) => Busy(p, j)'
  BY <1>1, <1>3 DEF HasNew, HasDat, Busy, Changing, Storing
<1>8. \A j \in Keys : \A v : v = kv'[j] =>
              Busy(p, j)' \/ (~Busy(p, j) /\ v = kv[j]) \/ Shows(own, j, v)
  BY <1>3, <1>7
<1> QED BY <1>2, <1>3, <1>6, <1>7, <1>8, MemGood

\* _db_findfree() reads a free record.
LEMMA FreeReadIdxGood ==
    ASSUME NEW p \in Procs, NEW own, NEW dep, NEW left, Control, FileInv, Good(own, dep, left), FreeReadIdx(p)
    PROVE  Good(own, dep, left)'
<1>0. PICK h, k, r, o1, s : /\ h = chainoff(p) /\ k = call[p].key /\ r = loc[p].offset
                            /\ o1 = loc[p].saveoffset /\ s = readptr(loc[p].offset)
  OBVIOUS
<1>1. /\ pc[p] = "findfree.readidx" /\ pc[p] \notin Outside /\ pc[p] \in Storing
      /\ pc[p] \in FreeLocked
  BY DEF FreeReadIdx, Outside, Storing, FreeLocked
<1>2. /\ pc \in [Procs -> Labels] /\ loc \in [Procs -> LocType] /\ db \in [Procs -> DbType]
      /\ kv \in [Keys -> Data \cup {BLANK, NULL}] /\ Held(p, FREE_OFF) /\ FREE_OFF \in 0..NHASH
  BY <1>0, <1>1, InCall
<1>3. own[o1] = FREE_OFF /\ Follows(own, dep, o1, r) /\ r \in Recs /\ r \in Nat /\ r # 0
  BY <1>0, <1>1, Remembered DEF Good, At, Searching
<1>4. own[r] = FREE_OFF /\ Follows(own, dep, r, s) /\ s = readidx(r).ptr /\ readidx(r).key = BLANK
  <2>1. own[r] = FREE_OFF /\ ~Pending(p, r)
    BY <1>1, <1>3 DEF Follows, Pending
  <2>2. readidx(r).key = BLANK
    BY <1>3, <2>1 DEF Good, Keyed
  <2> QED BY <1>0, <1>2, <1>3, <2>1, <2>2, Settled, Remembered DEF readptr, readidx
<1>5. /\ UNCHANGED files /\ kv' = kv /\ call' = call
      /\ db' = [db EXCEPT ![p] = AfterReadIdx(db[p], r)]
      /\ \/ /\ pc' = [pc EXCEPT ![p] = "findfree.writeptr"] /\ loc' = loc
            /\ DatLen[call[p].data] = readidx(r).datlen
         \/ /\ pc' = [pc EXCEPT ![p] = IF s # 0 THEN "findfree.readidx" ELSE "findfree.unlock"]
            /\ loc' = [loc EXCEPT ![p] = [loc[p] EXCEPT !.saveoffset = r, !.offset = s]]
  BY <1>0, <1>4 DEF FreeReadIdx, FreeNext, Goto, Fits, client
<1>6. /\ Others(p) /\ loc'[p].rc = loc[p].rc /\ loc'[p].ptrval = loc[p].ptrval
      /\ db'[p].idxoff = r /\ db'[p].ptrval = s /\ db'[p].datoff = readidx(r).datoff
      /\ \/ /\ pc'[p] = "findfree.writeptr" /\ loc'[p].saveoffset = o1 /\ loc'[p].offset = r
            /\ DatLen[call[p].data] = readidx(r).datlen
         \/ /\ pc'[p] = IF s # 0 THEN "findfree.readidx" ELSE "findfree.unlock"
            /\ loc'[p].saveoffset = r /\ loc'[p].offset = s
  <2>1. db'[p].idxoff = r /\ db'[p].ptrval = s /\ db'[p].datoff = readidx(r).datoff
    BY <1>2, <1>4, <1>5 DEF AfterReadIdx, DbType
  <2>2. CASE /\ pc' = [pc EXCEPT ![p] = "findfree.writeptr"] /\ loc' = loc
             /\ DatLen[call[p].data] = readidx(r).datlen
    BY <1>0, <1>2, <1>5, <2>1, <2>2 DEF Others
  <2>3. CASE /\ pc' = [pc EXCEPT ![p] = IF s # 0 THEN "findfree.readidx" ELSE "findfree.unlock"]
             /\ loc' = [loc EXCEPT ![p] = [loc[p] EXCEPT !.saveoffset = r, !.offset = s]]
    <3>1. /\ pc' = [pc EXCEPT ![p] = IF s # 0 THEN "findfree.readidx" ELSE "findfree.unlock"]
          /\ loc' = [loc EXCEPT ![p] = [loc[p] EXCEPT !.saveoffset = r, !.offset = s]]
      BY <2>3
    <3>2. /\ loc'[p].saveoffset = r /\ loc'[p].offset = s
          /\ loc'[p].rc = loc[p].rc /\ loc'[p].ptrval = loc[p].ptrval
          /\ \A q \in Procs \ {p} : loc'[q] = loc[q]
      BY <1>2, <3>1 DEF LocType
    <3> QED BY <1>2, <1>5, <2>1, <3>1, <3>2 DEF Others
  <2> QED BY <1>5, <2>2, <2>3
<1>7. /\ Recs' = Recs /\ \A x : readptr(x)' = readptr(x) /\ readidx(x)' = readidx(x)
      /\ \A j : Absent(own, j)' <=> Absent(own, j)
      /\ chainoff(p)' = h
  BY <1>0, <1>5, SameView DEF chainoff
<1>8. At(own, dep, p)'
  <2>0. At(own, dep, p)
    BY DEF Good
  <2>1. Searching(own, dep, p)'
    BY <1>4, <1>6 DEF Searching
  <2>2. Taking(own, dep, p)'
    BY <1>0, <1>3, <1>6, <1>7 DEF Taking
  <2>3. Reusing(p)'
    BY <1>4, <1>5, <1>6, <1>7 DEF Reusing, Reuses
  <2>4. Missing(own, p)'
    BY <1>1, <1>5, <1>7, <2>0 DEF At, Missing, Gone, Storing
  <2>5. Heading(own, dep, p)'
    BY <1>0, <1>1, <1>6, <1>7, <2>0 DEF At, Heading, Heads, Storing
  <2>6. Replying(p)'
    BY <1>1, <1>5, <1>6, <2>0 DEF At, Replying, Deleting, Storing
  <2>7. /\ Finding(own, dep, p)' /\ AtRecord(own, dep, p)' /\ Saved(own, dep, p)'
        /\ Freed(own, dep, p)' /\ Unlinking(own, dep, p)'
    BY <1>6 DEF Finding, AtRecord, AtRec, Saved, Freed, Unlinking
  <2>8. /\ Replacing(p)' /\ Measured(p)' /\ Filled(p)' /\ Written(p)' /\ Done(own, p)'
    BY <1>6 DEF Replacing, Measured, HasDat, Filled, Written, Done
  <2> QED BY <2>1, <2>2, <2>3, <2>4, <2>5, <2>6, <2>7, <2>8 DEF At
<1>9. /\ pc[p] \notin {"exited", "dodelete.writefree", "dodelete.writeptr"}
      /\ ~HasNew(p) /\ ~HasNew(p)' /\ pc'[p] \notin HasDat
      /\ \A j : Busy(p, j) => Busy(p, j)'
  BY <1>1, <1>5, <1>6 DEF HasNew, HasDat, Busy, Changing, Storing
<1>10. \A j \in Keys : \A v : v = kv'[j] =>
              Busy(p, j)' \/ (~Busy(p, j) /\ v = kv[j]) \/ Shows(own, j, v)
  BY <1>5, <1>9
<1> QED BY <1>2, <1>5, <1>6, <1>8, <1>9, <1>10, MemGood

\* The locks and unlocks of _db_dodelete() and _db_findfree() ...
LEMMA FreeLockGood ==
    ASSUME NEW p \in Procs, NEW own, NEW dep, NEW left, Control, FileInv, Good(own, dep, left),
           DelLock(p) \/ DelUnlock(p) \/ FreeLock(p) \/ FreeUnlock(p)
    PROVE  Good(own, dep, left)'
<1>0. PICK h, k : h = chainoff(p) /\ k = call[p].key
  OBVIOUS
<1>1. /\ pc[p] \in {"dodelete", "dodelete.unlock", "findfree", "findfree.unlock"}
      /\ pc[p] \notin Outside
  BY DEF DelLock, DelUnlock, FreeLock, FreeUnlock, Lock, Transition, Outside
<1>2. /\ pc \in [Procs -> Labels] /\ kv \in [Keys -> Data \cup {BLANK, NULL}] /\ k \in Keys
      /\ call[p].fn \in {"fetch", "delete", "store"}
      /\ call[p].fn # "fetch"
  BY <1>0, <1>1, InCall DEF Control, CallOK, Deleting, Storing
<1>3. /\ Others(p) /\ UNCHANGED files /\ kv' = kv /\ call' = call /\ db' = db /\ loc' = loc
      /\ \/ pc[p] = "dodelete" /\ pc'[p] = "dodelete.writedat"
         \/ pc[p] = "dodelete.unlock" /\ pc'[p] = "unlock" /\ call[p].fn = "delete"
         \/ pc[p] = "dodelete.unlock" /\ pc'[p] = "store.rehead" /\ call[p].fn = "store"
         \/ pc[p] = "findfree" /\ pc'[p] = "findfree.readptr"
         \/ pc[p] = "findfree.unlock" /\ pc'[p] = "append.datlock" /\ loc[p].offset = 0
         \/ pc[p] = "findfree.unlock" /\ pc'[p] = "reuse.writedat" /\ loc[p].offset # 0
  <2>1. CASE DelLock(p) \/ FreeLock(p)
    BY <1>2, <2>1 DEF DelLock, FreeLock, Lock, Transition, Goto, client, Others
  <2>2. CASE DelUnlock(p)
    BY <1>2, <2>2 DEF DelUnlock, Goto, client, Others
  <2>3. CASE FreeUnlock(p)
    BY <1>2, <2>3 DEF FreeUnlock, Goto, client, Others
  <2> QED BY <2>1, <2>2, <2>3
<1>4. /\ Recs' = Recs /\ \A x : readptr(x)' = readptr(x) /\ readidx(x)' = readidx(x)
      /\ \A j : \A x : Hit(own, j, x)' <=> Hit(own, j, x)
      /\ \A j : Absent(own, j)' <=> Absent(own, j)
      /\ \A j : \A v : Shows(own, j, v)' <=> Shows(own, j, v)
      /\ chainoff(p)' = h
  BY <1>0, <1>3, SameView DEF chainoff
<1>5. At(own, dep, p)'
  <2>0. At(own, dep, p)
    BY DEF Good
  <2>1. AtRecord(own, dep, p)'
    <3> SUFFICES ASSUME pc[p] = "dodelete", NEW r, r = db[p].idxoff
                 PROVE  /\ own[db[p].ptroff] = h /\ Follows(own, dep, db[p].ptroff, r)
                        /\ Hit(own, k, r)' /\ db[p].datoff = readidx(r).datoff'
                        /\ db[p].datlen = readidx(r).datlen' /\ db[p].ptrval = readptr(r)'
      BY <1>0, <1>3, <1>4 DEF AtRecord, AtRec
    <3> QED BY <1>0, <1>4, <2>0 DEF At, AtRecord, AtRec
  <2>2. Missing(own, p)'
    BY <1>3, <1>4, <2>0 DEF At, Missing, Gone, Storing
  <2>3. Heading(own, dep, p)'
    BY <1>0, <1>3, <1>4, <2>0 DEF At, Heading, Heads, Storing
  <2>4. Reusing(p)'
    BY <1>3, <1>4, <2>0 DEF At, Reusing, Reuses
  <2>5. Replying(p)'
    BY <1>3, <2>0 DEF At, Replying, Deleting, Storing
  <2>6. Done(own, p)'
    <3>1. CASE pc'[p] = "unlock"
      <4>1. Absent(own, k) /\ call[p].fn = "delete"
        BY <1>0, <1>3, <2>0, <3>1 DEF At, Missing, Gone
      <4>2. Abs!Effect(kv, call[p])[k] = NULL
        BY <1>0, <1>2, <4>1 DEF Abs!Effect
      <4>3. Shows(own, k, NULL)'
        BY <1>4, <4>1 DEF Shows
      <4> QED BY <1>0, <1>3, <4>2, <4>3 DEF Done
    <3>2. CASE pc'[p] # "unlock"
      BY <3>2 DEF Done
    <3> QED BY <3>1, <3>2
  <2>7. /\ Finding(own, dep, p)' /\ Saved(own, dep, p)' /\ Freed(own, dep, p)'
        /\ Unlinking(own, dep, p)' /\ Searching(own, dep, p)' /\ Taking(own, dep, p)'
    BY <1>3 DEF Finding, Saved, Freed, Unlinking, Searching, Taking
  <2>8. /\ Replacing(p)' /\ Measured(p)' /\ Filled(p)' /\ Written(p)'
    BY <1>3 DEF Replacing, Measured, HasDat, Filled, Written
  <2> QED BY <2>1, <2>2, <2>3, <2>4, <2>5, <2>6, <2>7, <2>8 DEF At
<1>6. /\ pc[p] \notin {"exited", "dodelete.writefree", "dodelete.writeptr"}
      /\ (HasNew(p)' <=> HasNew(p)) /\ pc'[p] \notin HasDat
      /\ \A j : Busy(p, j) => Busy(p, j)'
  BY <1>3 DEF HasNew, HasDat, Busy, Changing, Storing
<1>7. \A j \in Keys : \A v : v = kv'[j] =>
              Busy(p, j)' \/ (~Busy(p, j) /\ v = kv[j]) \/ Shows(own, j, v)
  BY <1>3, <1>6
<1> QED BY <1>2, <1>3, <1>5, <1>6, <1>7, MemGood

\* ... and the locks, seeks and unlocks of an append.
LEMMA AppendGood ==
    ASSUME NEW p \in Procs, NEW own, NEW dep, NEW left, Control, FileInv, Good(own, dep, left),
           \/ AppendDatLock(p) \/ AppendDatSeek(p) \/ AppendDatUnlock(p)
           \/ AppendIdxLock(p) \/ AppendIdxSeek(p) \/ AppendIdxUnlock(p)
    PROVE  Good(own, dep, left)'
<1>0. PICK h, k : h = chainoff(p) /\ k = call[p].key
  OBVIOUS
<1>1. /\ pc[p] \in {"append.datlock", "append.datseek", "append.datunlock",
                    "append.idxlock", "append.idxseek", "append.idxunlock"}
      /\ pc[p] \notin Outside /\ pc[p] \in Storing /\ pc[p] \in Gone /\ pc[p] \in Heads
  BY DEF AppendDatLock, AppendDatSeek, AppendDatUnlock, AppendIdxLock, AppendIdxSeek,
     AppendIdxUnlock, Lock, Release, Transition, Outside, Storing, Gone, Heads
<1>2. /\ pc \in [Procs -> Labels] /\ kv \in [Keys -> Data \cup {BLANK, NULL}] /\ k \in Keys
      /\ db \in [Procs -> DbType] /\ loc \in [Procs -> LocType]
  BY <1>0, <1>1, InCall
<1>3. /\ Others(p) /\ UNCHANGED files /\ kv' = kv /\ call' = call /\ loc' = loc
      /\ \/ pc[p] = "append.datlock" /\ pc'[p] = "append.datseek" /\ db' = db
         \/ /\ pc[p] = "append.datseek" /\ pc'[p] = "append.datwrite"
            /\ db'[p].datlen = DatLen[call[p].data]
         \/ pc[p] = "append.datunlock" /\ pc'[p] = "append.idxlock" /\ db' = db
         \/ pc[p] = "append.idxlock" /\ pc'[p] = "append.idxseek" /\ db' = db
         \/ /\ pc[p] = "append.idxseek" /\ pc'[p] = "append.idxwrite"
            /\ db'[p].datoff = db[p].datoff /\ db'[p].datlen = db[p].datlen
         \/ pc[p] = "append.idxunlock" /\ pc'[p] = "store.writeptr" /\ db' = db
  <2>1. CASE AppendDatLock(p) \/ AppendIdxLock(p)
    BY <1>2, <2>1 DEF AppendDatLock, AppendIdxLock, Lock, Transition, Goto, client, Others
  <2>2. CASE AppendDatUnlock(p) \/ AppendIdxUnlock(p)
    BY <1>2, <2>2 DEF AppendDatUnlock, AppendIdxUnlock, Release, Transition, Goto, client, Others
  <2>3. CASE AppendDatSeek(p)
    <3>1. db' = [db EXCEPT ![p] = [db[p] EXCEPT !.datoff = Len(dat) + 1,
                                                !.datlen = DatLen[call[p].data]]]
      BY <2>3 DEF AppendDatSeek
    <3> QED BY <1>2, <2>3, <3>1 DEF AppendDatSeek, Transition, Goto, client, Others, DbType
  <2>4. CASE AppendIdxSeek(p)
    <3>1. db' = [db EXCEPT ![p] = [db[p] EXCEPT !.idxoff = NHASH + Len(idx) + 1,
                                                !.ptrval = loc[p].ptrval]]
      BY <2>4 DEF AppendIdxSeek
    <3> QED BY <1>2, <2>4, <3>1 DEF AppendIdxSeek, Transition, Goto, client, Others, DbType
  <2> QED BY <2>1, <2>2, <2>3, <2>4
<1>4. /\ Recs' = Recs /\ dat' = dat /\ \A x : readptr(x)' = readptr(x) /\ readidx(x)' = readidx(x)
      /\ \A j : Absent(own, j)' <=> Absent(own, j)
      /\ chainoff(p)' = h
  BY <1>0, <1>3, SameView DEF chainoff
<1>5. At(own, dep, p)'
  <2>0. At(own, dep, p)
    BY DEF Good
  <2>1. Missing(own, p)'
    BY <1>1, <1>3, <1>4, <2>0 DEF At, Missing
  <2>2. Heading(own, dep, p)'
    BY <1>0, <1>1, <1>3, <1>4, <2>0 DEF At, Heading
  <2>3. Measured(p)'
    BY <1>3, <2>0 DEF At, Measured, HasDat
  <2>4. Filled(p)'
    BY <1>3, <1>4, <2>0 DEF At, Filled, HasDat
  <2>5. Written(p)'
    <3>1. CASE pc'[p] = "store.writeptr"
      <4> SUFFICES ASSUME NEW r, r = db[p].idxoff
                   PROVE  /\ readidx(r).key' = call[p].key /\ readptr(r)' = loc[p].ptrval
                          /\ dat'[readidx(r).datoff'].data = call[p].data
        BY <1>3, <3>1 DEF Written
      <4> QED BY <1>3, <1>4, <2>0, <3>1 DEF At, Written
    <3>2. CASE pc'[p] # "store.writeptr"
      BY <1>3, <3>2 DEF Written
    <3> QED BY <3>1, <3>2
  <2>6. Replying(p)'
    BY <1>1, <1>3, <2>0 DEF At, Replying, Deleting, Storing
  <2>7. /\ Finding(own, dep, p)' /\ AtRecord(own, dep, p)' /\ Saved(own, dep, p)' /\ Freed(own, dep, p)'
        /\ Unlinking(own, dep, p)' /\ Searching(own, dep, p)' /\ Taking(own, dep, p)'
    BY <1>3 DEF Finding, AtRecord, AtRec, Saved, Freed, Unlinking, Searching, Taking
  <2>8. /\ Reusing(p)' /\ Replacing(p)' /\ Done(own, p)'
    BY <1>3 DEF Reusing, Reuses, Replacing, Done
  <2> QED BY <2>1, <2>2, <2>3, <2>4, <2>5, <2>6, <2>7, <2>8 DEF At
<1>6. /\ pc[p] \notin {"exited", "dodelete.writefree", "dodelete.writeptr"}
      /\ HasNew(p)' => HasNew(p) /\ db'[p].idxoff = db[p].idxoff
      /\ HasNew(p) => HasNew(p)'
      /\ pc'[p] \in HasDat => pc[p] \in HasDat /\ db'[p].datoff = db[p].datoff
      /\ \A j : Busy(p, j) => Busy(p, j)'
  BY <1>3 DEF HasNew, HasDat, Busy, Changing, Storing
<1>7. \A j \in Keys : \A v : v = kv'[j] =>
              Busy(p, j)' \/ (~Busy(p, j) /\ v = kv[j]) \/ Shows(own, j, v)
  BY <1>3, <1>6
<1> QED BY <1>2, <1>3, <1>5, <1>6, <1>7, MemGood
----------------------------------------------------------------------------
\* Every step keeps the invariant.
LEMMA StepGood ==
    ASSUME NEW p \in Procs, NEW left, Control, FileInv, MapInv(left), Call(p) \/ Step(p)
    PROVE  MapInv(left)'
<1> USE DEF MapInv
<1>1. PICK own, dep : Good(own, dep, left)
  OBVIOUS
<1>2. CASE Call(p) \/ Find(p) \/ FetchReadDat(p) \/ Unlock(p) \/ StoreQuit(p)
  BY <1>1, <1>2, EnterGood, FindReadPtrGood, FindReadIdxGood, FetchReadDatGood, LeaveGood DEF Find
<1>3. CASE DoDelete(p)
  <2>1. CASE DelLock(p) \/ DelUnlock(p) \/ DelReadFree(p)
    BY <1>1, <2>1, FreeLockGood, ReadHeadGood
  <2>2. CASE DelWriteDat(p) \/ DelWriteIdx(p)
    BY <1>1, <2>2, DelWriteDatGood, DelWriteIdxGood
  <2>3. CASE DelWriteFree(p) \/ DelWritePtr(p)
    BY <1>1, <2>3, DelWriteFreeGood, DelWritePtrGood
  <2> QED BY <1>3, <2>1, <2>2, <2>3 DEF DoDelete
<1>4. CASE FindFree(p)
  BY <1>1, <1>4, FreeLockGood, ReadHeadGood, FreeReadIdxGood, FreeWritePtrGood DEF FindFree
<1>5. CASE AppendDat(p) \/ AppendIdx(p)
  BY <1>1, <1>5, AppendGood, AppendDatWriteGood, NewIdxGood DEF AppendDat, AppendIdx
<1>6. CASE StoreHead(p) \/ StoreWriteDat(p) \/ StoreWriteIdx(p) \/ StoreWritePtr(p)
  BY <1>1, <1>6, ReadHeadGood, StoreWriteDatGood, NewIdxGood, StoreWritePtrGood
<1> QED BY <1>2, <1>3, <1>4, <1>5, <1>6 DEF Step, Store

\* No index records, and no process in a function.
Empty ==
    /\ ControlTypeOK /\ FileTypeOK
    /\ table = [off \in 0..NHASH |-> 0] /\ idx = <<>> /\ kv = [k \in Keys |-> NULL]
    /\ \A i \in 1..Len(dat) : dat[i].data = BLANK \/ DatLen[dat[i].data] = dat[i].size
    /\ \A r \in Regions, p \in Procs : lock[r][p] = "none"
    /\ \A p \in Procs :
          /\ pc[p] \in {"idle", "exited"} /\ CallOK(p)
          /\ db[p] = NoDb /\ loc[p] = NoLoc

\* Then the invariants of DbProof hold.
LEMMA EmptyFiles == Empty => Control /\ FileInv
<1> SUFFICES ASSUME Empty PROVE Control /\ FileInv
  OBVIOUS
<1>0. NHASH \in Nat /\ PTR_MAX \in Nat
  BY DbAssumption
<1>1. \A p \in Procs : pc[p] \in {"idle", "exited"} /\ CallOK(p) /\ db[p] = NoDb /\ loc[p] = NoLoc
  BY DEF Empty
<1>2. LockDiscipline
  <2>1. ASSUME NEW p \in Procs, NEW r \in Regions PROVE LockOf(p, r) = "none"
    BY <1>1 DEF LockOf, Held, Outside, FreeLocked, TailLocked, DatLocked
  <2>2. \A r \in Regions, p \in Procs : lock[r][p] = "none"
    BY DEF Empty
  <2> QED BY <2>1, <2>2 DEF LockDiscipline
<1>3. Control
  BY <1>1, <1>2 DEF Control, Empty
<1>4. FilesOK
  BY <1>0 DEF Empty, FilesOK, Target
<1>5. ASSUME NEW p \in Procs PROVE LocalOK(p)
  <2>1. /\ db[p].ptroff = 0 /\ db[p].ptrval = 0 /\ loc[p].saveoffset = 0 /\ loc[p].offset = 0
        /\ loc[p].freeptr = 0 /\ loc[p].saveptr = 0 /\ loc[p].ptrval = 0
    BY <1>1 DEF NoDb, NoLoc
  <2>2. pc[p] \notin HasRec \cup HasDat
            \cup {"find.readidx", "findfree.readidx", "findfree.unlock", "append.idxunlock",
                  "store.writeptr"}
    BY <1>1 DEF HasRec, HasDat
  <2>3. 0 \in 0..NHASH /\ 0 \in Target
    BY <1>0 DEF Target
  <2> QED BY <2>1, <2>2, <2>3 DEF LocalOK
<1>6. AppendAtEnd
  BY <1>1 DEF AppendAtEnd
<1> QED BY <1>3, <1>4, <1>5, <1>6 DEF FileInv, Empty

\* Every offset but a head is on no list.
LEMMA EmptyGood == Empty => MapInv({})
<1> SUFFICES ASSUME Empty PROVE MapInv({})
  OBVIOUS
<1>0. NHASH \in Nat /\ Recs = {} /\ Chains \subseteq 0..NHASH /\ FREE_OFF \in 0..NHASH
  BY DbAssumption DEF Empty, Recs, Chains, FREE_OFF
<1>1. /\ table = [off \in 0..NHASH |-> 0] /\ idx = <<>> /\ kv = [k \in Keys |-> NULL]
      /\ \A i \in 1..Len(dat) : dat[i].data = BLANK \/ DatLen[dat[i].data] = dat[i].size
      /\ \A p \in Procs : pc[p] \in {"idle", "exited"}
  BY DEF Empty
<1> DEFINE own == [x \in Nat |-> IF x \in 0..NHASH THEN x ELSE Nowhere]
<1> DEFINE dep == [x \in Nat |-> 0]
<1>2. Ordered(own, dep)
  <2>1. own \in [Nat -> Nowhere..NHASH] /\ dep \in [Nat -> Nat]
    BY <1>0 DEF Nowhere
  <2>2. \A x \in Nat : own[x] # Nowhere => x \in 0..NHASH /\ own[x] = x
    OBVIOUS
  <2>3. \A a \in 0..NHASH : own[a] = a /\ dep[a] = 0
    BY <1>0
  <2> HIDE DEF own, dep
  <2> QED BY <1>0, <2>1, <2>2, <2>3 DEF Ordered
<1>3. Lists(own, dep)
  <2>1. \A x \in Nat : own[x] # Nowhere => x \in 0..NHASH
    OBVIOUS
  <2> HIDE DEF own, dep
  <2> QED BY <1>0, <1>2, <2>1 DEF Lists
<1>4. Pointers(own, dep)
  <2> SUFFICES ASSUME NEW o \in Nat, own[o] # Nowhere PROVE Follows(own, dep, o, readptr(o))
    BY DEF Pointers
  <2>1. o \in 0..NHASH
    OBVIOUS
  <2>2. readptr(o) = 0
    BY <1>1, <2>1 DEF readptr
  <2>3. \A x \in Nat : dep[x] <= dep[o]
    OBVIOUS
  <2> HIDE DEF own, dep
  <2> QED BY <2>2, <2>3 DEF Follows
<1> HIDE DEF own, dep
<1>5. Keyed(own) /\ MapShown(own)
  BY <1>0, <1>1 DEF Keyed, MapShown, Shows, Absent
<1>6. NewRecs(own, {}) /\ NewDats /\ DataOK
  BY <1>0, <1>1 DEF NewRecs, NewDats, HasNew, HasDat, DataOK
<1>7. ASSUME NEW p \in Procs PROVE At(own, dep, p)
  <2>0. pc[p] \in {"idle", "exited"}
    BY <1>1
  <2>1. /\ Finding(own, dep, p) /\ AtRecord(own, dep, p) /\ Missing(own, p)
        /\ Saved(own, dep, p) /\ Freed(own, dep, p) /\ Unlinking(own, dep, p)
        /\ Heading(own, dep, p) /\ Searching(own, dep, p) /\ Taking(own, dep, p)
    BY <2>0 DEF Finding, AtRecord, AtRec, Missing, Gone, Saved, Freed, Unlinking, Heading, Heads,
       Storing, Searching, Taking
  <2>2. /\ Reusing(p) /\ Replacing(p) /\ Measured(p) /\ Filled(p) /\ Written(p)
        /\ Replying(p) /\ Done(own, p)
    BY <2>0 DEF Reusing, Reuses, Replacing, Measured, HasDat, Filled, Written, Replying,
       Deleting, Storing, Done
  <2> QED BY <2>1, <2>2 DEF At
<1> QED BY <1>3, <1>4, <1>5, <1>6, <1>7 DEF Good, MapInv

\* The database starts empty.
LEMMA InitEmpty == Init => Empty
<1> SUFFICES ASSUME Init PROVE Empty
  OBVIOUS
<1>1. ControlTypeOK
  BY DbAssumption DEF Init, Abs!Init, ControlTypeOK, Labels
<1>2. FileTypeOK
  BY DbAssumption, EmptySeq DEF Init, Abs!Init, FileTypeOK, NoDb, NoLoc, Ptr, Result
<1>3. \A p \in Procs : pc[p] = "idle" /\ CallOK(p) /\ db[p] = NoDb /\ loc[p] = NoLoc
  BY DbAssumption DEF Init, Abs!Init, CallOK, Storing, Deleting
<1> QED BY <1>1, <1>2, <1>3 DEF Init, Abs!Init, Empty

\* When a deletion is cut short after the write of its index record and before that of
\* the chain pointer, and its record is made the end of the chain (DbCrash): the records behind it, ...
CutTail(own, dep, p) ==
    {x \in Recs : own[x] = chainoff(p) /\ dep[db[p].ptroff] < dep[x]}

\* ... and with those the record itself if it is not yet on the free list, are on
\* no list any more.
Dropped(own, dep, p) ==
    CutTail(own, dep, p) \cup (IF pc[p] = "dodelete.writefree" THEN {db[p].idxoff} ELSE {})

\* The others leave the lists, and no list changes its order.
LEMMA DropOrdered ==
    ASSUME NEW own, NEW dep, Ordered(own, dep), NEW Off, \A x \in Off : x \in Nat /\ x > NHASH,
           NEW own2, own2 = [x \in Nat |-> IF x \in Off THEN Nowhere ELSE own[x]]
    PROVE  /\ Ordered(own2, dep)
           /\ \A o \in Nat : \A s : own2[o] # Nowhere /\ s \notin Off /\ Follows(own, dep, o, s)
                 => Follows(own2, dep, o, s)
<1>0. NHASH \in Nat /\ Nowhere \notin 0..NHASH /\ 0..NHASH \subseteq Nat
      /\ \A a \in 0..NHASH : ~(a > NHASH) /\ Nowhere \in Nowhere..NHASH
  BY DbAssumption DEF Nowhere
<1>1. /\ own \in [Nat -> Nowhere..NHASH] /\ dep \in [Nat -> Nat]
      /\ \A a \in 0..NHASH : own[a] = a /\ dep[a] = 0
  BY DEF Ordered
<1>2. own2 \in [Nat -> Nowhere..NHASH]
  <2>1. \A x \in Nat : (IF x \in Off THEN Nowhere ELSE own[x]) \in Nowhere..NHASH
    BY <1>0, <1>1
  <2> QED BY <2>1
<1>3. \A x \in Nat : own2[x] # Nowhere => own2[x] = own[x] /\ x \notin Off
  OBVIOUS
<1>4. \A a \in 0..NHASH : a \in Nat /\ a \notin Off
  BY <1>0
<1>5. \A a \in 0..NHASH : own2[a] = a
  BY <1>1, <1>4
<1>6. Ordered(own2, dep)
  BY <1>1, <1>2, <1>3, <1>5 DEF Ordered
<1>7. ASSUME NEW o \in Nat, NEW s, own2[o] # Nowhere, s \notin Off, Follows(own, dep, o, s)
      PROVE  Follows(own2, dep, o, s)
  <2>1. own2[o] = own[o]
    BY <1>3, <1>7
  <2>2. \A x \in Nat : own2[x] = own2[o] => own[x] = own[o]
    BY <1>3, <1>7, <2>1
  <2>3. s \in Nat => own2[s] = own[s]
    BY <1>7
  <2> QED BY <1>7, <2>1, <2>2, <2>3 DEF Follows
<1> QED BY <1>6, <1>7

LEMMA TearGood ==
    ASSUME NEW p \in Procs, NEW own, NEW dep, NEW left, Control, FileInv, Good(own, dep, left),
           pc[p] \in {"dodelete.writefree", "dodelete.writeptr"},
           Others(p), pc'[p] = "idle", writeptr(db[p].ptroff, 0), dat' = dat,
           NEW Off, Off = Dropped(own, dep, p),
           NEW Cut, Cut = CutTail(own, dep, p),
           kv' = [k \in Keys |-> IF k = call[p].key \/ \E x \in Cut : readidx(x).key = k
                                 THEN NULL ELSE kv[k]],
           NEW own2, own2 = [x \in Nat |-> IF x \in Off THEN Nowhere ELSE own[x]]
    PROVE  Good(own2, dep, left \cup Off)'
<1>0. PICK r, k, o1, h, left2 : /\ r = db[p].idxoff /\ k = call[p].key /\ o1 = db[p].ptroff
                                /\ h = chainoff(p) /\ left2 = left \cup Off
  OBVIOUS
<1>1. /\ pc[p] \in Deleting /\ pc[p] \in FreeLocked /\ pc[p] \in Gone /\ pc[p] \in HasRec
  BY DEF Deleting, FreeLocked, Gone, HasRec
<1>2. /\ k \in Keys /\ Hash[k] = h /\ h \in Chains /\ Owns(p, h) /\ Owns(p, FREE_OFF)
      /\ pc \in [Procs -> Labels] /\ kv \in [Keys -> Data \cup {BLANK, NULL}]
      /\ call[p].fn # "fetch" /\ h # Nowhere /\ h # FREE_OFF /\ FREE_OFF # Nowhere
  BY <1>0, <1>1, Begin DEF Control, ControlTypeOK
<1>3. /\ Absent(own, k) /\ own[o1] = h /\ own[r] = FREE_OFF
      /\ Lists(own, dep) /\ Keyed(own) /\ MapShown(own) /\ NewRecs(own, left) /\ NewDats /\ DataOK
  BY <1>0, <1>1 DEF Good, At, Unlinking, Missing
<1>4. /\ r \in Recs /\ r \in Nat /\ NHASH \in Nat /\ r # 0
      /\ o1 \in Nat /\ o1 \in 0..NHASH \cup Recs /\ FREE_OFF \in 0..NHASH
      /\ 0..NHASH \subseteq Nat /\ \A x \in Recs : x \in Nat /\ x > NHASH
  BY <1>0, <1>1, Remembered
<1>5. /\ Recs' = Recs /\ readptr(o1)' = 0
      /\ \A x \in 0..NHASH \cup Recs : x # o1 => readptr(x)' = readptr(x)
      /\ \A x \in Recs : SameEntry(x)
  BY <1>0, <1>4, PtrWritten
<1>6. /\ Ordered(own, dep) /\ own[FREE_OFF] = FREE_OFF /\ own \in [Nat -> Nowhere..NHASH]
      /\ dep \in [Nat -> Nat]
  BY <1>3, <1>4 DEF Lists, Ordered
<1>7. /\ \A x \in Cut : x \in Recs /\ own[x] = h /\ dep[o1] < dep[x]
      /\ \A x \in Recs : own[x] = h /\ dep[o1] < dep[x] => x \in Cut
      /\ Cut \subseteq Off
      /\ \A x \in Off : x \in Cut \/ (x = r /\ pc[p] = "dodelete.writefree")
      /\ pc[p] = "dodelete.writefree" => r \in Off
  BY <1>0 DEF CutTail, Dropped
<1>8. /\ \A x \in Off : x \in Recs /\ x \in Nat /\ x > NHASH /\ own[x] \in {h, FREE_OFF}
      /\ o1 \notin Off
  BY <1>2, <1>3, <1>4, <1>6, <1>7
<1>9. /\ Ordered(own2, dep)
      /\ \A o \in Nat : \A s : own2[o] # Nowhere /\ s \notin Off /\ Follows(own, dep, o, s)
            => Follows(own2, dep, o, s)
  BY <1>6, <1>8, DropOrdered
<1>10. \A x \in Nat : /\ own2[x] = own[x] \/ (own2[x] = Nowhere /\ x \in Off)
                      /\ x \notin Off => own2[x] = own[x]
                      /\ x \in Off => own2[x] = Nowhere
  OBVIOUS
<1>11. Lists(own2, dep)'
  BY <1>3, <1>5, <1>9, <1>10 DEF Lists
<1>12. Apart(p, own, dep, own2, dep)
  <2> SUFFICES ASSUME NEW x \in Nat
               PROVE  \/ /\ own2[x] = own[x] /\ dep[x] = dep[x]
                         /\ x \in 0..NHASH \cup Recs => readptr(x)' = readptr(x)
                         /\ x \in Recs => SameEntry(x)
                      \/ Loose(p, own[x]) /\ Loose(p, own2[x])
    BY <1>3, ApartStep
  <2>1. CASE x \in Off
    BY <1>2, <1>8, <1>10, <2>1 DEF Loose
  <2>2. CASE x = o1
    BY <1>2, <1>3, <1>8, <1>10, <2>2 DEF Loose
  <2>3. CASE x \notin Off /\ x # o1
    BY <1>5, <1>10, <2>3
  <2> QED BY <2>1, <2>2, <2>3
<1>13. ASSUME NEW o \in Nat, own2[o] # Nowhere, Owns(p, own2[o]), ~Pending(p, o)'
       PROVE  Follows(own2, dep, o, readptr(o)')
  <2>1. own2[o] = own[o] /\ o \notin Off /\ own[o] \in 0..NHASH /\ o \in 0..NHASH \cup Recs
    BY <1>3, <1>4, <1>6, <1>10, <1>13 DEF Nowhere, Lists
  <2>2. own[o] = h \/ own[o] = FREE_OFF
    BY <1>0, <1>13, <2>1, HeldLists DEF Owns
  <2>3. CASE o = o1
    <3>1. \A x \in Nat : own2[x] = h => dep[x] <= dep[o1]
      <4> SUFFICES ASSUME NEW x \in Nat, own2[x] = h, dep[o1] < dep[x] PROVE FALSE
        BY <1>4, <1>6
      <4>1. own[x] = h /\ x \notin Off
        BY <1>2, <1>10
      <4>2. x \notin 0..NHASH
        BY <1>4, <1>6 DEF Ordered
      <4>3. x \in Recs
        BY <1>2, <1>3, <1>4, <4>1, <4>2 DEF Lists
      <4> QED BY <1>7, <4>1, <4>3
    <3> QED BY <1>3, <1>5, <2>1, <2>3, <3>1 DEF Follows
  <2>4. CASE o # o1 /\ own[o] = h
    <3>1. ~Pending(p, o)
      BY <1>0, <1>2, <1>4, <1>6, <2>4 DEF Pending
    <3>2. PICK s : s = readptr(o) /\ Follows(own, dep, o, s)
      BY <1>13, <2>1, <3>1, Settled DEF Owns
    <3>3. ~(dep[o1] < dep[o]) /\ dep[o] # dep[o1]
      <4>1. dep[o] # dep[o1]
        BY <1>2, <1>3, <1>4, <1>6, <2>4 DEF Ordered
      <4>2. dep[o1] < dep[o] => o \in Recs
        BY <1>4, <1>6, <2>1 DEF Ordered
      <4> QED BY <1>7, <2>1, <2>4, <4>1, <4>2
    <3>4. dep[o] < dep[o1]
      BY <1>4, <1>6, <3>3
    <3>5. s # 0 /\ own[s] = h /\ dep[s] <= dep[o1]
      BY <1>3, <1>4, <1>6, <2>4, <3>2, <3>4 DEF Follows
    <3>6. s \in Nat /\ s \notin Off
      <4>1. s \in Nat
        BY <3>2, <3>5 DEF Follows
      <4> QED BY <1>2, <1>3, <1>4, <1>6, <1>7, <3>5, <4>1
    <3> QED BY <1>5, <1>9, <1>13, <2>1, <2>4, <3>2, <3>6
  <2>5. CASE own[o] = FREE_OFF /\ pc[p] = "dodelete.writefree" /\ o = FREE_OFF
    <3>1. Follows(own, dep, FREE_OFF, r) /\ readptr(FREE_OFF) = readptr(r)
      BY <1>0, <2>5 DEF Good, At, Freed
    <3>2. ~Pending(p, r)
      BY <1>0, <1>2, <1>3, <1>4 DEF Pending, FREE_OFF
    <3>3. Follows(own, dep, r, readptr(r))
      BY <1>2, <1>3, <1>4, <3>2, Settled DEF Owns
    <3>4. PICK s : s = readptr(r)
      OBVIOUS
    <3>5. dep[FREE_OFF] < dep[r] /\ own[r] = FREE_OFF
      BY <1>3, <1>4, <3>1 DEF Follows
    <3>6. Follows(own2, dep, FREE_OFF, s)
      <4>0. own2[FREE_OFF] = FREE_OFF /\ FREE_OFF \in Nat
        BY <1>4, <1>6, <2>1, <2>5
      <4>1. \A x \in Nat : own2[x] = FREE_OFF => own[x] = FREE_OFF /\ x # r
        BY <1>2, <1>7, <1>10, <2>5
      <4>2. \A x \in Nat : own[x] = FREE_OFF /\ dep[FREE_OFF] < dep[x] => dep[r] <= dep[x]
        BY <1>4, <1>6, <3>1 DEF Follows
      <4>3. \A x \in Nat : own[x] = FREE_OFF /\ x # r => dep[x] # dep[r]
        BY <1>2, <1>3, <1>4, <1>6 DEF Ordered
      <4>4. \A x \in Nat : own2[x] = FREE_OFF /\ dep[FREE_OFF] < dep[x] => dep[r] < dep[x]
        <5> SUFFICES ASSUME NEW x \in Nat, own2[x] = FREE_OFF, dep[FREE_OFF] < dep[x]
                     PROVE  dep[r] < dep[x]
          OBVIOUS
        <5>1. dep[r] <= dep[x] /\ dep[x] # dep[r]
          BY <4>1, <4>2, <4>3
        <5>2. dep[r] \in Nat /\ dep[x] \in Nat
          BY <1>4, <1>6
        <5> QED BY <5>1, <5>2
      <4>5. CASE s = 0
        <5>1. \A x \in Nat : own[x] = FREE_OFF => dep[x] <= dep[r]
          BY <3>3, <3>4, <3>5, <4>5 DEF Follows
        <5> QED BY <1>4, <1>6, <4>0, <4>1, <4>4, <4>5, <5>1 DEF Follows
      <4>6. CASE s # 0
        <5>1. /\ s \in Nat /\ own[s] = FREE_OFF /\ dep[r] < dep[s]
              /\ \A x \in Nat : own[x] = FREE_OFF /\ dep[r] < dep[x] => dep[s] <= dep[x]
          BY <3>3, <3>4, <3>5, <4>6 DEF Follows
        <5>2. s \notin Off /\ own2[s] = FREE_OFF
          BY <1>2, <1>4, <1>6, <1>7, <1>10, <5>1
        <5>3. dep[FREE_OFF] < dep[s]
          BY <1>4, <1>6, <3>5, <5>1
        <5> QED BY <4>0, <4>1, <4>4, <4>6, <5>1, <5>2, <5>3 DEF Follows
      <4> QED BY <4>5, <4>6
    <3> QED BY <1>5, <1>2, <1>3, <1>4, <1>6, <2>5, <3>1, <3>4, <3>6
  <2>6. CASE own[o] = FREE_OFF /\ ~(pc[p] = "dodelete.writefree" /\ o = FREE_OFF)
    <3>1. o # o1
      BY <1>2, <1>3, <2>6
    <3>2. ~Pending(p, o)
      BY <1>0, <2>6, <3>1 DEF Pending
    <3>3. PICK s : s = readptr(o) /\ Follows(own, dep, o, s)
      BY <1>13, <2>1, <3>2, Settled DEF Owns
    <3>4. s \notin Off
      <4> SUFFICES ASSUME s \in Off PROVE FALSE
        OBVIOUS
      <4>1. s # 0
        BY <1>4, <1>8
      <4>2. own[s] = FREE_OFF
        BY <2>6, <3>3, <4>1 DEF Follows
      <4>3. s = r /\ pc[p] = "dodelete.writefree"
        BY <1>2, <1>7, <4>2
      <4>4. Follows(own, dep, FREE_OFF, s)
        BY <1>0, <4>3 DEF Good, At, Freed
      <4>5. o = FREE_OFF
        BY <1>2, <1>4, <1>6, <2>6, <3>3, <4>1, <4>4, FollowsOther
      <4> QED BY <2>6, <4>3, <4>5
    <3> QED BY <1>5, <1>9, <1>13, <2>1, <3>1, <3>3, <3>4
  <2> QED BY <2>2, <2>3, <2>4, <2>5, <2>6
<1>14. Pointers(own2, dep)'
  BY <1>9, <1>12, <1>13, PointersStep
<1>15. ASSUME NEW j \in Keys
       PROVE  /\ \A x : Hit(own2, j, x)' => Hit(own, j, x) /\ x \notin Off
              /\ \A x : Hit(own, j, x) /\ x \notin Cut => Hit(own2, j, x)'
  <2>1. Hash[j] \in Chains /\ Hash[j] # Nowhere /\ Hash[j] # FREE_OFF
    BY DbAssumption DEF Chains, Nowhere, FREE_OFF
  <2>2. ASSUME NEW x, Hit(own2, j, x)' PROVE Hit(own, j, x) /\ x \notin Off
    <3>1. x \in Recs /\ own2[x] = Hash[j] /\ readidx(x).key = j
      BY <1>5, <2>2 DEF Hit, SameEntry
    <3> QED BY <1>4, <1>10, <2>1, <3>1 DEF Hit
  <2>3. ASSUME NEW x, Hit(own, j, x), x \notin Cut PROVE Hit(own2, j, x)'
    <3>1. x \in Recs /\ own[x] = Hash[j] /\ readidx(x).key = j
      BY <2>3 DEF Hit
    <3>2. x \notin Off
      BY <1>3, <1>7, <2>1, <2>3, <3>1
    <3> QED BY <1>4, <1>5, <1>10, <3>1, <3>2 DEF Hit, SameEntry
  <2> QED BY <2>2, <2>3
<1>16. Keyed(own2)'
  <2>1. ASSUME NEW x \in Recs'
        PROVE  /\ own2[x] \in Chains => readidx(x).key' \in Keys /\ Hash[readidx(x).key'] = own2[x]
               /\ own2[x] = FREE_OFF => readidx(x).key' = BLANK
    <3>1. Nowhere \notin Chains /\ x \in Recs /\ SameEntry(x) /\ x \in Nat
      BY <1>4, <1>5, DbAssumption DEF Chains, Nowhere
    <3> QED BY <1>2, <1>3, <1>10, <3>1 DEF Keyed, SameEntry
  <2>2. ASSUME NEW j \in Keys, NEW x \in Recs', NEW y \in Recs', Hit(own2, j, x)', Hit(own2, j, y)'
        PROVE  x = y
    BY <1>3, <1>15, <2>2 DEF Keyed, Hit
  <2> QED BY <2>1, <2>2 DEF Keyed
<1>17. ASSUME NEW j \in Keys PROVE kv'[j] = IF j = k \/ \E x \in Cut : readidx(x).key = j THEN NULL ELSE kv[j]
  BY <1>0
<1>18. ASSUME NEW j \in Keys, \A q \in Procs : ~Busy(q, j)', NEW v, v = kv'[j]
       PROVE  Shows(own2, j, v)'
  <2>1. CASE j = k
    <3>1. Absent(own2, j)'
      BY <1>3, <1>5, <1>15, <2>1 DEF Absent
    <3> QED BY <1>17, <1>18, <2>1, <3>1 DEF Shows
  <2>2. CASE \E x \in Cut : readidx(x).key = j
    <3>1. PICK x \in Cut : readidx(x).key = j
      BY <2>2
    <3>2. Hit(own, j, x)
      BY <1>2, <1>3, <1>7, <3>1 DEF Hit, Keyed
    <3>3. ASSUME NEW y \in Recs', Hit(own2, j, y)' PROVE FALSE
      <4>1. Hit(own, j, y) /\ y \notin Off
        BY <1>15, <3>3
      <4>2. y = x
        BY <1>3, <3>2, <4>1 DEF Keyed, Hit
      <4> QED BY <1>7, <3>1, <4>1, <4>2
    <3>4. Absent(own2, j)'
      BY <3>3 DEF Absent
    <3> QED BY <1>17, <1>18, <2>2, <3>4 DEF Shows
  <2>3. CASE j # k /\ ~\E x \in Cut : readidx(x).key = j
    <3>1. v = kv[j]
      BY <1>17, <1>18, <2>3
    <3>2. \A q \in Procs : ~Busy(q, j)
      BY <1>0, <1>18, <2>3 DEF Busy, Others
    <3>3. Shows(own, j, kv[j])
      BY <1>3, <3>2 DEF MapShown
    <3>4. CASE v = NULL
      <4>1. Absent(own, j)
        BY <3>1, <3>3, <3>4 DEF Shows
      <4>2. Absent(own2, j)'
        BY <1>5, <1>15, <4>1 DEF Absent
      <4> QED BY <3>4, <4>2 DEF Shows
    <3>5. CASE v # NULL
      <4>1. PICK x \in Recs : Hit(own, j, x) /\ dat[readidx(x).datoff].data = v
        BY <3>1, <3>3, <3>5 DEF Shows
      <4>2. x \notin Cut
        BY <2>3, <4>1 DEF Hit
      <4>3. Hit(own2, j, x)' /\ x \in Recs' /\ dat'[readidx(x).datoff'].data = v
        BY <1>5, <1>15, <4>1, <4>2 DEF SameEntry
      <4> QED BY <3>5, <4>3 DEF Shows
    <3> QED BY <3>4, <3>5
  <2> QED BY <2>1, <2>2, <2>3
<1>19. MapShown(own2)'
  BY <1>18 DEF MapShown
<1>20. \A q \in Procs : HasNew(q)' => q # p /\ HasNew(q) /\ db'[q] = db[q]
  BY DEF HasNew, Others
<1>21. NewRecs(own2, left2)'
  <2>1. \A x \in left2 : x \in Recs' /\ own2[x] = Nowhere
    BY <1>0, <1>3, <1>5, <1>8, <1>10, <1>4 DEF NewRecs
  <2>2. ASSUME NEW q \in Procs, HasNew(q)'
        PROVE  db'[q].idxoff \in Recs' /\ own2[db'[q].idxoff] = Nowhere /\ db'[q].idxoff \notin left2
    <3>1. PICK x : x = db[q].idxoff
      OBVIOUS
    <3>2. db'[q].idxoff = x /\ x \in Recs /\ own[x] = Nowhere /\ x \notin left
      BY <1>3, <1>20, <2>2, <3>1 DEF NewRecs
    <3>3. x \notin Off
      BY <1>2, <1>8, <3>2
    <3> QED BY <1>0, <1>4, <1>5, <1>10, <3>2, <3>3
  <2>3. \A q1, q2 \in Procs : q1 # q2 /\ HasNew(q1)' /\ HasNew(q2)' => db'[q1].idxoff # db'[q2].idxoff
    BY <1>3, <1>20 DEF NewRecs
  <2>4. ASSUME NEW x \in Recs' \ left2, own2[x] = Nowhere
        PROVE  \E q \in Procs : \/ pc'[q] = "exited" /\ x > PTR_MAX
                                \/ HasNew(q)' /\ db'[q].idxoff = x
    <3>1. x \in Recs \ left /\ own[x] = Nowhere
      BY <1>0, <1>4, <1>5, <1>10, <2>4
    <3>2. PICK q \in Procs : \/ pc[q] = "exited" /\ x > PTR_MAX
                             \/ HasNew(q) /\ db[q].idxoff = x
      BY <1>3, <3>1 DEF NewRecs
    <3>3. q # p
      BY <3>2 DEF HasNew
    <3> QED BY <3>2, <3>3 DEF HasNew, Others
  <2> QED BY <2>1, <2>2, <2>3, <2>4 DEF NewRecs
<1>22. NewDats'
  <2>1. \A q \in Procs : pc'[q] \in HasDat => pc[q] \in HasDat /\ db'[q] = db[q]
    BY DEF HasDat, Others
  <2> QED BY <1>3, <1>5, <2>1 DEF NewDats, SameEntry
<1>23. DataOK'
  BY <1>3, <1>5 DEF DataOK, SameEntry
<1>24. At(own2, dep, p)'
  <2>1. /\ Finding(own2, dep, p)' /\ AtRecord(own2, dep, p)' /\ Missing(own2, p)'
        /\ Saved(own2, dep, p)' /\ Freed(own2, dep, p)' /\ Unlinking(own2, dep, p)'
        /\ Heading(own2, dep, p)' /\ Searching(own2, dep, p)' /\ Taking(own2, dep, p)'
    BY DEF Finding, AtRecord, AtRec, Missing, Gone, Saved, Freed, Unlinking, Heading, Heads,
       Storing, Searching, Taking
  <2>2. /\ Reusing(p)' /\ Replacing(p)' /\ Measured(p)' /\ Filled(p)' /\ Written(p)'
        /\ Replying(p)' /\ Done(own2, p)'
    BY DEF Reusing, Reuses, Replacing, Measured, HasDat, Filled, Written, Replying, Storing,
       Deleting, Done
  <2> QED BY <2>1, <2>2 DEF At
<1>25. \A q \in Procs \ {p} : At(own2, dep, q)'
  <2>1. ASSUME NEW q \in Procs \ {p}, NEW x \in Recs, HasNew(q), x = db[q].idxoff
        PROVE  SameEntry(x) /\ readptr(x)' = readptr(x)
    <3>1. own[x] = Nowhere
      BY <1>3, <2>1 DEF NewRecs
    <3>2. x # o1
      BY <1>2, <1>3, <3>1
    <3> QED BY <1>5, <3>2
  <2>2. kv' \in [Keys -> Data \cup {BLANK, NULL}]
    <3>1. \A j \in Keys : kv[j] \in Data \cup {BLANK, NULL}
      BY <1>2
    <3> QED BY <3>1
  <2>3. ASSUME NEW j \in Keys PROVE kv'[j] = kv[j] \/ Owns(p, Hash[j])
    <3>1. CASE \E x \in Cut : readidx(x).key = j
      <4>1. Hash[j] = h
        BY <1>2, <1>3, <1>7, <3>1 DEF Keyed
      <4> QED BY <1>2, <4>1
    <3>2. CASE ~\E x \in Cut : readidx(x).key = j
      BY <1>2, <1>17, <3>2
    <3> QED BY <3>1, <3>2
  <2> QED BY <1>12, <2>1, <2>2, <2>3, OthersAt
<1> QED BY <1>0, <1>11, <1>14, <1>16, <1>19, <1>21, <1>22, <1>23, <1>24, <1>25 DEF Good

\* A step that changes nothing.
LEMMA StutterGood ==
    ASSUME NEW left
    PROVE  MapInv(left) /\ UNCHANGED vars => MapInv(left)'
<1> SUFFICES ASSUME UNCHANGED vars, MapInv(left) PROVE MapInv(left)'
  OBVIOUS
<1>1. PICK own, dep : Good(own, dep, left)
  BY DEF MapInv
<1>2. Lists(own, dep)' /\ Pointers(own, dep)'
  BY <1>1 DEF vars, Good, Lists, Pointers, Pending, Recs, readptr
<1>3. Keyed(own)' /\ MapShown(own)' /\ NewRecs(own, left)' /\ NewDats' /\ DataOK'
  BY <1>1 DEF vars, Good, Keyed, MapShown, Shows, Absent, Hit, Busy, NewRecs, HasNew, NewDats,
     DataOK, Recs, readidx
<1>4. ASSUME NEW p \in Procs PROVE At(own, dep, p)'
  <2>0. At(own, dep, p)
    BY <1>1 DEF Good
  <2>1. /\ Finding(own, dep, p)' /\ AtRecord(own, dep, p)' /\ Missing(own, p)'
        /\ Saved(own, dep, p)' /\ Freed(own, dep, p)' /\ Unlinking(own, dep, p)'
        /\ Heading(own, dep, p)' /\ Searching(own, dep, p)' /\ Taking(own, dep, p)'
    BY <2>0 DEF vars, At, Finding, AtRecord, Missing, Absent, Hit, Saved, Freed, Unlinking,
       Heading, Searching, Taking, Recs, readptr, readidx, chainoff
  <2>2. /\ Reusing(p)' /\ Replacing(p)' /\ Measured(p)' /\ Filled(p)' /\ Written(p)'
    BY <2>0 DEF vars, At, Reusing, Reuses, Replacing, Measured, Filled, Written, readptr, readidx
  <2>3. Replying(p)' /\ Done(own, p)'
    BY <2>0 DEF vars, At, Replying, Done, Shows, Absent, Hit, Recs, readidx, Abs!Reply,
       Abs!Refused, Abs!Effect
  <2> QED BY <2>1, <2>2, <2>3 DEF At
<1> QED BY <1>2, <1>3, <1>4 DEF Good, MapInv

\* Every step keeps the lists and what the processes know of them.
LEMMA EveryStepGood ==
    ASSUME NEW left
    PROVE  Control /\ FileInv /\ MapInv(left) /\ [Next]_vars => MapInv(left)'
<1> SUFFICES ASSUME Control, FileInv, MapInv(left), [Next]_vars PROVE MapInv(left)'
  OBVIOUS
<1>1. ASSUME NEW p \in Procs, Call(p) \/ Step(p) PROVE MapInv(left)'
  BY <1>1, StepGood
<1>2. CASE UNCHANGED vars
  BY <1>2, StutterGood
<1> QED BY <1>1, <1>2 DEF Next, Finished

\* At all times the records are on the lists that the invariant says, every
\* process knows what it says, and the chains hold the map.
THEOREM MapInvariant == Spec => []MapInv({})
<1>0. Control /\ FileInv /\ MapInv({}) /\ [Next]_vars => MapInv({})'
  BY EveryStepGood
<1>1. Init => MapInv({})
  BY InitEmpty, EmptyGood
<1> QED BY <1>0, <1>1, ControlInvariant, FileInvariant, PTL DEF Spec
----------------------------------------------------------------------------
\* The pointers in the file, as ListLeast needs them.
LEMMA PtrsOK == FileInv => PtrsInFile
<1> SUFFICES ASSUME FileInv PROVE PtrsInFile
  OBVIOUS
<1>1. Len(idx) \in Nat
  BY DEF FileInv, FileTypeOK
<1>2. \A r \in Recs : readptr(r) \in Target
  BY PtrOK
<1> QED BY <1>1, <1>2 DEF PtrsInFile, Target

\* From where the pointers on a list are right, they lead to all its records and
\* to no other.
LEMMA ListFrom ==
    ASSUME FileInv, NEW own, NEW dep, Lists(own, dep), NEW a \in 0..NHASH,
           NEW b \in Nat, own[b] = a, NEW s, Follows(own, dep, b, s),
           \A o \in Nat : own[o] = a /\ dep[b] < dep[o] => Follows(own, dep, o, readptr(o))
    PROVE  List(s) = {r \in Recs : own[r] = a /\ dep[b] < dep[r]}
<1> DEFINE T == {r \in Recs : own[r] = a /\ dep[b] < dep[r]}
<1> DEFINE L == List(s)
<1>1. /\ NHASH \in Nat /\ a \in Nat /\ a # Nowhere
      /\ \A x \in Recs : x \in Nat /\ x > NHASH /\ x # 0
  BY DbAssumption DEF Nowhere, Recs
<1>2. /\ own[a] = a /\ dep[a] = 0 /\ dep \in [Nat -> Nat] /\ dep[b] \in Nat
      /\ \A x \in Nat : own[x] = a /\ dep[b] < dep[x] => x \in T
  <2>1. /\ own[a] = a /\ dep[a] = 0 /\ dep \in [Nat -> Nat]
        /\ \A h \in 0..NHASH : own[h] = h /\ dep[h] = 0
        /\ \A x \in Nat : own[x] # Nowhere /\ x > NHASH => dep[x] > 0 /\ x \in Recs
    BY DEF Lists, Ordered
  <2> QED BY <1>1, <2>1
<1>3. /\ s = 0 \/ s \in T
      /\ \A o \in T : readptr(o) = 0 \/ readptr(o) \in T
  <2>1. ASSUME NEW o \in Nat, own[o] = a, dep[b] <= dep[o], NEW t, Follows(own, dep, o, t), t # 0
        PROVE  t \in T
    <3>1. t \in Nat /\ own[t] = a /\ dep[o] < dep[t] /\ dep[o] \in Nat
      BY <1>2, <2>1 DEF Follows
    <3> QED BY <1>2, <2>1, <3>1
  <2>2. ASSUME NEW o \in T PROVE o \in Nat /\ own[o] = a /\ dep[b] <= dep[o]
    BY <1>1, <1>2
  <2> QED BY <1>2, <2>1, <2>2
<1>4. /\ L \subseteq Recs /\ (s # 0 => s \in L) /\ Closed(L)
      /\ \A U : (s = 0 \/ s \in U) /\ Closed(U) => L \subseteq U
  <2>1. s = 0 \/ s \in Recs
    BY <1>3
  <2> QED BY <2>1, PtrsOK, ListLeast DEF ListIsLeast
<1> HIDE DEF L
<1>5. L \subseteq T
  <2>1. Closed(T)
    BY <1>1, <1>3 DEF Closed
  <2> QED BY <1>3, <1>4, <2>1
<1>6. T \subseteq L
  <2> SUFFICES ASSUME T \ L # {} PROVE FALSE
    OBVIOUS
  <2> DEFINE D == {dep[x] : x \in T \ L}
  <2>1. D \subseteq Nat /\ D # {}
    BY <1>1, <1>2
  <2>2. PICK d \in D : \A e \in D : d <= e
    BY <2>1, Least
  <2>3. PICK r \in T \ L : \A x \in T \ L : dep[r] <= dep[x]
    BY <2>2
  <2>4. r \in Nat /\ own[r] = a /\ dep[b] < dep[r] /\ dep[r] \in Nat
    BY <1>1, <1>2, <2>3
  <2> DEFINE E == {dep[x] : x \in {y \in Nat : own[y] = a /\ dep[y] < dep[r]}}
  <2>5. E \subseteq Nat /\ dep[b] \in E /\ \A e \in E : e <= dep[r]
    BY <1>1, <1>2, <2>4
  <2>6. PICK e \in E : \A f \in E : f <= e
    BY <2>4, <2>5, Greatest
  <2>7. PICK o \in Nat : /\ own[o] = a /\ dep[o] < dep[r]
                         /\ \A x \in Nat : own[x] = a /\ dep[x] < dep[r] => dep[x] <= dep[o]
    BY <2>6
  <2> HIDE DEF D, E
  <2>8. dep[o] \in Nat /\ dep[b] <= dep[o]
    BY <1>2, <2>4, <2>7
  <2>9. ASSUME NEW t, Follows(own, dep, o, t) PROVE t = r
    <3>1. t # 0
      BY <2>4, <2>7, <2>8, <2>9 DEF Follows
    <3>2. t \in Nat /\ own[t] = a /\ dep[o] < dep[t] /\ dep[t] <= dep[r] /\ dep[t] \in Nat
      BY <1>2, <2>4, <2>7, <2>9, <3>1 DEF Follows
    <3>3. dep[t] = dep[r]
      BY <2>4, <2>7, <2>8, <3>2
    <3> QED BY <1>1, <2>4, <3>2, <3>3 DEF Lists, Ordered
  <2>10. CASE dep[o] = dep[b]
    <3>1. o = b
      BY <1>1, <2>7, <2>10 DEF Lists, Ordered
    <3>2. s = r
      BY <2>9, <3>1
    <3> QED BY <1>1, <1>4, <2>3, <3>2
  <2>11. CASE dep[o] # dep[b]
    <3>1. dep[b] < dep[o] /\ o \in T
      BY <1>2, <2>7, <2>8, <2>11
    <3>2. o \in L
      BY <2>3, <2>4, <2>7, <2>8, <3>1
    <3>3. readptr(o) = r
      BY <2>7, <2>9, <3>1
    <3> QED BY <1>1, <1>4, <2>3, <3>2, <3>3 DEF Closed
  <2> QED BY <2>10, <2>11
<1> QED BY <1>5, <1>6 DEF L

LEMMA ListOf ==
    ASSUME FileInv, NEW own, NEW dep, Lists(own, dep), NEW a \in 0..NHASH,
           \A o \in Nat : own[o] = a => Follows(own, dep, o, readptr(o))
    PROVE  List(readptr(a)) = {r \in Recs : own[r] = a}
<1>1. /\ NHASH \in Nat /\ a \in Nat /\ a # Nowhere
      /\ \A x \in Recs : x \in Nat /\ x > NHASH
  BY DbAssumption DEF Nowhere, Recs
<1>2. own[a] = a /\ dep[a] = 0 /\ \A x \in Recs : own[x] = a => dep[a] < dep[x]
  BY <1>1 DEF Lists, Ordered
<1>3. List(readptr(a)) = {r \in Recs : own[r] = a /\ dep[a] < dep[r]}
  BY <1>1, <1>2, ListFrom
<1> QED BY <1>2, <1>3

\* Nobody is between two writes on a list that is not write locked ...
LEMMA QuietList ==
    ASSUME Control, FileInv, NEW own, NEW dep, NEW left, Good(own, dep, left), NEW a \in QuietHeads
    PROVE  /\ a \in 0..NHASH
           /\ \A o \in Nat : own[o] = a => Follows(own, dep, o, readptr(o))
           /\ List(readptr(a)) = {r \in Recs : own[r] = a}
           /\ \A k \in Keys : Hash[k] = a => Shows(own, k, kv[k])
<1>1. a \in 0..NHASH /\ a \in Regions /\ a # Nowhere
  BY DbAssumption DEF QuietHeads, Regions, DATFILE, Nowhere
<1>2. \A p \in Procs : ~Owns(p, a)
  BY <1>1 DEF QuietHeads, WriteLocked, Owns, Control, LockDiscipline, LockOf
<1>3. ASSUME NEW o \in Nat, own[o] = a PROVE Follows(own, dep, o, readptr(o))
  <2>1. \A p \in Procs : ~Pending(p, o)
    BY <1>2, <1>3, PendingOwned
  <2> QED BY <1>1, <1>3, <2>1 DEF Good, Pointers
<1>4. List(readptr(a)) = {r \in Recs : own[r] = a}
  BY <1>1, <1>3, ListOf DEF Good
<1>5. ASSUME NEW k \in Keys, Hash[k] = a PROVE Shows(own, k, kv[k])
  <2>1. ASSUME NEW p \in Procs, Busy(p, k) PROVE FALSE
    <3>1. pc[p] \notin Outside /\ call[p].fn # "fetch" /\ call[p].key = k
      BY <2>1 DEF Busy, Changing, Storing, Outside
    <3> QED BY <1>2, <1>5, <3>1, HeldLists DEF chainoff
  <2> QED BY <2>1 DEF Good, MapShown
<1> QED BY <1>1, <1>3, <1>4, <1>5

\* ... so that it shows the map, ...
LEMMA MapOnChains ==
    ASSUME NEW left
    PROVE  Control /\ FileInv /\ MapInv(left) => ChainsHoldMap
<1> SUFFICES ASSUME Control, FileInv, MapInv(left), NEW k \in Keys, NEW a, a = Hash[k], ~WriteLocked(a),
                    NEW hits, hits = {o \in List(readptr(a)) : readidx(o).key = k}
             PROVE  \/ kv[k] = NULL /\ hits = {}
                    \/ \E o \in hits : hits = {o} /\ dat[readidx(o).datoff].data = kv[k]
  BY DEF ChainsHoldMap
<1>1. PICK own, dep : Good(own, dep, left)
  BY DEF MapInv
<1>2. a \in Chains /\ a \in QuietHeads
  BY DbAssumption DEF Chains, QuietHeads
<1>3. Shows(own, k, kv[k]) /\ List(readptr(a)) = {r \in Recs : own[r] = a}
  BY <1>1, <1>2, QuietList
<1>4. \A o : o \in hits <=> Hit(own, k, o)
  BY <1>3 DEF Hit
<1>5. CASE kv[k] = NULL
  BY <1>3, <1>4, <1>5 DEF Shows, Absent, Hit
<1>6. CASE kv[k] # NULL
  <2>1. PICK o \in Recs : Hit(own, k, o) /\ dat[readidx(o).datoff].data = kv[k]
    BY <1>3, <1>6 DEF Shows
  <2>2. \A x : Hit(own, k, x) => x = o
    BY <1>1, <2>1 DEF Good, Keyed, Hit
  <2> QED BY <1>4, <2>1, <2>2
<1> QED BY <1>5, <1>6

\* ... does not meet another list or itself, ...
LEMMA DisjointLists ==
    ASSUME NEW left
    PROVE  Control /\ FileInv /\ MapInv(left) => ListsDisjoint
<1> SUFFICES ASSUME Control, FileInv, MapInv(left), NEW a \in QuietHeads
             PROVE  /\ \A o \in List(readptr(a)) : o \notin List(readptr(o))
                    /\ \A o \in List(readptr(a)) : (readidx(o).key = BLANK) = (a = FREE_OFF)
                    /\ \A b \in QuietHeads \ {a} : List(readptr(a)) \cap List(readptr(b)) = {}
  BY DEF ListsDisjoint
<1>1. PICK own, dep : Good(own, dep, left)
  BY DEF MapInv
<1>2. /\ a \in 0..NHASH /\ List(readptr(a)) = {r \in Recs : own[r] = a}
      /\ \A o \in Nat : own[o] = a => Follows(own, dep, o, readptr(o))
  BY <1>1, QuietList
<1>3. ASSUME NEW o \in List(readptr(a)) PROVE o \notin List(readptr(o))
  <2> DEFINE T == {x \in Recs : own[x] = a /\ dep[o] < dep[x]}
  <2>0. PICK s : s = readptr(o)
    OBVIOUS
  <2>1. /\ \A x \in Recs : x \in Nat /\ x # 0 /\ dep[x] \in Nat
        /\ o \in Recs /\ own[o] = a
    BY <1>1, <1>2, <1>3, DbAssumption DEF Recs, Good, Lists, Ordered
  <2>2. \A x \in Recs : readptr(x) = 0 \/ readptr(x) \in Recs
    BY PtrsOK DEF PtrsInFile
  <2>3. \A x \in Recs : own[x] = a /\ dep[o] <= dep[x] => readptr(x) = 0 \/ readptr(x) \in T
    <3> SUFFICES ASSUME NEW x \in Recs, own[x] = a, dep[o] <= dep[x], NEW t, t = readptr(x), t # 0
                 PROVE  t \in T
      OBVIOUS
    <3>1. own[t] = a /\ dep[x] < dep[t] /\ t \in Recs
      BY <1>2, <2>1, <2>2 DEF Follows
    <3> QED BY <2>1, <3>1
  <2>4. Closed(T) /\ (s = 0 \/ s \in T)
    <3>1. \A x \in T : readptr(x) = 0 \/ readptr(x) \in T
      BY <2>1, <2>3
    <3> QED BY <2>0, <2>1, <2>3, <3>1 DEF Closed
  <2>5. s = 0 \/ s \in Recs
    BY <2>0, <2>1, <2>2
  <2>6. o \notin T
    BY <2>1
  <2> HIDE DEF T
  <2>7. List(s) \subseteq T
    BY <2>4, <2>5, PtrsOK, ListLeast DEF ListIsLeast
  <2> QED BY <2>0, <2>6, <2>7
<1>4. ASSUME NEW o \in List(readptr(a)) PROVE (readidx(o).key = BLANK) = (a = FREE_OFF)
  <2>1. o \in Recs /\ own[o] = a /\ BLANK \notin Keys /\ (a = FREE_OFF \/ a \in Chains)
    BY <1>2, <1>4, DbAssumption DEF Chains, FREE_OFF
  <2>2. FREE_OFF \notin Chains
    BY DEF Chains, FREE_OFF
  <2> QED BY <1>1, <2>1, <2>2 DEF Good, Keyed
<1>5. ASSUME NEW b \in QuietHeads \ {a} PROVE List(readptr(a)) \cap List(readptr(b)) = {}
  <2>1. List(readptr(b)) = {r \in Recs : own[r] = b}
    BY <1>1, QuietList
  <2> QED BY <1>2, <2>1
<1> QED BY <1>3, <1>4, <1>5

\* ... and, when everybody is idle, the lists have every record.
LEMMA LeaksNone == Control /\ FileInv /\ MapInv({}) => NoLeak
<1> SUFFICES ASSUME Control, FileInv, MapInv({}), \A p \in Procs : pc[p] = "idle"
             PROVE  Cardinality(UNION {List(readptr(a)) : a \in 0..NHASH}) = Len(idx)
  BY DEF NoLeak
<1>1. PICK own, dep : Good(own, dep, {})
  BY DEF MapInv
<1>2. \A a \in 0..NHASH : a \in QuietHeads
  <2> SUFFICES ASSUME NEW a \in 0..NHASH, NEW p \in Procs PROVE lock[a][p] # "write"
    BY DEF QuietHeads, WriteLocked
  <2>1. a \in Regions
    BY DbAssumption DEF Regions, DATFILE
  <2>2. ~Held(p, a)
    BY DEF Held, Outside, FreeLocked, TailLocked, DatLocked
  <2> QED BY <2>1, <2>2 DEF Control, LockDiscipline, LockOf
<1>3. \A a \in 0..NHASH : List(readptr(a)) = {r \in Recs : own[r] = a}
  BY <1>1, <1>2, QuietList
<1>4. \A r \in Recs : own[r] \in 0..NHASH
  <2>1. \A r \in Recs : own[r] # Nowhere
    BY <1>1 DEF Good, NewRecs, HasNew
  <2>2. \A r \in Recs : own[r] \in Nowhere..NHASH
    BY <1>1, DbAssumption DEF Good, Lists, Ordered, Recs
  <2> QED BY <2>1, <2>2, DbAssumption DEF Nowhere
<1>5. UNION {List(readptr(a)) : a \in 0..NHASH} = Recs
  BY <1>3, <1>4
<1>6. Cardinality(Recs) = Len(idx)
  BY IntervalSize, DbAssumption DEF Recs, FileInv, FileTypeOK
<1> QED BY <1>5, <1>6

\* The pointers that _db_dodelete() and _db_findfree() rely on are the ones that
\* the lists have.
LEMMA CurrentLinks ==
    ASSUME NEW left
    PROVE  Control /\ FileInv /\ MapInv(left) => UnlinkIsCurrent
<1> SUFFICES ASSUME Control, FileInv, MapInv(left), NEW p \in Procs
             PROVE  /\ pc[p] \in {"dodelete", "dodelete.writedat", "dodelete.readptr",
                                  "dodelete.writeidx", "dodelete.writefree", "dodelete.writeptr"}
                          => readptr(db[p].ptroff) = db[p].idxoff
                    /\ pc[p] = "findfree.writeptr"
                          => readptr(loc[p].saveoffset) = db[p].idxoff
  BY DEF UnlinkIsCurrent
<1>1. PICK own, dep : Good(own, dep, left)
  BY DEF MapInv
<1>2. Ordered(own, dep) /\ At(own, dep, p)
  BY <1>1 DEF Good, Lists
<1>3. PICK o1, o2, r : o1 = db[p].ptroff /\ o2 = loc[p].saveoffset /\ r = db[p].idxoff
  OBVIOUS
<1>4. o1 \in Nat /\ o2 \in Nat
  BY <1>3, Remembered
<1>5. CASE pc[p] \in {"dodelete", "dodelete.writedat", "dodelete.readptr", "dodelete.writeidx"}
  <2>1. pc[p] \notin Outside /\ pc[p] \in AtRec /\ ~Pending(p, o1)
    BY <1>5 DEF Outside, AtRec, Pending
  <2>2. own[o1] = chainoff(p) /\ Follows(own, dep, o1, r)
    BY <1>2, <1>3, <2>1 DEF At, AtRecord
  <2>3. /\ chainoff(p) \in 0..NHASH /\ Held(p, chainoff(p)) /\ chainoff(p) # Nowhere
    BY <1>1, <2>1, InCall
  <2>4. Follows(own, dep, o1, readptr(o1))
    BY <1>1, <1>4, <2>1, <2>2, <2>3, Settled
  <2>5. readptr(o1) = r
    BY <1>2, <1>4, <2>2, <2>3, <2>4, FollowsOne
  <2> QED BY <1>3, <1>5, <2>5
<1>6. CASE pc[p] \in {"dodelete.writefree", "dodelete.writeptr"}
  BY <1>2, <1>3, <1>6 DEF At, Unlinking
<1>7. CASE pc[p] = "findfree.writeptr"
  <2>1. pc[p] \notin Outside /\ pc[p] \in FreeLocked /\ ~Pending(p, o2)
    BY <1>7 DEF Outside, FreeLocked, Pending
  <2>2. own[o2] = FREE_OFF /\ Follows(own, dep, o2, r)
    BY <1>2, <1>3, <1>7 DEF At, Taking
  <2>3. FREE_OFF \in 0..NHASH /\ Held(p, FREE_OFF) /\ FREE_OFF # Nowhere
    BY <1>1, <2>1, InCall
  <2>4. Follows(own, dep, o2, readptr(o2))
    BY <1>1, <1>4, <2>1, <2>2, <2>3, Settled
  <2>5. readptr(o2) = r
    BY <1>2, <1>4, <2>2, <2>3, <2>4, FollowsOne
  <2> QED BY <1>3, <1>7, <2>5
<1> QED BY <1>5, <1>6, <1>7

\* DataFits is DataOK.
LEMMA FitsData ==
    ASSUME NEW left
    PROVE  FileInv /\ MapInv(left) => DataFits
<1> SUFFICES ASSUME FileInv, MapInv(left) PROVE DataFits
  OBVIOUS
<1>1. DataOK /\ Len(idx) \in Nat /\ NHASH \in Nat
  BY DbAssumption DEF MapInv, Good, FileInv, FileTypeOK
<1>2. DOMAIN idx = 1..Len(idx) /\ DOMAIN dat = 1..Len(dat)
  BY DEF FileInv, FileTypeOK
<1>3. ASSUME NEW i \in 1..Len(idx)
      PROVE  NHASH + i \in Recs /\ readidx(NHASH + i) = idx[i]
  <2>1. NHASH + i - NHASH = i
    BY <1>1
  <2> QED BY <1>1, <2>1 DEF Recs, readidx
<1>4. ASSUME NEW i \in 1..Len(idx), NEW j \in 1..Len(idx), i # j
      PROVE  idx[i].datoff # idx[j].datoff
  <2>1. NHASH + i # NHASH + j
    BY <1>1, <1>4
  <2> QED BY <1>1, <1>3, <2>1 DEF DataOK
<1>5. ASSUME NEW i \in 1..Len(idx) PROVE dat[idx[i].datoff].size = idx[i].datlen
  BY <1>1, <1>3 DEF DataOK
<1> QED BY <1>1, <1>2, <1>4, <1>5 DEF DataFits, DataOK
----------------------------------------------------------------------------
\* What a file write leaves alone: every list that its process may not write on.
Untouched(own, p) ==
    \A x \in Nat : own[x] \in 0..NHASH /\ ~Owns(p, own[x]) =>
        readptr(x)' = readptr(x) /\ (x \in Recs => SameEntry(x))

\* So it is for the writes of index records, ...
LEMMA FrameIdx ==
    ASSUME NEW p \in Procs, NEW own, NEW dep, NEW left, Control, FileInv, Good(own, dep, {}),
           DelWriteIdx(p) \/ StoreWriteIdx(p) \/ AppendIdxWrite(p)
    PROVE  Untouched(own, p)
<1>0. PICK r, k, d, f, b : /\ r = db[p].idxoff /\ k = call[p].key /\ d = db[p].datoff
                           /\ f = loc[p].freeptr /\ b = loc[p].ptrval
  OBVIOUS
<1>1. /\ pc[p] \in {"dodelete.writeidx", "reuse.writeidx", "append.idxwrite"}
      /\ pc[p] \notin Outside
  BY DEF DelWriteIdx, StoreWriteIdx, AppendIdxWrite, Transition, Outside
<1>2. call[p] \in Requests /\ k \in Keys /\ chainoff(p) \in Chains /\ Hash[k] = chainoff(p)
  BY <1>0, <1>1, InCall
<1>3. /\ r \in Recs \/ r = NHASH + Len(idx) + 1
      /\ own[r] \in 0..NHASH => Owns(p, own[r])
  <2>1. CASE pc[p] = "dodelete.writeidx"
    <3>1. pc[p] \in AtRec /\ pc[p] \in Deleting
      BY <2>1 DEF AtRec, Deleting
    <3>2. Hit(own, k, r)
      BY <1>0, <3>1 DEF Good, At, AtRecord
    <3>3. Owns(p, chainoff(p))
      BY <3>1, HeldLists
    <3> QED BY <1>2, <3>2, <3>3 DEF Hit
  <2>2. CASE pc[p] = "reuse.writeidx"
    <3>1. r \in Recs /\ own[r] = Nowhere
      BY <1>0, <2>2 DEF HasNew, Good, NewRecs
    <3> QED BY <3>1, DbAssumption DEF Nowhere
  <2>3. CASE pc[p] = "append.idxwrite"
    <3>1. r = NHASH + Len(idx) + 1 /\ NHASH \in Nat /\ Len(idx) \in Nat
      BY <1>0, <2>3, DbAssumption DEF FileInv, AppendAtEnd, FileTypeOK
    <3>2. own[r] = Nowhere
      BY <3>1 DEF Good, Lists, Recs
    <3> QED BY <3>1, <3>2, DbAssumption DEF Nowhere
  <2> QED BY <1>1, <2>1, <2>2, <2>3
<1>4. PICK rec \in IdxRec : idx' = WriteAt(idx, r - NHASH, rec) /\ table' = table /\ dat' = dat
  <2>1. d \in 1..Len(dat) /\ f \in Target /\ b \in Target
    BY <1>0, <1>1 DEF FileInv, LocalOK, HasRec, HasDat
  <2>2. IdxRecord(p, BLANK, f) \in IdxRec /\ IdxRecord(p, k, b) \in IdxRec
    BY <1>0, <1>2, <2>1, IdxRecordOK
  <2> QED BY <1>0, <2>2 DEF DelWriteIdx, StoreWriteIdx, AppendIdxWrite
<1>5. \A x \in 0..NHASH \cup Recs : x # r =>
          readptr(x)' = readptr(x) /\ (x \in Recs => SameEntry(x))
  BY <1>3, <1>4, IdxWritten
<1>6. \A x \in Nat : own[x] \in 0..NHASH => x \in 0..NHASH \cup Recs
  BY DbAssumption DEF Good, Lists, Nowhere
<1> QED BY <1>3, <1>5, <1>6 DEF Untouched

\* ... of pointers ...
LEMMA FramePtr ==
    ASSUME NEW p \in Procs, NEW own, NEW dep, NEW left, Control, FileInv, Good(own, dep, {}),
           DelWriteFree(p) \/ DelWritePtr(p) \/ FreeWritePtr(p) \/ StoreWritePtr(p)
    PROVE  Untouched(own, p)
<1>0. PICK h, o1, o2 : h = chainoff(p) /\ o1 = db[p].ptroff /\ o2 = loc[p].saveoffset
  OBVIOUS
<1>1. /\ pc[p] \in {"dodelete.writefree", "dodelete.writeptr", "findfree.writeptr", "store.writeptr"}
      /\ pc[p] \notin Outside /\ pc[p] \in Deleting \cup Storing
      /\ pc[p] # "store.writeptr" => pc[p] \in FreeLocked
  BY DEF DelWriteFree, DelWritePtr, FreeWritePtr, StoreWritePtr, Transition, Outside, Deleting,
     Storing, FreeLocked
<1>2. /\ h \in 0..NHASH /\ own[h] = h /\ own[FREE_OFF] = FREE_OFF /\ FREE_OFF \in 0..NHASH
      /\ Owns(p, h) /\ (pc[p] \in FreeLocked => Owns(p, FREE_OFF))
  BY <1>0, <1>1, InCall, HeldLists
<1>3. PICK off, val : /\ writeptr(off, val) /\ dat' = dat /\ off \in 0..NHASH \cup Recs
                      /\ own[off] \in 0..NHASH => Owns(p, own[off])
  <2>1. CASE DelWriteFree(p)
    BY <1>1, <1>2, <2>1 DEF DelWriteFree, Transition
  <2>2. CASE DelWritePtr(p)
    <3>1. own[o1] = h /\ o1 \in 0..NHASH \cup Recs
      BY <1>0, <2>2, Remembered DEF DelWritePtr, Transition, Good, At, Unlinking
    <3> QED BY <1>0, <1>2, <2>2, <3>1 DEF DelWritePtr
  <2>3. CASE FreeWritePtr(p)
    <3>1. own[o2] = FREE_OFF /\ o2 \in 0..NHASH \cup Recs /\ pc[p] = "findfree.writeptr"
      BY <1>0, <2>3, Remembered DEF FreeWritePtr, Transition, Good, At, Taking
    <3> QED BY <1>0, <1>1, <1>2, <2>3, <3>1 DEF FreeWritePtr
  <2>4. CASE StoreWritePtr(p)
    BY <1>0, <1>2, <2>4 DEF StoreWritePtr
  <2> QED BY <2>1, <2>2, <2>3, <2>4
<1>4. /\ \A x \in 0..NHASH \cup Recs : x # off => readptr(x)' = readptr(x)
      /\ \A x \in Recs : SameEntry(x)
  BY <1>3, PtrWritten
<1>5. \A x \in Nat : own[x] \in 0..NHASH => x \in 0..NHASH \cup Recs
  BY DbAssumption DEF Good, Lists, Nowhere
<1> QED BY <1>3, <1>4, <1>5 DEF Untouched

\* ... and of data.
LEMMA FrameDat ==
    ASSUME NEW p \in Procs, NEW own, NEW dep, NEW left, Control, FileInv, Good(own, dep, {}),
           DelWriteDat(p) \/ StoreWriteDat(p) \/ AppendDatWrite(p)
    PROVE  Untouched(own, p)
<1>1. CASE AppendDatWrite(p)
  <2>1. /\ pc[p] = "append.datwrite" /\ table' = table /\ idx' = idx
        /\ dat' = WriteAt(dat, db[p].datoff, [data |-> call[p].data, size |-> db[p].datlen])
    BY <1>1 DEF AppendDatWrite, Transition
  <2>2. db[p].datoff = Len(dat) + 1 /\ dat \in Seq(DatRec)
    BY <2>1 DEF FileInv, AppendAtEnd, FileTypeOK
  <2>3. dat' = Append(dat, [data |-> call[p].data, size |-> db[p].datlen])
    BY <2>1, <2>2 DEF WriteAt
  <2>4. \A i \in 1..Len(dat) : dat'[i] = dat[i]
    BY <2>2, <2>3
  <2>5. \A x \in Recs : SameEntry(x)
    BY <2>1, <2>4, DatWritten, PtrOK
  <2> QED BY <2>1, <2>5, DatWritten DEF Untouched
<1>2. CASE DelWriteDat(p) \/ StoreWriteDat(p)
  <2>0. PICK r, k, d : r = db[p].idxoff /\ k = call[p].key /\ d = db[p].datoff
    OBVIOUS
  <2>1. /\ pc[p] \in {"dodelete.writedat", "reuse.writedat", "replace.writedat"}
        /\ pc[p] \notin Outside /\ pc[p] \in Deleting \cup Storing /\ pc[p] \in HasRec
    BY <1>2 DEF DelWriteDat, StoreWriteDat, Transition, Outside, Deleting, Storing, HasRec
  <2>2. /\ k \in Keys /\ Hash[k] = chainoff(p) /\ Owns(p, chainoff(p)) /\ r \in Recs
        /\ call[p] \in Requests /\ (call[p].fn = "store" => call[p].data \in Data)
    BY <2>0, <2>1, InCall, HeldLists, Remembered
  <2>3. /\ d = readidx(r).datoff
        /\ own[r] = Nowhere \/ Owns(p, own[r])
    <3>1. CASE pc[p] \in AtRec
      BY <2>0, <2>2, <3>1 DEF Good, At, AtRecord, Hit
    <3>2. CASE pc[p] = "reuse.writedat"
      BY <2>0, <3>2 DEF Good, At, Reusing, Reuses, HasNew, NewRecs
    <3> QED BY <2>1, <3>1, <3>2 DEF AtRec
  <2>4. PICK v : /\ table' = table /\ idx' = idx /\ Overwrites(d, v)
                 /\ v = BLANK \/ DatLen[v] = dat[d].size
    <3>1. CASE DelWriteDat(p)
      BY <2>0, <3>1 DEF DelWriteDat, Overwrites
    <3>2. CASE StoreWriteDat(p)
      <4>1. pc[p] \in {"reuse.writedat", "replace.writedat"}
        BY <3>2 DEF StoreWriteDat
      <4>2. DatLen[call[p].data] = readidx(r).datlen
        <5>1. CASE pc[p] = "reuse.writedat"
          BY <2>0, <5>1 DEF Good, At, Reusing, Reuses
        <5>2. CASE pc[p] = "replace.writedat"
          BY <2>0, <5>2 DEF Good, At, AtRecord, AtRec, Replacing
        <5> QED BY <4>1, <5>1, <5>2
      <4>3. DatLen[call[p].data] = dat[d].size
        BY <2>2, <2>3, <4>2 DEF Good, DataOK
      <4> QED BY <2>0, <3>2, <4>3 DEF StoreWriteDat, Overwrites
    <3> QED BY <1>2, <3>1, <3>2
  <2>5. DataOK
    BY DEF Good
  <2>6. OnlyRecord(own, own, r) /\ Recs' = Recs
    BY <2>2, <2>3, <2>4, <2>5, DataWritten
  <2>7. \A x \in Recs : x # r => SameEntry(x)
    BY <2>6 DEF OnlyRecord
  <2>8. own[r] \in 0..NHASH => Owns(p, own[r])
    BY <2>3, DbAssumption DEF Nowhere
  <2> QED BY <2>4, <2>7, <2>8, DatWritten DEF Untouched
<1> QED BY <1>1, <1>2

\* The steps that change the files.
LEMMA Writers ==
    ASSUME NEW p \in Procs, Call(p) \/ Step(p), files' # files
    PROVE  \/ DelWriteIdx(p) \/ StoreWriteIdx(p) \/ AppendIdxWrite(p)
           \/ DelWriteFree(p) \/ DelWritePtr(p) \/ FreeWritePtr(p) \/ StoreWritePtr(p)
           \/ DelWriteDat(p) \/ StoreWriteDat(p) \/ AppendDatWrite(p)
<1>1. ~(Call(p) \/ Find(p) \/ FetchReadDat(p) \/ Unlock(p) \/ StoreQuit(p) \/ StoreHead(p))
  BY DEF Call, Find, FindLock, FindReadPtr, FindReadIdx, FetchReadDat, Unlock, StoreQuit,
     StoreHead, files
<1>2. ~(DelLock(p) \/ DelReadFree(p) \/ DelUnlock(p))
  BY DEF DelLock, Lock, DelReadFree, DelUnlock, files
<1>3. ~(FreeLock(p) \/ FreeReadPtr(p) \/ FreeReadIdx(p) \/ FreeUnlock(p))
  BY DEF FreeLock, Lock, FreeReadPtr, FreeReadIdx, FreeUnlock, files
<1>4. ~(AppendDatLock(p) \/ AppendDatSeek(p) \/ AppendDatUnlock(p))
  BY DEF AppendDatLock, AppendDatSeek, AppendDatUnlock, Lock, Release, files
<1>5. ~(AppendIdxLock(p) \/ AppendIdxSeek(p) \/ AppendIdxUnlock(p))
  BY DEF AppendIdxLock, AppendIdxSeek, AppendIdxUnlock, Lock, Release, files
<1> QED BY <1>1, <1>2, <1>3, <1>4, <1>5 DEF Step, DoDelete, FindFree, AppendDat, AppendIdx, Store

\* A step that changes the files leaves the other lists alone, and its process
\* goes on to another step.
LEMMA FrameStep ==
    ASSUME NEW p \in Procs, NEW own, NEW dep, NEW left, Control, FileInv, Good(own, dep, {}),
           Call(p) \/ Step(p), files' # files
    PROVE  Untouched(own, p) /\ pc'[p] # pc[p]
<1>0. pc \in [Procs -> Labels]
  BY DEF Control, ControlTypeOK
<1>1. \/ DelWriteIdx(p) \/ StoreWriteIdx(p) \/ AppendIdxWrite(p)
      \/ DelWriteFree(p) \/ DelWritePtr(p) \/ FreeWritePtr(p) \/ StoreWritePtr(p)
      \/ DelWriteDat(p) \/ StoreWriteDat(p) \/ AppendDatWrite(p)
  BY Writers
<1>2. CASE DelWriteIdx(p) \/ StoreWriteIdx(p) \/ AppendIdxWrite(p)
  BY <1>0, <1>2, FrameIdx DEF DelWriteIdx, StoreWriteIdx, AppendIdxWrite, Transition, Goto
<1>3. CASE DelWriteFree(p) \/ DelWritePtr(p) \/ FreeWritePtr(p) \/ StoreWritePtr(p)
  BY <1>0, <1>3, FramePtr DEF DelWriteFree, DelWritePtr, FreeWritePtr, StoreWritePtr, Transition,
     Goto
<1>4. CASE DelWriteDat(p) \/ StoreWriteDat(p) \/ AppendDatWrite(p)
  BY <1>0, <1>4, FrameDat DEF DelWriteDat, StoreWriteDat, AppendDatWrite, Transition, Goto
<1> QED BY <1>1, <1>2, <1>3, <1>4

\* The records that process p can meet on chain h, which it has locked: those of
\* the chain, and of the free list when it has that locked as well.
Meets(own, p, h) == {x \in Recs : own[x] = h \/ (own[x] = FREE_OFF /\ Held(p, FREE_OFF))}

\* The pointers do not lead out of them, not even between two writes of
\* _db_dodelete().
LEMMA MeetsClosed ==
    ASSUME NEW p \in Procs, NEW own, NEW dep, NEW left, Control, FileInv, Good(own, dep, {}),
           NEW h \in Chains, Held(p, h)
    PROVE  \A x \in Meets(own, p, h) \cup {h} :
               readptr(x) = 0 \/ readptr(x) \in Meets(own, p, h)
<1> SUFFICES ASSUME NEW x \in Meets(own, p, h) \cup {h}, NEW s, s = readptr(x), s # 0
             PROVE  s \in Meets(own, p, h)
  OBVIOUS
<1>1. /\ h \in 0..NHASH /\ h \in Nat /\ own[h] = h /\ h # FREE_OFF /\ FREE_OFF \in 0..NHASH
      /\ NHASH \in Nat /\ \A y \in Recs : y \in Nat
  BY Remembered, DbAssumption DEF Good, Lists, Ordered, Chains, FREE_OFF
<1>2. x \in Nat /\ own[x] \in 0..NHASH /\ Held(p, own[x]) /\ (own[x] = h \/ own[x] = FREE_OFF)
  BY <1>1 DEF Meets
<1>3. s \in Recs
  <2>1. x \in 0..NHASH \cup Recs
    BY <1>1 DEF Meets
  <2> QED BY <2>1, PtrOK DEF Target
<1>4. CASE ~Pending(p, x)
  <2>1. Follows(own, dep, x, s)
    BY <1>2, <1>4, Settled
  <2> QED BY <1>2, <1>3, <2>1 DEF Follows, Meets
<1>5. CASE Pending(p, x) /\ x # FREE_OFF
  <2>1. pc[p] \in {"dodelete.writefree", "dodelete.writeptr"} /\ x = db[p].ptroff
    BY <1>5 DEF Pending
  <2>2. PICK o, r : o = db[p].ptroff /\ r = db[p].idxoff
    OBVIOUS
  <2>3. own[r] = FREE_OFF /\ readptr(o) = r
    BY <2>1, <2>2 DEF Good, At, Unlinking
  <2>4. Held(p, FREE_OFF)
    BY <2>1 DEF Held, FreeLocked
  <2> QED BY <1>3, <2>1, <2>2, <2>3, <2>4 DEF Meets
<1>6. x # FREE_OFF
  BY <1>1, Remembered DEF Meets
<1> QED BY <1>4, <1>5, <1>6

\* Two names for the list at the head of h.
ListAt == \A h, s : s = readptr(h) => List(s) = List(readptr(h))

\* They are names for the same list.
LEMMA ListNamed == ListAt
  BY DEF ListAt

\* What a process finds on a chain that it has locked, others leave alone.
LEMMA ChainKept ==
    ASSUME NEW p \in Procs, NEW q \in Procs, p # q, NEW own, NEW dep, NEW left,
           Control, FileInv, FileInv', Good(own, dep, {}), Untouched(own, q),
           NEW h \in Chains, Held(p, h)
    PROVE  /\ List(readptr(h))' = List(readptr(h))
           /\ \A o \in List(readptr(h)) :
                 /\ idx'[o - NHASH] = idx[o - NHASH]
                 /\ dat'[readidx(o).datoff] = dat[readidx(o).datoff]
<1> DEFINE T == Meets(own, p, h)
<1>0. PICK s : s = readptr(h)
  OBVIOUS
<1>1. /\ h \in Regions /\ FREE_OFF \in Regions /\ h \in Nat /\ h \in 0..NHASH
      /\ own[h] = h /\ FREE_OFF \in 0..NHASH
      /\ \A x \in Recs : x \in Nat /\ x # 0 /\ x > NHASH /\ x \notin 0..NHASH
  BY Remembered DEF Good, Lists, Ordered
<1>2. ~Owns(q, h) /\ (Held(p, FREE_OFF) => ~Owns(q, FREE_OFF))
  BY <1>1, Exclusive
<1>3. T \subseteq Recs /\ readptr(h)' = s /\ \A x \in T : readptr(x)' = readptr(x) /\ SameEntry(x)
  BY <1>0, <1>1, <1>2 DEF Untouched, Meets
<1>4. \A x \in T : readptr(x) = 0 \/ readptr(x) \in T
  BY MeetsClosed
<1>5. s = 0 \/ s \in T
  BY <1>0, MeetsClosed
<1> HIDE DEF T
<1>6. T \subseteq Recs'
  BY <1>3 DEF SameEntry
<1>7. PtrsInFile /\ ListIsLeast /\ PtrsInFile' /\ ListIsLeast' /\ ListAt /\ ListAt'
  BY PtrsOK, ListLeast, ListNamed, PTL
<1>8. PICK L, M : L = List(s) /\ M = List(s)'
  OBVIOUS
<1>9. /\ L \subseteq Recs /\ (s # 0 => s \in L) /\ \A x \in L : readptr(x) = 0 \/ readptr(x) \in L
      /\ \A U : (s = 0 \/ s \in U) /\ (\A x \in U : readptr(x) = 0 \/ readptr(x) \in U)
             => L \subseteq U
  BY <1>3, <1>5, <1>7, <1>8 DEF ListIsLeast, Closed
<1>10. /\ (s # 0 => s \in M) /\ \A x \in M : readptr(x)' = 0 \/ readptr(x)' \in M
       /\ \A U : (s = 0 \/ s \in U) /\ (\A x \in U : readptr(x)' = 0 \/ readptr(x)' \in U)
             => M \subseteq U
  BY <1>5, <1>6, <1>7, <1>8 DEF ListIsLeast, Closed
<1>11. L \subseteq T /\ M \subseteq T
  BY <1>3, <1>4, <1>5, <1>9, <1>10
<1>12. L = M
  <2>1. L \subseteq M
    BY <1>3, <1>9, <1>10, <1>11
  <2>2. M \subseteq L
    BY <1>3, <1>9, <1>10, <1>11
  <2> QED BY <2>1, <2>2
<1>13. List(readptr(h)) = L /\ List(readptr(h))' = L
  BY <1>0, <1>3, <1>7, <1>8, <1>12 DEF ListAt
<1>14. ASSUME NEW o \in L PROVE idx'[o - NHASH] = idx[o - NHASH]
  <2>1. o \in Recs /\ o \in Recs' /\ readptr(o)' = readptr(o) /\ SameEntry(o) /\ o \notin 0..NHASH
    BY <1>1, <1>3, <1>6, <1>11
  <2>2. idx[o - NHASH] \in IdxRec /\ idx'[o - NHASH] \in IdxRec
    <3>0. idx \in Seq(IdxRec) /\ idx' \in Seq(IdxRec)
      BY DEF FileInv, FileTypeOK, IdxRec, Ptr
    <3>1. /\ Len(idx) \in Nat /\ \A i \in 1..Len(idx) : idx[i] \in IdxRec
          /\ Len(idx') \in Nat /\ \A i \in 1..Len(idx') : idx'[i] \in IdxRec
      BY <3>0
    <3>2. o - NHASH \in 1..Len(idx) /\ o - NHASH \in 1..Len(idx')
      BY <2>1, <3>1, DbAssumption DEF Recs
    <3> QED BY <3>1, <3>2
  <2>3. /\ idx'[o - NHASH].ptr = idx[o - NHASH].ptr
        /\ idx'[o - NHASH].key = idx[o - NHASH].key
        /\ idx'[o - NHASH].keylen = idx[o - NHASH].keylen
        /\ idx'[o - NHASH].datoff = idx[o - NHASH].datoff
        /\ idx'[o - NHASH].datlen = idx[o - NHASH].datlen
    BY <2>1 DEF SameEntry, readptr, readidx
  <2> QED BY <2>2, <2>3 DEF IdxRec
<1>15. \A o \in L : dat'[readidx(o).datoff] = dat[readidx(o).datoff]
  BY <1>3, <1>11 DEF SameEntry
<1> QED BY <1>13, <1>14, <1>15

\* OwnChainOnly, for the step of one process.
LEMMA StepOwnChain ==
    ASSUME Control, FileInv, FileInv', MapInv({}), [Next]_vars
    PROVE  OwnChainOnly
<1> SUFFICES ASSUME files' # files, NEW p \in Procs, NEW h \in Chains,
                    lock[h][p] # "none", pc'[p] = pc[p]
             PROVE  /\ List(readptr(h))' = List(readptr(h))
                    /\ \A o \in List(readptr(h)) :
                          /\ idx'[o - NHASH] = idx[o - NHASH]
                          /\ dat'[readidx(o).datoff] = dat[readidx(o).datoff]
  BY DEF OwnChainOnly
<1>1. PICK own, dep : Good(own, dep, {})
  BY DEF MapInv
<1>2. PICK q \in Procs : Call(q) \/ Step(q)
  BY DEF Next, Finished, vars, files
<1>3. Untouched(own, q) /\ p # q
  BY <1>1, <1>2, FrameStep
<1>4. Held(p, h)
  BY Remembered DEF Control, LockDiscipline, LockOf
<1> QED BY <1>1, <1>3, <1>4, ChainKept
----------------------------------------------------------------------------
\* Db implements KVStore, step by step: a call begins with Call, takes effect
\* with its result when its lock on the chain goes (Unlock), or ends with the
\* process (StoreQuit); no other step is seen.
LEMMA StepImplements ==
    ASSUME NEW p \in Procs, Control, MapInv({}), Call(p) \/ Step(p)
    PROVE  Abs!Next \/ UNCHANGED <<kv, call, ret>>
<1>1. CallOK(p)
  BY DEF Control
<1>2. CASE Call(p)
  BY <1>2 DEF Call, Abs!Next
<1>3. CASE Unlock(p)
  <2>1. pc[p] = "unlock" /\ call[p] \in Requests
    BY <1>1, <1>3 DEF Unlock, Transition, CallOK
  <2>2. loc[p].rc = Abs!Reply(kv, call[p])
    BY <2>1 DEF MapInv, Good, At, Replying
  <2>3. Abs!Return(p)
    BY <1>3, <2>1, <2>2 DEF Unlock, Abs!Return
  <2> QED BY <2>3 DEF Abs!Next
<1>4. CASE StoreQuit(p)
  <2>1. call[p] \in Requests /\ call[p].fn = "store"
    BY <1>1, <1>4 DEF StoreQuit, Transition, CallOK, Storing
  <2>2. Abs!Quit(p)
    BY <1>4, <2>1 DEF StoreQuit, Abs!Quit
  <2> QED BY <2>2 DEF Abs!Next
<1>5. CASE Find(p) \/ FetchReadDat(p)
  BY <1>5 DEF Find, FindLock, FindReadPtr, FindReadIdx, FetchReadDat, client
<1>6. CASE DoDelete(p)
  BY <1>6 DEF DoDelete, DelLock, Lock, DelWriteDat, DelReadFree, DelWriteIdx, DelWriteFree,
     DelWritePtr, DelUnlock, client
<1>7. CASE FindFree(p)
  BY <1>7 DEF FindFree, FreeLock, Lock, FreeReadPtr, FreeReadIdx, FreeWritePtr, FreeUnlock, client
<1>8. CASE AppendDat(p) \/ AppendIdx(p)
  BY <1>8 DEF AppendDat, AppendDatLock, Lock, AppendDatSeek, AppendDatWrite, AppendDatUnlock,
     Release, AppendIdx, AppendIdxLock, AppendIdxSeek, AppendIdxWrite, AppendIdxUnlock, client
<1>9. CASE StoreHead(p) \/ StoreWriteDat(p) \/ StoreWriteIdx(p) \/ StoreWritePtr(p)
  BY <1>9 DEF StoreHead, StoreWriteDat, StoreWriteIdx, StoreWritePtr, client
<1> QED BY <1>2, <1>3, <1>4, <1>5, <1>6, <1>7, <1>8, <1>9 DEF Step, Store

----------------------------------------------------------------------------
\* What someone sees who reads the index file from its beginning to its end and
\* has no chain locked.  Process p is in a call that may change key k.
Changes(p, k) ==
    call[p] \in Requests /\ call[p].fn \in {"store", "delete"} /\ call[p].key = k

\* A key that nobody may be changing is in one record if it is in the map, and in
\* records that no pointer has room for.
LEMMA KeptKey ==
    ASSUME Control, FileInv, MapInv({}), NEW k \in Keys, \A p \in Procs : ~Changes(p, k)
    PROVE  /\ \A r, s \in Recs :
                 /\ readidx(r).key = k /\ r <= PTR_MAX
                 /\ readidx(s).key = k /\ s <= PTR_MAX
                 => kv[k] # NULL /\ r = s
           /\ kv[k] # NULL => \E r \in Recs : readidx(r).key = k /\ r <= PTR_MAX
           /\ \A p \in Procs, r \in Recs :
                 pc[p] \in {"append.idxunlock", "store.writeptr"} /\ readidx(r).key = k
                     => db[p].idxoff # r
<1>1. PICK own, dep : Good(own, dep, {})
  BY DEF MapInv
<1>2. ASSUME NEW p \in Procs, pc[p] \in Storing \/ (pc[p] \in Changing /\ call[p].fn # "fetch")
      PROVE  call[p].key # k
  <2>1. pc[p] \notin {"idle", "exited"}
    BY <1>2 DEF Changing, Storing
  <2>2. call[p] \in Requests /\ (pc[p] \in Storing => call[p].fn = "store")
    BY <2>1 DEF Control, CallOK
  <2> QED BY <1>2, <2>2, RequestFn DEF Changes
<1>3. Shows(own, k, kv[k])
  BY <1>1, <1>2 DEF Good, MapShown, Busy
<1>4. ASSUME NEW r \in Recs, readidx(r).key = k, ~Hit(own, k, r)
      PROVE  r > PTR_MAX
  <2>1. own[r] \notin Chains /\ own[r] # FREE_OFF
    BY <1>1, <1>4, DbAssumption DEF Good, Keyed, Hit
  <2>2. own[r] = Nowhere
    <3>1. r \in Nat /\ NHASH \in Nat
      BY DbAssumption DEF Recs
    <3>2. own[r] \in Nowhere..NHASH
      BY <1>1, <3>1 DEF Good, Lists, Ordered
    <3> QED BY <2>1, <3>1, <3>2 DEF Nowhere, Chains, FREE_OFF
  <2>3. PICK p \in Procs : \/ pc[p] = "exited" /\ r > PTR_MAX
                           \/ HasNew(p) /\ db[p].idxoff = r
    BY <1>1, <2>2 DEF Good, NewRecs
  <2>4. CASE HasNew(p) /\ db[p].idxoff = r
    <3>1. call[p].key # k
      BY <1>2, <2>4 DEF HasNew, Storing
    <3>2. CASE pc[p] \in {"append.idxunlock", "store.writeptr"}
      BY <1>1, <1>4, <2>4, <3>1, <3>2 DEF Good, At, Written
    <3>3. CASE pc[p] \notin {"append.idxunlock", "store.writeptr"}
      <4>1. Reuses(p)
        BY <2>4, <3>3 DEF HasNew, Reuses
      <4> QED BY <1>1, <1>4, <2>4, <4>1, DbAssumption DEF Good, At, Reusing
    <3> QED BY <3>2, <3>3
  <2> QED BY <2>3, <2>4
<1>5. ASSUME NEW r \in Recs, Hit(own, k, r)
      PROVE  r <= PTR_MAX /\ kv[k] # NULL
  <2>1. r \in Nat /\ r > NHASH /\ own[r] # Nowhere /\ PTR_MAX \in Nat
    BY <1>5, DbAssumption DEF Recs, Hit, Nowhere, Chains
  <2>2. r <= PTR_MAX
    BY <1>1, <2>1 DEF Good, Lists
  <2> QED BY <1>3, <1>5, <2>2 DEF Shows, Absent
<1>6. \A r \in Recs : r \in Nat /\ PTR_MAX \in Nat
  BY DbAssumption DEF Recs
<1>7. \A r \in Recs : readidx(r).key = k /\ r <= PTR_MAX => Hit(own, k, r)
  BY <1>4, <1>6
<1>8. \A r, s \in Recs : Hit(own, k, r) /\ Hit(own, k, s) => r = s
  BY <1>1 DEF Good, Keyed
<1>9. kv[k] # NULL => \E r \in Recs : readidx(r).key = k /\ r <= PTR_MAX
  BY <1>3, <1>5 DEF Shows, Hit
<1>10. ASSUME NEW p \in Procs, NEW r \in Recs, readidx(r).key = k,
              pc[p] \in {"append.idxunlock", "store.writeptr"}
       PROVE  db[p].idxoff # r
  BY <1>1, <1>2, <1>10 DEF Good, At, Written, Storing
<1> QED BY <1>5, <1>7, <1>8, <1>9, <1>10

\* While no function has the free list locked, a record that is not blank shows
\* what is in the map, or what a db_store() in progress will put there, or it is
\* one that no pointer has room for.
LEMMA SeenRecord ==
    ASSUME Control, FileInv, MapInv({}), \A p \in Procs : pc[p] \notin FreeLocked,
           NEW r \in Recs, NEW k, k = readidx(r).key, k # BLANK,
           NEW d, d = dat[readidx(r).datoff].data
    PROVE  /\ k \in Keys
           /\ \/ d = kv[k]
              \/ \E p \in Procs : /\ call[p] \in Requests /\ call[p].fn = "store"
                                  /\ ~Abs!Refused(kv, call[p])
                                  /\ call[p].key = k /\ call[p].data = d
              \/ /\ r > PTR_MAX
                 /\ \A p \in Procs : pc[p] \in {"append.idxunlock", "store.writeptr"}
                                         => db[p].idxoff # r
<1>1. PICK own, dep : Good(own, dep, {})
  BY DEF MapInv
<1>2. k \in Keys /\ r \in Nat /\ NHASH \in Nat
  BY PtrOK, DbAssumption DEF IdxRec, Recs
<1> DEFINE Storer(p) == /\ call[p] \in Requests /\ call[p].fn = "store"
                        /\ ~Abs!Refused(kv, call[p])
                        /\ call[p].key = k /\ call[p].data = d
<1>3. ASSUME NEW p \in Procs, pc[p] \in {"append.idxunlock", "store.writeptr"}, db[p].idxoff = r
      PROVE  Storer(p)
  <2>1. pc[p] \in Storing /\ pc[p] \notin {"idle", "exited"}
    BY <1>3 DEF Storing
  <2>2. call[p] \in Requests /\ call[p].fn = "store" /\ ~Abs!Refused(kv, call[p])
    BY <1>1, <2>1 DEF Control, CallOK, Good, At, Replying
  <2>3. call[p].key = k /\ call[p].data = d
    BY <1>1, <1>3 DEF Good, At, Written
  <2> QED BY <2>2, <2>3
<1>4. CASE own[r] \in Chains
  <2>1. Hit(own, k, r)
    BY <1>1, <1>4 DEF Good, Keyed, Hit
  <2>2. ASSUME NEW v, Shows(own, k, v) PROVE d = v
    <3>1. v # NULL
      BY <2>1, <2>2 DEF Shows, Absent
    <3>2. PICK s \in Recs : Hit(own, k, s) /\ dat[readidx(s).datoff].data = v
      BY <2>2, <3>1 DEF Shows
    <3> QED BY <1>1, <1>2, <2>1, <3>2 DEF Good, Keyed
  <2>3. CASE \A p \in Procs : ~Busy(p, k)
    BY <1>1, <1>2, <2>2, <2>3 DEF Good, MapShown
  <2>4. ASSUME NEW p \in Procs, Busy(p, k) PROVE d = kv[k] \/ Storer(p)
    <3>1. pc[p] \in Changing /\ call[p].fn # "fetch" /\ call[p].key = k
      BY <2>4 DEF Busy
    <3>2. pc[p] \notin Storing \ {"replace.writedat"}
      <4> SUFFICES ASSUME pc[p] \in Storing \ {"replace.writedat"} PROVE FALSE
        OBVIOUS
      <4>1. Absent(own, k)
        BY <1>1, <3>1 DEF Good, At, Missing, Gone
      <4> QED BY <2>1, <4>1 DEF Absent
    <3>3. pc[p] = "unlock"
      BY <3>1, <3>2 DEF Changing, FreeLocked
    <3>4. d = Abs!Effect(kv, call[p])[k]
      BY <1>1, <2>2, <3>1, <3>3 DEF Good, At, Done
    <3>5. Shows(own, k, Abs!Effect(kv, call[p])[k]) /\ d # NULL
      <4>1. Shows(own, k, Abs!Effect(kv, call[p])[k])
        BY <1>1, <3>1, <3>3 DEF Good, At, Done
      <4> QED BY <2>1, <3>4, <4>1 DEF Shows, Absent
    <3>6. call[p] \in Requests /\ kv \in [Keys -> Data \cup {BLANK, NULL}]
      BY <3>3 DEF Control, CallOK, ControlTypeOK
    <3>7. call[p].fn = "delete" \/ call[p].fn = "store"
      BY <3>1, <3>6, RequestFn
    <3> QED BY <1>2, <3>1, <3>4, <3>5, <3>6, <3>7 DEF Abs!Effect
  <2> QED BY <1>2, <2>3, <2>4
<1>5. CASE own[r] = Nowhere
  <2>1. PICK p \in Procs : \/ pc[p] = "exited" /\ r > PTR_MAX
                           \/ HasNew(p) /\ db[p].idxoff = r
    BY <1>1, <1>5 DEF Good, NewRecs
  <2>2. CASE HasNew(p) /\ db[p].idxoff = r
    <3>1. CASE pc[p] \in {"append.idxunlock", "store.writeptr"}
      BY <1>2, <1>3, <2>2, <3>1
    <3>2. CASE pc[p] \notin {"append.idxunlock", "store.writeptr"}
      <4>1. Reuses(p)
        BY <2>2, <3>2 DEF HasNew, Reuses
      <4> QED BY <1>1, <2>2, <4>1 DEF Good, At, Reusing
    <3> QED BY <3>1, <3>2
  <2> QED BY <1>2, <1>3, <2>1, <2>2
<1>6. own[r] # FREE_OFF
  BY <1>1 DEF Good, Keyed
<1>7. own[r] \in Nowhere..NHASH
  BY <1>1, <1>2 DEF Good, Lists, Ordered
<1> QED BY <1>2, <1>4, <1>5, <1>6, <1>7 DEF Nowhere, Chains, FREE_OFF

\* A step of process p.  Records are added at the end; a record gets another key,
\* or another data record, only if p may be changing that key, and while the free
\* list is not locked only if it is blank.
LEMMA KeyStep ==
    ASSUME NEW p \in Procs, Control, FileInv, MapInv({}), Call(p) \/ Step(p)
    PROVE  /\ Recs \subseteq Recs'
           /\ \A k \in Keys : ~Changes(p, k) =>
                 \A r \in Recs' : readidx(r).key' = k => r \in Recs /\ readidx(r).key = k
           /\ \A k \in Keys : ~Changes(p, k) =>
                 \A r \in Recs : readidx(r).key = k => readidx(r).key' = k
           /\ pc[p] \notin FreeLocked => \A r \in Recs : readidx(r).key # BLANK =>
                 readidx(r).key' = readidx(r).key /\ readidx(r).datoff' = readidx(r).datoff
<1>1. PICK own, dep : Good(own, dep, {})
  BY DEF MapInv
<1>2. CASE files' = files
  BY <1>2 DEF files, Recs, readidx
<1>3. CASE DelWriteDat(p) \/ StoreWriteDat(p) \/ AppendDatWrite(p)
  <2>1. table' = table /\ idx' = idx
    BY <1>3 DEF DelWriteDat, StoreWriteDat, AppendDatWrite
  <2> QED BY <2>1 DEF Recs, readidx
<1>4. CASE DelWriteFree(p) \/ DelWritePtr(p) \/ FreeWritePtr(p) \/ StoreWritePtr(p)
  <2>1. PICK off, val : off \in 0..NHASH \cup Recs /\ writeptr(off, val) /\ dat' = dat
    <3>1. /\ FREE_OFF \in 0..NHASH /\ db[p].ptroff \in 0..NHASH \cup Recs
          /\ loc[p].saveoffset \in 0..NHASH \cup Recs
      BY Remembered
    <3>2. StoreWritePtr(p) => chainoff(p) \in 0..NHASH
      BY <1>1, InCall DEF StoreWritePtr, Transition, Outside
    <3> QED BY <1>4, <3>1, <3>2 DEF DelWriteFree, DelWritePtr, FreeWritePtr, StoreWritePtr
  <2>2. Recs' = Recs /\ \A x \in Recs : SameEntry(x)
    BY <2>1, PtrWritten
  <2> QED BY <2>2 DEF SameEntry
<1>5. CASE DelWriteIdx(p) \/ StoreWriteIdx(p) \/ AppendIdxWrite(p)
  <2>0. PICK r, k, d, f, b : /\ r = db[p].idxoff /\ k = call[p].key /\ d = db[p].datoff
                             /\ f = loc[p].freeptr /\ b = loc[p].ptrval
    OBVIOUS
  <2>1. pc[p] \in {"dodelete.writeidx", "reuse.writeidx", "append.idxwrite"}
    BY <1>5 DEF DelWriteIdx, StoreWriteIdx, AppendIdxWrite, Transition
  <2>2. call[p] \in Requests /\ k \in Keys /\ call[p].fn \in {"store", "delete"}
    BY <2>0, <2>1, RequestFn DEF Control, CallOK, Deleting, Storing
  <2>3. Changes(p, k)
    BY <2>0, <2>2 DEF Changes
  <2>4. IdxRecord(p, BLANK, f) \in IdxRec /\ IdxRecord(p, k, b) \in IdxRec
    <3>1. d \in 1..Len(dat) /\ f \in Target /\ b \in Target
      BY <2>0, <2>1 DEF FileInv, LocalOK, HasRec, HasDat
    <3> QED BY <2>0, <2>2, <3>1, IdxRecordOK
  <2>5. CASE pc[p] = "dodelete.writeidx"
    <3>1. r \in Recs /\ readidx(r).key = k
      BY <1>1, <2>0, <2>5 DEF Good, At, AtRecord, AtRec, Hit
    <3>2. idx' = WriteAt(idx, r - NHASH, IdxRecord(p, BLANK, f)) /\ table' = table /\ dat' = dat
      BY <1>5, <2>0, <2>5 DEF DelWriteIdx, StoreWriteIdx, AppendIdxWrite, Transition
    <3>3. /\ Recs' = Recs \cup {r} /\ readidx(r)' = IdxRecord(p, BLANK, f)
          /\ \A x \in Recs : x # r => SameEntry(x)
      BY <2>4, <3>1, <3>2, IdxWritten
    <3>4. readidx(r).key' = BLANK
      BY <3>3 DEF IdxRecord
    <3> QED BY <2>3, <2>5, <3>1, <3>3, <3>4, DbAssumption DEF SameEntry, FreeLocked
  <2>6. CASE pc[p] \in {"reuse.writeidx", "append.idxwrite"}
    <3>1. \/ r \in Recs /\ readidx(r).key = BLANK
          \/ r \notin Recs /\ r = NHASH + Len(idx) + 1
      <4>1. CASE pc[p] = "reuse.writeidx"
        BY <1>1, <2>0, <4>1 DEF Good, At, Reusing, Reuses, HasNew, NewRecs
      <4>2. CASE pc[p] = "append.idxwrite"
        BY <2>0, <4>2, DbAssumption DEF FileInv, FileTypeOK, AppendAtEnd, Recs
      <4> QED BY <2>6, <4>1, <4>2
    <3>2. idx' = WriteAt(idx, r - NHASH, IdxRecord(p, k, b)) /\ table' = table /\ dat' = dat
      BY <1>5, <2>0, <2>6 DEF DelWriteIdx, StoreWriteIdx, AppendIdxWrite, Transition
    <3>3. /\ Recs' = Recs \cup {r} /\ readidx(r)' = IdxRecord(p, k, b)
          /\ \A x \in Recs : x # r => SameEntry(x)
      BY <2>4, <3>1, <3>2, IdxWritten
    <3>4. readidx(r).key' = k
      BY <2>0, <3>3 DEF IdxRecord
    <3> QED BY <2>3, <3>1, <3>3, <3>4, DbAssumption DEF SameEntry
  <2> QED BY <2>1, <2>5, <2>6
<1>6. CASE files' # files
  BY <1>3, <1>4, <1>5, <1>6, Writers
<1> QED BY <1>2, <1>6
----------------------------------------------------------------------------
\* Whatever db_fetch(), db_store() and db_delete() do at the same time, each of
\* them acts on the whole map in one step between its call and its return, and
\* returns what its comment promises for the map as it is at that step.
THEOREM Implements == Spec => Linearizable
<1>1. Init => Abs!Init
  BY DEF Init
<1>2. Control /\ MapInv({}) /\ [Next]_vars => [Abs!Next]_(Abs!kvVars)
  <2> SUFFICES ASSUME Control, MapInv({}), [Next]_vars
               PROVE  Abs!Next \/ UNCHANGED <<kv, call, ret>>
    BY DEF Abs!kvVars
  <2>1. ASSUME NEW p \in Procs, Call(p) \/ Step(p) PROVE Abs!Next \/ UNCHANGED <<kv, call, ret>>
    BY <2>1, StepImplements
  <2>2. CASE UNCHANGED vars
    BY <2>2 DEF vars
  <2> QED BY <2>1, <2>2 DEF Next, Finished
<1> QED BY <1>1, <1>2, ControlInvariant, MapInvariant, PTL DEF Spec, Linearizable, Abs!Spec

\* A chain that nobody has write locked holds every key of the map that hashes
\* to it once, with its data, and no other key.
THEOREM ChainsHoldTheMap == Spec => []ChainsHoldMap
<1>1. Control /\ FileInv /\ MapInv({}) => ChainsHoldMap
  BY MapOnChains
<1> QED BY <1>1, ControlInvariant, FileInvariant, MapInvariant, PTL

\* Lists that nobody has write locked share no record and have no cycle; the
\* free list has the deleted records only and the chains the others only.
THEOREM ListsAreDisjoint == Spec => []ListsDisjoint
<1>1. Control /\ FileInv /\ MapInv({}) => ListsDisjoint
  BY DisjointLists
<1> QED BY <1>1, ControlInvariant, FileInvariant, MapInvariant, PTL

\* When every process is out of the library, every record of the index file is
\* on a chain or on the free list: db_delete() and the reuse in db_store() lose
\* no space.
THEOREM NothingLeaks == Spec => []NoLeak
<1>1. Control /\ FileInv /\ MapInv({}) => NoLeak
  BY LeaksNone
<1> QED BY <1>1, ControlInvariant, FileInvariant, MapInvariant, PTL

\* The write() of db_store() into an old data record stays inside it: every index
\* record has a data record of its own of the length it says.
THEOREM DataAlwaysFits == Spec => []DataFits
<1>1. FileInv /\ MapInv({}) => DataFits
  BY FitsData
<1> QED BY <1>1, FileInvariant, MapInvariant, PTL

\* The pointer through which _db_dodelete() and _db_findfree() take a record off
\* its list still points to that record, though it was found some system calls
\* before and other processes have run since.
THEOREM UnlinksAreCurrent == Spec => []UnlinkIsCurrent
<1>1. Control /\ FileInv /\ MapInv({}) => UnlinkIsCurrent
  BY CurrentLinks
<1> QED BY <1>1, ControlInvariant, FileInvariant, MapInvariant, PTL

\* While a process has a chain locked, for reading or for writing, no file write
\* of another process changes what it can find there.
THEOREM ChainsAreKept == Spec => OwnChainOnlyProp
<1>1. Control /\ FileInv /\ FileInv' /\ MapInv({}) /\ [Next]_vars => [OwnChainOnly]_vars
  BY StepOwnChain
<1> QED BY <1>1, ControlInvariant, FileInvariant, MapInvariant, PTL DEF Spec, OwnChainOnlyProp
=============================================================================
