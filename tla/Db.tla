-------------------------------- MODULE Db ---------------------------------
(***************************************************************************)
(* The database library of apue/db.lock.fine: processes that share an      *)
(* index file and a data file and call db_fetch(), db_store() and          *)
(* db_delete(), one handle (DB structure) per process, after db_open() has *)
(* initialised the files.  A step is one system call on a file or a lock,  *)
(* with the computation up to the next one.                                *)
(*                                                                         *)
(* Offsets in the index file are counted in fields instead of bytes: the   *)
(* free list pointer is at 0, the hash chain pointers at 1..NHASH, and the *)
(* i-th index record at NHASH + i.  As in the file, a pointer of 0 ends a  *)
(* list.  Data records are numbered from 1.                                *)
(*                                                                         *)
(* Definitions that start with BUG are mistakes that the code does not     *)
(* make, each one the definition after it with a fault; nothing uses them  *)
(* but the tests of the properties.                                        *)
(***************************************************************************)
EXTENDS Integers, Sequences

CONSTANTS
    Procs, Keys, Data, Requests, NULL, EXITED,  \* as in KVStore
    BLANK,      \* a key or a data record overwritten with blanks
    NHASH,      \* number of hash chains
    PTR_MAX,    \* the largest offset that fits a pointer field
    Hash,       \* Hash[k]: offset of the hash chain of key k
    KeyLen,     \* KeyLen[k]: the length of key k
    DatLen,     \* DatLen[d]: the length of data d, with its newline
    MaxCalls    \* bound of the model: calls made altogether

VARIABLES
    table,      \* index file: the free list pointer and the chain pointers
    idx,        \* index file: the index records
    dat,        \* data file
    lock,       \* lock[r][p]: the lock of process p on region r
    pc,         \* pc[p]: the system call that process p makes next
    db,         \* db[p]: the fields of the DB structure of process p
    loc,        \* loc[p]: the local variables of the functions p is in
    calls,      \* number of calls made
    kv, call, ret   \* the interface of KVStore; kv is a history variable

Abs == INSTANCE KVStore
           WITH Procs <- Procs, Keys <- Keys, Data <- Data, Requests <- Requests,
                NULL <- NULL, EXITED <- EXITED, kv <- kv, call <- call, ret <- ret

files == <<table, idx, dat>>
client == <<calls, kv, call, ret>>
vars == <<table, idx, dat, lock, pc, db, loc, calls, kv, call, ret>>

FREE_OFF == 0
Chains == 1..NHASH

\* The regions that are locked: the first byte of the free list pointer and of
\* each chain pointer, the index file after the hash table, and the data file.
IDX_TAIL == NHASH + 1
DATFILE == NHASH + 2
Regions == 0..DATFILE

ASSUME DbAssumption ==
    /\ NHASH \in Nat \ {0} /\ PTR_MAX \in Nat /\ MaxCalls \in Nat
    /\ Hash \in [Keys -> Chains]
    /\ KeyLen \in [Keys -> Nat]
    /\ DatLen \in [Data -> Nat]
    /\ Requests \subseteq Abs!Request
    /\ NULL \notin Data /\ BLANK \notin Keys \cup Data
    /\ NULL \notin Abs!Request /\ EXITED \notin Abs!Request /\ NULL # EXITED

\* A DB structure and the local variables of a process that is in no function:
\* their values are dead, the model forgets them.
NoDb == [ptroff |-> 0, idxoff |-> 0, datoff |-> 0, datlen |-> 0, ptrval |-> 0]
NoLoc == [offset |-> 0, saveoffset |-> 0, freeptr |-> 0, saveptr |-> 0,
          ptrval |-> 0, rc |-> NULL]
----------------------------------------------------------------------------
\* lock_reg(): fcntl() record locks that wait; a process is never blocked by a
\* lock of its own.
readw_lock(p, r) ==
    /\ \A q \in Procs \ {p} : lock[r][q] # "write"
    /\ lock' = [lock EXCEPT ![r][p] = "read"]

writew_lock(p, r) ==
    /\ \A q \in Procs \ {p} : lock[r][q] = "none"
    /\ lock' = [lock EXCEPT ![r][p] = "write"]

un_lock(p, r) == lock' = [lock EXCEPT ![r][p] = "none"]

\* exit() of a process: the kernel removes its locks.
unlock_all(p) == lock' = [r \in Regions |-> [lock[r] EXCEPT ![p] = "none"]]

\* _db_readptr(), and the record that _db_readidx() reads.
readptr(off) == IF off \in 0..NHASH THEN table[off] ELSE idx[off - NHASH].ptr
readidx(off) == idx[off - NHASH]

\* _db_writeptr() of a pointer that fits its field.
writeptr(off, val) ==
    IF off \in 0..NHASH
    THEN table' = [table EXCEPT ![off] = val] /\ UNCHANGED idx
    ELSE idx' = [idx EXCEPT ![off - NHASH].ptr = val] /\ UNCHANGED table

\* write() at position i of a file of records: it overwrites a record or, at
\* the end, adds one.
WriteAt(file, i, rec) ==
    IF i = Len(file) + 1 THEN Append(file, rec) ELSE [file EXCEPT ![i] = rec]

Goto(p, label) == pc' = [pc EXCEPT ![p] = label]
Transition(p, from, to) == pc[p] = from /\ Goto(p, to)
chainoff(p) == Hash[call[p].key]

\* Steps that do nothing but take or drop the lock on region r.
Lock(p, r, from, to) ==
    /\ Transition(p, from, to)
    /\ writew_lock(p, r)
    /\ UNCHANGED <<files, db, loc, client>>

Release(p, r, from, to) ==
    /\ Transition(p, from, to)
    /\ un_lock(p, r)
    /\ UNCHANGED <<files, db, loc, client>>

BUGNoLock(p, from, to) ==
    /\ Transition(p, from, to)
    /\ UNCHANGED <<files, lock, db, loc, client>>
----------------------------------------------------------------------------
Init ==
    /\ table = [off \in 0..NHASH |-> 0]
    /\ idx = <<>>
    /\ dat = <<>>
    /\ lock = [r \in Regions |-> [p \in Procs |-> "none"]]
    /\ pc = [p \in Procs |-> "idle"]
    /\ db = [p \in Procs |-> NoDb]
    /\ loc = [p \in Procs |-> NoLoc]
    /\ calls = 0
    /\ Abs!Init

\* A process calls db_fetch(), db_store() or db_delete().
Call(p) ==
    /\ Transition(p, "idle", "find")
    /\ calls < MaxCalls
    /\ calls' = calls + 1
    /\ Abs!Call(p)
    /\ UNCHANGED <<files, lock, db, loc>>

BUGFindUnlocked(p) == BUGNoLock(p, "find", "find.readptr")

BUGFindReadLocks(p) ==
    /\ Transition(p, "find", "find.readptr")
    /\ readw_lock(p, chainoff(p))
    /\ UNCHANGED <<files, db, loc, client>>

\* _db_find(): lock the hash chain.
FindLock(p) ==
    /\ Transition(p, "find", "find.readptr")
    /\ IF call[p].fn = "fetch"
       THEN readw_lock(p, chainoff(p))
       ELSE writew_lock(p, chainoff(p))
    /\ UNCHANGED <<files, db, loc, client>>

\* What the caller of _db_find() does next when there is no such record ...
NotFound(r) ==
    IF r.fn = "fetch" THEN [pc |-> "unlock", rc |-> NULL]
    ELSE IF r.fn = "delete" \/ Abs!DB_REPLACE \in r.flag
    THEN [pc |-> "unlock", rc |-> -1]
    ELSE [pc |-> "store.head", rc |-> 0]

\* ... and when there is one, with a data record of length datlen.
Found(r, datlen) ==
    IF r.fn = "fetch" THEN [pc |-> "fetch.readdat", rc |-> 0]
    ELSE IF r.fn = "delete" THEN [pc |-> "dodelete", rc |-> 0]
    ELSE IF Abs!DB_INSERT \in r.flag THEN [pc |-> "unlock", rc |-> 1]
    ELSE IF DatLen[r.data] # datlen THEN [pc |-> "dodelete", rc |-> 0]
    ELSE [pc |-> "replace.writedat", rc |-> 0]

\* The next iteration of the loop of _db_find(), or its end at offset 0, when
\* what d, the DB structure, has of the last record is dead.
FindNext(p, d, off) ==
    LET after == IF off # 0 THEN [pc |-> "find.readidx", rc |-> NULL]
                            ELSE NotFound(call[p])
    IN  /\ Goto(p, after.pc)
        /\ db' = [db EXCEPT ![p] = IF off # 0 THEN d ELSE NoDb]
        /\ loc' = [loc EXCEPT ![p] = [NoLoc EXCEPT !.offset = off, !.rc = after.rc]]

\* _db_find(): read the chain pointer.
FindReadPtr(p) ==
    /\ pc[p] = "find.readptr"
    /\ FindNext(p, [db[p] EXCEPT !.ptroff = chainoff(p)], readptr(chainoff(p)))
    /\ UNCHANGED <<files, lock, client>>

\* The fields of the DB structure that _db_readidx() sets.
AfterReadIdx(d, off) ==
    [d EXCEPT !.idxoff = off, !.ptrval = readidx(off).ptr,
              !.datoff = readidx(off).datoff, !.datlen = readidx(off).datlen]

\* _db_find(): read the record at offset and compare its key.
FindReadIdx(p) ==
    /\ pc[p] = "find.readidx"
    /\ LET off == loc[p].offset
           rec == readidx(off)
       IN  IF rec.key = call[p].key
           THEN LET after == Found(call[p], rec.datlen)
                IN  /\ Goto(p, after.pc)
                    /\ db' = [db EXCEPT ![p] = AfterReadIdx(@, off)]
                    /\ loc' = [loc EXCEPT ![p].rc = after.rc]
           ELSE FindNext(p, [AfterReadIdx(db[p], off) EXCEPT !.ptroff = off], rec.ptr)
    /\ UNCHANGED <<files, lock, client>>

\* db_fetch(): _db_readdat().
FetchReadDat(p) ==
    /\ Transition(p, "fetch.readdat", "unlock")
    /\ loc' = [loc EXCEPT ![p].rc = dat[db[p].datoff].data]
    /\ UNCHANGED <<files, lock, db, client>>

\* The end of all three functions: unlock the hash chain and return.
Unlock(p) ==
    /\ Transition(p, "unlock", "idle")
    /\ un_lock(p, chainoff(p))
    /\ kv' = Abs!Effect(kv, call[p])
    /\ ret' = [ret EXCEPT ![p] = loc[p].rc]
    /\ call' = [call EXCEPT ![p] = NULL]
    /\ db' = [db EXCEPT ![p] = NoDb]
    /\ loc' = [loc EXCEPT ![p] = NoLoc]
    /\ UNCHANGED <<files, calls>>
----------------------------------------------------------------------------
\* The index record that _db_writeidx() writes: the blanks of a deleted key are
\* as many as the characters of the key.
IdxRecord(p, key, ptrval) ==
    [ptr |-> ptrval, key |-> key, keylen |-> KeyLen[call[p].key],
     datoff |-> db[p].datoff, datlen |-> db[p].datlen]

\* _db_dodelete(): lock the free list.
DelLock(p) == Lock(p, FREE_OFF, "dodelete", "dodelete.writedat")

\* _db_dodelete(): overwrite the data record with blanks.
DelWriteDat(p) ==
    /\ Transition(p, "dodelete.writedat", "dodelete.readptr")
    /\ dat' = [dat EXCEPT ![db[p].datoff].data = BLANK]
    /\ UNCHANGED <<table, idx, lock, db, loc, client>>

\* _db_dodelete(): read the free list pointer, save the record's own pointer.
DelReadFree(p) ==
    /\ Transition(p, "dodelete.readptr", "dodelete.writeidx")
    /\ loc' = [loc EXCEPT ![p].freeptr = readptr(FREE_OFF),
                          ![p].saveptr = db[p].ptrval]
    /\ UNCHANGED <<files, lock, db, client>>

\* _db_dodelete(): overwrite the key with blanks and the pointer with freeptr.
DelWriteIdx(p) ==
    /\ Transition(p, "dodelete.writeidx", "dodelete.writefree")
    /\ idx' = WriteAt(idx, db[p].idxoff - NHASH, IdxRecord(p, BLANK, loc[p].freeptr))
    /\ db' = [db EXCEPT ![p].ptrval = loc[p].freeptr]
    /\ UNCHANGED <<table, dat, lock, loc, client>>

\* _db_dodelete(): the record becomes the head of the free list.
DelWriteFree(p) ==
    /\ Transition(p, "dodelete.writefree", "dodelete.writeptr")
    /\ writeptr(FREE_OFF, db[p].idxoff)
    /\ UNCHANGED <<dat, lock, db, loc, client>>

BUGDelWritesNewPtr(p) ==
    /\ Transition(p, "dodelete.writeptr", "dodelete.unlock")
    /\ writeptr(db[p].ptroff, db[p].ptrval)
    /\ UNCHANGED <<dat, lock, db, loc, client>>

\* _db_dodelete(): take the record off its hash chain; saveptr is dead.
DelWritePtr(p) ==
    /\ Transition(p, "dodelete.writeptr", "dodelete.unlock")
    /\ writeptr(db[p].ptroff, loc[p].saveptr)
    /\ loc' = [loc EXCEPT ![p].saveptr = 0]
    /\ UNCHANGED <<dat, lock, db, client>>

\* _db_dodelete(): unlock the free list; back in db_delete() or db_store().
DelUnlock(p) ==
    /\ pc[p] = "dodelete.unlock"
    /\ un_lock(p, FREE_OFF)
    /\ Goto(p, IF call[p].fn = "delete" THEN "unlock" ELSE "store.rehead")
    /\ UNCHANGED <<files, db, loc, client>>
----------------------------------------------------------------------------
\* db_store(): read the chain pointer, before looking for a free record or
\* again after the deletion of the old record.
StoreHead(p) ==
    /\ pc[p] \in {"store.head", "store.rehead"}
    /\ loc' = [loc EXCEPT ![p].ptrval = readptr(chainoff(p))]
    /\ Goto(p, IF pc[p] = "store.head" THEN "findfree" ELSE "append.datlock")
    /\ UNCHANGED <<files, lock, db, client>>

BUGFreeUnlocked(p) == BUGNoLock(p, "findfree", "findfree.readptr")

\* _db_findfree(): lock the free list.
FreeLock(p) == Lock(p, FREE_OFF, "findfree", "findfree.readptr")

\* The next iteration of the loop of _db_findfree(), or its end at offset 0.
FreeNext(p, save, off) ==
    /\ loc' = [loc EXCEPT ![p].saveoffset = save, ![p].offset = off]
    /\ Goto(p, IF off # 0 THEN "findfree.readidx" ELSE "findfree.unlock")

\* _db_findfree(): read the free list pointer.
FreeReadPtr(p) ==
    /\ pc[p] = "findfree.readptr"
    /\ FreeNext(p, FREE_OFF, readptr(FREE_OFF))
    /\ UNCHANGED <<files, lock, db, client>>

BUGFitsKeyOnly(rec, r) == rec.keylen = KeyLen[r.key]

\* Does a free record have room for exactly this key and this data?
Fits(rec, r) == rec.keylen = KeyLen[r.key] /\ rec.datlen = DatLen[r.data]

\* _db_findfree(): read the free record at offset and compare its sizes.
FreeReadIdx(p) ==
    /\ pc[p] = "findfree.readidx"
    /\ LET off == loc[p].offset
           rec == readidx(off)
       IN  /\ db' = [db EXCEPT ![p] = AfterReadIdx(@, off)]
           /\ IF Fits(rec, call[p])
              THEN Goto(p, "findfree.writeptr") /\ UNCHANGED loc
              ELSE FreeNext(p, off, rec.ptr)
    /\ UNCHANGED <<files, lock, client>>

BUGFreeKeepsRecord(p) == BUGNoLock(p, "findfree.writeptr", "findfree.unlock")

BUGFreeCutsList(p) ==
    /\ Transition(p, "findfree.writeptr", "findfree.unlock")
    /\ writeptr(loc[p].saveoffset, 0)
    /\ UNCHANGED <<dat, lock, db, loc, client>>

\* _db_findfree(): take the record off the free list.
FreeWritePtr(p) ==
    /\ Transition(p, "findfree.writeptr", "findfree.unlock")
    /\ writeptr(loc[p].saveoffset, db[p].ptrval)
    /\ UNCHANGED <<dat, lock, db, loc, client>>

BUGFreeMissKeepsLock(p) ==
    /\ pc[p] = "findfree.unlock"
    /\ IF loc[p].offset = 0 THEN UNCHANGED lock ELSE un_lock(p, FREE_OFF)
    /\ Goto(p, IF loc[p].offset = 0 THEN "append.datlock" ELSE "reuse.writedat")
    /\ UNCHANGED <<files, db, loc, client>>

\* _db_findfree(): unlock the free list and return; the search ended at offset
\* 0 if no record fits.
FreeUnlock(p) ==
    /\ pc[p] = "findfree.unlock"
    /\ un_lock(p, FREE_OFF)
    /\ Goto(p, IF loc[p].offset = 0 THEN "append.datlock" ELSE "reuse.writedat")
    /\ UNCHANGED <<files, db, loc, client>>
----------------------------------------------------------------------------
BUGAppendDatUnlocked(p) == BUGNoLock(p, "append.datlock", "append.datseek")

\* _db_writedat(SEEK_END): lock the data file ...
AppendDatLock(p) == Lock(p, DATFILE, "append.datlock", "append.datseek")

\* ... seek its end ...
AppendDatSeek(p) ==
    /\ Transition(p, "append.datseek", "append.datwrite")
    /\ db' = [db EXCEPT ![p].datoff = Len(dat) + 1,
                        ![p].datlen = DatLen[call[p].data]]
    /\ UNCHANGED <<files, lock, loc, client>>

\* ... write there ...
AppendDatWrite(p) ==
    /\ Transition(p, "append.datwrite", "append.datunlock")
    /\ dat' = WriteAt(dat, db[p].datoff,
                      [data |-> call[p].data, size |-> db[p].datlen])
    /\ UNCHANGED <<table, idx, lock, db, loc, client>>

\* ... and unlock it.
AppendDatUnlock(p) == Release(p, DATFILE, "append.datunlock", "append.idxlock")

\* _db_writeidx(SEEK_END): lock the index file after the hash table ...
AppendIdxLock(p) == Lock(p, IDX_TAIL, "append.idxlock", "append.idxseek")

\* ... seek its end ...
AppendIdxSeek(p) ==
    /\ Transition(p, "append.idxseek", "append.idxwrite")
    /\ db' = [db EXCEPT ![p].idxoff = NHASH + Len(idx) + 1,
                        ![p].ptrval = loc[p].ptrval]
    /\ UNCHANGED <<files, lock, loc, client>>

\* ... write there ...
AppendIdxWrite(p) ==
    /\ Transition(p, "append.idxwrite", "append.idxunlock")
    /\ idx' = WriteAt(idx, db[p].idxoff - NHASH, IdxRecord(p, call[p].key, loc[p].ptrval))
    /\ UNCHANGED <<table, dat, lock, db, loc, client>>

\* ... and unlock it.
AppendIdxUnlock(p) == Release(p, IDX_TAIL, "append.idxunlock", "store.writeptr")

\* _db_writedat(SEEK_SET) in db_store(): into the data record of a free record,
\* or over the old data when that has the same length.
StoreWriteDat(p) ==
    /\ pc[p] \in {"reuse.writedat", "replace.writedat"}
    /\ dat' = [dat EXCEPT ![db[p].datoff].data = call[p].data]
    /\ db' = [db EXCEPT ![p].datlen = DatLen[call[p].data]]
    /\ Goto(p, IF pc[p] = "reuse.writedat" THEN "reuse.writeidx" ELSE "unlock")
    /\ UNCHANGED <<table, idx, lock, loc, client>>

\* _db_writeidx(SEEK_SET) in db_store(): into the free record.
StoreWriteIdx(p) ==
    /\ Transition(p, "reuse.writeidx", "store.writeptr")
    /\ idx' = WriteAt(idx, db[p].idxoff - NHASH,
                      IdxRecord(p, call[p].key, loc[p].ptrval))
    /\ db' = [db EXCEPT ![p].ptrval = loc[p].ptrval]
    /\ UNCHANGED <<table, dat, lock, loc, client>>

BUGStoreAnyPtr(p) ==
    /\ Transition(p, "store.writeptr", "unlock")
    /\ writeptr(chainoff(p), db[p].idxoff)
    /\ UNCHANGED <<dat, lock, db, loc, client>>

\* _db_writeptr() in db_store(): the record becomes the head of its hash chain;
\* ptrval is dead.
StoreWritePtr(p) ==
    /\ Transition(p, "store.writeptr", "unlock")
    /\ db[p].idxoff <= PTR_MAX
    /\ writeptr(chainoff(p), db[p].idxoff)
    /\ loc' = [loc EXCEPT ![p].ptrval = 0]
    /\ UNCHANGED <<dat, lock, db, client>>

\* _db_writeptr() in db_store() when the offset of the new record does not fit
\* the chain pointer: err_quit(), and the kernel drops the locks.  The index
\* record stays behind, on no list; a record that was to be replaced is gone.
StoreQuit(p) ==
    /\ Transition(p, "store.writeptr", "exited")
    /\ db[p].idxoff > PTR_MAX
    /\ unlock_all(p)
    /\ kv' = [kv EXCEPT ![call[p].key] = NULL]
    /\ call' = [call EXCEPT ![p] = EXITED]
    /\ db' = [db EXCEPT ![p] = NoDb]
    /\ loc' = [loc EXCEPT ![p] = NoLoc]
    /\ UNCHANGED <<files, calls, ret>>
----------------------------------------------------------------------------
Find(p) == FindLock(p) \/ FindReadPtr(p) \/ FindReadIdx(p)

DoDelete(p) ==
    \/ DelLock(p) \/ DelWriteDat(p) \/ DelReadFree(p) \/ DelWriteIdx(p)
    \/ DelWriteFree(p) \/ DelWritePtr(p) \/ DelUnlock(p)

FindFree(p) ==
    \/ FreeLock(p) \/ FreeReadPtr(p) \/ FreeReadIdx(p) \/ FreeWritePtr(p)
    \/ FreeUnlock(p)

AppendDat(p) ==
    \/ AppendDatLock(p) \/ AppendDatSeek(p) \/ AppendDatWrite(p) \/ AppendDatUnlock(p)

AppendIdx(p) ==
    \/ AppendIdxLock(p) \/ AppendIdxSeek(p) \/ AppendIdxWrite(p) \/ AppendIdxUnlock(p)

Store(p) ==
    \/ StoreHead(p) \/ StoreWriteDat(p) \/ StoreWriteIdx(p) \/ StoreWritePtr(p)
    \/ StoreQuit(p)

\* A step of process p inside a function.
Step(p) ==
    \/ Find(p) \/ FetchReadDat(p) \/ DoDelete(p) \/ FindFree(p)
    \/ AppendDat(p) \/ AppendIdx(p) \/ Store(p) \/ Unlock(p)

\* No process makes another call.
Finished ==
    /\ \A p \in Procs : pc[p] = "exited" \/ (pc[p] = "idle" /\ calls = MaxCalls)
    /\ UNCHANGED vars

Next == (\E p \in Procs : Call(p) \/ Step(p)) \/ Finished

\* The scheduler runs every process that is in a function; nothing makes a
\* process call one.
Spec == Init /\ [][Next]_vars /\ \A p \in Procs : WF_vars(Step(p))
=============================================================================
