------------------------------ MODULE DbProps ------------------------------
(***************************************************************************)
(* The properties of Db.                                                   *)
(***************************************************************************)
EXTENDS Db, FiniteSets

Labels ==
    {"idle", "find", "find.readptr", "find.readidx", "fetch.readdat",
     "dodelete", "dodelete.writedat", "dodelete.readptr", "dodelete.writeidx",
     "dodelete.writefree", "dodelete.writeptr", "dodelete.unlock",
     "store.head", "store.rehead", "findfree", "findfree.readptr",
     "findfree.readidx", "findfree.writeptr", "findfree.unlock",
     "append.datlock", "append.datseek", "append.datwrite", "append.datunlock",
     "append.idxlock", "append.idxseek", "append.idxwrite", "append.idxunlock",
     "reuse.writedat", "reuse.writeidx", "replace.writedat", "store.writeptr",
     "unlock", "exited"}

Ptr == 0..PTR_MAX
Result == Data \cup {BLANK, NULL, -1, 0, 1}

IdxRec == [ptr : Ptr, key : Keys \cup {BLANK}, keylen : Nat, datoff : Nat, datlen : Nat]
DatRec == [data : Data \cup {BLANK}, size : Nat]

\* Types of the places the processes are at, of their locks and of the interface.
\* A key with blank data is what an interrupted deletion leaves behind (DbCrash).
ControlTypeOK ==
    /\ pc \in [Procs -> Labels]
    /\ lock \in [Regions -> [Procs -> {"none", "read", "write"}]]
    /\ calls \in 0..MaxCalls
    /\ kv \in [Keys -> Data \cup {BLANK, NULL}]
    /\ call \in [Procs -> Requests \cup {NULL, EXITED}]

\* Types of the files and of what the processes remember of them.
FileTypeOK ==
    /\ table \in [0..NHASH -> Ptr]
    /\ idx \in Seq(IdxRec)
    /\ dat \in Seq(DatRec)
    /\ db \in [Procs -> [ptroff : Nat, idxoff : Nat, datoff : Nat, datlen : Nat,
                         ptrval : Ptr]]
    /\ loc \in [Procs -> [offset : Ptr, saveoffset : Nat, freeptr : Ptr,
                          saveptr : Ptr, ptrval : Ptr, rc : Result]]
    /\ ret \in [Procs -> Result]

\* Every variable has its type, and every pointer in the files and in the
\* processes fits a pointer field.  The check of ptrval in _db_writeidx()
\* (writeidx.c:17) therefore never fails, and neither do those of the calls of
\* _db_writeptr() in _db_dodelete() and _db_findfree().
TypeOK == ControlTypeOK /\ FileTypeOK /\ kv \in [Keys -> Data \cup {NULL}]
----------------------------------------------------------------------------
\* The steps between a lock and its unlock.
FreeLocked ==
    {"dodelete.writedat", "dodelete.readptr", "dodelete.writeidx",
     "dodelete.writefree", "dodelete.writeptr", "dodelete.unlock",
     "findfree.readptr", "findfree.readidx", "findfree.writeptr", "findfree.unlock"}
DatLocked == {"append.datseek", "append.datwrite", "append.datunlock"}
TailLocked == {"append.idxseek", "append.idxwrite", "append.idxunlock"}
Outside == {"idle", "find", "exited"}

\* The regions that process p should have locked, and how.
Held(p, r) ==
    \/ pc[p] \notin Outside /\ r = chainoff(p)
    \/ pc[p] \in FreeLocked /\ r = FREE_OFF
    \/ pc[p] \in TailLocked /\ r = IDX_TAIL
    \/ pc[p] \in DatLocked /\ r = DATFILE

LockOf(p, r) ==
    IF ~Held(p, r) THEN "none" ELSE IF call[p].fn = "fetch" THEN "read" ELSE "write"

\* On every path through the functions, early returns and exits included, the
\* locks a process has are those its place in the code calls for: it has one
\* hash chain locked from _db_find() to the end, the free list and the ends of
\* the files only inside the functions that lock them, and nothing after it
\* returned or exited.  A write lock excludes every other lock.
LockDiscipline ==
    /\ \A p \in Procs, r \in Regions : lock[r][p] = LockOf(p, r)
    /\ \A p, q \in Procs, r \in Regions :
          p # q /\ lock[r][p] = "write" => lock[r][q] = "none"

----------------------------------------------------------------------------
\* The offsets of the records on the list that starts at offset off.
List(off) ==
    LET reach[n \in 0..Len(idx)] ==
            IF n = 0 THEN {off} \ {0}
            ELSE reach[n - 1] \cup ({readptr(o) : o \in reach[n - 1]} \ {0})
    IN  reach[Len(idx)]

WriteLocked(r) == \E p \in Procs : lock[r][p] = "write"

\* The lists that nobody is changing: their heads.
QuietHeads == {off \in 0..NHASH : ~WriteLocked(off)}

\* On a hash chain that no process has write locked, every key is there once
\* and with its current data, or not there when it has none: nothing that
\* db_store() and db_delete() do to the files, to this chain, to other chains
\* or to the free list, loses or duplicates a record or shows another datum.
ChainsHoldMap ==
    \A k \in Keys :
        LET chain == Hash[k]
            hits == {o \in List(readptr(chain)) : readidx(o).key = k}
        IN  ~WriteLocked(chain) =>
                \/ kv[k] = NULL /\ hits = {}
                \/ \E o \in hits : hits = {o} /\ dat[readidx(o).datoff].data = kv[k]

\* Lists that are not being changed have no record in common, and no list runs
\* back into itself: _db_find() and _db_findfree() reach the end of theirs.
\* The free list holds the deleted records and the chains hold no deleted one.
ListsDisjoint ==
    LET list == [a \in QuietHeads |-> List(readptr(a))]
    IN  \A a \in QuietHeads :
            /\ \A o \in list[a] : o \notin List(readptr(o))
            /\ \A o \in list[a] : (readidx(o).key = BLANK) = (a = FREE_OFF)
            /\ \A b \in QuietHeads \ {a} : list[a] \cap list[b] = {}

\* When no process is in a function and none was ended by an error, every index
\* record is on a hash chain or on the free list: deletion and reuse leak no
\* space.
NoLeak ==
    (\A p \in Procs : pc[p] = "idle") =>
        Cardinality(UNION {List(readptr(a)) : a \in 0..NHASH}) = Len(idx)

\* Every index record has a data record of its own, of the length it says, and
\* data written over an old record is exactly as long: no db_store() writes
\* into its neighbour's data.
DataFits ==
    /\ \A i, j \in DOMAIN idx : i # j => idx[i].datoff # idx[j].datoff
    /\ \A i \in DOMAIN idx : dat[idx[i].datoff].size = idx[i].datlen
    /\ \A i \in DOMAIN dat : dat[i].data = BLANK \/ DatLen[dat[i].data] = dat[i].size

\* "We're guaranteed that db->ptroff contains the offset of the chain ptr that
\* points to this matching index record" (find.c:44): it still does when
\* _db_dodelete() relies on it, whatever other processes did since the record
\* was found, and so does the pointer that _db_findfree() unlinks through.
UnlinkIsCurrent ==
    \A p \in Procs :
        /\ pc[p] \in {"dodelete", "dodelete.writedat", "dodelete.readptr",
                      "dodelete.writeidx", "dodelete.writefree", "dodelete.writeptr"}
              => readptr(db[p].ptroff) = db[p].idxoff
        /\ pc[p] = "findfree.writeptr"
              => readptr(loc[p].saveoffset) = db[p].idxoff

\* "We have to lock before doing the lseek() and write() to make the two an
\* atomic operation" (writedat.c:13, writeidx.c:26): at the write() the offset
\* is still the end of the file, so an append overwrites nothing.
AppendAtEnd ==
    \A p \in Procs :
        /\ pc[p] = "append.datwrite" => db[p].datoff = Len(dat) + 1
        /\ pc[p] = "append.idxwrite" => db[p].idxoff = NHASH + Len(idx) + 1

\* What a process that has a hash chain locked finds in it changes by its own
\* steps only: the file writes of other processes, which hold other chains and
\* from time to time the free list, never reach a record of this chain.
OwnChainOnly ==
    files' # files =>
        \A p \in Procs, h \in Chains :
            lock[h][p] # "none" /\ pc'[p] = pc[p] =>
                LET chain == List(readptr(h))
                IN  /\ List(readptr(h))' = chain
                    /\ \A o \in chain : idx'[o - NHASH] = idx[o - NHASH]
                    /\ \A o \in chain :
                          dat'[readidx(o).datoff] = dat[readidx(o).datoff]

OwnChainOnlyProp == [][OwnChainOnly]_vars

\* The three functions act on the database as on a map, one call after the
\* other, with the results their comments promise; an exit in a db_store()
\* costs no key but the one it was storing.
Linearizable == Abs!Spec
=============================================================================
