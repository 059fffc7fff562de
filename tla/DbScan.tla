------------------------------- MODULE DbScan -------------------------------
(***************************************************************************)
(* db_rewind() and db_nextrec() of apue/db.lock.fine: one of the processes *)
(* of Db, the scanner, steps through the index records while the Callers   *)
(* call db_fetch(), db_store() and db_delete().  The place of the scan is  *)
(* nothing but the file offset of the scanner's descriptor of the index    *)
(* file, which every other function called on the same handle moves too.   *)
(***************************************************************************)
EXTENDS Db, FiniteSets

CONSTANTS
    scanner,    \* the process that scans
    Callers,    \* the processes that call the other functions
    INSIDE      \* a file offset at which no index record starts

VARIABLES
    pos,        \* the file offset of the scanner's descriptor of the index file
    key, ptr,   \* the key and the data that db_nextrec() is about to return
    got,        \* got[k]: how often the scan has returned key k
    still,      \* the keys nobody stored or deleted since the scan began
    recent,     \* the pairs in the database at a moment of this db_nextrec()
    mixed       \* has the handle been used for another function since db_rewind()?

handle == <<pos, key, ptr>>
history == <<got, still, recent, mixed>>
scanVars == <<vars, handle, history>>

ASSUME ScanAssumption ==
    scanner \in Procs /\ Callers \subseteq Procs /\ INSIDE \notin Int /\ BLANK # NULL

FIRST == NHASH + 1

\* The keys that calls in progress may change.
Changing ==
    {call[p].key : p \in {q \in Procs : /\ call[q] \in Requests
                                        /\ call[q].fn \in {"store", "delete"}}}

\* The index records that stores left behind when they ended because the offset
\* does not fit a pointer: in the file for good, on no list.
LeftBehind ==
    {o \in FIRST .. NHASH + Len(idx) :
        /\ o > PTR_MAX
        /\ \A p \in Procs : pc[p] \in {"append.idxunlock", "store.writeptr"} =>
                                db[p].idxoff # o}

\* The pairs that a reader may see: what is in the database, the stores in
\* progress that will not be refused, and the records left behind.
Current ==
    {<<k, kv[k]>> : k \in Keys} \cup
    {<<call[p].key, call[p].data>> :
        p \in {q \in Procs : /\ call[q] \in Requests
                             /\ call[q].fn = "store"
                             /\ ~Abs!Refused(kv, call[q])}} \cup
    {<<readidx(o).key, dat[readidx(o).datoff].data>> : o \in LeftBehind}

InNextrec == {"nextrec.readidx", "nextrec.readdat", "nextrec.unlock"}

\* What every step adds to the history of the scan and of its current call.
Observe ==
    /\ still' = still \ Changing'
    /\ recent' = IF pc'[scanner] \in InNextrec THEN recent \cup Current' ELSE {}

\* The offset that a step of another function leaves behind: after a pointer
\* field, or after the index record that was read or written.
PosAfter(p) ==
    IF pc[p] \in {"find.readptr", "dodelete.readptr", "dodelete.writefree",
                  "dodelete.writeptr", "store.head", "store.rehead",
                  "findfree.readptr", "findfree.writeptr", "store.writeptr"}
    THEN INSIDE
    ELSE IF pc[p] \in {"find.readidx", "findfree.readidx"} THEN loc[p].offset + 1
    ELSE IF pc[p] \in {"dodelete.writeidx", "reuse.writeidx", "append.idxwrite"}
    THEN db[p].idxoff + 1
    ELSE IF pc[p] = "append.idxseek" THEN FIRST + Len(idx)
    ELSE pos

\* The other functions.
Other(p) ==
    /\ \/ p \in Callers /\ Call(p)
       \/ Step(p)
    /\ pos' = IF p = scanner THEN PosAfter(p) ELSE pos
    /\ mixed' = (mixed \/ p = scanner)
    /\ UNCHANGED <<key, ptr, got>>
    /\ Observe
----------------------------------------------------------------------------
ScanInit ==
    /\ Init
    /\ pos = FIRST
    /\ key = NULL
    /\ ptr = NULL
    /\ got = [k \in Keys |-> 0]
    /\ still = Keys
    /\ recent = {}
    /\ mixed = FALSE

\* db_rewind().
Rewind ==
    /\ pc[scanner] = "idle"
    /\ pos' = FIRST
    /\ got' = [k \in Keys |-> 0]
    /\ still' = Keys \ Changing
    /\ mixed' = FALSE
    /\ UNCHANGED <<vars, key, ptr, recent>>

BUGNextrecUnlocked ==
    /\ Transition(scanner, "idle", "nextrec.readidx")
    /\ UNCHANGED <<files, lock, db, loc, client, handle, got, mixed>>
    /\ Observe

\* db_nextrec(): read lock the free list.
NextrecLock ==
    /\ Transition(scanner, "idle", "nextrec.readidx")
    /\ readw_lock(scanner, FREE_OFF)
    /\ UNCHANGED <<files, db, loc, client, handle, got, mixed>>
    /\ Observe

BUGNextrecStops ==
    /\ pc[scanner] = "nextrec.readidx"
    /\ pos # INSIDE
    /\ IF pos = FIRST + Len(idx) \/ readidx(pos).key = BLANK
       THEN /\ Goto(scanner, "nextrec.unlock")
            /\ ptr' = NULL
            /\ UNCHANGED <<pos, key, db>>
       ELSE /\ pos' = pos + 1
            /\ db' = [db EXCEPT ![scanner] = AfterReadIdx(@, pos)]
            /\ key' = readidx(pos).key
            /\ Goto(scanner, "nextrec.readdat")
            /\ UNCHANGED ptr
    /\ UNCHANGED <<files, lock, loc, client, got, mixed>>
    /\ Observe

\* db_nextrec(): read the record at the file offset, the next one if its key is
\* blank, until the end of the file.
NextrecReadIdx ==
    /\ pc[scanner] = "nextrec.readidx"
    /\ pos # INSIDE
    /\ IF pos = FIRST + Len(idx)
       THEN /\ Goto(scanner, "nextrec.unlock")
            /\ ptr' = NULL
            /\ UNCHANGED <<pos, key, db>>
       ELSE /\ pos' = pos + 1
            /\ db' = [db EXCEPT ![scanner] = AfterReadIdx(@, pos)]
            /\ key' = readidx(pos).key
            /\ Goto(scanner, IF readidx(pos).key = BLANK
                             THEN "nextrec.readidx" ELSE "nextrec.readdat")
            /\ UNCHANGED ptr
    /\ UNCHANGED <<files, lock, loc, client, got, mixed>>
    /\ Observe

\* db_nextrec(): what is at the file offset is no record, _db_readidx() calls
\* err_dump().  (Not if the characters there happen to look like a record; the
\* keys of the model do not.)
NextrecDump ==
    /\ Transition(scanner, "nextrec.readidx", "exited")
    /\ pos = INSIDE
    /\ unlock_all(scanner)
    /\ UNCHANGED <<files, db, loc, client, handle, got, mixed>>
    /\ Observe

\* db_nextrec(): _db_readdat().
NextrecReadDat ==
    /\ Transition(scanner, "nextrec.readdat", "nextrec.unlock")
    /\ ptr' = dat[db[scanner].datoff].data
    /\ UNCHANGED <<files, lock, db, loc, client, pos, key, got, mixed>>
    /\ Observe

\* db_nextrec(): unlock the free list and return the key and the data, or NULL.
NextrecUnlock ==
    /\ Transition(scanner, "nextrec.unlock", "idle")
    /\ un_lock(scanner, FREE_OFF)
    /\ got' = IF ptr = NULL THEN got ELSE [got EXCEPT ![key] = @ + 1]
    /\ key' = NULL
    /\ ptr' = NULL
    /\ db' = [db EXCEPT ![scanner] = NoDb]
    /\ UNCHANGED <<files, loc, client, pos, mixed>>
    /\ Observe

Nextrec ==
    \/ NextrecLock \/ NextrecReadIdx \/ NextrecDump \/ NextrecReadDat \/ NextrecUnlock

ScanNext ==
    \/ \E p \in Procs : Other(p)
    \/ Rewind
    \/ Nextrec
    \/ Finished /\ UNCHANGED <<handle, history>>

ScanSpec == ScanInit /\ [][ScanNext]_scanVars
----------------------------------------------------------------------------
\* What db_nextrec() returns was in the database, key and data together, at
\* some moment of the call, or was being stored, or was left behind by a store
\* that ended: it shows no half-deleted record and no data of another key,
\* although it holds no hash chain.
NextrecReturnsStored ==
    pc[scanner] = "nextrec.unlock" /\ ptr # NULL => <<key, ptr>> \in recent

\* What the end of a scan should find: every record that nobody touched since
\* db_rewind() was returned exactly once, and nothing else that nobody touched
\* but the records left behind, once each.
Complete ==
    \A k \in still :
        got[k] = (IF kv[k] = NULL THEN 0 ELSE 1)
                 + Cardinality({o \in LeftBehind : readidx(o).key = k})

AtEnd == pc[scanner] = "nextrec.unlock" /\ ptr = NULL

\* A scan from db_rewind() to the end of the file with a handle that is used for
\* nothing else is complete, however other processes add, delete and reuse
\* records around it.
ScanComplete == AtEnd /\ ~mixed => Complete
=============================================================================
