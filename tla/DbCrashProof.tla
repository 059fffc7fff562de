---------------------------- MODULE DbCrashProof ----------------------------
(***************************************************************************)
(* Proofs about DbCrash, for any number of processes, keys, data, chains,  *)
(* calls and crashes.                                                      *)
(***************************************************************************)
EXTENDS DbCrash, DbProof

\* A kill changes nothing but the memory and the locks of the process, and the
\* map.
LEMMA CrashFacts ==
    ASSUME NEW p \in Procs, Control, FileInv, Crash(p)
    PROVE  /\ Others(p) /\ UNCHANGED files /\ calls' = calls
           /\ pc' \in [Procs -> Labels] /\ pc'[p] = "idle" /\ call'[p] = NULL
           /\ call' \in [Procs -> Requests \cup {NULL, EXITED}]
           /\ db'[p] = NoDb /\ loc'[p] = NoLoc
           /\ kv' = KvAfterCrash(p) /\ call[p] \in Requests
           /\ pc[p] \notin {"idle", "exited"}
<1>1. /\ pc \in [Procs -> Labels] /\ call \in [Procs -> Requests \cup {NULL, EXITED}]
      /\ MemoryTypeOK /\ CallOK(p)
  BY FileParts DEF Control, ControlTypeOK
<1>2. "idle" \in Labels
  BY DEF Labels
<1>3. pc[p] \notin {"idle", "exited"}
  BY <1>1, DbAssumption DEF CallOK, Crash
<1> QED BY <1>1, <1>2, <1>3 DEF Crash, Others, Goto, MemoryTypeOK

\* The map has a value for every key after it.
LEMMA KvAfterType ==
    ASSUME NEW p \in Procs, Control, FileInv, Crash(p)
    PROVE  kv' \in [Keys -> Data \cup {BLANK, NULL}]
<1>1. kv \in [Keys -> Data \cup {BLANK, NULL}] /\ call[p] \in Requests /\ kv' = KvAfterCrash(p)
  BY CrashFacts DEF Control, ControlTypeOK
<1>2. Abs!Effect(kv, call[p]) \in [Keys -> Data \cup {BLANK, NULL}]
  BY <1>1, RequestFn DEF Abs!Effect
<1>3. /\ [kv EXCEPT ![call[p].key] = BLANK] \in [Keys -> Data \cup {BLANK, NULL}]
      /\ [kv EXCEPT ![call[p].key] = NULL] \in [Keys -> Data \cup {BLANK, NULL}]
      /\ [k \in Keys |-> IF k \in CutOff(p) THEN NULL ELSE kv[k]] \in [Keys -> Data \cup {BLANK, NULL}]
  BY <1>1
<1> QED BY <1>1, <1>2, <1>3 DEF KvAfterCrash

\* Places, calls and locks: the kernel drops the locks of the process.
LEMMA CrashControl ==
    ASSUME NEW p \in Procs, Control, FileInv, Crash(p)
    PROVE  Control'
<1>1. /\ Others(p) /\ pc' \in [Procs -> Labels] /\ pc'[p] = "idle" /\ call'[p] = NULL
      /\ call' \in [Procs -> Requests \cup {NULL, EXITED}] /\ calls' = calls
      /\ kv' \in [Keys -> Data \cup {BLANK, NULL}]
  BY CrashFacts, KvAfterType
<1>2. /\ lock \in [Regions -> [Procs -> {"none", "read", "write"}]]
      /\ calls \in 0..MaxCalls /\ (\A q \in Procs : CallOK(q)) /\ LockDiscipline
  BY DEF Control, ControlTypeOK
<1>3. lock' = [r \in Regions |-> [lock[r] EXCEPT ![p] = "none"]]
  BY DEF Crash, unlock_all
<1>4. /\ lock' \in [Regions -> [Procs -> {"none", "read", "write"}]]
      /\ \A q \in Procs, r \in Regions : lock'[r][q] = IF q = p THEN "none" ELSE lock[r][q]
  BY <1>2, <1>3
<1>5. \A q \in Procs : CallOK(q)'
  BY <1>1, <1>2 DEF Others, CallOK, Storing, Deleting
<1>6. \A q \in Procs \ {p}, r \in Regions : LockOf(q, r)' = LockOf(q, r)
  BY <1>1 DEF Others, LockOf, Held, chainoff
<1>7. \A r \in Regions : LockOf(p, r)' = "none"
  BY <1>1 DEF LockOf, Held, Outside, FreeLocked, TailLocked, DatLocked
<1>8. LockDiscipline'
  BY <1>2, <1>4, <1>6, <1>7 DEF LockDiscipline
<1> QED BY <1>1, <1>2, <1>4, <1>5, <1>8 DEF Control, ControlTypeOK

\* The files stay as they are.
LEMMA CrashFiles ==
    ASSUME NEW p \in Procs, Control, FileInv, Crash(p)
    PROVE  FileInv'
<1>1. /\ Others(p) /\ UNCHANGED files /\ pc'[p] = "idle" /\ db'[p] = NoDb /\ loc'[p] = NoLoc
  BY CrashFacts
<1>2. MemoryTypeOK /\ NHASH \in Nat /\ PTR_MAX \in Nat
  BY FileParts, DbAssumption
<1>3. NoDb \in DbType /\ NoLoc \in LocType
  BY <1>2 DEF NoDb, NoLoc, DbType, LocType, Ptr, Result
<1>4. MemoryTypeOK'
  <2>1. NULL \in Result
    BY DEF Result
  <2> QED BY <1>2, <1>3, <2>1 DEF Crash, MemoryTypeOK
<1>5. LocalOK(p)'
  BY <1>1, <1>2 DEF LocalOK, HasRec, HasDat, NoDb, NoLoc, Target
<1>6. Keeps(p)
  BY <1>1 DEF Keeps, Others
<1> QED BY <1>1, <1>4, <1>5, <1>6, ReadStep

\* A step of CrashSpec is a kill, or one of Db.
LEMMA Steps ==
    ASSUME [CrashNext]_crashVars
    PROVE  (\E p \in Procs : Crash(p)) \/ [Next]_vars
  BY DEF CrashNext, crashVars, Next

\* However many processes are killed, and wherever: every process that is left
\* holds the locks that its place in the code calls for and no other, and every
\* pointer and every data offset in the index file, and every one that a process
\* has read, is that of a record in its file.
CrashSafe == Control /\ FileInv

THEOREM CrashesLeaveNoDanglingPointer == CrashSpec => []CrashSafe
<1>1. CrashInit => CrashSafe
  BY InitEmpty, EmptyFiles DEF CrashInit, CrashSafe
<1>2. CrashSafe /\ [CrashNext]_crashVars => CrashSafe'
  <2> SUFFICES ASSUME CrashSafe, [CrashNext]_crashVars PROVE CrashSafe'
    OBVIOUS
  <2>1. ASSUME NEW p \in Procs, Crash(p) PROVE CrashSafe'
    BY <2>1, CrashControl, CrashFiles DEF CrashSafe
  <2>2. CASE [Next]_vars
    BY <2>2, ControlStep, FileStep DEF CrashSafe
  <2> QED BY <2>1, <2>2, Steps
<1> QED BY <1>1, <1>2, PTL DEF CrashSpec
-----------------------------------------------------------------------------
\* A kill that tears no chain leaves the lists as they are, and a record behind
\* that the process had taken off the free list, or appended.
Behind(p) == IF HasNew(p) THEN {db[p].idxoff} ELSE {}

\* The map after it is what the chains show.
LEMMA KvShown ==
    ASSUME NEW p \in Procs, NEW own, NEW dep, NEW left, Control, FileInv, Good(own, dep, left),
           Crash(p), pc[p] \notin Tearing
    PROVE  /\ \A k \in Keys : kv'[k] = kv[k] \/ (k = call[p].key /\ Owns(p, Hash[k]))
           /\ \A k \in Keys : \A v : v = kv'[k] =>
                (~Busy(p, k) /\ v = kv[k]) \/ Shows(own, k, v)
<1>0. PICK k : k = call[p].key
  OBVIOUS
<1>1. /\ kv' = KvAfterCrash(p) /\ kv \in [Keys -> Data \cup {BLANK, NULL}] /\ call[p] \in Requests
      /\ pc[p] \notin {"idle", "exited"} /\ k \in Keys /\ call[p].fn \in {"fetch", "delete", "store"}
      /\ At(own, dep, p) /\ CallOK(p)
  BY <1>0, CrashFacts, RequestFn DEF Control, ControlTypeOK, Good
<1>2. CASE pc[p] = "unlock"
  <2>1. kv' = Abs!Effect(kv, call[p])
    BY <1>1, <1>2 DEF KvAfterCrash
  <2>2. \A j \in Keys : j # k \/ call[p].fn = "fetch" => kv'[j] = kv[j]
    BY <1>0, <1>1, <2>1 DEF Abs!Effect
  <2>3. Shows(own, k, kv'[k])
    BY <1>0, <1>1, <1>2, <2>1 DEF At, Done
  <2>4. call[p].fn # "fetch" => Owns(p, Hash[k])
    BY <1>0, <1>2, HeldLists DEF Outside, chainoff
  <2> QED BY <1>0, <2>2, <2>3, <2>4 DEF Busy
<1>3. CASE pc[p] \in {"dodelete.readptr", "dodelete.writeidx"}
  <2>1. kv' = [kv EXCEPT ![k] = BLANK] /\ pc[p] \in AtRec /\ pc[p] \in Deleting
    BY <1>0, <1>1, <1>3 DEF KvAfterCrash, AtRec, Deleting
  <2>2. kv'[k] = BLANK /\ \A j \in Keys : j # k => kv'[j] = kv[j]
    BY <1>1, <2>1
  <2>3. /\ Hit(own, k, db[p].idxoff) /\ dat[readidx(db[p].idxoff).datoff].data = BLANK
    BY <1>0, <1>1, <1>3, <2>1 DEF At, AtRecord
  <2>4. Shows(own, k, BLANK)
    BY <2>3, CrashAssumption DEF Shows, Hit
  <2>5. Owns(p, Hash[k])
    BY <1>0, <2>1, HeldLists DEF chainoff
  <2> QED BY <1>0, <2>2, <2>4, <2>5 DEF Busy
<1>4. CASE pc[p] \in NotStored
  <2>1. pc[p] \in Deleting \cup Storing /\ pc[p] \in Gone
    BY <1>4 DEF NotStored, Gone, Deleting, Storing, DatLocked, TailLocked
  <2>2. pc[p] \notin {"unlock", "dodelete.readptr", "dodelete.writeidx"} \cup Tearing
    BY <1>4 DEF NotStored, Tearing, DatLocked, TailLocked
  <2>3. kv' = [kv EXCEPT ![k] = NULL]
    BY <1>0, <1>1, <1>4, <2>2 DEF KvAfterCrash
  <2>4. kv'[k] = NULL /\ \A j \in Keys : j # k => kv'[j] = kv[j]
    BY <1>1, <2>3
  <2>5. Shows(own, k, NULL)
    BY <1>0, <1>1, <2>1 DEF At, Missing, Shows
  <2>6. Owns(p, Hash[k])
    BY <1>0, <2>1, HeldLists DEF chainoff
  <2> QED BY <1>0, <2>4, <2>5, <2>6 DEF Busy
<1>5. CASE pc[p] \notin {"unlock", "dodelete.readptr", "dodelete.writeidx"} \cup NotStored
  <2>1. kv' = kv
    BY <1>1, <1>5 DEF KvAfterCrash
  <2>2. pc[p] \in Changing => pc[p] \in Tearing
    BY <1>5 DEF Changing, NotStored, Tearing, Storing, DatLocked, TailLocked
  <2> QED BY <2>1, <2>2 DEF Busy
<1> QED BY <1>2, <1>3, <1>4, <1>5

LEMMA CrashGood ==
    ASSUME NEW p \in Procs, NEW own, NEW dep, NEW left, Control, FileInv, Good(own, dep, left),
           Crash(p), pc[p] \notin Tearing,
           NEW left2, left2 = left \cup Behind(p)
    PROVE  Good(own, dep, left2)'
<1>1. /\ Others(p) /\ UNCHANGED files /\ pc'[p] = "idle"
      /\ pc[p] \notin {"idle", "exited"} /\ NewRecs(own, left)
  BY CrashFacts DEF Good
<1>2. /\ table' = table /\ idx' = idx /\ dat' = dat /\ Recs' = Recs
  BY <1>1, DatWritten DEF files
<1>3. kv' \in [Keys -> Data \cup {BLANK, NULL}]
  BY KvAfterType
<1>4. \A k \in Keys : kv'[k] = kv[k] \/ (k = call[p].key /\ Owns(p, Hash[k]))
  BY KvShown
<1>5. \A k \in Keys : \A v : v = kv'[k] =>
         Busy(p, k)' \/ (~Busy(p, k) /\ v = kv[k]) \/ Shows(own, k, v)
  BY KvShown
<1>6. ~HasNew(p)' /\ pc'[p] \notin HasDat
  BY <1>1 DEF HasNew, HasDat
<1>7. \A q \in Procs \ {p} : (HasNew(q)' <=> HasNew(q)) /\ db'[q] = db[q] /\ pc'[q] = pc[q]
  BY <1>1 DEF HasNew, Others
<1>8. NewRecs(own, left2)'
  <2>1. \A r \in left2 : r \in Recs' /\ own[r] = Nowhere
    BY <1>1, <1>2 DEF NewRecs, Behind
  <2>2. ASSUME NEW q \in Procs, HasNew(q)'
        PROVE  db'[q].idxoff \in Recs' /\ own[db'[q].idxoff] = Nowhere /\ db'[q].idxoff \notin left2
    <3>1. q # p /\ HasNew(q) /\ db'[q] = db[q]
      BY <1>6, <1>7, <2>2
    <3> QED BY <1>1, <1>2, <3>1 DEF NewRecs, Behind
  <2>3. \A q1, q2 \in Procs : q1 # q2 /\ HasNew(q1)' /\ HasNew(q2)' => db'[q1].idxoff # db'[q2].idxoff
    BY <1>1, <1>6, <1>7 DEF NewRecs
  <2>4. ASSUME NEW r \in Recs' \ left2, own[r] = Nowhere
        PROVE  \E q \in Procs : \/ pc'[q] = "exited" /\ r > PTR_MAX
                                \/ HasNew(q)' /\ db'[q].idxoff = r
    <3>1. PICK q \in Procs : \/ pc[q] = "exited" /\ r > PTR_MAX
                             \/ HasNew(q) /\ db[q].idxoff = r
      BY <1>1, <1>2, <2>4 DEF NewRecs
    <3>2. q # p
      BY <1>1, <2>4, <3>1 DEF Behind
    <3> QED BY <1>7, <3>1, <3>2
  <2> QED BY <2>1, <2>2, <2>3, <2>4 DEF NewRecs
<1>9. At(own, dep, p)'
  <2>1. /\ Finding(own, dep, p)' /\ AtRecord(own, dep, p)' /\ Missing(own, p)'
        /\ Saved(own, dep, p)' /\ Freed(own, dep, p)' /\ Unlinking(own, dep, p)'
        /\ Heading(own, dep, p)' /\ Searching(own, dep, p)' /\ Taking(own, dep, p)'
    BY <1>1 DEF Finding, AtRecord, AtRec, Missing, Gone, Saved, Freed, Unlinking, Heading, Heads,
       Storing, Searching, Taking
  <2>2. /\ Reusing(p)' /\ Replacing(p)' /\ Measured(p)' /\ Filled(p)' /\ Written(p)'
        /\ Replying(p)' /\ Done(own, p)'
    BY <1>1 DEF Reusing, Reuses, Replacing, Measured, HasDat, Filled, Written, Replying, Storing,
       Deleting, Done
  <2> QED BY <2>1, <2>2 DEF At
<1>10. pc[p] \notin {"exited", "dodelete.writefree", "dodelete.writeptr"}
  BY <1>1 DEF Tearing
<1> QED BY <1>1, <1>3, <1>4, <1>5, <1>6, <1>8, <1>9, <1>10, MemKept

\* As long as no kill has torn a chain, some records may be behind, and all that
\* holds for Db holds for the others.
Untorn == torn = {} => \E left : MapInv(left)

LEMMA UntornStep == CrashSafe /\ Untorn /\ [CrashNext]_crashVars => Untorn'
<1> SUFFICES ASSUME CrashSafe, Untorn, [CrashNext]_crashVars, torn' = {}
             PROVE  (\E left : MapInv(left))'
  BY DEF Untorn
<1>1. ASSUME NEW p \in Procs, Crash(p) PROVE (\E left : MapInv(left))'
  <2>1. pc[p] \notin Tearing /\ torn = {}
    BY <1>1 DEF Crash
  <2>2. PICK left, own, dep : Good(own, dep, left)
    BY <2>1 DEF Untorn, MapInv
  <2>3. PICK left2 : left2 = left \cup Behind(p)
    OBVIOUS
  <2>4. Good(own, dep, left2)'
    BY <1>1, <2>1, <2>2, <2>3, CrashGood DEF CrashSafe
  <2> QED BY <2>4 DEF MapInv
<1>2. CASE ~\E p \in Procs : Crash(p)
  <2>1. torn' = torn /\ [Next]_vars
    BY <1>2 DEF CrashNext, crashVars, Follow, Next
  <2>2. PICK left : MapInv(left)
    BY <2>1 DEF Untorn
  <2>3. MapInv(left)'
    BY <2>1, <2>2, EveryStepGood DEF CrashSafe
  <2> QED BY <2>3
<1> QED BY <1>1, <1>2

\* Processes may be killed anywhere but in a deletion between the write of its
\* index record and that of the chain pointer (Tearing: dodelete.c:43-46 and
\* 46-53), any number of them: every chain then holds the map, no list meets
\* another or itself, every record has its data, and every deletion and every
\* reuse unlinks the record that it means to.
UntornSound == torn = {} => ChainsHoldMap /\ ListsDisjoint /\ DataFits /\ UnlinkIsCurrent

THEOREM UntornFilesAreSound == CrashSpec => []UntornSound
<1>1. CrashInit => Untorn
  BY InitEmpty, EmptyGood DEF CrashInit, Untorn
<1>2. CrashSpec => []Untorn
  BY <1>1, UntornStep, CrashesLeaveNoDanglingPointer, PTL DEF CrashSpec
<1>3. CrashSafe /\ Untorn => UntornSound
  <2> SUFFICES ASSUME CrashSafe, Untorn, torn = {}
               PROVE  ChainsHoldMap /\ ListsDisjoint /\ DataFits /\ UnlinkIsCurrent
    BY DEF UntornSound
  <2>1. PICK left : MapInv(left)
    BY DEF Untorn
  <2> QED BY <2>1, MapOnChains, DisjointLists, FitsData, CurrentLinks DEF CrashSafe
<1> QED BY <1>2, <1>3, CrashesLeaveNoDanglingPointer, PTL
-----------------------------------------------------------------------------
\* What is behind a pointer that leads off its chain is nobody's business: the
\* files, and what the processes have read in them, with 0 in place of every such
\* pointer, and with a process that follows one already at the end of its chain,
\* are a state of Db again.

\* Process p is behind such a pointer in _db_find().
Walking(p) == p \in lost /\ pc[p] = "find.readidx"

OnTorn(p) == pc[p] \notin Outside /\ chainoff(p) \in torn

\* It has such a pointer as the first of its chain, as that of its record, or as
\* that which it saves.
HeadCopy(p) == OnTorn(p) /\ pc[p] \in Heads /\ chainoff(p) \in astray
RecCopy(p) ==
    /\ OnTorn(p) /\ pc[p] \notin {"find.readptr", "find.readidx"}
    /\ db[p].idxoff \in astray \/ (pc[p] = "append.idxwrite" /\ chainoff(p) \in astray)
SaveCopy(p) ==
    /\ OnTorn(p)
    /\ \/ pc[p] = "dodelete.writeidx" /\ db[p].idxoff \in astray
       \/ pc[p] \in Tearing /\ p \in lost

vTable == [o \in 0..NHASH |-> IF o \in astray THEN 0 ELSE table[o]]
vIdx == [i \in 1..Len(idx) |->
           IF NHASH + i \in astray THEN [idx[i] EXCEPT !.ptr = 0] ELSE idx[i]]
vPc == [p \in Procs |-> IF Walking(p) THEN NotFound(call[p]).pc ELSE pc[p]]
vDb == [p \in Procs |->
          IF Walking(p) THEN NoDb
          ELSE IF RecCopy(p) THEN [db[p] EXCEPT !.ptrval = 0] ELSE db[p]]
vLoc == [p \in Procs |->
           IF Walking(p) THEN [NoLoc EXCEPT !.rc = NotFound(call[p]).rc]
           ELSE IF HeadCopy(p) THEN [loc[p] EXCEPT !.ptrval = 0]
           ELSE IF SaveCopy(p) THEN [loc[p] EXCEPT !.saveptr = 0]
           ELSE loc[p]]

View == INSTANCE DbProof WITH pc <- vPc, table <- vTable, idx <- vIdx, db <- vDb, loc <- vLoc

\* The constants of Db are those of this instance.
LEMMA SameConstants ==
    /\ View!Chains = Chains /\ View!Regions = Regions /\ View!Labels = Labels
    /\ View!NoDb = NoDb /\ View!NoLoc = NoLoc /\ View!Ptr = Ptr
    /\ NHASH \in Nat \ {0} /\ PTR_MAX \in Nat /\ MaxCalls \in Nat
    /\ Hash \in [Keys -> View!Chains]
    /\ KeyLen \in [Keys -> Nat]
    /\ DatLen \in [Data -> Nat]
    /\ Requests \subseteq View!Abs!Request
    /\ NULL \notin Data /\ BLANK \notin Keys \cup Data
    /\ NULL \notin View!Abs!Request /\ EXITED \notin View!Abs!Request /\ NULL # EXITED
<1>1. View!Chains = Chains /\ View!Abs!Request = Abs!Request
  BY DEF View!Abs!Request, Abs!Request, View!Chains, Chains, View!Abs!DB_INSERT,
     View!Abs!DB_REPLACE, Abs!DB_INSERT, Abs!DB_REPLACE
<1>2. /\ View!Regions = Regions /\ View!Labels = Labels /\ View!NoDb = NoDb /\ View!NoLoc = NoLoc
      /\ View!Ptr = Ptr
  BY DEF View!Regions, Regions, View!DATFILE, DATFILE, View!Labels, Labels, View!NoDb, NoDb,
     View!NoLoc, NoLoc, View!Ptr, Ptr
<1> QED BY <1>1, <1>2, DbAssumption

\* The view of the files.
LEMMA ViewFiles ==
    ASSUME CrashSafe
    PROVE  /\ View!Recs = Recs /\ View!Target = Target /\ Len(vIdx) = Len(idx)
           /\ vTable \in [0..NHASH -> Ptr] /\ vIdx \in Seq(IdxRec)
           /\ \A o \in 0..NHASH \cup Recs : View!readptr(o) = IF o \in astray THEN 0 ELSE readptr(o)
           /\ \A o \in Recs :
                 /\ View!readidx(o).key = readidx(o).key
                 /\ View!readidx(o).keylen = readidx(o).keylen
                 /\ View!readidx(o).datoff = readidx(o).datoff
                 /\ View!readidx(o).datlen = readidx(o).datlen
                 /\ View!readidx(o).ptr = View!readptr(o)
<1>0. /\ NHASH \in Nat /\ PTR_MAX \in Nat /\ 0 \in Ptr /\ idx \in Seq(IdxRec) /\ Len(idx) \in Nat
      /\ table \in [0..NHASH -> Ptr]
  BY DbAssumption DEF CrashSafe, FileInv, FileTypeOK, Ptr
<1>1. \A i \in 1..Len(idx) : idx[i] \in IdxRec
  BY <1>0
<1>2. \A i \in 1..Len(idx) : vIdx[i] \in IdxRec
  BY <1>0, <1>1 DEF vIdx, IdxRec
<1>3. DOMAIN vIdx = 1..Len(idx) /\ vIdx = [i \in 1..Len(idx) |-> vIdx[i]]
  BY DEF vIdx
<1>4. vIdx \in Seq(IdxRec) /\ Len(vIdx) = Len(idx)
  BY <1>0, <1>2, <1>3
<1>5. View!Recs = Recs /\ View!Target = Target
  BY <1>4, SameConstants DEF View!Recs, Recs, View!Target, Target
<1>6. vTable \in [0..NHASH -> Ptr]
  BY <1>0 DEF vTable
<1>7. \A o \in Recs : /\ o \notin 0..NHASH /\ o \in Nat /\ o - NHASH \in 1..Len(idx)
                      /\ NHASH + (o - NHASH) = o
  BY <1>0 DEF Recs
<1>8. ASSUME NEW o \in Recs
      PROVE  /\ View!readptr(o) = IF o \in astray THEN 0 ELSE readptr(o)
             /\ View!readidx(o).key = readidx(o).key
             /\ View!readidx(o).keylen = readidx(o).keylen
             /\ View!readidx(o).datoff = readidx(o).datoff
             /\ View!readidx(o).datlen = readidx(o).datlen
             /\ View!readidx(o).ptr = View!readptr(o)
  <2>1. PICK i \in 1..Len(idx) : i = o - NHASH /\ NHASH + i = o
    BY <1>7
  <2>2. /\ View!readptr(o) = vIdx[i].ptr /\ readptr(o) = idx[i].ptr
        /\ View!readidx(o) = vIdx[i] /\ readidx(o) = idx[i]
    BY <1>7, <2>1 DEF View!readptr, readptr, View!readidx, readidx
  <2>3. vIdx[i] = IF o \in astray THEN [idx[i] EXCEPT !.ptr = 0] ELSE idx[i]
    BY <2>1 DEF vIdx
  <2>4. idx[i] \in IdxRec
    BY <1>1
  <2> QED BY <2>2, <2>3, <2>4 DEF IdxRec
<1>9. \A o \in 0..NHASH : View!readptr(o) = IF o \in astray THEN 0 ELSE readptr(o)
  BY DEF View!readptr, readptr, vTable
<1> QED BY <1>4, <1>5, <1>6, <1>8, <1>9

\* The view of a process.
LEMMA ViewProc ==
    ASSUME NEW p \in Procs
    PROVE  /\ Walking(p) =>
                /\ vPc[p] = NotFound(call[p]).pc /\ vDb[p] = NoDb
                /\ vLoc[p] = [NoLoc EXCEPT !.rc = NotFound(call[p]).rc]
           /\ ~Walking(p) =>
                /\ vPc[p] = pc[p]
                /\ vDb[p] = IF RecCopy(p) THEN [db[p] EXCEPT !.ptrval = 0] ELSE db[p]
                /\ vLoc[p] = IF HeadCopy(p) THEN [loc[p] EXCEPT !.ptrval = 0]
                             ELSE IF SaveCopy(p) THEN [loc[p] EXCEPT !.saveptr = 0]
                             ELSE loc[p]
  BY DEF vPc, vDb, vLoc

\* Where a search ends that finds nothing.
LEMMA NotFoundPc ==
    ASSUME NEW r
    PROVE  /\ NotFound(r).pc \in {"unlock", "store.head"}
           /\ NotFound(r).rc \in {NULL, -1, 0}
           /\ NotFound(r).pc = "store.head" => r.fn # "fetch" /\ r.fn # "delete"
  BY DEF NotFound

\* The view is a state of Db with regard to places, calls and locks, ...
LEMMA ViewControl == CrashSafe => View!Control
<1> SUFFICES ASSUME CrashSafe PROVE View!Control
  OBVIOUS
<1>1. /\ pc \in [Procs -> Labels] /\ call \in [Procs -> Requests \cup {NULL, EXITED}]
      /\ (\A p \in Procs : CallOK(p)) /\ LockDiscipline /\ ControlTypeOK
  BY DEF CrashSafe, Control, ControlTypeOK
<1>2. ASSUME NEW p \in Procs
      PROVE  /\ vPc[p] \in Labels
             /\ vPc[p] = pc[p]
                \/ (pc[p] = "find.readidx" /\ vPc[p] = NotFound(call[p]).pc)
  BY <1>1, ViewProc, NotFoundPc DEF Walking, Labels
<1>3. View!ControlTypeOK
  BY <1>1, <1>2, SameConstants DEF ControlTypeOK, View!ControlTypeOK, vPc
<1>4. ASSUME NEW p \in Procs PROVE View!CallOK(p)
  <2>1. CallOK(p)
    BY <1>1
  <2>2. CASE vPc[p] = pc[p]
    BY <2>1, <2>2 DEF CallOK, View!CallOK, Storing, View!Storing, Deleting, View!Deleting
  <2>3. CASE pc[p] = "find.readidx" /\ vPc[p] = NotFound(call[p]).pc
    <3>1. call[p] \in Requests
      BY <2>1, <2>3 DEF CallOK
    <3>2. call[p].fn \in {"fetch", "delete", "store"}
      BY <3>1, RequestFn
    <3> QED BY <2>3, <3>1, <3>2, NotFoundPc DEF View!CallOK, View!Storing, View!Deleting
  <2> QED BY <1>2, <2>2, <2>3
<1>5. ASSUME NEW p \in Procs, NEW r \in Regions PROVE View!LockOf(p, r) = LockOf(p, r)
  <2>1. (vPc[p] \in Outside <=> pc[p] \in Outside) /\ (vPc[p] \in FreeLocked <=> pc[p] \in FreeLocked)
        /\ (vPc[p] \in TailLocked <=> pc[p] \in TailLocked)
        /\ (vPc[p] \in DatLocked <=> pc[p] \in DatLocked)
    BY <1>2, NotFoundPc DEF Outside, FreeLocked, TailLocked, DatLocked
  <2>2. View!Held(p, r) <=> Held(p, r)
    BY <2>1 DEF View!Held, Held, View!Outside, Outside, View!FreeLocked, FreeLocked,
       View!TailLocked, TailLocked, View!DatLocked, DatLocked, View!chainoff, chainoff,
       View!FREE_OFF, FREE_OFF, View!IDX_TAIL, IDX_TAIL, View!DATFILE, DATFILE
  <2> QED BY <2>2 DEF View!LockOf, LockOf
<1>6. View!LockDiscipline
  BY <1>1, <1>5, SameConstants DEF LockDiscipline, View!LockDiscipline
<1> QED BY <1>3, <1>4, <1>6 DEF View!Control

\* ... and to the types and the ends of the files.
LEMMA ViewFileInv == CrashSafe => View!FileInv
<1> SUFFICES ASSUME CrashSafe PROVE View!FileInv
  OBVIOUS
<1>1. /\ FileTypeOK /\ FilesOK /\ (\A p \in Procs : LocalOK(p)) /\ AppendAtEnd
      /\ db \in [Procs -> DbType] /\ loc \in [Procs -> LocType]
  BY DEF CrashSafe, FileInv, FileTypeOK, DbType, LocType
<1>2. /\ View!Recs = Recs /\ View!Target = Target /\ Len(vIdx) = Len(idx)
      /\ vTable \in [0..NHASH -> Ptr] /\ vIdx \in Seq(IdxRec)
  BY ViewFiles
<1>3. NHASH \in Nat /\ PTR_MAX \in Nat /\ NoDb \in DbType /\ NULL \in Result /\ -1 \in Result /\ 0 \in Result
      /\ 0 \in Ptr /\ 0 \in Target /\ Len(idx) \in Nat
  BY <1>1, DbAssumption DEF NoDb, DbType, Ptr, Result, Target, FileTypeOK
<1>4. ASSUME NEW p \in Procs
      PROVE  /\ vDb[p] \in DbType /\ vLoc[p] \in LocType
             /\ Walking(p) =>
                  /\ vPc[p] \in {"unlock", "store.head"} /\ vDb[p] = NoDb
                  /\ vLoc[p].offset = 0 /\ vLoc[p].saveoffset = 0 /\ vLoc[p].freeptr = 0
                  /\ vLoc[p].saveptr = 0 /\ vLoc[p].ptrval = 0
             /\ ~Walking(p) =>
                  /\ vPc[p] = pc[p] /\ vDb[p].idxoff = db[p].idxoff /\ vDb[p].ptroff = db[p].ptroff
                  /\ vDb[p].datoff = db[p].datoff /\ vDb[p].ptrval \in {0, db[p].ptrval}
                  /\ vLoc[p].offset = loc[p].offset /\ vLoc[p].saveoffset = loc[p].saveoffset
                  /\ vLoc[p].freeptr = loc[p].freeptr /\ vLoc[p].saveptr \in {0, loc[p].saveptr}
                  /\ vLoc[p].ptrval \in {0, loc[p].ptrval}
  <2>1. db[p] \in DbType /\ loc[p] \in LocType
    BY <1>1
  <2>2. CASE Walking(p)
    <3>1. PICK rc \in {NULL, -1, 0} : rc = NotFound(call[p]).rc
      BY NotFoundPc
    <3>2. vDb[p] = NoDb /\ vLoc[p] = [NoLoc EXCEPT !.rc = rc] /\ vPc[p] \in {"unlock", "store.head"}
      BY <2>2, <3>1, ViewProc, NotFoundPc
    <3> QED BY <1>3, <2>2, <3>1, <3>2 DEF NoLoc, LocType
  <2>3. CASE ~Walking(p)
    <3>1. vPc[p] = pc[p] /\ vDb[p] \in {db[p], [db[p] EXCEPT !.ptrval = 0]}
          /\ vLoc[p] \in {loc[p], [loc[p] EXCEPT !.ptrval = 0], [loc[p] EXCEPT !.saveptr = 0]}
      BY <2>3, ViewProc
    <3> QED BY <1>3, <2>1, <2>3, <3>1 DEF DbType, LocType
  <2> QED BY <2>2, <2>3
<1>5. View!FileTypeOK
  <2>1. vDb \in [Procs -> DbType] /\ vLoc \in [Procs -> LocType]
    BY <1>4 DEF vDb, vLoc
  <2>2. View!IdxRec = IdxRec /\ View!DatRec = DatRec /\ View!Result = Result
    BY SameConstants DEF View!IdxRec, IdxRec, View!DatRec, DatRec, View!Result, Result
  <2> QED BY <1>1, <1>2, <2>1, <2>2, SameConstants DEF View!FileTypeOK, FileTypeOK, DbType, LocType
<1>6. View!FilesOK
  <2>1. \A o \in 0..NHASH : vTable[o] \in Target
    BY <1>1, <1>3 DEF vTable, FilesOK
  <2>2. \A i \in 1..Len(idx) : vIdx[i].ptr \in Target /\ vIdx[i].datoff \in 1..Len(dat)
    <3> SUFFICES ASSUME NEW i \in 1..Len(idx)
                 PROVE  vIdx[i].ptr \in Target /\ vIdx[i].datoff \in 1..Len(dat)
      OBVIOUS
    <3>1. idx[i] \in IdxRec /\ idx[i].ptr \in Target /\ idx[i].datoff \in 1..Len(dat)
      BY <1>1 DEF FileTypeOK, FilesOK
    <3> QED BY <1>3, <3>1 DEF vIdx, IdxRec
  <2> QED BY <1>2, <2>1, <2>2 DEF View!FilesOK
<1>7. ASSUME NEW p \in Procs PROVE View!LocalOK(p)
  <2>1. LocalOK(p)
    BY <1>1
  <2>2. CASE Walking(p)
    BY <1>2, <1>3, <1>4, <2>2 DEF View!LocalOK, View!HasRec, View!HasDat, NoDb
  <2>3. CASE ~Walking(p)
    BY <1>2, <1>3, <1>4, <2>1, <2>3, SameConstants
       DEF View!LocalOK, LocalOK, View!HasRec, HasRec, View!HasDat, HasDat
  <2> QED BY <2>2, <2>3
<1>8. View!AppendAtEnd
  <2> SUFFICES ASSUME NEW p \in Procs
               PROVE  /\ vPc[p] = "append.datwrite" => vDb[p].datoff = Len(dat) + 1
                      /\ vPc[p] = "append.idxwrite" => vDb[p].idxoff = NHASH + Len(vIdx) + 1
    BY DEF View!AppendAtEnd
  <2> QED BY <1>1, <1>2, <1>4 DEF AppendAtEnd
<1> QED BY <1>5, <1>6, <1>7, <1>8 DEF View!FileInv
-----------------------------------------------------------------------------
\* What the pointers off a torn chain may lead to: the records but those in Z,
\* which are the records that the kill cut off the chain, and those that others
\* had taken off the free list before it and not yet written.
Stray(Z) == (Recs \cap Ptr) \ Z

\* The record at db[q].idxoff was taken off the free list, and says so still.
Stale(q) ==
    \/ pc[q] \in {"reuse.writedat", "reuse.writeidx"}
    \/ pc[q] = "findfree.unlock" /\ loc[q].offset # 0

\* The offsets whose pointer leads off the torn chain c are on it, or are that of
\* a new record for it.
OffChain(c, Z) ==
    \A o \in astray :
        /\ o = c \/ (o \in Recs /\ readidx(o).key \in Keys /\ Hash[readidx(o).key] = c)
        /\ readptr(o) \in Stray(Z)

\* So do the pointers that processes have read there.
Carries(p, Z) ==
    /\ p \in lost => pc[p] \notin Outside /\ chainoff(p) \in torn
                     /\ pc[p] \in {"find.readidx"} \cup Tearing
    /\ Walking(p) => loc[p].offset \in Stray(Z)
    /\ SaveCopy(p) => loc[p].saveptr \in Stray(Z)
    /\ HeadCopy(p) => loc[p].ptrval \in Stray(Z)
    /\ RecCopy(p) /\ pc[p] \in AtRec => db[p].ptrval \in Stray(Z)
    /\ pc[p] \in {"append.idxunlock", "store.writeptr"} => db[p].idxoff \notin Z

\* No pointer from outside leads into Z.
Unreached(left, Z) ==
    /\ \A x \in Z : x \in left \/ \E q \in Procs : Stale(q) /\ db[q].idxoff = x
    /\ \A x \in left \ Z : readidx(x).key = BLANK
    /\ \A o \in (0..NHASH \cup (Recs \cap Ptr)) \ Z : readptr(o) \notin Z

\* The state after a kill that tore chain c: the view has the lists that own and
\* dep say.
Torn(own, dep, c, left, Z) ==
    /\ View!Good(own, dep, left)
    /\ c \in Chains /\ torn = {c} /\ OffChain(c, Z) /\ Unreached(left, Z)
    /\ \A p \in Procs : Carries(p, Z)

\* What the lists say of a process, ...
Knows(own, p) ==
    /\ pc[p] \notin Outside => own[chainoff(p)] = chainoff(p) /\ chainoff(p) \in Chains
    /\ pc[p] \in AtRec =>
          /\ own[db[p].ptroff] = chainoff(p) /\ own[db[p].idxoff] = chainoff(p)
          /\ readidx(db[p].idxoff).key = call[p].key
    /\ pc[p] = "find.readidx" /\ p \notin lost => own[loc[p].offset] = chainoff(p)
    /\ pc[p] \in Tearing =>
          /\ own[db[p].ptroff] = chainoff(p) /\ own[db[p].idxoff] = FREE_OFF
          /\ p \in lost \/ loc[p].saveptr = 0 \/ own[loc[p].saveptr] = chainoff(p)
    /\ pc[p] = "dodelete.writeidx" => loc[p].freeptr = 0 \/ own[loc[p].freeptr] = FREE_OFF
    /\ pc[p] = "findfree.readidx" => own[loc[p].offset] = FREE_OFF
    /\ pc[p] = "findfree.writeptr" =>
          /\ own[loc[p].saveoffset] = FREE_OFF /\ own[db[p].idxoff] = FREE_OFF
          /\ db[p].ptrval = readptr(db[p].idxoff)
    /\ Reuses(p) => db[p].idxoff \in Recs /\ readidx(db[p].idxoff).key = BLANK
    /\ HasNew(p) => db[p].idxoff \in Recs /\ own[db[p].idxoff] = Nowhere
    /\ pc[p] \in {"append.idxunlock", "store.writeptr"} => readidx(db[p].idxoff).key = call[p].key
    /\ pc[p] \in Heads /\ ~HeadCopy(p) => loc[p].ptrval = 0 \/ own[loc[p].ptrval] = chainoff(p)

\* ... and of the pointers that lead off the torn chain.
Apartness(own, c, left, Z) ==
    /\ own[c] = c /\ own[FREE_OFF] = FREE_OFF /\ FREE_OFF # c /\ c # Nowhere
    /\ Z \subseteq Recs /\ \A x \in Recs : own[x] # Nowhere => x \notin Z
    /\ \A o \in astray :
          /\ o = c \/ (o \in Recs /\ readidx(o).key # BLANK)
          /\ own[o] \in {c, Nowhere}
    /\ \A q \in Procs : HasNew(q) => db[q].idxoff \notin left
    /\ left \subseteq Recs

LEMMA FollowsOwn ==
    ASSUME NEW own, NEW dep, NEW o, NEW s, View!Follows(own, dep, o, s)
    PROVE  s = 0 \/ own[s] = own[o]
  BY DEF View!Follows

LEMMA TornKnows ==
    ASSUME NEW p \in Procs, NEW own, NEW dep, NEW c, NEW left, NEW Z, CrashSafe,
           Torn(own, dep, c, left, Z)
    PROVE  Knows(own, p)
<1>1. View!Good(own, dep, left) /\ View!At(own, dep, p)
  BY DEF Torn, View!Good
<1>2. /\ Control /\ FileInv /\ LocalOK(p)
      /\ \A o \in 0..NHASH \cup Recs : View!readptr(o) = IF o \in astray THEN 0 ELSE readptr(o)
      /\ \A o \in Recs : View!readidx(o).key = readidx(o).key
      /\ View!Recs = Recs
  BY ViewFiles DEF CrashSafe, FileInv
<1>3. pc[p] \notin Outside => own[chainoff(p)] = chainoff(p) /\ chainoff(p) \in Chains
  BY <1>1, <1>2, HeldLists, Remembered DEF View!Good, View!Lists, View!Ordered
<1>4. PICK r, o1, o2, s, f, h, x :
        /\ r = db[p].idxoff /\ o1 = db[p].ptroff /\ o2 = loc[p].saveoffset /\ s = loc[p].saveptr
        /\ f = loc[p].freeptr /\ h = loc[p].ptrval /\ x = loc[p].offset
  OBVIOUS
<1>5. ~Walking(p) =>
        /\ vPc[p] = pc[p] /\ vDb[p].idxoff = r /\ vDb[p].ptroff = o1
        /\ vLoc[p].offset = x /\ vLoc[p].saveoffset = o2 /\ vLoc[p].freeptr = f
        /\ ~HeadCopy(p) => vLoc[p].ptrval = h
        /\ ~HeadCopy(p) /\ ~SaveCopy(p) => vLoc[p].saveptr = s
        /\ ~RecCopy(p) => vDb[p].ptrval = db[p].ptrval
  <2>1. db[p] \in DbType /\ loc[p] \in LocType
    BY <1>2, FileParts DEF MemoryTypeOK
  <2> QED BY <1>4, <2>1, ViewProc DEF DbType, LocType
<1>6. pc[p] # "find.readidx" => ~Walking(p)
  BY DEF Walking
<1>7. View!chainoff(p) = chainoff(p) /\ View!FREE_OFF = FREE_OFF /\ View!Nowhere = Nowhere
  BY DEF View!chainoff, chainoff, View!FREE_OFF, FREE_OFF, View!Nowhere, Nowhere
<1>8. pc[p] \in AtRec =>
        own[o1] = chainoff(p) /\ own[r] = chainoff(p) /\ readidx(r).key = call[p].key
  BY <1>1, <1>2, <1>4, <1>5, <1>6, <1>7 DEF View!At, View!AtRecord, View!AtRec, AtRec, View!Hit,
     chainoff
<1>9. pc[p] = "find.readidx" /\ p \notin lost => own[x] = chainoff(p)
  <2> SUFFICES ASSUME pc[p] = "find.readidx", p \notin lost PROVE own[x] = chainoff(p)
    OBVIOUS
  <2>1. vPc[p] = "find.readidx" /\ vDb[p].ptroff = o1 /\ vLoc[p].offset = x
    BY <1>5 DEF Walking
  <2>2. own[o1] = chainoff(p) /\ View!Follows(own, dep, o1, x)
    BY <1>1, <1>7, <2>1 DEF View!At, View!Finding
  <2>3. x # 0
    BY <1>2, <1>4, Remembered
  <2> QED BY <2>2, <2>3, FollowsOwn
<1>10. pc[p] \in Tearing =>
          /\ own[o1] = chainoff(p) /\ own[r] = FREE_OFF
          /\ p \in lost \/ s = 0 \/ own[s] = chainoff(p)
  <2> SUFFICES ASSUME pc[p] \in Tearing
               PROVE  /\ own[o1] = chainoff(p) /\ own[r] = FREE_OFF
                      /\ p \in lost \/ s = 0 \/ own[s] = chainoff(p)
    OBVIOUS
  <2>1. vPc[p] = pc[p] /\ vDb[p].idxoff = r /\ vDb[p].ptroff = o1
    BY <1>5, <1>6 DEF Tearing
  <2>2. /\ own[o1] = chainoff(p) /\ own[r] = FREE_OFF
        /\ View!Follows(own, dep, o1, vLoc[p].saveptr)
    BY <1>1, <1>7, <2>1 DEF View!At, View!Unlinking, Tearing
  <2>3. p \notin lost => vLoc[p].saveptr = s
    BY <1>5, <1>6 DEF Tearing, HeadCopy, SaveCopy, Heads, Storing
  <2> QED BY <2>2, <2>3, FollowsOwn
<1>11. own[FREE_OFF] = FREE_OFF
  BY <1>1, <1>2, Remembered DEF View!Good, View!Lists, View!Ordered
<1>12. pc[p] = "dodelete.writeidx" => f = 0 \/ own[f] = FREE_OFF
  BY <1>1, <1>5, <1>6, <1>7, <1>11, FollowsOwn DEF View!At, View!Saved
<1>13. pc[p] = "findfree.readidx" => own[x] = FREE_OFF
  <2>1. pc[p] = "findfree.readidx" => x # 0
    BY <1>2, <1>4, Remembered
  <2> QED BY <1>1, <1>5, <1>6, <1>7, <2>1, FollowsOwn DEF View!At, View!Searching
<1>14. Reuses(p) => r \in Recs /\ readidx(r).key = BLANK
  <2>1. Reuses(p) => View!Reuses(p) /\ r \in Recs
    BY <1>2, <1>4, <1>5, <1>6 DEF View!Reuses, Reuses, LocalOK, HasRec
  <2> QED BY <1>1, <1>2, <1>4, <1>5, <1>6, <2>1 DEF View!At, View!Reusing, Reuses
<1>15. HasNew(p) => r \in Recs /\ own[r] = Nowhere
  <2>1. HasNew(p) => View!HasNew(p)
    BY <1>4, <1>5, <1>6 DEF View!HasNew, HasNew
  <2> QED BY <1>1, <1>2, <1>5, <1>6, <1>7, <2>1 DEF View!Good, View!NewRecs, HasNew
<1>16. pc[p] \in {"append.idxunlock", "store.writeptr"} => readidx(r).key = call[p].key
  <2>1. pc[p] \in {"append.idxunlock", "store.writeptr"} => HasNew(p)
    BY DEF HasNew
  <2> QED BY <1>1, <1>2, <1>4, <1>5, <1>6, <1>15, <2>1 DEF View!At, View!Written
<1>17. pc[p] \in Heads /\ ~HeadCopy(p) => h = 0 \/ own[h] = chainoff(p)
  <2> SUFFICES ASSUME pc[p] \in Heads, ~HeadCopy(p) PROVE h = 0 \/ own[h] = chainoff(p)
    OBVIOUS
  <2>1. vPc[p] = pc[p] /\ vLoc[p].ptrval = h /\ pc[p] \notin Outside
    BY <1>4, <1>5, <1>6 DEF Heads, Storing, Outside
  <2>2. View!Follows(own, dep, chainoff(p), h)
    BY <1>1, <1>7, <2>1 DEF View!At, View!Heading, View!Heads, Heads, View!Storing, Storing
  <2> QED BY <1>3, <2>1, <2>2, FollowsOwn
<1>18. pc[p] = "findfree.writeptr" =>
          /\ own[o2] = FREE_OFF /\ own[r] = FREE_OFF
          /\ db[p].ptrval = readptr(r)
  <2> SUFFICES ASSUME pc[p] = "findfree.writeptr"
               PROVE  own[o2] = FREE_OFF /\ own[r] = FREE_OFF /\ db[p].ptrval = readptr(r)
    OBVIOUS
  <2>1. /\ own[o2] = FREE_OFF /\ View!Follows(own, dep, o2, r)
        /\ vDb[p].ptrval = View!readptr(r)
    BY <1>1, <1>5, <1>6, <1>7 DEF View!At, View!Taking
  <2>2. r \in Recs /\ r # 0 /\ readidx(r).key = BLANK
    BY <1>2, <1>14, Remembered DEF Reuses
  <2>3. own[r] = FREE_OFF
    BY <2>1, <2>2, FollowsOwn
  <2>4. r \notin astray
    BY <1>2, <2>2, DbAssumption DEF Torn, OffChain, Recs, Chains
  <2>5. ~RecCopy(p)
    BY <1>4, <2>4 DEF RecCopy
  <2> QED BY <1>2, <1>5, <1>6, <2>1, <2>2, <2>3, <2>4, <2>5
<1> QED BY <1>3, <1>4, <1>8, <1>9, <1>10, <1>12, <1>13, <1>14, <1>15, <1>16, <1>17, <1>18 DEF Knows

LEMMA TornApart ==
    ASSUME NEW own, NEW dep, NEW c, NEW left, NEW Z, CrashSafe, Torn(own, dep, c, left, Z)
    PROVE  Apartness(own, c, left, Z)
<1>1. /\ View!Lists(own, dep) /\ View!Keyed(own) /\ View!NewRecs(own, left)
      /\ c \in Chains /\ OffChain(c, Z) /\ Unreached(left, Z)
  BY DEF Torn, View!Good
<1>2. /\ View!Recs = Recs /\ \A o \in Recs : View!readidx(o).key = readidx(o).key
      /\ View!FREE_OFF = FREE_OFF /\ View!Nowhere = Nowhere /\ View!Chains = Chains
  BY ViewFiles, SameConstants DEF View!FREE_OFF, FREE_OFF, View!Nowhere, Nowhere
<1>3. /\ NHASH \in Nat /\ c \in 0..NHASH /\ FREE_OFF \in 0..NHASH /\ FREE_OFF # c /\ c # Nowhere
      /\ FREE_OFF # Nowhere /\ \A x \in Recs : x \in Nat
      /\ \A x \in Nowhere..NHASH : x = Nowhere \/ x = FREE_OFF \/ x \in Chains
      /\ BLANK \notin Keys
  BY <1>1, DbAssumption DEF Chains, FREE_OFF, Nowhere, Recs
<1>4. own[c] = c /\ own[FREE_OFF] = FREE_OFF /\ own \in [Nat -> Nowhere..NHASH]
  BY <1>1, <1>2, <1>3 DEF View!Lists, View!Ordered
<1>5. /\ \A q \in Procs : HasNew(q) =>
            db[q].idxoff \in Recs /\ own[db[q].idxoff] = Nowhere /\ db[q].idxoff \notin left
      /\ \A x \in left : x \in Recs /\ own[x] = Nowhere
  <2>1. ASSUME NEW q \in Procs, HasNew(q) PROVE View!HasNew(q) /\ vDb[q].idxoff = db[q].idxoff
    <3>1. ~Walking(q)
      BY <2>1 DEF HasNew, Walking
    <3>2. vPc[q] = pc[q] /\ vDb[q].idxoff = db[q].idxoff /\ vLoc[q].offset = loc[q].offset
      <4>1. db[q] \in DbType /\ loc[q] \in LocType
        BY FileParts DEF MemoryTypeOK, CrashSafe
      <4> QED BY <3>1, <4>1, ViewProc DEF DbType, LocType
    <3> QED BY <2>1, <3>2 DEF HasNew, View!HasNew
  <2> QED BY <1>1, <1>2, <2>1 DEF View!NewRecs
<1>6. \A x \in Z : x \in Recs /\ own[x] = Nowhere
  BY <1>1, <1>5 DEF Unreached, HasNew, Stale
<1>7. ASSUME NEW o \in astray
      PROVE  (o = c \/ (o \in Recs /\ readidx(o).key # BLANK)) /\ own[o] \in {c, Nowhere}
  <2>1. CASE o = c
    BY <1>4, <2>1
  <2>2. CASE o # c
    <3>1. PICK k : k = readidx(o).key
      OBVIOUS
    <3>2. o \in Recs /\ k \in Keys /\ Hash[k] = c
      BY <1>1, <2>2, <3>1 DEF OffChain
    <3>3. own[o] \in Nowhere..NHASH /\ k # BLANK
      BY <1>3, <1>4, <3>2
    <3>4. /\ own[o] \in Chains => Hash[k] = own[o]
          /\ own[o] = FREE_OFF => k = BLANK
      BY <1>1, <1>2, <3>1, <3>2 DEF View!Keyed
    <3> QED BY <1>3, <3>1, <3>2, <3>3, <3>4
  <2> QED BY <2>1, <2>2
<1>8. Z \subseteq Recs /\ left \subseteq Recs /\ \A x \in Recs : own[x] # Nowhere => x \notin Z
  BY <1>5, <1>6
<1>9. \A q \in Procs : HasNew(q) => db[q].idxoff \notin left
  BY <1>5
<1> QED BY <1>3, <1>4, <1>7, <1>8, <1>9 DEF Apartness
-----------------------------------------------------------------------------
\* A step of process p inside a function leaves the memory of the others alone.
LEMMA StepOthers ==
    ASSUME NEW p \in Procs, CrashSafe, Step(p)
    PROVE  /\ Others(p) /\ pc[p] \notin {"idle", "exited"}
           /\ DOMAIN pc = Procs /\ DOMAIN db = Procs /\ DOMAIN loc = Procs /\ DOMAIN call = Procs
           /\ DOMAIN pc' = Procs /\ DOMAIN db' = Procs /\ DOMAIN loc' = Procs
           /\ pc'[p] # "exited" /\ pc'[p] # "idle" => call'[p] = call[p]
<1>1. /\ DOMAIN pc = Procs /\ DOMAIN db = Procs /\ DOMAIN loc = Procs /\ DOMAIN call = Procs
  BY DEF CrashSafe, Control, ControlTypeOK, FileInv, FileTypeOK
<1> USE <1>1 DEF Others, Goto, Transition, Lock, Release, client
<1>2. CASE Find(p)
  BY <1>2 DEF Find, FindLock, FindReadPtr, FindReadIdx, FindNext
<1>3. CASE DoDelete(p)
  BY <1>3 DEF DoDelete, DelLock, DelWriteDat, DelReadFree, DelWriteIdx, DelWriteFree,
     DelWritePtr, DelUnlock
<1>4. CASE FindFree(p)
  BY <1>4 DEF FindFree, FreeLock, FreeReadPtr, FreeReadIdx, FreeWritePtr, FreeUnlock, FreeNext
<1>5. CASE AppendDat(p) \/ AppendIdx(p)
  BY <1>5 DEF AppendDat, AppendDatLock, AppendDatSeek, AppendDatWrite, AppendDatUnlock,
     AppendIdx, AppendIdxLock, AppendIdxSeek, AppendIdxWrite, AppendIdxUnlock
<1>6. CASE Store(p)
  BY <1>6 DEF Store, StoreHead, StoreWriteDat, StoreWriteIdx, StoreWritePtr, StoreQuit
<1>7. CASE FetchReadDat(p) \/ Unlock(p)
  BY <1>7 DEF FetchReadDat, Unlock
<1> QED BY <1>2, <1>3, <1>4, <1>5, <1>6, <1>7 DEF Step

\* Only the process that has the torn chain write locked changes what leads off it.
LEMMA AstrayKept ==
    ASSUME NEW p \in Procs, NEW own, NEW dep, NEW c, NEW left, NEW Z, CrashSafe,
           Torn(own, dep, c, left, Z), Follow(p)
    PROVE  astray' = astray \/ (pc[p] \notin Outside /\ chainoff(p) = c /\ Owns(p, c))
<1>1. Knows(own, p) /\ Apartness(own, c, left, Z) /\ Carries(p, Z) /\ torn = {c} /\ LocalOK(p)
      /\ Control /\ FileInv
  BY TornKnows, TornApart DEF Torn, CrashSafe, FileInv
<1>2. CASE pc[p] \notin {"dodelete.writeidx", "append.idxwrite", "reuse.writeidx",
                         "dodelete.writeptr", "store.writeptr"}
  BY <1>2 DEF Follow, Misleads, Writes
<1>3. CASE pc[p] \in {"dodelete.writeidx", "append.idxwrite", "reuse.writeidx",
                      "dodelete.writeptr", "store.writeptr"}
  <2>1. pc[p] \in Deleting \cup Storing
    BY <1>3 DEF Deleting, Storing
  <2>2. pc[p] \notin Outside /\ Owns(p, chainoff(p))
    BY <1>1, <2>1, HeldLists
  <2>3. SUFFICES ASSUME chainoff(p) # c PROVE astray' = astray
    BY <2>2
  <2>4. own[chainoff(p)] = chainoff(p) /\ chainoff(p) \in Chains /\ chainoff(p) # Nowhere
    BY <1>1, <2>2, DbAssumption DEF Knows, Chains, Nowhere
  <2>5. p \notin lost /\ chainoff(p) \notin astray
    BY <1>1, <2>3, <2>4 DEF Carries, Apartness
  <2>6. ~Misleads(p)
    BY <2>5 DEF Misleads
  <2>7. PICK r, o1, h : r = db[p].idxoff /\ o1 = db[p].ptroff /\ h = chainoff(p)
    OBVIOUS
  <2>8. ASSUME NEW off \in astray, Writes(p, off) PROVE FALSE
    <3>1. CASE pc[p] = "dodelete.writeidx"
      BY <1>1, <2>3, <2>4, <2>7, <2>8, <3>1 DEF Writes, Knows, AtRec, Apartness
    <3>2. CASE pc[p] = "append.idxwrite"
      <4>1. r = NHASH + Len(idx) + 1 /\ off = r /\ NHASH \in Nat /\ Len(idx) \in Nat /\ c \in 1..NHASH
        BY <1>1, <2>7, <2>8, <3>2, FileParts, DbAssumption
           DEF Writes, FileInv, AppendAtEnd, Torn, Chains
      <4>2. r \notin Recs /\ r # c
        BY <4>1 DEF Recs
      <4> QED BY <1>1, <2>8, <4>1, <4>2 DEF Apartness
    <3>3. CASE pc[p] = "reuse.writeidx"
      <4>1. off = r /\ r \in Recs /\ readidx(r).key = BLANK /\ r # c
        BY <1>1, <2>7, <2>8, <3>3, Remembered DEF Writes, Knows, Reuses, Torn, CrashSafe
      <4> QED BY <1>1, <2>8, <4>1 DEF Apartness
    <3>4. CASE pc[p] = "dodelete.writeptr"
      BY <1>1, <2>3, <2>4, <2>7, <2>8, <3>4 DEF Writes, Knows, Tearing, Apartness
    <3>5. CASE pc[p] = "store.writeptr"
      BY <2>5, <2>8, <3>5 DEF Writes
    <3> QED BY <1>3, <3>1, <3>2, <3>3, <3>4, <3>5
  <2> QED BY <2>6, <2>8 DEF Follow
<1> QED BY <1>2, <1>3

\* What the others follow and carry does not change, nor does their view.
SameFlags(q) ==
    /\ Walking(q)' <=> Walking(q)
    /\ HeadCopy(q)' <=> HeadCopy(q)
    /\ RecCopy(q)' <=> RecCopy(q)
    /\ SaveCopy(q)' <=> SaveCopy(q)

LEMMA ViewOthers ==
    ASSUME NEW p \in Procs, NEW own, NEW dep, NEW c, NEW left, NEW Z, CrashSafe,
           Torn(own, dep, c, left, Z), Step(p), Follow(p)
    PROVE  /\ \A q \in Procs \ {p} : SameFlags(q)
           /\ vPc' = [vPc EXCEPT ![p] = vPc'[p]]
           /\ vDb' = [vDb EXCEPT ![p] = vDb'[p]]
           /\ vLoc' = [vLoc EXCEPT ![p] = vLoc'[p]]
<1>1. Others(p) /\ torn = {c} /\ torn' = torn /\ c \in Regions
  BY StepOthers, Remembered DEF Follow, Torn, CrashSafe
<1>2. ASSUME NEW q \in Procs \ {p} PROVE SameFlags(q)
  <2>1. /\ pc'[q] = pc[q] /\ call'[q] = call[q] /\ db'[q] = db[q] /\ loc'[q] = loc[q]
        /\ q \in lost' <=> q \in lost
    BY <1>1 DEF Others, Follow
  <2>2. (OnTorn(q)' <=> OnTorn(q)) /\ chainoff(q)' = chainoff(q)
    BY <1>1, <2>1 DEF OnTorn, chainoff
  <2>3. OnTorn(q) => astray' = astray
    <3> SUFFICES ASSUME OnTorn(q), astray' # astray PROVE FALSE
      OBVIOUS
    <3>1. Owns(p, c)
      BY AstrayKept
    <3>2. Held(q, c)
      BY <1>1 DEF OnTorn, Held
    <3> QED BY <1>1, <3>1, <3>2, Exclusive DEF CrashSafe
  <2> QED BY <2>1, <2>2, <2>3 DEF SameFlags, Walking, HeadCopy, RecCopy, SaveCopy
<1>3. ASSUME NEW q \in Procs, q # p PROVE vPc'[q] = vPc[q] /\ vDb'[q] = vDb[q] /\ vLoc'[q] = vLoc[q]
  <2>1. SameFlags(q) /\ pc'[q] = pc[q] /\ call'[q] = call[q] /\ db'[q] = db[q] /\ loc'[q] = loc[q]
    BY <1>1, <1>2, <1>3 DEF Others
  <2> QED BY <2>1 DEF SameFlags, vPc, vDb, vLoc, NotFound
<1>4. /\ vPc = [q \in Procs |-> vPc[q]] /\ vPc' = [q \in Procs |-> vPc'[q]]
      /\ vDb = [q \in Procs |-> vDb[q]] /\ vDb' = [q \in Procs |-> vDb'[q]]
      /\ vLoc = [q \in Procs |-> vLoc[q]] /\ vLoc' = [q \in Procs |-> vLoc'[q]]
  BY DEF vPc, vDb, vLoc
<1>5. vPc' = [vPc EXCEPT ![p] = vPc'[p]]
  BY <1>3, <1>4
<1>6. vDb' = [vDb EXCEPT ![p] = vDb'[p]]
  BY <1>3, <1>4
<1>7. vLoc' = [vLoc EXCEPT ![p] = vLoc'[p]]
  BY <1>3, <1>4
<1> QED BY <1>2, <1>5, <1>6, <1>7

LEMMA ViewProcNext ==
    ASSUME NEW p \in Procs
    PROVE  /\ Walking(p)' =>
                /\ vPc'[p] = NotFound(call'[p]).pc /\ vDb'[p] = NoDb
                /\ vLoc'[p] = [NoLoc EXCEPT !.rc = NotFound(call'[p]).rc]
           /\ ~Walking(p)' =>
                /\ vPc'[p] = pc'[p]
                /\ vDb'[p] = IF RecCopy(p)' THEN [db'[p] EXCEPT !.ptrval = 0] ELSE db'[p]
                /\ vLoc'[p] = IF HeadCopy(p)' THEN [loc'[p] EXCEPT !.ptrval = 0]
                              ELSE IF SaveCopy(p)' THEN [loc'[p] EXCEPT !.saveptr = 0]
                              ELSE loc'[p]
  BY DEF vPc, vDb, vLoc, NotFound

\* Files in which nothing leads astray that did not before look the same.
LEMMA ViewSame ==
    ASSUME table' = table, idx' = idx, astray' = astray
    PROVE  vTable' = vTable /\ vIdx' = vIdx
  BY DEF vTable, vIdx
-----------------------------------------------------------------------------
\* Every step is, in the view, a step of Db, or none.  First those that change
\* nothing but a lock or data.
Quiet ==
    {"fetch.readdat", "dodelete", "dodelete.writedat", "dodelete.readptr", "dodelete.unlock",
     "unlock", "reuse.writeidx"} \cup (Storing \ {"append.idxwrite"})

LEMMA QuietView ==
    ASSUME NEW p \in Procs, NEW own, NEW dep, NEW c, NEW left, NEW Z, CrashSafe,
           Torn(own, dep, c, left, Z), Step(p), Follow(p), pc[p] \in Quiet \ {"store.writeptr"},
           pc[p] # "reuse.writeidx", pc'[p] \in Quiet, pc[p] \in Heads <=> pc'[p] \in Heads,
           table' = table, idx' = idx, db' = db, loc' = loc
    PROVE  /\ vTable' = vTable /\ vIdx' = vIdx /\ vDb' = vDb /\ vLoc' = vLoc
           /\ vPc[p] = pc[p] /\ vPc' = [vPc EXCEPT ![p] = pc'[p]]
           /\ SameFlags(p) /\ astray' = astray /\ p \notin lost'
<1>1. astray' = astray /\ torn' = torn
  BY DEF Follow, Misleads, Writes, Quiet, Storing
<1>2. p \notin lost'
  BY DEF Follow, Quiet, Storing, Tearing
<1>3. call'[p] = call[p]
  BY StepOthers DEF Quiet, Storing
<1>4. /\ pc[p] \notin Outside /\ pc'[p] \notin Outside
      /\ pc[p] \notin {"find.readptr", "find.readidx", "append.idxwrite", "dodelete.writeidx"}
      /\ pc'[p] \notin {"find.readptr", "find.readidx", "append.idxwrite", "dodelete.writeidx"}
      /\ pc[p] \notin Tearing /\ pc'[p] \notin Tearing
  BY DEF Quiet, Storing, Outside, Tearing
<1>5. (OnTorn(p)' <=> OnTorn(p)) /\ chainoff(p)' = chainoff(p)
  BY <1>1, <1>3, <1>4 DEF OnTorn, chainoff
<1>6. SameFlags(p) /\ ~Walking(p) /\ ~Walking(p)'
  BY <1>1, <1>4, <1>5 DEF SameFlags, Walking, HeadCopy, RecCopy, SaveCopy
<1>7. vPc[p] = pc[p] /\ vPc'[p] = pc'[p] /\ vDb'[p] = vDb[p] /\ vLoc'[p] = vLoc[p]
  BY <1>6, ViewProc, ViewProcNext DEF SameFlags
<1>8. /\ vPc' = [vPc EXCEPT ![p] = vPc'[p]] /\ vDb' = [vDb EXCEPT ![p] = vDb'[p]]
      /\ vLoc' = [vLoc EXCEPT ![p] = vLoc'[p]]
  BY ViewOthers
<1>9. DOMAIN vDb = Procs /\ DOMAIN vLoc = Procs /\ vDb = [q \in Procs |-> vDb[q]]
      /\ vLoc = [q \in Procs |-> vLoc[q]]
  BY DEF vDb, vLoc
<1>10. vDb' = vDb
  BY <1>7, <1>8, <1>9
<1>11. vLoc' = vLoc
  BY <1>7, <1>8, <1>9
<1> QED BY <1>1, <1>2, <1>6, <1>7, <1>8, <1>10, <1>11, ViewSame

\* The fields of which there is only one view.
LEMMA ViewFields ==
    ASSUME NEW p \in Procs, CrashSafe, ~Walking(p)
    PROVE  /\ vPc[p] = pc[p] /\ vDb[p] \in DbType /\ vLoc[p] \in LocType
           /\ db[p] \in DbType /\ loc[p] \in LocType
           /\ vDb[p].idxoff = db[p].idxoff /\ vDb[p].ptroff = db[p].ptroff
           /\ vDb[p].datoff = db[p].datoff /\ vDb[p].datlen = db[p].datlen
           /\ vLoc[p].offset = loc[p].offset /\ vLoc[p].saveoffset = loc[p].saveoffset
           /\ vLoc[p].freeptr = loc[p].freeptr /\ vLoc[p].rc = loc[p].rc
           /\ vDb[p].ptrval = IF RecCopy(p) THEN 0 ELSE db[p].ptrval
           /\ vLoc[p].ptrval = IF HeadCopy(p) THEN 0 ELSE loc[p].ptrval
           /\ vLoc[p].saveptr = IF SaveCopy(p) /\ ~HeadCopy(p) THEN 0 ELSE loc[p].saveptr
<1>1. db[p] \in DbType /\ loc[p] \in LocType /\ 0 \in Ptr
  BY FileParts, DbAssumption DEF CrashSafe, MemoryTypeOK, Ptr
<1> QED BY <1>1, ViewProc DEF DbType, LocType

LEMMA QuietMaps ==
    ASSUME NEW p \in Procs, NEW own, NEW dep, NEW c, NEW left, NEW Z, CrashSafe,
           Torn(own, dep, c, left, Z), Step(p), Follow(p),
           \/ DelLock(p) \/ DelWriteDat(p) \/ DelUnlock(p) \/ FreeLock(p) \/ FreeUnlock(p)
           \/ AppendDatLock(p) \/ AppendDatWrite(p) \/ AppendDatUnlock(p)
           \/ AppendIdxLock(p) \/ AppendIdxUnlock(p)
    PROVE  View!Step(p)
<1>1. /\ pc[p] \in Quiet \ {"store.writeptr"} /\ pc[p] # "reuse.writeidx" /\ pc'[p] \in Quiet
      /\ pc[p] \in Heads <=> pc'[p] \in Heads
      /\ table' = table /\ idx' = idx /\ db' = db /\ loc' = loc /\ pc[p] # "find.readidx"
  <2>1. DOMAIN pc = Procs
    BY StepOthers
  <2> USE <2>1 DEF Transition, Goto, Lock, Release, files, Quiet, Heads, Storing
  <2>2. CASE DelLock(p) \/ DelWriteDat(p) \/ DelUnlock(p)
    BY <2>2 DEF DelLock, DelWriteDat, DelUnlock
  <2>3. CASE FreeLock(p) \/ FreeUnlock(p)
    BY <2>3 DEF FreeLock, FreeUnlock
  <2>4. CASE AppendDatLock(p) \/ AppendDatWrite(p) \/ AppendDatUnlock(p)
    BY <2>4 DEF AppendDatLock, AppendDatWrite, AppendDatUnlock
  <2>5. CASE AppendIdxLock(p) \/ AppendIdxUnlock(p)
    BY <2>5 DEF AppendIdxLock, AppendIdxUnlock
  <2> QED BY <2>2, <2>3, <2>4, <2>5
<1>2. /\ vTable' = vTable /\ vIdx' = vIdx /\ vDb' = vDb /\ vLoc' = vLoc
      /\ vPc[p] = pc[p] /\ vPc' = [vPc EXCEPT ![p] = pc'[p]]
  BY <1>1, QuietView
<1>3. /\ vDb[p].datoff = db[p].datoff /\ vDb[p].datlen = db[p].datlen
      /\ vLoc[p].offset = loc[p].offset
  BY <1>1, ViewFields DEF Walking
<1>4. DOMAIN pc = Procs
  BY StepOthers
<1> USE <1>1, <1>2, <1>3, <1>4 DEF Transition, View!Transition, Goto, View!Goto, files, View!files, client,
    View!client, Lock, View!Lock, Release, View!Release, writew_lock, View!writew_lock, un_lock,
    View!un_lock, FREE_OFF, View!FREE_OFF, DATFILE, View!DATFILE, IDX_TAIL, View!IDX_TAIL
<1>5. CASE DelLock(p) \/ DelWriteDat(p) \/ DelUnlock(p)
  BY <1>5 DEF DelLock, View!DelLock, DelWriteDat, View!DelWriteDat, DelUnlock, View!DelUnlock,
     View!DoDelete, View!Step
<1>6. CASE FreeLock(p) \/ FreeUnlock(p)
  BY <1>6 DEF FreeLock, View!FreeLock, FreeUnlock, View!FreeUnlock, View!FindFree, View!Step
<1>7. CASE AppendDatLock(p) \/ AppendDatWrite(p) \/ AppendDatUnlock(p)
  BY <1>7 DEF AppendDatLock, View!AppendDatLock, AppendDatWrite, View!AppendDatWrite, WriteAt,
     View!WriteAt, AppendDatUnlock, View!AppendDatUnlock, View!AppendDat, View!Step
<1>8. CASE AppendIdxLock(p) \/ AppendIdxUnlock(p)
  BY <1>8 DEF AppendIdxLock, View!AppendIdxLock, AppendIdxUnlock, View!AppendIdxUnlock,
     View!AppendIdx, View!Step
<1> QED BY <1>5, <1>6, <1>7, <1>8
-----------------------------------------------------------------------------
\* What the simulation of a step starts from.
LEMMA SameOperators ==
    /\ \A p : View!chainoff(p) = chainoff(p)
    /\ \A r : View!NotFound(r) = NotFound(r)
    /\ \A r, n : View!Found(r, n) = Found(r, n)
    /\ View!FREE_OFF = FREE_OFF /\ View!Nowhere = Nowhere /\ View!files = <<vTable, vIdx, dat>>
    /\ View!client = client
<1>1. View!Abs!DB_REPLACE = Abs!DB_REPLACE /\ View!Abs!DB_INSERT = Abs!DB_INSERT
  BY DEF View!Abs!DB_REPLACE, Abs!DB_REPLACE, View!Abs!DB_INSERT, Abs!DB_INSERT
<1>2. \A r : View!NotFound(r) = NotFound(r)
  BY <1>1 DEF View!NotFound, NotFound
<1>3. \A r, n : View!Found(r, n) = Found(r, n)
  BY <1>1 DEF View!Found, Found
<1> QED BY <1>2, <1>3 DEF View!chainoff, chainoff, View!FREE_OFF, FREE_OFF, View!Nowhere, Nowhere,
       View!files, View!client, client

LEMMA StepFacts ==
    ASSUME NEW p \in Procs, NEW own, NEW dep, NEW c, NEW left, NEW Z, CrashSafe,
           Torn(own, dep, c, left, Z), Step(p), Follow(p)
    PROVE  /\ Knows(own, p) /\ Apartness(own, c, left, Z) /\ Carries(p, Z)
           /\ torn = {c} /\ torn' = torn /\ c \in Chains
           /\ FREE_OFF \notin astray /\ 0 \notin astray
           /\ \A o \in Recs : own[o] = FREE_OFF => o \notin astray
           /\ \A o : o \in astray => o = c \/ o \in Recs
           /\ pc[p] \notin Outside /\ call[p] \in Requests /\ chainoff(p) \in astray => OnTorn(p)
           /\ \A o : pc[p] \notin Outside /\ o \in astray /\ own[o] = chainoff(p) => OnTorn(p)
           /\ p \in lost => pc[p] \in {"find.readidx"} \cup Tearing
           /\ pc[p] \notin {"dodelete.writeidx", "append.idxwrite", "reuse.writeidx",
                            "dodelete.writeptr", "store.writeptr"} => astray' = astray
           /\ pc'[p] \notin {"find.readidx"} \cup Tearing => p \notin lost'
           /\ pc[p] \notin {"find.readptr", "find.readidx", "dodelete.writeidx"} =>
                 (p \in lost' <=> p \in lost /\ pc'[p] \in {"find.readidx"} \cup Tearing)
           /\ OnTorn(p)' <=> pc'[p] \notin Outside /\ chainoff(p)' = c
           /\ OnTorn(p) <=> pc[p] \notin Outside /\ chainoff(p) = c
<1>1. /\ Knows(own, p) /\ Apartness(own, c, left, Z) /\ Carries(p, Z)
      /\ torn = {c} /\ torn' = torn /\ c \in Chains
  BY TornKnows, TornApart DEF Torn, Follow
<1>2. NHASH \in Nat /\ c \in 1..NHASH /\ FREE_OFF = 0 /\ c # Nowhere /\ FREE_OFF # Nowhere /\ 0 \notin Recs
      /\ \A x \in Chains : x # Nowhere /\ x \notin Recs
  BY <1>1, DbAssumption DEF Chains, FREE_OFF, Nowhere, Recs
<1>3. OnTorn(p) <=> pc[p] \notin Outside /\ chainoff(p) = c
  BY <1>1 DEF OnTorn
<1>4. OnTorn(p)' <=> pc'[p] \notin Outside /\ chainoff(p)' = c
  BY <1>1 DEF OnTorn
<1>5. \A o \in astray : (o = c \/ o \in Recs) /\ own[o] \in {c, Nowhere}
  BY <1>1 DEF Apartness
<1>6. pc[p] \notin Outside => chainoff(p) \in Chains
  BY <1>1 DEF Knows
<1>7. \A o : pc[p] \notin Outside /\ o \in astray /\ own[o] = chainoff(p) => OnTorn(p)
  BY <1>2, <1>3, <1>5, <1>6
<1>8. FREE_OFF \notin astray /\ 0 \notin astray /\ \A o \in Recs : own[o] = FREE_OFF => o \notin astray
  BY <1>1, <1>2, <1>5
<1>9. pc[p] \notin Outside /\ call[p] \in Requests /\ chainoff(p) \in astray => OnTorn(p)
  BY <1>2, <1>3, <1>5, <1>6
<1>10. p \in lost => pc[p] \in {"find.readidx"} \cup Tearing
  BY <1>1 DEF Carries
<1>11. pc[p] \notin {"dodelete.writeidx", "append.idxwrite", "reuse.writeidx",
                     "dodelete.writeptr", "store.writeptr"} => astray' = astray
  BY DEF Follow, Misleads, Writes
<1>12. pc'[p] \notin {"find.readidx"} \cup Tearing => p \notin lost'
  BY DEF Follow
<1>13. pc[p] \notin {"find.readptr", "find.readidx", "dodelete.writeidx"} =>
         (p \in lost' <=> p \in lost /\ pc'[p] \in {"find.readidx"} \cup Tearing)
  BY DEF Follow, Reads
<1> QED BY <1>1, <1>3, <1>4, <1>5, <1>7, <1>8, <1>9, <1>10, <1>11, <1>12, <1>13

LEMMA SameAt ==
    ASSUME NEW f, NEW g, NEW p, f = [q \in Procs |-> f[q]], g = [f EXCEPT ![p] = g[p]], g[p] = f[p]
    PROVE  g = f
  OBVIOUS

LEMMA ViewFunctions ==
    /\ vPc = [q \in Procs |-> vPc[q]] /\ vDb = [q \in Procs |-> vDb[q]]
    /\ vLoc = [q \in Procs |-> vLoc[q]]
  BY DEF vPc, vDb, vLoc

LEMMA NoLocParts == NoLoc \in LocType /\ NoLoc.offset = 0
<1>1. 0 \in Ptr /\ 0 \in Nat /\ NULL \in Result
  BY DbAssumption DEF Ptr, Result
<1> QED BY <1>1 DEF NoLoc, LocType

\* A process that follows no pointer off the chain, and has none, is seen as it is.
LEMMA ViewPlain ==
    ASSUME NEW p \in Procs, ~Walking(p)', ~RecCopy(p)', ~HeadCopy(p)', ~SaveCopy(p)'
    PROVE  vPc'[p] = pc'[p] /\ vDb'[p] = db'[p] /\ vLoc'[p] = loc'[p]
  BY ViewProcNext
-----------------------------------------------------------------------------
\* _db_find().
LEMMA FindLockMaps ==
    ASSUME NEW p \in Procs, NEW own, NEW dep, NEW c, NEW left, NEW Z, CrashSafe,
           Torn(own, dep, c, left, Z), Step(p), Follow(p), FindLock(p)
    PROVE  View!Step(p)
<1>1. DOMAIN pc = Procs /\ pc[p] = "find" /\ pc' = [pc EXCEPT ![p] = "find.readptr"]
      /\ UNCHANGED <<files, db, loc, client>>
  BY StepOthers DEF FindLock, Transition, Goto
<1>2. /\ pc'[p] = "find.readptr" /\ astray' = astray
      /\ table' = table /\ idx' = idx /\ dat' = dat /\ db' = db /\ loc' = loc
  BY <1>1, StepFacts DEF files
<1>3. /\ ~Walking(p) /\ ~RecCopy(p) /\ ~HeadCopy(p) /\ ~SaveCopy(p)
      /\ ~Walking(p)' /\ ~RecCopy(p)' /\ ~HeadCopy(p)' /\ ~SaveCopy(p)'
  BY <1>1, <1>2 DEF Walking, OnTorn, Outside, RecCopy, HeadCopy, SaveCopy, Heads, Storing, Tearing
<1>4. /\ vPc[p] = "find" /\ vDb[p] = db[p] /\ vLoc[p] = loc[p]
      /\ vPc'[p] = "find.readptr" /\ vDb'[p] = db'[p] /\ vLoc'[p] = loc'[p]
  BY <1>1, <1>2, <1>3, ViewProc, ViewPlain
<1>5. /\ vPc' = [vPc EXCEPT ![p] = vPc'[p]] /\ vDb' = [vDb EXCEPT ![p] = vDb'[p]]
      /\ vLoc' = [vLoc EXCEPT ![p] = vLoc'[p]]
  BY ViewOthers
<1>6. vDb' = vDb /\ vLoc' = vLoc
  <2>1. vDb'[p] = vDb[p] /\ vLoc'[p] = vLoc[p]
    BY <1>2, <1>4
  <2> QED BY <1>5, <2>1, SameAt, ViewFunctions
<1>7. vTable' = vTable /\ vIdx' = vIdx
  BY <1>2, ViewSame
<1>8. View!FindLock(p)
  BY <1>1, <1>2, <1>4, <1>5, <1>6, <1>7, SameOperators
     DEF FindLock, View!FindLock, View!Transition, View!Goto, readw_lock, View!readw_lock,
         writew_lock, View!writew_lock, client, View!client, files, View!files
<1> QED BY <1>8 DEF View!Find, View!Step

LEMMA FindReadPtrMaps ==
    ASSUME NEW p \in Procs, NEW own, NEW dep, NEW c, NEW left, NEW Z, CrashSafe,
           Torn(own, dep, c, left, Z), Step(p), Follow(p), FindReadPtr(p)
    PROVE  View!Step(p)
<1>0. PICK h, s, d : h = chainoff(p) /\ s = readptr(h) /\ d = [db[p] EXCEPT !.ptroff = h]
  OBVIOUS
<1>1. /\ DOMAIN pc = Procs /\ DOMAIN db = Procs /\ DOMAIN loc = Procs
      /\ pc[p] = "find.readptr" /\ FindNext(p, d, s) /\ UNCHANGED <<files, lock, client>>
  BY <1>0, StepOthers DEF FindReadPtr
<1>2. PICK nf : nf = NotFound(call[p])
  OBVIOUS
<1>3. /\ pc'[p] = IF s # 0 THEN "find.readidx" ELSE nf.pc
      /\ db'[p] = IF s # 0 THEN d ELSE NoDb
      /\ loc'[p] = [NoLoc EXCEPT !.offset = s, !.rc = IF s # 0 THEN NULL ELSE nf.rc]
      /\ nf.pc \in {"unlock", "store.head"}
  BY <1>1, <1>2, NotFoundPc DEF FindNext, Goto
<1>4. /\ table' = table /\ idx' = idx /\ dat' = dat /\ call' = call /\ astray' = astray
      /\ Carries(p, Z) /\ torn = {c} /\ 0 \notin astray /\ p \notin lost
      /\ chainoff(p) \in Chains /\ LocalOK(p) /\ pc[p] \notin Outside
      /\ OnTorn(p)' <=> pc'[p] \notin Outside /\ h = c
  <2>1. LocalOK(p) /\ pc[p] \notin Outside
    BY <1>1 DEF CrashSafe, FileInv, Outside
  <2>2. call' = call
    BY <1>1 DEF client
  <2> QED BY <1>0, <1>1, <2>1, <2>2, StepFacts DEF files, Tearing, Knows, chainoff
<1>5. ~Walking(p) /\ ~RecCopy(p) /\ ~HeadCopy(p) /\ ~SaveCopy(p)
  BY <1>1 DEF Walking, RecCopy, HeadCopy, SaveCopy, Heads, Storing, Tearing
<1>6. vPc[p] = "find.readptr" /\ vDb[p] = db[p] /\ vLoc[p] = loc[p]
  BY <1>1, <1>5, ViewProc
<1>7. /\ vPc' = [vPc EXCEPT ![p] = vPc'[p]] /\ vDb' = [vDb EXCEPT ![p] = vDb'[p]]
      /\ vLoc' = [vLoc EXCEPT ![p] = vLoc'[p]] /\ vTable' = vTable /\ vIdx' = vIdx
  BY <1>4, ViewOthers, ViewSame
<1>8. PICK t : t = IF h \in astray THEN 0 ELSE s
  OBVIOUS
<1>9. View!readptr(h) = t
  BY <1>0, <1>4, <1>8, ViewFiles DEF Chains
<1>10. /\ vPc'[p] = IF t # 0 THEN "find.readidx" ELSE nf.pc
       /\ vDb'[p] = IF t # 0 THEN d ELSE NoDb
       /\ vLoc'[p] = [NoLoc EXCEPT !.offset = t, !.rc = IF t # 0 THEN NULL ELSE nf.rc]
  <2>1. CASE h \notin astray
    <3>1. p \notin lost'
      BY <1>0, <1>1, <1>4, <2>1 DEF Follow, Reads
    <3>2. ~Walking(p)' /\ ~HeadCopy(p)' /\ ~SaveCopy(p)'
      BY <1>3, <3>1 DEF Walking, HeadCopy, SaveCopy, Heads, Storing, Tearing
    <3>3. ~RecCopy(p)'
      BY <1>3, <1>4 DEF RecCopy, NoDb
    <3> QED BY <1>3, <1>8, <2>1, <3>2, <3>3, ViewPlain
  <2>2. CASE h \in astray
    <3>1. s # 0
      BY <1>0, <2>2, DbAssumption DEF Torn, OffChain, Stray, Recs
    <3>2. pc'[p] = "find.readidx" /\ p \in lost'
      BY <1>0, <1>1, <1>3, <2>2, <3>1 DEF Follow, Reads
    <3>3. Walking(p)'
      BY <3>2 DEF Walking
    <3>4. vPc'[p] = nf.pc /\ vDb'[p] = NoDb /\ vLoc'[p] = [NoLoc EXCEPT !.rc = nf.rc]
      BY <1>2, <1>4, <3>3, ViewProcNext
    <3> QED BY <1>8, <2>2, <3>4 DEF NoLoc
  <2> QED BY <2>1, <2>2
<1>11. View!NoDb = NoDb /\ View!NoLoc = NoLoc
  BY SameConstants
<1>12. View!chainoff(p) = h /\ View!NotFound(call[p]) = nf
  BY <1>0, <1>2, SameOperators
<1>13. View!FindReadPtr(p)
  BY <1>0, <1>1, <1>4, <1>6, <1>7, <1>9, <1>10, <1>11, <1>12
     DEF View!FindReadPtr, View!FindNext, View!Goto, client, View!client, View!files
<1> QED BY <1>13 DEF View!Find, View!Step

\* A record behind a pointer that leads off the chain is on the chain of its key,
\* unless it is blank, or new and of a process that has this chain locked.
LEMMA StrayHit ==
    ASSUME NEW own, NEW dep, NEW c, NEW left, NEW Z, CrashSafe, Torn(own, dep, c, left, Z),
           NEW x \in Stray(Z), NEW k \in Keys, readidx(x).key = k,
           \A q \in Procs : pc[q] \in {"append.idxunlock", "store.writeptr"} => chainoff(q) # Hash[k]
    PROVE  x \in Recs /\ own[x] = Hash[k] /\ View!Hit(own, k, x)
<1>1. /\ View!Lists(own, dep) /\ View!Keyed(own) /\ View!NewRecs(own, left) /\ Unreached(left, Z)
      /\ View!FREE_OFF = FREE_OFF /\ View!Nowhere = Nowhere /\ View!Chains = Chains
  BY SameOperators, SameConstants DEF Torn, View!Good
<1>2. /\ x \in Recs /\ x \in Ptr /\ x \notin Z /\ View!Recs = Recs /\ View!readidx(x).key = k /\ k # BLANK
  BY ViewFiles, DbAssumption DEF Stray
<1>3. x \in Nat /\ x <= PTR_MAX /\ \A y \in Nowhere..NHASH : y = Nowhere \/ y = FREE_OFF \/ y \in Chains
  BY <1>2, DbAssumption DEF Recs, Ptr, Nowhere, FREE_OFF, Chains
<1>4. own[x] \in Nowhere..NHASH
  BY <1>1, <1>3 DEF View!Lists, View!Ordered
<1>5. own[x] # FREE_OFF
  BY <1>1, <1>2 DEF View!Keyed
<1>6. own[x] # Nowhere
  <2> SUFFICES ASSUME own[x] = Nowhere PROVE FALSE
    OBVIOUS
  <2>1. x \notin left
    BY <1>1, <1>2 DEF Unreached
  <2>2. PICK q \in Procs : \/ vPc[q] = "exited" /\ x > PTR_MAX
                           \/ View!HasNew(q) /\ vDb[q].idxoff = x
    BY <1>1, <1>2, <2>1 DEF View!NewRecs
  <2>3. View!HasNew(q) /\ vDb[q].idxoff = x
    BY <1>2, <1>3, <2>2, DbAssumption DEF Ptr
  <2>4. ~Walking(q)
    <3>1. Walking(q) => vPc[q] = NotFound(call[q]).pc
      BY ViewProc
    <3>2. Walking(q) => vPc[q] \in {"unlock", "store.head"}
      BY <3>1, NotFoundPc
    <3> QED BY <2>3, <3>2 DEF View!HasNew
  <2>5. HasNew(q) /\ db[q].idxoff = x
    BY <2>3, <2>4, ViewFields DEF View!HasNew, HasNew
  <2>6. Knows(own, q)
    BY TornKnows
  <2>7. CASE Reuses(q)
    BY <1>2, <2>5, <2>6, <2>7 DEF Knows
  <2>8. CASE pc[q] \in {"append.idxunlock", "store.writeptr"}
    <3>1. readidx(db[q].idxoff).key = call[q].key
      BY <2>6, <2>8 DEF Knows
    <3> QED BY <2>5, <2>8, <3>1 DEF chainoff
  <2> QED BY <2>5, <2>7, <2>8 DEF HasNew, Reuses
<1>7. own[x] \in Chains
  BY <1>3, <1>4, <1>5, <1>6
<1>8. Hash[k] = own[x]
  BY <1>1, <1>2, <1>7 DEF View!Keyed
<1> QED BY <1>2, <1>8 DEF View!Hit

\* So a search that is behind such a pointer does not find its key.
LEMMA WalkMisses ==
    ASSUME NEW p \in Procs, NEW own, NEW dep, NEW c, NEW left, NEW Z, CrashSafe,
           Torn(own, dep, c, left, Z), Walking(p)
    PROVE  readidx(loc[p].offset).key # call[p].key
<1> SUFFICES ASSUME readidx(loc[p].offset).key = call[p].key PROVE FALSE
  OBVIOUS
<1>0. PICK x, k, r : x = loc[p].offset /\ r = call[p] /\ k = r.key
  OBVIOUS
<1>1. pc[p] = "find.readidx" /\ pc[p] \notin Outside
  BY DEF Walking, Outside
<1>2. Carries(p, Z) /\ View!At(own, dep, p) /\ Control
  BY DEF Torn, View!Good, CrashSafe
<1>3. /\ r \in Requests /\ k \in Keys /\ Held(p, Hash[k]) /\ Hash[k] \in Regions
      /\ r.fn \in {"fetch", "delete", "store"}
  <2>1. call[p] \in Requests /\ call[p].key \in Keys /\ Held(p, chainoff(p)) /\ chainoff(p) \in Regions
    BY <1>1, HeldLists, Remembered DEF CrashSafe
  <2> QED BY <1>0, <2>1, RequestFn DEF chainoff
<1>4. x \in Stray(Z)
  BY <1>0, <1>2 DEF Carries
<1>5. ASSUME NEW q \in Procs, pc[q] \in {"append.idxunlock", "store.writeptr"}, chainoff(q) = Hash[k]
      PROVE  FALSE
  <2>1. pc[q] \in Storing /\ q # p
    BY <1>1, <1>5 DEF Storing
  <2>2. Owns(q, Hash[k])
    BY <1>2, <1>5, <2>1, HeldLists
  <2> QED BY <1>2, <1>3, <2>1, <2>2, Exclusive
<1>6. View!Hit(own, k, x) /\ x \in Recs /\ View!Recs = Recs
  BY <1>0, <1>3, <1>4, <1>5, StrayHit, ViewFiles
<1>7. ~View!Absent(own, k)
  BY <1>6 DEF View!Absent
<1>8. vPc[p] = NotFound(r).pc /\ vLoc[p] = [NoLoc EXCEPT !.rc = NotFound(r).rc]
  BY <1>0, ViewProc
<1>9. CASE NotFound(r).pc = "store.head"
  BY <1>0, <1>2, <1>7, <1>8, <1>9 DEF View!At, View!Missing, View!Gone, View!Storing
<1>10. CASE NotFound(r).pc = "unlock"
  <2>1. PICK rc : rc = NotFound(r).rc
    OBVIOUS
  <2>2. vLoc[p].rc = rc
    BY <1>8, <2>1 DEF NoLoc
  <2>3. rc = View!Abs!Reply(kv, r) /\ View!Shows(own, k, View!Abs!Effect(kv, r)[k])
    BY <1>0, <1>2, <1>8, <1>10, <2>2 DEF View!At, View!Replying, View!Done
  <2>4. /\ r.fn = "fetch" => rc = NULL
        /\ r.fn # "fetch" => rc = -1
        /\ r.fn = "store" => Abs!DB_REPLACE \in r.flag
    BY <1>3, <1>10, <2>1 DEF NotFound
  <2>5. kv \in [Keys -> Data \cup {BLANK, NULL}]
    BY <1>2 DEF Control, ControlTypeOK
  <2>6. kv[k] = NULL
    BY <1>0, <1>3, <2>3, <2>4 DEF View!Abs!Reply
  <2>7. r.fn = "store" => View!Abs!Refused(kv, r)
    BY <1>0, <2>4, <2>6 DEF View!Abs!Refused, View!Abs!DB_REPLACE, Abs!DB_REPLACE
  <2>8. View!Abs!Effect(kv, r)[k] = NULL
    BY <1>0, <1>3, <2>5, <2>6, <2>7 DEF View!Abs!Effect
  <2> QED BY <1>7, <2>3, <2>8 DEF View!Shows
<1> QED BY <1>9, <1>10, NotFoundPc

\* The step of such a search is no step in the view.
LEMMA WalkMaps ==
    ASSUME NEW p \in Procs, NEW own, NEW dep, NEW c, NEW left, NEW Z, CrashSafe,
           Torn(own, dep, c, left, Z), Step(p), Follow(p), FindReadIdx(p), Walking(p)
    PROVE  UNCHANGED View!vars
<1>0. PICK x, s, d : /\ x = loc[p].offset /\ s = readidx(x).ptr
                     /\ d = [AfterReadIdx(db[p], x) EXCEPT !.ptroff = x]
  OBVIOUS
<1>1. /\ DOMAIN pc = Procs /\ DOMAIN db = Procs /\ DOMAIN loc = Procs /\ readidx(x).key # call[p].key
      /\ pc[p] = "find.readidx" /\ FindNext(p, d, s) /\ UNCHANGED <<files, lock, client>>
  BY <1>0, StepOthers, WalkMisses DEF FindReadIdx
<1>2. PICK nf : nf = NotFound(call[p])
  OBVIOUS
<1>3. /\ pc'[p] = IF s # 0 THEN "find.readidx" ELSE nf.pc
      /\ db'[p] = IF s # 0 THEN d ELSE NoDb
      /\ loc'[p] = [NoLoc EXCEPT !.offset = s, !.rc = IF s # 0 THEN NULL ELSE nf.rc]
      /\ nf.pc \in {"unlock", "store.head"}
  BY <1>1, <1>2, NotFoundPc DEF FindNext, Goto
<1>4. /\ table' = table /\ idx' = idx /\ call' = call /\ astray' = astray
      /\ torn = {c} /\ 0 \notin astray /\ p \in lost
  BY <1>1, StepFacts DEF files, client, Walking
<1>5. vPc[p] = nf.pc /\ vDb[p] = NoDb /\ vLoc[p] = [NoLoc EXCEPT !.rc = nf.rc]
  BY <1>2, ViewProc
<1>6. vPc'[p] = nf.pc /\ vDb'[p] = NoDb /\ vLoc'[p] = [NoLoc EXCEPT !.rc = nf.rc]
  <2>1. CASE s # 0
    <3>1. Walking(p)'
      BY <1>3, <1>4, <2>1 DEF Follow, Walking
    <3> QED BY <1>2, <1>4, <3>1, ViewProcNext
  <2>2. CASE s = 0
    <3>1. ~Walking(p)' /\ ~HeadCopy(p)' /\ ~SaveCopy(p)' /\ ~RecCopy(p)'
      BY <1>3, <1>4, <2>2 DEF Walking, HeadCopy, SaveCopy, RecCopy, NoDb, Heads, Storing, Tearing
    <3>2. vPc'[p] = pc'[p] /\ vDb'[p] = db'[p] /\ vLoc'[p] = loc'[p]
      BY <3>1, ViewPlain
    <3>3. pc'[p] = nf.pc /\ db'[p] = NoDb /\ loc'[p] = [NoLoc EXCEPT !.offset = 0, !.rc = nf.rc]
      BY <1>3, <2>2
    <3>4. loc'[p] = [NoLoc EXCEPT !.rc = nf.rc]
      BY <3>3, NoLocParts DEF LocType
    <3> QED BY <3>2, <3>3, <3>4
  <2> QED BY <2>1, <2>2
<1>7. vPc' = vPc /\ vDb' = vDb /\ vLoc' = vLoc
  <2>1. /\ vPc' = [vPc EXCEPT ![p] = vPc'[p]] /\ vDb' = [vDb EXCEPT ![p] = vDb'[p]]
        /\ vLoc' = [vLoc EXCEPT ![p] = vLoc'[p]]
    BY ViewOthers
  <2> QED BY <1>5, <1>6, <2>1, SameAt, ViewFunctions
<1>8. vTable' = vTable /\ vIdx' = vIdx
  BY <1>4, ViewSame
<1> QED BY <1>1, <1>7, <1>8 DEF View!vars, files, client

\* Any other search compares the keys in the view.
LEMMA FindReadIdxMaps ==
    ASSUME NEW p \in Procs, NEW own, NEW dep, NEW c, NEW left, NEW Z, CrashSafe,
           Torn(own, dep, c, left, Z), Step(p), Follow(p), FindReadIdx(p), ~Walking(p)
    PROVE  View!Step(p)
<1>0. PICK x, s, t : x = loc[p].offset /\ s = readptr(x) /\ t = IF x \in astray THEN 0 ELSE s
  OBVIOUS
<1>1. /\ DOMAIN pc = Procs /\ DOMAIN db = Procs /\ DOMAIN loc = Procs
      /\ pc[p] = "find.readidx" /\ UNCHANGED <<files, lock, client>> /\ pc[p] \notin Outside
      /\ db[p] \in DbType /\ loc[p] \in LocType
  BY StepOthers, ViewFields DEF FindReadIdx, Outside
<1>2. PICK r, nf : r = call[p] /\ nf = NotFound(r)
  OBVIOUS
<1>3. /\ table' = table /\ idx' = idx /\ dat' = dat /\ call' = call /\ astray' = astray
      /\ torn = {c} /\ 0 \notin astray /\ p \notin lost /\ Knows(own, p)
      /\ OnTorn(p)' <=> pc'[p] \notin Outside /\ chainoff(p) = c
      /\ x \in astray => chainoff(p) = c
      /\ nf.pc \in {"unlock", "store.head"}
  <2>1. call' = call /\ chainoff(p)' = chainoff(p) /\ p \notin lost
    BY <1>1 DEF client, chainoff, Walking
  <2>2. Knows(own, p)
    BY StepFacts
  <2>3. own[x] = chainoff(p)
    BY <1>0, <1>1, <2>1, <2>2 DEF Knows
  <2>4. x \in astray => chainoff(p) = c
    BY <1>1, <2>3, StepFacts
  <2> QED BY <1>1, <1>2, <2>1, <2>2, <2>4, StepFacts, NotFoundPc DEF files
<1>4. x \in Recs /\ readidx(x).ptr = s
  <2>1. x \in Recs /\ x \notin 0..NHASH
    BY <1>0, <1>1, Remembered DEF CrashSafe
  <2> QED BY <1>0, <2>1 DEF readptr, readidx
<1>5. /\ View!readidx(x).key = readidx(x).key /\ View!readidx(x).datoff = readidx(x).datoff
      /\ View!readidx(x).datlen = readidx(x).datlen /\ View!readidx(x).ptr = t
  BY <1>0, <1>4, ViewFiles
<1>6. vPc[p] = "find.readidx" /\ vDb[p] = db[p] /\ vLoc[p] = loc[p]
  <2>1. ~RecCopy(p) /\ ~HeadCopy(p) /\ ~SaveCopy(p)
    BY <1>1 DEF RecCopy, HeadCopy, SaveCopy, Heads, Storing, Tearing
  <2> QED BY <1>1, <2>1, ViewProc
<1>7. /\ vPc' = [vPc EXCEPT ![p] = vPc'[p]] /\ vDb' = [vDb EXCEPT ![p] = vDb'[p]]
      /\ vLoc' = [vLoc EXCEPT ![p] = vLoc'[p]] /\ vTable' = vTable /\ vIdx' = vIdx
  BY <1>3, ViewOthers, ViewSame
<1>8. PICK d, vd : d = AfterReadIdx(db[p], x) /\ vd = View!AfterReadIdx(vDb[p], x)
  OBVIOUS
<1>9. /\ d.idxoff = x /\ d \in [ptroff : Nat, idxoff : Nat, datoff : Nat, datlen : Nat, ptrval : Ptr]
      /\ vd = [d EXCEPT !.ptrval = t]
      /\ t = s => vd = d
  <2>1. x \in Nat /\ readidx(x) \in IdxRec
    <3>1. x - NHASH \in 1..Len(idx) /\ idx \in Seq(IdxRec) /\ x \in Nat
      BY <1>4, DbAssumption DEF Recs, CrashSafe, FileInv, FileTypeOK
    <3> QED BY <3>1 DEF readidx
  <2>2. d \in DbType /\ d.idxoff = x /\ d.ptrval = s
    BY <1>1, <1>4, <1>8, <2>1 DEF AfterReadIdx, DbType, IdxRec
  <2>3. vd = [d EXCEPT !.ptrval = t]
    BY <1>1, <1>5, <1>6, <1>8, <2>1, <2>2 DEF AfterReadIdx, View!AfterReadIdx, DbType
  <2> QED BY <2>2, <2>3 DEF DbType
<1>10. CASE readidx(x).key = r.key
  <2>1. PICK after : after = Found(r, readidx(x).datlen)
    OBVIOUS
  <2>2. /\ pc'[p] = after.pc /\ db'[p] = d /\ loc'[p] = [loc[p] EXCEPT !.rc = after.rc]
        /\ after.pc \in {"fetch.readdat", "dodelete", "unlock", "replace.writedat"}
    BY <1>0, <1>1, <1>2, <1>8, <1>10, <2>1 DEF FindReadIdx, Goto, Found
  <2>3. ~Walking(p)' /\ ~HeadCopy(p)' /\ ~SaveCopy(p)'
    BY <2>2 DEF Walking, HeadCopy, SaveCopy, Heads, Storing, Tearing
  <2>4. RecCopy(p)' <=> x \in astray
    BY <1>3, <1>9, <2>2 DEF RecCopy, Outside
  <2>5. vPc'[p] = after.pc /\ vDb'[p] = vd /\ vLoc'[p] = [vLoc[p] EXCEPT !.rc = after.rc]
    BY <1>0, <1>6, <1>9, <2>2, <2>3, <2>4, ViewProcNext
  <2>6. View!Found(r, View!readidx(x).datlen) = after
    BY <1>5, <2>1, SameOperators
  <2>7. View!FindReadIdx(p)
    BY <1>0, <1>1, <1>2, <1>3, <1>5, <1>6, <1>7, <1>8, <1>10, <2>5, <2>6
       DEF View!FindReadIdx, View!Goto, View!files, View!client, client
  <2> QED BY <2>7 DEF View!Find, View!Step
<1>11. CASE readidx(x).key # r.key
  <2>1. PICK e : e = [d EXCEPT !.ptroff = x]
    OBVIOUS
  <2>2. /\ pc'[p] = IF s # 0 THEN "find.readidx" ELSE nf.pc
        /\ db'[p] = IF s # 0 THEN e ELSE NoDb
        /\ loc'[p] = [NoLoc EXCEPT !.offset = s, !.rc = IF s # 0 THEN NULL ELSE nf.rc]
    BY <1>0, <1>1, <1>2, <1>4, <1>8, <1>11, <2>1 DEF FindReadIdx, FindNext, Goto
  <2>3. /\ vPc'[p] = IF t # 0 THEN "find.readidx" ELSE nf.pc
        /\ vDb'[p] = IF t # 0 THEN [vd EXCEPT !.ptroff = x] ELSE NoDb
        /\ vLoc'[p] = [NoLoc EXCEPT !.offset = t, !.rc = IF t # 0 THEN NULL ELSE nf.rc]
    <3>1. CASE x \notin astray
      <4>1. p \notin lost'
        BY <1>0, <1>1, <1>3, <3>1 DEF Follow, Reads
      <4>2. ~Walking(p)' /\ ~HeadCopy(p)' /\ ~SaveCopy(p)'
        BY <1>3, <2>2, <4>1 DEF Walking, HeadCopy, SaveCopy, Heads, Storing, Tearing
      <4>3. ~RecCopy(p)'
        BY <1>3, <2>2 DEF RecCopy, NoDb
      <4> QED BY <1>0, <1>9, <2>1, <2>2, <3>1, <4>2, <4>3, ViewPlain
    <3>2. CASE x \in astray
      <4>1. s # 0
        BY <1>0, <3>2, DbAssumption DEF Torn, OffChain, Stray, Recs
      <4>2. pc'[p] = "find.readidx" /\ p \in lost'
        BY <1>0, <1>1, <2>2, <3>2, <4>1 DEF Follow, Reads
      <4>3. Walking(p)'
        BY <4>2 DEF Walking
      <4>4. vPc'[p] = nf.pc /\ vDb'[p] = NoDb /\ vLoc'[p] = [NoLoc EXCEPT !.rc = nf.rc]
        BY <1>2, <1>3, <4>3, ViewProcNext
      <4> QED BY <1>0, <3>2, <4>4 DEF NoLoc
    <3> QED BY <3>1, <3>2
  <2>4. View!NoDb = NoDb /\ View!NoLoc = NoLoc /\ View!NotFound(r) = nf
    BY <1>2, SameConstants, SameOperators
  <2>5. PICK ve : ve = [vd EXCEPT !.ptroff = x]
    OBVIOUS
  <2>6. View!FindNext(p, ve, t)
    BY <1>2, <1>7, <2>3, <2>4, <2>5 DEF View!FindNext, View!Goto
  <2>7. View!FindNext(p, [View!AfterReadIdx(vDb[p], x) EXCEPT !.ptroff = x], View!readidx(x).ptr)
    BY <1>5, <1>8, <2>5, <2>6
  <2>8. View!FindReadIdx(p)
    BY <1>0, <1>1, <1>2, <1>3, <1>5, <1>6, <1>7, <1>11, <2>7
       DEF View!FindReadIdx, View!files, View!client, client
  <2> QED BY <2>8 DEF View!Find, View!Step
<1> QED BY <1>10, <1>11
-----------------------------------------------------------------------------
\* A copy of 0 in place of a pointer does not keep a step from setting other fields.
LEMMA DbCopy ==
    ASSUME NEW d \in DbType, NEW d2, NEW m, NEW x, NEW u, NEW v,
           m = [d EXCEPT !.ptrval = 0], x = [d2 EXCEPT !.ptrval = 0]
    PROVE  /\ d2 = [d EXCEPT !.datlen = v] => x = [m EXCEPT !.datlen = v]
           /\ d2 = [d EXCEPT !.datoff = u, !.datlen = v] => x = [m EXCEPT !.datoff = u, !.datlen = v]
  BY DEF DbType

LEMMA LocCopy ==
    ASSUME NEW l \in LocType, NEW l2, NEW m, NEW x, NEW u, NEW v,
           m = [l EXCEPT !.ptrval = 0], x = [l2 EXCEPT !.ptrval = 0]
    PROVE  /\ l2 = [l EXCEPT !.rc = v] => x = [m EXCEPT !.rc = v]
           /\ l2 = [l EXCEPT !.saveoffset = u, !.offset = v]
                => x = [m EXCEPT !.saveoffset = u, !.offset = v]
  BY DEF LocType

\* Steps that go on with the same record.
LEMMA FlagsKept ==
    ASSUME NEW p \in Procs, NEW own, NEW dep, NEW c, NEW left, NEW Z, CrashSafe,
           Torn(own, dep, c, left, Z), Step(p), Follow(p), pc[p] \in Quiet \ {"store.writeptr"},
           pc[p] # "reuse.writeidx", pc'[p] \in Quiet, pc[p] \in Heads <=> pc'[p] \in Heads,
           table' = table, idx' = idx, db'[p].idxoff = db[p].idxoff
    PROVE  /\ vTable' = vTable /\ vIdx' = vIdx /\ vPc[p] = pc[p]
           /\ vPc' = [vPc EXCEPT ![p] = pc'[p]]
           /\ vDb' = [vDb EXCEPT ![p] = vDb'[p]] /\ vLoc' = [vLoc EXCEPT ![p] = vLoc'[p]]
           /\ vDb[p] = IF RecCopy(p) THEN [db[p] EXCEPT !.ptrval = 0] ELSE db[p]
           /\ vLoc[p] = IF HeadCopy(p) THEN [loc[p] EXCEPT !.ptrval = 0] ELSE loc[p]
           /\ vDb'[p] = IF RecCopy(p) THEN [db'[p] EXCEPT !.ptrval = 0] ELSE db'[p]
           /\ vLoc'[p] = IF HeadCopy(p) THEN [loc'[p] EXCEPT !.ptrval = 0] ELSE loc'[p]
           /\ SameFlags(p) /\ astray' = astray /\ p \notin lost'
<1>1. astray' = astray /\ torn' = torn
  BY DEF Follow, Misleads, Writes, Quiet, Storing
<1>2. p \notin lost'
  BY DEF Follow, Quiet, Storing, Tearing
<1>3. call'[p] = call[p]
  BY StepOthers DEF Quiet, Storing
<1>4. /\ pc[p] \notin Outside /\ pc'[p] \notin Outside
      /\ pc[p] \notin {"find.readptr", "find.readidx", "append.idxwrite", "dodelete.writeidx"}
      /\ pc'[p] \notin {"find.readptr", "find.readidx", "append.idxwrite", "dodelete.writeidx"}
      /\ pc[p] \notin Tearing /\ pc'[p] \notin Tearing
  BY DEF Quiet, Storing, Outside, Tearing
<1>5. (OnTorn(p)' <=> OnTorn(p)) /\ chainoff(p)' = chainoff(p)
  BY <1>1, <1>3, <1>4 DEF OnTorn, chainoff
<1>6. /\ SameFlags(p) /\ ~Walking(p) /\ ~Walking(p)' /\ ~SaveCopy(p) /\ ~SaveCopy(p)'
  BY <1>1, <1>4, <1>5 DEF SameFlags, Walking, HeadCopy, RecCopy, SaveCopy
<1>7. /\ vPc[p] = pc[p] /\ vPc'[p] = pc'[p]
      /\ vDb[p] = IF RecCopy(p) THEN [db[p] EXCEPT !.ptrval = 0] ELSE db[p]
      /\ vLoc[p] = IF HeadCopy(p) THEN [loc[p] EXCEPT !.ptrval = 0] ELSE loc[p]
      /\ vDb'[p] = IF RecCopy(p) THEN [db'[p] EXCEPT !.ptrval = 0] ELSE db'[p]
      /\ vLoc'[p] = IF HeadCopy(p) THEN [loc'[p] EXCEPT !.ptrval = 0] ELSE loc'[p]
  BY <1>6, ViewProc, ViewProcNext DEF SameFlags
<1>8. /\ vPc' = [vPc EXCEPT ![p] = vPc'[p]] /\ vDb' = [vDb EXCEPT ![p] = vDb'[p]]
      /\ vLoc' = [vLoc EXCEPT ![p] = vLoc'[p]]
  BY ViewOthers
<1> QED BY <1>1, <1>2, <1>6, <1>7, <1>8, ViewSame

LEMMA MemoryMaps ==
    ASSUME NEW p \in Procs, NEW own, NEW dep, NEW c, NEW left, NEW Z, CrashSafe,
           Torn(own, dep, c, left, Z), Step(p), Follow(p),
           FetchReadDat(p) \/ AppendDatSeek(p) \/ StoreWriteDat(p) \/ FreeReadPtr(p)
    PROVE  View!Step(p)
<1>0. /\ DOMAIN pc = Procs /\ DOMAIN db = Procs /\ DOMAIN loc = Procs
      /\ db[p] \in DbType /\ loc[p] \in LocType
  BY StepOthers, FileParts DEF CrashSafe, MemoryTypeOK
<1> USE <1>0 DEF Transition, Goto, files, client
<1>1. /\ pc[p] \in Quiet \ {"store.writeptr", "reuse.writeidx"} /\ pc'[p] \in Quiet
      /\ pc[p] \in Heads <=> pc'[p] \in Heads
      /\ table' = table /\ idx' = idx /\ lock' = lock /\ call' = call /\ calls' = calls
      /\ kv' = kv /\ ret' = ret /\ db'[p].idxoff = db[p].idxoff
  <2> USE DEF Quiet, Heads, Storing
  <2>1. CASE FetchReadDat(p)
    BY <2>1 DEF FetchReadDat
  <2>2. CASE AppendDatSeek(p)
    BY <2>2 DEF AppendDatSeek, DbType
  <2>3. CASE StoreWriteDat(p)
    BY <2>3 DEF StoreWriteDat, DbType
  <2>4. CASE FreeReadPtr(p)
    BY <2>4 DEF FreeReadPtr, FreeNext
  <2> QED BY <2>1, <2>2, <2>3, <2>4
<1>2. /\ vTable' = vTable /\ vIdx' = vIdx /\ vPc[p] = pc[p]
      /\ vPc' = [vPc EXCEPT ![p] = pc'[p]]
      /\ vDb' = [vDb EXCEPT ![p] = vDb'[p]] /\ vLoc' = [vLoc EXCEPT ![p] = vLoc'[p]]
      /\ vDb[p] = IF RecCopy(p) THEN [db[p] EXCEPT !.ptrval = 0] ELSE db[p]
      /\ vLoc[p] = IF HeadCopy(p) THEN [loc[p] EXCEPT !.ptrval = 0] ELSE loc[p]
      /\ vDb'[p] = IF RecCopy(p) THEN [db'[p] EXCEPT !.ptrval = 0] ELSE db'[p]
      /\ vLoc'[p] = IF HeadCopy(p) THEN [loc'[p] EXCEPT !.ptrval = 0] ELSE loc'[p]
  BY <1>1, FlagsKept
<1>3. vDb[p].datoff = db[p].datoff /\ vDb[p].idxoff = db[p].idxoff
  BY <1>2 DEF DbType
<1>4. /\ db'[p] = db[p] => vDb' = vDb
      /\ loc'[p] = loc[p] => vLoc' = vLoc
  <2>1. /\ db'[p] = db[p] => vDb'[p] = vDb[p]
        /\ loc'[p] = loc[p] => vLoc'[p] = vLoc[p]
    BY <1>2
  <2> QED BY <1>2, <2>1, SameAt, ViewFunctions
<1>5. CASE FetchReadDat(p)
  <2>1. PICK v : v = dat[db[p].datoff].data
    OBVIOUS
  <2>2. loc'[p] = [loc[p] EXCEPT !.rc = v] /\ pc[p] = "fetch.readdat" /\ pc'[p] = "unlock"
        /\ db' = db /\ dat' = dat
    BY <1>5, <2>1 DEF FetchReadDat
  <2>3. vLoc'[p] = [vLoc[p] EXCEPT !.rc = v]
    <3>1. CASE HeadCopy(p)
      <4>1. vLoc[p] = [loc[p] EXCEPT !.ptrval = 0] /\ vLoc'[p] = [loc'[p] EXCEPT !.ptrval = 0]
        BY <1>2, <3>1
      <4> QED BY <2>2, <4>1, LocCopy
    <3>2. CASE ~HeadCopy(p)
      BY <1>2, <2>2, <3>2
    <3> QED BY <3>1, <3>2
  <2>4. View!FetchReadDat(p)
    BY <1>1, <1>2, <1>3, <1>4, <2>1, <2>2, <2>3
       DEF View!FetchReadDat, View!Transition, View!Goto, View!files, View!client
  <2> QED BY <2>4 DEF View!Step
<1>6. CASE AppendDatSeek(p)
  <2>1. PICK n, m : n = Len(dat) + 1 /\ m = DatLen[call[p].data]
    OBVIOUS
  <2>2. /\ db'[p] = [db[p] EXCEPT !.datoff = n, !.datlen = m]
        /\ pc[p] = "append.datseek" /\ pc'[p] = "append.datwrite" /\ loc' = loc /\ dat' = dat
    BY <1>6, <2>1 DEF AppendDatSeek
  <2>3. vDb'[p] = [vDb[p] EXCEPT !.datoff = n, !.datlen = m]
    <3>1. CASE RecCopy(p)
      <4>1. vDb[p] = [db[p] EXCEPT !.ptrval = 0] /\ vDb'[p] = [db'[p] EXCEPT !.ptrval = 0]
        BY <1>2, <3>1
      <4> QED BY <2>2, <4>1, DbCopy
    <3>2. CASE ~RecCopy(p)
      BY <1>2, <2>2, <3>2
    <3> QED BY <3>1, <3>2
  <2>4. View!AppendDatSeek(p)
    BY <1>1, <1>2, <1>4, <2>1, <2>2, <2>3
       DEF View!AppendDatSeek, View!Transition, View!Goto, View!files, View!client
  <2> QED BY <2>4 DEF View!AppendDat, View!Step
<1>7. CASE StoreWriteDat(p)
  <2>1. PICK m : m = DatLen[call[p].data]
    OBVIOUS
  <2>2. /\ db'[p] = [db[p] EXCEPT !.datlen = m] /\ loc' = loc
        /\ pc[p] \in {"reuse.writedat", "replace.writedat"}
        /\ pc'[p] = IF pc[p] = "reuse.writedat" THEN "reuse.writeidx" ELSE "unlock"
        /\ dat' = [dat EXCEPT ![vDb[p].datoff].data = call[p].data]
    BY <1>3, <1>7, <2>1 DEF StoreWriteDat
  <2>3. vDb'[p] = [vDb[p] EXCEPT !.datlen = m]
    <3>1. CASE RecCopy(p)
      <4>1. vDb[p] = [db[p] EXCEPT !.ptrval = 0] /\ vDb'[p] = [db'[p] EXCEPT !.ptrval = 0]
        BY <1>2, <3>1
      <4> QED BY <2>2, <4>1, DbCopy
    <3>2. CASE ~RecCopy(p)
      BY <1>2, <2>2, <3>2
    <3> QED BY <3>1, <3>2
  <2>4. View!StoreWriteDat(p)
    BY <1>1, <1>2, <1>4, <2>1, <2>2, <2>3 DEF View!StoreWriteDat, View!Goto, View!client
  <2> QED BY <2>4 DEF View!Store, View!Step
<1>8. CASE FreeReadPtr(p)
  <2>1. PICK s : s = readptr(FREE_OFF)
    OBVIOUS
  <2>2. /\ loc'[p] = [loc[p] EXCEPT !.saveoffset = FREE_OFF, !.offset = s] /\ db' = db /\ dat' = dat
        /\ pc[p] = "findfree.readptr"
        /\ pc'[p] = IF s # 0 THEN "findfree.readidx" ELSE "findfree.unlock"
    BY <1>8, <2>1 DEF FreeReadPtr, FreeNext
  <2>3. vLoc'[p] = [vLoc[p] EXCEPT !.saveoffset = FREE_OFF, !.offset = s]
    <3>1. CASE HeadCopy(p)
      <4>1. vLoc[p] = [loc[p] EXCEPT !.ptrval = 0] /\ vLoc'[p] = [loc'[p] EXCEPT !.ptrval = 0]
        BY <1>2, <3>1
      <4> QED BY <2>2, <4>1, LocCopy
    <3>2. CASE ~HeadCopy(p)
      BY <1>2, <2>2, <3>2
    <3> QED BY <3>1, <3>2
  <2>4. View!readptr(FREE_OFF) = s
    BY <2>1, StepFacts, ViewFiles, Remembered DEF CrashSafe
  <2>5. View!FREE_OFF = FREE_OFF
    BY SameOperators
  <2>6. View!FreeReadPtr(p)
    BY <1>1, <1>2, <1>4, <2>1, <2>2, <2>3, <2>4, <2>5
       DEF View!FreeReadPtr, View!FreeNext, View!Goto, View!files, View!client
  <2> QED BY <2>6 DEF View!FindFree, View!Step
<1> QED BY <1>5, <1>6, <1>7, <1>8

LEMMA StoreHeadMaps ==
    ASSUME NEW p \in Procs, NEW own, NEW dep, NEW c, NEW left, NEW Z, CrashSafe,
           Torn(own, dep, c, left, Z), Step(p), Follow(p), StoreHead(p)
    PROVE  View!Step(p)
<1>0. PICK h, s, t, l : /\ h = chainoff(p) /\ s = readptr(h) /\ t = IF h \in astray THEN 0 ELSE s
                        /\ l = loc[p]
  OBVIOUS
<1>1. /\ DOMAIN pc = Procs /\ DOMAIN loc = Procs /\ pc[p] \in {"store.head", "store.rehead"}
      /\ loc'[p] = [l EXCEPT !.ptrval = s] /\ l \in LocType
      /\ pc'[p] = IF pc[p] = "store.head" THEN "findfree" ELSE "append.datlock"
      /\ UNCHANGED <<files, lock, db, client>>
  BY <1>0, StepOthers, FileParts DEF StoreHead, Goto, CrashSafe, MemoryTypeOK
<1>2. /\ table' = table /\ idx' = idx /\ dat' = dat /\ call' = call /\ db' = db /\ astray' = astray
      /\ torn' = torn /\ chainoff(p)' = h /\ pc[p] \notin Outside /\ pc'[p] \notin Outside
      /\ p \notin lost /\ p \notin lost' /\ call[p] \in Requests /\ h \in Chains
  <2>1. /\ pc[p] \notin Outside /\ pc'[p] \notin Outside /\ pc[p] \notin {"find.readidx"} \cup Tearing
        /\ pc'[p] \notin {"find.readidx"} \cup Tearing
    BY <1>1 DEF Outside, Tearing
  <2>2. call[p] \in Requests /\ h \in Chains
    BY <1>0, <2>1, HeldLists DEF CrashSafe
  <2>3. table' = table /\ idx' = idx /\ dat' = dat /\ call' = call /\ db' = db
    BY <1>1 DEF files, client
  <2> QED BY <1>0, <1>1, <2>1, <2>2, <2>3, StepFacts DEF chainoff
<1>3. OnTorn(p)' <=> OnTorn(p)
  BY <1>0, <1>2 DEF OnTorn
<1>4. h \in astray => OnTorn(p)
  BY <1>0, <1>2, StepFacts
<1>5. /\ ~Walking(p) /\ ~Walking(p)' /\ ~HeadCopy(p) /\ ~SaveCopy(p) /\ ~SaveCopy(p)'
      /\ HeadCopy(p)' <=> h \in astray
      /\ RecCopy(p)' <=> RecCopy(p)
  BY <1>1, <1>2, <1>3, <1>4 DEF Walking, HeadCopy, RecCopy, SaveCopy, Heads, Storing, Tearing
<1>6. vPc[p] = pc[p] /\ vPc'[p] = pc'[p] /\ vDb'[p] = vDb[p] /\ vLoc[p] = l
  BY <1>0, <1>2, <1>5, ViewProc, ViewProcNext
<1>7. vLoc'[p] = [l EXCEPT !.ptrval = t]
  <2>1. CASE h \in astray
    <3>1. vLoc'[p] = [loc'[p] EXCEPT !.ptrval = 0] /\ t = 0
      BY <1>0, <1>5, <2>1, ViewProcNext
    <3> QED BY <1>1, <3>1 DEF LocType
  <2>2. CASE h \notin astray
    BY <1>0, <1>1, <1>5, <2>2, ViewProcNext
  <2> QED BY <2>1, <2>2
<1>8. View!readptr(h) = t /\ View!chainoff(p) = h
  BY <1>0, <1>2, ViewFiles, SameOperators DEF Chains
<1>9. /\ vPc' = [vPc EXCEPT ![p] = vPc'[p]] /\ vDb' = vDb
      /\ vLoc' = [vLoc EXCEPT ![p] = vLoc'[p]] /\ vTable' = vTable /\ vIdx' = vIdx
  <2>1. vDb' = [vDb EXCEPT ![p] = vDb'[p]]
    BY ViewOthers
  <2>2. vDb' = vDb
    BY <1>6, <2>1, SameAt, ViewFunctions
  <2> QED BY <1>2, <2>2, ViewOthers, ViewSame
<1>10. View!StoreHead(p)
  BY <1>1, <1>2, <1>6, <1>7, <1>8, <1>9
     DEF View!StoreHead, View!Goto, View!files, View!client, client
<1> QED BY <1>10 DEF View!Store, View!Step

LEMMA DelReadFreeMaps ==
    ASSUME NEW p \in Procs, NEW own, NEW dep, NEW c, NEW left, NEW Z, CrashSafe,
           Torn(own, dep, c, left, Z), Step(p), Follow(p), DelReadFree(p)
    PROVE  View!Step(p)
<1>0. PICK f, s, t, l : /\ f = readptr(FREE_OFF) /\ s = db[p].ptrval /\ l = loc[p]
                        /\ t = vDb[p].ptrval
  OBVIOUS
<1>1. /\ DOMAIN pc = Procs /\ DOMAIN loc = Procs /\ pc[p] = "dodelete.readptr"
      /\ loc'[p] = [l EXCEPT !.freeptr = f, !.saveptr = s] /\ l \in LocType
      /\ pc'[p] = "dodelete.writeidx" /\ UNCHANGED <<files, lock, db, client>>
  BY <1>0, StepOthers, FileParts DEF DelReadFree, Transition, Goto, CrashSafe, MemoryTypeOK
<1>2. /\ table' = table /\ idx' = idx /\ dat' = dat /\ call' = call /\ db' = db /\ astray' = astray
      /\ torn' = torn /\ chainoff(p)' = chainoff(p) /\ pc[p] \notin Outside /\ pc'[p] \notin Outside
      /\ FREE_OFF \notin astray
  <2>1. table' = table /\ idx' = idx /\ dat' = dat /\ call' = call /\ db' = db
    BY <1>1 DEF files, client
  <2> QED BY <1>1, <2>1, StepFacts DEF chainoff, Outside
<1>3. OnTorn(p)' <=> OnTorn(p)
  BY <1>2 DEF OnTorn
<1>4. /\ ~Walking(p) /\ ~Walking(p)' /\ ~HeadCopy(p) /\ ~HeadCopy(p)' /\ ~SaveCopy(p)
      /\ SaveCopy(p)' <=> RecCopy(p)
      /\ RecCopy(p)' <=> RecCopy(p)
  BY <1>1, <1>2, <1>3 DEF Walking, HeadCopy, RecCopy, SaveCopy, Heads, Storing, Tearing
<1>5. vPc[p] = pc[p] /\ vPc'[p] = pc'[p] /\ vDb'[p] = vDb[p] /\ vLoc[p] = l
  BY <1>0, <1>2, <1>4, ViewProc, ViewProcNext
<1>6. t = IF RecCopy(p) THEN 0 ELSE s
  BY <1>0, <1>4, ViewFields
<1>7. vLoc'[p] = [l EXCEPT !.freeptr = f, !.saveptr = t]
  <2>1. CASE RecCopy(p)
    <3>1. vLoc'[p] = [loc'[p] EXCEPT !.saveptr = 0] /\ t = 0
      BY <1>4, <1>6, <2>1, ViewProcNext
    <3> QED BY <1>1, <3>1 DEF LocType
  <2>2. CASE ~RecCopy(p)
    BY <1>1, <1>4, <1>6, <2>2, ViewProcNext
  <2> QED BY <2>1, <2>2
<1>8. View!readptr(FREE_OFF) = f /\ View!FREE_OFF = FREE_OFF
  BY <1>0, <1>2, ViewFiles, SameOperators, Remembered DEF CrashSafe
<1>9. /\ vPc' = [vPc EXCEPT ![p] = vPc'[p]] /\ vDb' = vDb
      /\ vLoc' = [vLoc EXCEPT ![p] = vLoc'[p]] /\ vTable' = vTable /\ vIdx' = vIdx
  <2>1. vDb' = [vDb EXCEPT ![p] = vDb'[p]]
    BY ViewOthers
  <2>2. vDb' = vDb
    BY <1>5, <2>1, SameAt, ViewFunctions
  <2> QED BY <1>2, <2>2, ViewOthers, ViewSame
<1>10. View!DelReadFree(p)
  BY <1>0, <1>1, <1>2, <1>5, <1>7, <1>8, <1>9
     DEF View!DelReadFree, View!Transition, View!Goto, View!files, View!client, client
<1> QED BY <1>10 DEF View!DoDelete, View!Step

LEMMA AppendIdxSeekMaps ==
    ASSUME NEW p \in Procs, NEW own, NEW dep, NEW c, NEW left, NEW Z, CrashSafe,
           Torn(own, dep, c, left, Z), Step(p), Follow(p), AppendIdxSeek(p)
    PROVE  View!Step(p)
<1>0. PICK r, s, t, d : /\ r = NHASH + Len(idx) + 1 /\ s = loc[p].ptrval /\ d = db[p]
                        /\ t = vLoc[p].ptrval
  OBVIOUS
<1>1. /\ DOMAIN pc = Procs /\ DOMAIN db = Procs /\ pc[p] = "append.idxseek"
      /\ db'[p] = [d EXCEPT !.idxoff = r, !.ptrval = s] /\ d \in DbType
      /\ pc'[p] = "append.idxwrite" /\ UNCHANGED <<files, lock, loc, client>>
  BY <1>0, StepOthers, FileParts DEF AppendIdxSeek, Transition, Goto, CrashSafe, MemoryTypeOK
<1>2. /\ table' = table /\ idx' = idx /\ dat' = dat /\ call' = call /\ loc' = loc /\ astray' = astray
      /\ torn' = torn /\ chainoff(p)' = chainoff(p) /\ pc[p] \notin Outside /\ pc'[p] \notin Outside
      /\ r \notin astray
  <2>1. table' = table /\ idx' = idx /\ dat' = dat /\ call' = call /\ loc' = loc
    BY <1>1 DEF files, client
  <2>2. r \notin Recs /\ r \notin Chains
    BY <1>0, DbAssumption DEF Recs, Chains, CrashSafe, FileInv, FileTypeOK
  <2> QED BY <1>1, <2>1, <2>2, StepFacts DEF chainoff, Outside
<1>3. OnTorn(p)' <=> OnTorn(p)
  BY <1>2 DEF OnTorn
<1>4. /\ ~Walking(p) /\ ~Walking(p)' /\ ~SaveCopy(p) /\ ~SaveCopy(p)'
      /\ HeadCopy(p)' <=> HeadCopy(p)
      /\ RecCopy(p)' <=> HeadCopy(p)
  <2>1. db'[p].idxoff = r
    BY <1>1 DEF DbType
  <2> QED BY <1>1, <1>2, <1>3, <2>1 DEF Walking, HeadCopy, RecCopy, SaveCopy, Heads, Storing, Tearing
<1>5. vPc[p] = pc[p] /\ vPc'[p] = pc'[p] /\ vLoc'[p] = vLoc[p]
  BY <1>2, <1>4, ViewProc, ViewProcNext
<1>6. t = IF HeadCopy(p) THEN 0 ELSE s
  BY <1>0, <1>4, ViewFields
<1>7. vDb'[p] = [d EXCEPT !.idxoff = r, !.ptrval = t]
  <2>1. CASE HeadCopy(p)
    <3>1. vDb'[p] = [db'[p] EXCEPT !.ptrval = 0] /\ t = 0
      BY <1>4, <1>6, <2>1, ViewProcNext
    <3> QED BY <1>1, <3>1 DEF DbType
  <2>2. CASE ~HeadCopy(p)
    BY <1>1, <1>4, <1>6, <2>2, ViewProcNext
  <2> QED BY <2>1, <2>2
<1>8. vDb'[p] = [vDb[p] EXCEPT !.idxoff = r, !.ptrval = t]
  <2>1. vDb[p] = d \/ vDb[p] = [d EXCEPT !.ptrval = 0]
    BY <1>0, <1>4, ViewProc
  <2>2. PICK e : e = vDb[p]
    OBVIOUS
  <2>3. CASE e = [d EXCEPT !.ptrval = 0]
    BY <1>1, <1>7, <2>2, <2>3 DEF DbType
  <2> QED BY <1>7, <2>1, <2>2, <2>3
<1>9. /\ vPc' = [vPc EXCEPT ![p] = vPc'[p]] /\ vLoc' = vLoc
      /\ vDb' = [vDb EXCEPT ![p] = vDb'[p]] /\ vTable' = vTable /\ vIdx' = vIdx
  <2>1. vLoc' = [vLoc EXCEPT ![p] = vLoc'[p]]
    BY ViewOthers
  <2>2. vLoc' = vLoc
    BY <1>5, <2>1, SameAt, ViewFunctions
  <2> QED BY <1>2, <2>2, ViewOthers, ViewSame
<1>10. NHASH + Len(vIdx) + 1 = r
  BY <1>0, ViewFiles
<1>11. View!AppendIdxSeek(p)
  BY <1>0, <1>1, <1>2, <1>5, <1>8, <1>9, <1>10
     DEF View!AppendIdxSeek, View!Transition, View!Goto, View!files, View!client, client
<1> QED BY <1>11 DEF View!AppendIdx, View!Step

LEMMA FreeReadIdxMaps ==
    ASSUME NEW p \in Procs, NEW own, NEW dep, NEW c, NEW left, NEW Z, CrashSafe,
           Torn(own, dep, c, left, Z), Step(p), Follow(p), FreeReadIdx(p)
    PROVE  View!Step(p)
<1>0. PICK x, r, d, l : x = loc[p].offset /\ r = readidx(x) /\ d = db[p] /\ l = loc[p]
  OBVIOUS
<1>1. /\ DOMAIN pc = Procs /\ DOMAIN db = Procs /\ DOMAIN loc = Procs /\ pc[p] = "findfree.readidx"
      /\ db'[p] = AfterReadIdx(d, x) /\ d \in DbType /\ l \in LocType
      /\ pc'[p] = IF Fits(r, call[p]) THEN "findfree.writeptr"
                  ELSE IF r.ptr # 0 THEN "findfree.readidx" ELSE "findfree.unlock"
      /\ loc'[p] = IF Fits(r, call[p]) THEN l ELSE [l EXCEPT !.saveoffset = x, !.offset = r.ptr]
      /\ UNCHANGED <<files, lock, client>>
  BY <1>0, StepOthers, FileParts DEF FreeReadIdx, FreeNext, Goto, CrashSafe, MemoryTypeOK
<1>2. /\ table' = table /\ idx' = idx /\ dat' = dat /\ call' = call /\ astray' = astray
      /\ torn' = torn /\ chainoff(p)' = chainoff(p) /\ pc[p] \notin Outside /\ pc'[p] \notin Outside
      /\ x \in Recs /\ x \notin astray
  <2>1. table' = table /\ idx' = idx /\ dat' = dat /\ call' = call
    BY <1>1 DEF files, client
  <2>2. x \in Recs /\ Knows(own, p)
    BY <1>0, <1>1, Remembered, StepFacts DEF CrashSafe
  <2>3. own[x] = FREE_OFF
    BY <1>0, <1>1, <2>2 DEF Knows
  <2> QED BY <1>1, <2>1, <2>2, <2>3, StepFacts DEF chainoff, Outside
<1>3. OnTorn(p)' <=> OnTorn(p)
  BY <1>2 DEF OnTorn
<1>4. db'[p].idxoff = x
  <2>1. x \in Nat
    BY <1>2, DbAssumption DEF Recs
  <2> QED BY <1>1 DEF AfterReadIdx, DbType
<1>5. /\ ~Walking(p) /\ ~Walking(p)' /\ ~SaveCopy(p) /\ ~SaveCopy(p)' /\ ~RecCopy(p)'
      /\ HeadCopy(p)' <=> HeadCopy(p)
  BY <1>1, <1>2, <1>3, <1>4 DEF Walking, HeadCopy, RecCopy, SaveCopy, Heads, Storing, Tearing
<1>6. PICK e, m, n : e = vDb[p] /\ m = vLoc[p] /\ n = vLoc'[p]
  OBVIOUS
<1>7. /\ vPc[p] = pc[p] /\ vPc'[p] = pc'[p] /\ vDb'[p] = db'[p] /\ m.offset = x
      /\ e = d \/ e = [d EXCEPT !.ptrval = 0]
      /\ HeadCopy(p) => m = [l EXCEPT !.ptrval = 0] /\ n = [loc'[p] EXCEPT !.ptrval = 0]
      /\ ~HeadCopy(p) => m = l /\ n = loc'[p]
  BY <1>0, <1>5, <1>6, ViewProc, ViewProcNext, ViewFields
<1>8. /\ View!readidx(x).key = r.key /\ View!readidx(x).keylen = r.keylen
      /\ View!readidx(x).datoff = r.datoff /\ View!readidx(x).datlen = r.datlen
      /\ View!readidx(x).ptr = r.ptr
  <2>1. readptr(x) = r.ptr
    <3>1. x \notin 0..NHASH
      BY <1>2, Remembered DEF CrashSafe
    <3> QED BY <1>0, <3>1 DEF readptr, readidx
  <2> QED BY <1>0, <1>2, <2>1, ViewFiles
<1>9. /\ View!Fits(View!readidx(x), call[p]) <=> Fits(r, call[p])
      /\ View!AfterReadIdx(e, x) = AfterReadIdx(d, x)
  <2>1. View!Fits(View!readidx(x), call[p]) <=> Fits(r, call[p])
    BY <1>8 DEF View!Fits, Fits
  <2>2. View!AfterReadIdx(e, x) = [d EXCEPT !.idxoff = x, !.ptrval = r.ptr,
                                            !.datoff = r.datoff, !.datlen = r.datlen]
    <3>1. CASE e = d
      BY <1>8, <3>1 DEF View!AfterReadIdx
    <3>2. CASE e = [d EXCEPT !.ptrval = 0]
      BY <1>1, <1>8, <3>2 DEF View!AfterReadIdx, DbType
    <3> QED BY <1>7, <3>1, <3>2
  <2> QED BY <1>0, <2>1, <2>2 DEF AfterReadIdx
<1>10. n = IF Fits(r, call[p]) THEN m ELSE [m EXCEPT !.saveoffset = x, !.offset = r.ptr]
  <2>1. CASE HeadCopy(p)
    <3>1. m = [l EXCEPT !.ptrval = 0] /\ n = [loc'[p] EXCEPT !.ptrval = 0]
      BY <1>7, <2>1
    <3>2. CASE Fits(r, call[p])
      BY <1>1, <3>1, <3>2
    <3>3. CASE ~Fits(r, call[p])
      <4>1. loc'[p] = [l EXCEPT !.saveoffset = x, !.offset = r.ptr] /\ l \in LocType
        BY <1>1, <3>3
      <4>2. PICK s : s = r.ptr
        OBVIOUS
      <4> QED BY <3>1, <3>3, <4>1, <4>2, LocCopy
    <3> QED BY <3>2, <3>3
  <2>2. CASE ~HeadCopy(p)
    BY <1>1, <1>7, <2>2
  <2> QED BY <2>1, <2>2
<1>11. /\ vPc' = [vPc EXCEPT ![p] = vPc'[p]]
       /\ vDb' = [vDb EXCEPT ![p] = vDb'[p]] /\ vTable' = vTable /\ vIdx' = vIdx
       /\ vLoc' = [vLoc EXCEPT ![p] = n]
       /\ Fits(r, call[p]) => vLoc' = vLoc
  <2>1. vLoc' = [vLoc EXCEPT ![p] = vLoc'[p]]
    BY ViewOthers
  <2>2. Fits(r, call[p]) => vLoc' = vLoc
    BY <1>6, <1>10, <2>1, SameAt, ViewFunctions
  <2> QED BY <1>2, <1>6, <2>1, <2>2, ViewOthers, ViewSame
<1>12. View!FreeReadIdx(p)
  <2>1. vLoc[p].offset = x /\ View!AfterReadIdx(vDb[p], x) = vDb'[p]
    BY <1>1, <1>6, <1>7, <1>9
  <2>2. CASE Fits(r, call[p])
    BY <1>1, <1>2, <1>7, <1>8, <1>9, <1>11, <2>1, <2>2
       DEF View!FreeReadIdx, View!FreeNext, View!Goto, View!files, View!client, client
  <2>3. CASE ~Fits(r, call[p])
    <3>1. vLoc' = [vLoc EXCEPT ![p].saveoffset = x, ![p].offset = r.ptr]
      <4>1. n = [m EXCEPT !.saveoffset = x, !.offset = r.ptr]
        BY <1>10, <2>3
      <4> QED BY <1>6, <1>11, <4>1, ViewFunctions
    <3> QED
     BY <1>1, <1>2, <1>7, <1>8, <1>9, <1>11, <2>1, <2>3, <3>1
       DEF View!FreeReadIdx, View!FreeNext, View!Goto, View!files, View!client, client
  <2> QED BY <2>2, <2>3
<1> QED BY <1>12 DEF View!FindFree, View!Step

\* Steps that end the call.
LEMMA LeaveMaps ==
    ASSUME NEW p \in Procs, NEW own, NEW dep, NEW c, NEW left, NEW Z, CrashSafe,
           Torn(own, dep, c, left, Z), Step(p), Follow(p), Unlock(p) \/ StoreQuit(p)
    PROVE  View!Step(p)
<1>1. /\ DOMAIN pc = Procs /\ DOMAIN db = Procs /\ DOMAIN loc = Procs
      /\ pc'[p] \in {"idle", "exited"} /\ db'[p] = NoDb /\ loc'[p] = NoLoc
      /\ table' = table /\ idx' = idx /\ dat' = dat /\ calls' = calls
      /\ pc[p] \notin {"find.readptr", "find.readidx", "dodelete.writeidx", "append.idxwrite"} \cup Tearing
  BY StepOthers DEF Unlock, StoreQuit, Transition, Goto, files, Tearing
<1>2. ~Walking(p)' /\ ~RecCopy(p)' /\ ~HeadCopy(p)' /\ ~SaveCopy(p)'
  BY <1>1 DEF Walking, OnTorn, Outside, RecCopy, HeadCopy, SaveCopy
<1>3. ~Walking(p)
  BY <1>1 DEF Walking
<1>4. /\ vPc[p] = pc[p] /\ vPc'[p] = pc'[p] /\ vDb'[p] = NoDb /\ vLoc'[p] = NoLoc
      /\ vDb[p].idxoff = db[p].idxoff /\ vLoc[p].rc = loc[p].rc
  BY <1>1, <1>2, <1>3, ViewPlain, ViewFields
<1>5. astray' = astray
  BY <1>1 DEF Follow, Misleads, Writes, Tearing, Unlock, StoreQuit, Transition
<1>6. /\ vPc' = [vPc EXCEPT ![p] = vPc'[p]] /\ vDb' = [vDb EXCEPT ![p] = vDb'[p]]
      /\ vLoc' = [vLoc EXCEPT ![p] = vLoc'[p]] /\ vTable' = vTable /\ vIdx' = vIdx
  BY <1>1, <1>5, ViewOthers, ViewSame
<1>7. View!NoDb = NoDb /\ View!NoLoc = NoLoc /\ View!Regions = Regions /\ View!chainoff(p) = chainoff(p)
  BY SameConstants, SameOperators
<1>8. CASE Unlock(p)
  <2>1. View!Abs!Effect(kv, call[p]) = Abs!Effect(kv, call[p])
    BY DEF View!Abs!Effect, Abs!Effect, View!Abs!Refused, Abs!Refused, View!Abs!DB_REPLACE,
       Abs!DB_REPLACE, View!Abs!DB_INSERT, Abs!DB_INSERT
  <2>2. pc[p] = "unlock" /\ pc'[p] = "idle"
    BY <1>1, <1>8 DEF Unlock, Transition, Goto
  <2>3. View!Unlock(p)
    BY <1>1, <1>4, <1>6, <1>7, <1>8, <2>1, <2>2
       DEF Unlock, View!Unlock, View!Transition, View!Goto, un_lock, View!un_lock, View!files
  <2> QED BY <2>3 DEF View!Step
<1>9. CASE StoreQuit(p)
  <2>1. pc[p] = "store.writeptr" /\ pc'[p] = "exited"
    BY <1>1, <1>9 DEF StoreQuit, Transition, Goto
  <2>2. View!StoreQuit(p)
    BY <1>1, <1>4, <1>6, <1>7, <1>9, <2>1
       DEF StoreQuit, View!StoreQuit, View!Transition, View!Goto, unlock_all, View!unlock_all,
           View!files
  <2> QED BY <2>2 DEF View!Store, View!Step
<1> QED BY <1>8, <1>9

LEMMA CallMaps ==
    ASSUME NEW p \in Procs, CrashSafe, Call(p), UNCHANGED <<crashes, torn, astray, lost>>
    PROVE  View!Call(p) /\ \A q \in Procs : SameFlags(q)
<1>1. /\ DOMAIN pc = Procs /\ pc[p] = "idle" /\ pc' = [pc EXCEPT ![p] = "find"]
      /\ UNCHANGED <<files, lock, db, loc>> /\ UNCHANGED <<torn, astray, lost>>
      /\ DOMAIN call = Procs
  BY DEF Call, Transition, Goto, CrashSafe, Control, ControlTypeOK
<1>2. /\ table' = table /\ idx' = idx /\ dat' = dat /\ db' = db /\ loc' = loc
      /\ \A q \in Procs \ {p} : pc'[q] = pc[q] /\ call'[q] = call[q]
  BY <1>1 DEF files, Call, Abs!Call
<1>3. ASSUME NEW q \in Procs
      PROVE  /\ SameFlags(q) /\ vDb'[q] = vDb[q] /\ vLoc'[q] = vLoc[q]
             /\ q # p => vPc'[q] = vPc[q]
             /\ q = p => vPc[q] = "idle" /\ vPc'[q] = "find"
  <2>1. CASE q = p
    <3>1. /\ ~Walking(p) /\ ~HeadCopy(p) /\ ~RecCopy(p) /\ ~SaveCopy(p)
          /\ ~Walking(p)' /\ ~HeadCopy(p)' /\ ~RecCopy(p)' /\ ~SaveCopy(p)'
      BY <1>1 DEF Walking, HeadCopy, RecCopy, SaveCopy, OnTorn, Outside
    <3>2. vPc[p] = pc[p] /\ vDb[p] = db[p] /\ vLoc[p] = loc[p]
      BY <3>1, ViewProc
    <3>3. vPc'[p] = pc'[p] /\ vDb'[p] = db'[p] /\ vLoc'[p] = loc'[p]
      BY <3>1, ViewPlain
    <3>4. pc'[p] = "find"
      BY <1>1
    <3> QED BY <1>1, <1>2, <2>1, <3>1, <3>2, <3>3, <3>4 DEF SameFlags
  <2>2. CASE q # p
    <3>1. SameFlags(q)
      BY <1>1, <1>2, <2>2 DEF SameFlags, Walking, HeadCopy, RecCopy, SaveCopy, OnTorn, chainoff
    <3> QED BY <1>2, <2>2, <3>1 DEF SameFlags, vPc, vDb, vLoc, NotFound
  <2> QED BY <2>1, <2>2
<1>4. vDb' = vDb /\ vLoc' = vLoc /\ vPc' = [vPc EXCEPT ![p] = "find"] /\ vPc[p] = "idle"
  <2>1. vDb = [q \in Procs |-> vDb[q]] /\ vDb' = [q \in Procs |-> vDb'[q]]
    BY DEF vDb
  <2>2. vLoc = [q \in Procs |-> vLoc[q]] /\ vLoc' = [q \in Procs |-> vLoc'[q]]
    BY DEF vLoc
  <2>3. vPc = [q \in Procs |-> vPc[q]] /\ vPc' = [q \in Procs |-> vPc'[q]]
    BY DEF vPc
  <2>4. vDb' = vDb
    BY <1>3, <2>1
  <2>5. vLoc' = vLoc
    BY <1>3, <2>2
  <2>6. vPc' = [vPc EXCEPT ![p] = "find"]
    BY <1>3, <2>3
  <2> QED BY <1>3, <2>4, <2>5, <2>6
<1>5. vTable' = vTable /\ vIdx' = vIdx
  BY <1>1, <1>2, ViewSame
<1>6. View!Abs!Call(p)
  BY DEF Call, Abs!Call, View!Abs!Call
<1>7. View!Call(p)
  BY <1>1, <1>2, <1>4, <1>5, <1>6 DEF Call, View!Call, View!Transition, View!Goto, View!files
<1> QED BY <1>3, <1>7
-----------------------------------------------------------------------------
\* A write to the index file changes the view of one offset.
LEMMA ViewWritePtr ==
    ASSUME CrashSafe, NEW off \in 0..NHASH \cup Recs, NEW val, NEW vval,
           writeptr(off, val), \A o : o # off => (o \in astray' <=> o \in astray),
           vval = IF off \in astray' THEN 0 ELSE val
    PROVE  View!writeptr(off, vval)
<1>0. /\ NHASH \in Nat /\ Len(idx) \in Nat /\ idx \in Seq(IdxRec)
      /\ table \in [0..NHASH -> Ptr] /\ \A x \in Recs : x \notin 0..NHASH
  BY DbAssumption DEF CrashSafe, FileInv, FileTypeOK, Recs
<1>1. CASE off \in 0..NHASH
  <2>1. table' = [table EXCEPT ![off] = val] /\ idx' = idx
    BY <1>1 DEF writeptr
  <2>2. vTable' = [o \in 0..NHASH |-> IF o \in astray' THEN 0 ELSE table'[o]]
    BY DEF vTable
  <2>3. vTable' = [vTable EXCEPT ![off] = vval]
    BY <1>0, <1>1, <2>1, <2>2 DEF vTable
  <2>4. \A i \in 1..Len(idx) : NHASH + i # off
    BY <1>0, <1>1
  <2>5. vIdx' = vIdx
    BY <1>0, <2>1, <2>4 DEF vIdx
  <2> QED BY <1>1, <2>3, <2>5 DEF View!writeptr
<1>2. CASE off \in Recs
  <2>1. PICK j \in 1..Len(idx) : j = off - NHASH /\ NHASH + j = off
    BY <1>0, <1>2 DEF Recs
  <2>2. idx' = [idx EXCEPT ![j].ptr = val] /\ table' = table
    BY <1>0, <1>2, <2>1 DEF writeptr
  <2>3. Len(idx') = Len(idx)
    BY <1>0, <2>2
  <2>4. vIdx' = [i \in 1..Len(idx) |->
                   IF NHASH + i \in astray' THEN [idx'[i] EXCEPT !.ptr = 0] ELSE idx'[i]]
    BY <2>3 DEF vIdx
  <2>5. \A i \in 1..Len(idx) : idx[i] \in IdxRec
    BY <1>0
  <2>6. \A i \in 1..Len(idx) : i # j => idx'[i] = idx[i] /\ (NHASH + i \in astray' <=> NHASH + i \in astray)
    BY <1>0, <2>1, <2>2
  <2>7. idx'[j] = [idx[j] EXCEPT !.ptr = val]
    BY <1>0, <2>1, <2>2
  <2>8. PICK a, b, m : a = idx[j] /\ b = idx'[j] /\ m = vIdx[j] /\ a \in IdxRec
    BY <2>1, <2>5
  <2>9. m = a \/ m = [a EXCEPT !.ptr = 0]
    BY <2>1, <2>8 DEF vIdx
  <2>10. vIdx'[j] = [m EXCEPT !.ptr = vval]
    <3>1. vIdx'[j] = IF off \in astray' THEN [b EXCEPT !.ptr = 0] ELSE b
      BY <2>1, <2>4, <2>8
    <3>2. b = [a EXCEPT !.ptr = val]
      BY <2>7, <2>8
    <3> QED BY <2>8, <2>9, <3>1, <3>2 DEF IdxRec
  <2>11. \A i \in 1..Len(idx) : i # j => vIdx'[i] = vIdx[i]
    BY <2>4, <2>6 DEF vIdx
  <2>12. vIdx = [i \in 1..Len(idx) |-> vIdx[i]] /\ vIdx' = [i \in 1..Len(idx) |-> vIdx'[i]]
    BY <2>4 DEF vIdx
  <2>13. vIdx' = [vIdx EXCEPT ![j].ptr = vval]
    BY <2>1, <2>8, <2>10, <2>11, <2>12
  <2>14. vTable' = vTable
    <3>1. \A o \in 0..NHASH : o # off
      BY <1>0, <1>2
    <3> QED BY <2>2, <3>1 DEF vTable
  <2> QED BY <1>0, <1>2, <2>1, <2>13, <2>14 DEF View!writeptr
<1> QED BY <1>1, <1>2

LEMMA ViewWriteIdx ==
    ASSUME CrashSafe, NEW r \in Recs \cup {NHASH + Len(idx) + 1}, NEW rec, NEW vrec,
           idx' = WriteAt(idx, r - NHASH, rec), table' = table,
           \A o : o # r => (o \in astray' <=> o \in astray),
           vrec = IF r \in astray' THEN [rec EXCEPT !.ptr = 0] ELSE rec
    PROVE  vIdx' = View!WriteAt(vIdx, r - NHASH, vrec) /\ vTable' = vTable
<1>0. /\ NHASH \in Nat /\ Len(idx) \in Nat /\ idx \in Seq(IdxRec)
      /\ r \in Nat /\ r > NHASH /\ r <= NHASH + Len(idx) + 1 /\ Len(vIdx) = Len(idx)
  BY DbAssumption, ViewFiles DEF CrashSafe, FileInv, FileTypeOK, Recs
<1>1. vTable' = vTable
  <2>1. \A o \in 0..NHASH : o # r
    BY <1>0
  <2> QED BY <2>1 DEF vTable
<1>2. PICK j : j = r - NHASH /\ NHASH + j = r /\ j \in 1..Len(idx) + 1
  BY <1>0
<1>3. vIdx = [i \in 1..Len(idx) |-> vIdx[i]]
  BY DEF vIdx
<1>4. vIdx' = [i \in 1..Len(idx') |->
                 IF NHASH + i \in astray' THEN [idx'[i] EXCEPT !.ptr = 0] ELSE idx'[i]]
  BY DEF vIdx
<1>5. vIdx' = View!WriteAt(vIdx, j, vrec)
  <2>1. CASE j = Len(idx) + 1
    <3>1. idx' = Append(idx, rec) /\ Len(idx') = Len(idx) + 1
      BY <1>0, <1>2, <2>1 DEF WriteAt
    <3>2. \A i \in 1..Len(idx) : idx'[i] = idx[i] /\ (NHASH + i \in astray' <=> NHASH + i \in astray)
      BY <1>0, <1>2, <2>1, <3>1
    <3>3. idx'[j] = rec
      BY <1>0, <2>1, <3>1
    <3>4. \A i \in 1..Len(idx) : vIdx'[i] = vIdx[i]
      <4>1. \A i \in 1..Len(idx) : i \in 1..Len(idx')
        BY <1>0, <3>1
      <4>2. \A i \in 1..Len(idx) :
              vIdx'[i] = IF NHASH + i \in astray' THEN [idx'[i] EXCEPT !.ptr = 0] ELSE idx'[i]
        BY <1>4, <4>1
      <4>3. \A i \in 1..Len(idx) :
              vIdx[i] = IF NHASH + i \in astray THEN [idx[i] EXCEPT !.ptr = 0] ELSE idx[i]
        BY DEF vIdx
      <4>4. ASSUME NEW i \in 1..Len(idx) PROVE vIdx'[i] = vIdx[i]
        <5>1. PICK a, b, m, n : a = idx[i] /\ b = idx'[i] /\ m = vIdx[i] /\ n = vIdx'[i]
          OBVIOUS
        <5>2. a = b /\ (NHASH + i \in astray' <=> NHASH + i \in astray)
          BY <3>2, <5>1
        <5>3. n = (IF NHASH + i \in astray' THEN [b EXCEPT !.ptr = 0] ELSE b)
          BY <4>2, <5>1
        <5>4. m = (IF NHASH + i \in astray THEN [a EXCEPT !.ptr = 0] ELSE a)
          BY <4>3, <5>1
        <5>5. m = n
          BY <5>2, <5>3, <5>4
        <5> QED BY <5>1, <5>5
      <4> QED BY <4>4
    <3>5. vIdx'[j] = vrec
      BY <1>0, <1>2, <1>4, <2>1, <3>1, <3>3
    <3>6. vIdx' = [i \in 1..Len(idx) + 1 |-> IF i = j THEN vrec ELSE vIdx[i]]
      <4>1. vIdx' = [i \in 1..Len(idx) + 1 |-> vIdx'[i]]
        BY <1>4, <3>1
      <4>2. \A i \in 1..Len(idx) + 1 : i # j => i \in 1..Len(idx)
        BY <1>0, <2>1
      <4> QED BY <3>4, <3>5, <4>1, <4>2
    <3>7. vIdx' = Append(vIdx, vrec)
      BY <1>0, <2>1, <3>6, ViewFiles
    <3> QED BY <1>0, <2>1, <3>7 DEF View!WriteAt
  <2>2. CASE j # Len(idx) + 1
    <3>1. idx' = [idx EXCEPT ![j] = rec] /\ Len(idx') = Len(idx) /\ j \in 1..Len(idx)
      BY <1>0, <1>2, <2>2 DEF WriteAt
    <3>2. \A i \in 1..Len(idx) : i # j =>
             idx'[i] = idx[i] /\ (NHASH + i \in astray' <=> NHASH + i \in astray)
      BY <1>0, <1>2, <3>1
    <3>3. idx'[j] = rec
      BY <1>0, <3>1
    <3>4. \A i \in 1..Len(idx) : i # j => vIdx'[i] = vIdx[i]
      BY <1>0, <1>4, <3>1, <3>2 DEF vIdx
    <3>5. vIdx'[j] = vrec
      BY <1>0, <1>2, <1>4, <3>1, <3>3
    <3>6. vIdx' = [vIdx EXCEPT ![j] = vrec]
      <4>1. vIdx' = [i \in 1..Len(idx) |-> vIdx'[i]]
        BY <1>4, <3>1
      <4> QED BY <1>3, <3>1, <3>4, <3>5, <4>1
    <3> QED BY <1>0, <2>2, <3>6 DEF View!WriteAt
  <2> QED BY <2>1, <2>2
<1> QED BY <1>1, <1>2, <1>5

\* _db_dodelete(): the record becomes the head of the free list.
LEMMA DelWriteFreeMaps ==
    ASSUME NEW p \in Procs, NEW own, NEW dep, NEW c, NEW left, NEW Z, CrashSafe,
           Torn(own, dep, c, left, Z), Step(p), Follow(p), DelWriteFree(p)
    PROVE  View!Step(p)
<1>0. PICK r : r = db[p].idxoff
  OBVIOUS
<1>1. /\ DOMAIN pc = Procs /\ pc[p] = "dodelete.writefree" /\ pc'[p] = "dodelete.writeptr"
      /\ pc' = [pc EXCEPT ![p] = "dodelete.writeptr"]
      /\ writeptr(FREE_OFF, r) /\ UNCHANGED <<dat, lock, db, loc, client>>
  BY <1>0, StepOthers DEF DelWriteFree, Transition, Goto
<1>2. /\ call' = call /\ astray' = astray /\ torn' = torn /\ chainoff(p)' = chainoff(p)
      /\ pc[p] \notin Outside /\ pc'[p] \notin Outside /\ FREE_OFF \notin astray
      /\ (p \in lost' <=> p \in lost)
  <2>1. call' = call
    BY <1>1 DEF client
  <2> QED BY <1>1, <2>1, StepFacts DEF chainoff, Outside, Tearing
<1>3. OnTorn(p)' <=> OnTorn(p)
  BY <1>2 DEF OnTorn
<1>4. /\ ~Walking(p) /\ ~Walking(p)' /\ ~HeadCopy(p) /\ ~HeadCopy(p)'
      /\ SaveCopy(p)' <=> SaveCopy(p)
      /\ RecCopy(p)' <=> RecCopy(p)
  BY <1>1, <1>2, <1>3 DEF Walking, HeadCopy, RecCopy, SaveCopy, Heads, Storing, Tearing
<1>5. /\ vPc[p] = pc[p] /\ vPc'[p] = pc'[p] /\ vDb'[p] = vDb[p] /\ vLoc'[p] = vLoc[p]
      /\ vDb[p].idxoff = r
  <2>1. vPc[p] = pc[p] /\ vDb[p].idxoff = r
    BY <1>0, <1>4, ViewFields
  <2>2. db' = db /\ loc' = loc
    BY <1>1
  <2>3. vPc'[p] = pc'[p] /\ vDb'[p] = vDb[p]
    BY <1>4, <2>2, ViewProc, ViewProcNext
  <2>4. vLoc'[p] = vLoc[p]
    BY <1>4, <2>2, ViewProc, ViewProcNext
  <2> QED BY <2>1, <2>3, <2>4
<1>6. /\ vPc' = [vPc EXCEPT ![p] = vPc'[p]] /\ vDb' = vDb /\ vLoc' = vLoc
  BY <1>5, ViewOthers, SameAt, ViewFunctions
<1>7. View!writeptr(FREE_OFF, r) /\ View!FREE_OFF = FREE_OFF
  BY <1>1, <1>2, ViewWritePtr, Remembered, SameOperators DEF CrashSafe
<1>8. View!DelWriteFree(p)
  BY <1>1, <1>5, <1>6, <1>7 DEF View!DelWriteFree, View!Transition, View!Goto, View!client, client
<1> QED BY <1>8 DEF View!DoDelete, View!Step

\* _db_dodelete(): the record leaves its chain.
LEMMA DelWritePtrMaps ==
    ASSUME NEW p \in Procs, NEW own, NEW dep, NEW c, NEW left, NEW Z, CrashSafe,
           Torn(own, dep, c, left, Z), Step(p), Follow(p), DelWritePtr(p)
    PROVE  View!Step(p)
<1>0. PICK r, o, s, t, l : /\ r = db[p].idxoff /\ o = db[p].ptroff /\ s = loc[p].saveptr
                           /\ t = vLoc[p].saveptr /\ l = loc[p]
  OBVIOUS
<1>1. /\ DOMAIN pc = Procs /\ DOMAIN loc = Procs
      /\ pc[p] = "dodelete.writeptr" /\ pc'[p] = "dodelete.unlock"
      /\ pc' = [pc EXCEPT ![p] = "dodelete.unlock"]
      /\ writeptr(o, s) /\ loc'[p] = [l EXCEPT !.saveptr = 0]
      /\ UNCHANGED <<dat, lock, db, client>> /\ l \in LocType
  BY <1>0, StepOthers, FileParts DEF DelWritePtr, Transition, Goto, CrashSafe, MemoryTypeOK
<1>2. /\ call' = call /\ db' = db /\ torn' = torn /\ chainoff(p)' = chainoff(p)
      /\ pc[p] \notin Outside /\ pc'[p] \notin Outside
      /\ o \in 0..NHASH \cup Recs /\ r \in Recs /\ own[r] = FREE_OFF /\ r \notin astray
      /\ r # o /\ (p \in lost => OnTorn(p))
  <2>1. call' = call /\ db' = db
    BY <1>1 DEF client
  <2>2. /\ Knows(own, p) /\ Carries(p, Z) /\ r \in Recs /\ o \in 0..NHASH \cup Recs
        /\ Control /\ FileInv
    BY <1>0, <1>1, StepFacts, Remembered DEF CrashSafe, HasRec
  <2>3. /\ own[o] = chainoff(p) /\ own[r] = FREE_OFF /\ chainoff(p) \in Chains
        /\ pc[p] \notin Outside /\ pc'[p] \notin Outside
    BY <1>0, <1>1, <2>2 DEF Knows, Tearing, Outside
  <2>4. r # o /\ r \notin astray
    BY <2>2, <2>3, StepFacts, DbAssumption DEF Chains, FREE_OFF
  <2> QED BY <2>1, <2>2, <2>3, <2>4, StepFacts DEF chainoff, Carries, OnTorn
<1>3. OnTorn(p)' <=> OnTorn(p)
  BY <1>2 DEF OnTorn
<1>4. /\ o \in astray' <=> p \in lost
      /\ \A x : x # o => (x \in astray' <=> x \in astray)
  BY <1>0, <1>1, <1>2 DEF Follow, Misleads, Writes
<1>5. /\ ~Walking(p) /\ ~Walking(p)' /\ ~HeadCopy(p) /\ ~HeadCopy(p)'
      /\ SaveCopy(p) <=> p \in lost
      /\ ~SaveCopy(p)' /\ ~RecCopy(p) /\ ~RecCopy(p)'
  BY <1>0, <1>1, <1>2, <1>3, <1>4
     DEF Walking, HeadCopy, RecCopy, SaveCopy, Heads, Storing, Tearing
<1>6. /\ vPc[p] = pc[p] /\ vPc'[p] = pc'[p] /\ vDb'[p] = vDb[p]
      /\ vLoc'[p] = [l EXCEPT !.saveptr = 0] /\ vDb[p].ptroff = o
      /\ t = IF p \in lost THEN 0 ELSE s
  <2>1. vPc[p] = pc[p] /\ vDb[p].ptroff = o /\ t = IF p \in lost THEN 0 ELSE s
    BY <1>0, <1>5, ViewFields
  <2>2. vPc'[p] = pc'[p] /\ vDb'[p] = vDb[p]
    BY <1>2, <1>5, ViewProc, ViewProcNext
  <2>3. vLoc'[p] = [l EXCEPT !.saveptr = 0]
    BY <1>1, <1>5, ViewProcNext
  <2> QED BY <2>1, <2>2, <2>3
<1>7. /\ vPc' = [vPc EXCEPT ![p] = vPc'[p]] /\ vDb' = vDb /\ vLoc' = [vLoc EXCEPT ![p] = vLoc'[p]]
  BY <1>6, ViewOthers, SameAt, ViewFunctions
<1>8. vLoc'[p] = [vLoc[p] EXCEPT !.saveptr = 0]
  <2>1. vLoc[p] = l \/ vLoc[p] = [l EXCEPT !.saveptr = 0]
    BY <1>0, <1>5, ViewProc
  <2>2. PICK m : m = vLoc[p]
    OBVIOUS
  <2> QED BY <1>1, <1>6, <2>1, <2>2 DEF LocType
<1>9. View!writeptr(o, t)
  <2>1. t = IF o \in astray' THEN 0 ELSE s
    BY <1>4, <1>6
  <2> QED BY <1>1, <1>2, <1>4, <2>1, ViewWritePtr
<1>10. View!DelWritePtr(p)
  BY <1>0, <1>1, <1>6, <1>7, <1>8, <1>9
     DEF View!DelWritePtr, View!Transition, View!Goto, View!client, client
<1> QED BY <1>10 DEF View!DoDelete, View!Step

\* _db_findfree(): the record leaves the free list.
LEMMA FreeWritePtrMaps ==
    ASSUME NEW p \in Procs, NEW own, NEW dep, NEW c, NEW left, NEW Z, CrashSafe,
           Torn(own, dep, c, left, Z), Step(p), Follow(p), FreeWritePtr(p)
    PROVE  View!Step(p)
<1>0. PICK r, o, s : r = db[p].idxoff /\ o = loc[p].saveoffset /\ s = db[p].ptrval
  OBVIOUS
<1>1. /\ DOMAIN pc = Procs /\ pc[p] = "findfree.writeptr" /\ pc'[p] = "findfree.unlock"
      /\ pc' = [pc EXCEPT ![p] = "findfree.unlock"]
      /\ writeptr(o, s) /\ UNCHANGED <<dat, lock, db, loc, client>>
  BY <1>0, StepOthers DEF FreeWritePtr, Transition, Goto
<1>2. /\ call' = call /\ db' = db /\ loc' = loc /\ astray' = astray /\ torn' = torn
      /\ chainoff(p)' = chainoff(p) /\ pc[p] \notin Outside /\ pc'[p] \notin Outside
      /\ o \in 0..NHASH \cup Recs /\ r \in Recs /\ r \notin astray /\ o \notin astray
  <2>1. call' = call /\ db' = db /\ loc' = loc
    BY <1>1 DEF client
  <2>2. /\ Knows(own, p) /\ r \in Recs /\ o \in 0..NHASH \cup Recs
    BY <1>0, <1>1, StepFacts, Remembered DEF CrashSafe, HasRec
  <2>3. own[o] = FREE_OFF /\ own[r] = FREE_OFF
    BY <1>0, <1>1, <2>2 DEF Knows
  <2>4. o \notin astray
    <3>1. Apartness(own, c, left, Z) /\ c \in Chains
      BY StepFacts
    <3> QED BY <2>3, <3>1, DbAssumption DEF Apartness, Chains, FREE_OFF, Nowhere
  <2> QED BY <1>1, <2>1, <2>2, <2>3, <2>4, StepFacts DEF chainoff, Outside
<1>3. OnTorn(p)' <=> OnTorn(p)
  BY <1>2 DEF OnTorn
<1>4. /\ ~Walking(p) /\ ~Walking(p)' /\ ~SaveCopy(p) /\ ~SaveCopy(p)'
      /\ HeadCopy(p)' <=> HeadCopy(p)
      /\ ~RecCopy(p)' /\ ~RecCopy(p)
  BY <1>0, <1>1, <1>2, <1>3 DEF Walking, HeadCopy, RecCopy, SaveCopy, Heads, Storing, Tearing
<1>5. /\ vPc[p] = pc[p] /\ vPc'[p] = pc'[p] /\ vDb'[p] = vDb[p] /\ vLoc'[p] = vLoc[p]
      /\ vDb[p].ptrval = s /\ vLoc[p].saveoffset = o
  <2>1. vPc[p] = pc[p] /\ vDb[p].ptrval = s /\ vLoc[p].saveoffset = o
    BY <1>0, <1>4, ViewFields
  <2>2. vPc'[p] = pc'[p] /\ vDb'[p] = vDb[p]
    BY <1>2, <1>4, ViewProc, ViewProcNext
  <2>3. vLoc'[p] = vLoc[p]
    BY <1>2, <1>4, ViewProc, ViewProcNext
  <2> QED BY <2>1, <2>2, <2>3
<1>6. /\ vPc' = [vPc EXCEPT ![p] = vPc'[p]] /\ vDb' = vDb /\ vLoc' = vLoc
  BY <1>5, ViewOthers, SameAt, ViewFunctions
<1>7. View!writeptr(o, s)
  BY <1>1, <1>2, ViewWritePtr
<1>8. View!FreeWritePtr(p)
  BY <1>1, <1>5, <1>6, <1>7 DEF View!FreeWritePtr, View!Transition, View!Goto, View!client, client
<1> QED BY <1>8 DEF View!FindFree, View!Step

\* db_store(): the record becomes the head of its chain.
LEMMA StoreWritePtrMaps ==
    ASSUME NEW p \in Procs, NEW own, NEW dep, NEW c, NEW left, NEW Z, CrashSafe,
           Torn(own, dep, c, left, Z), Step(p), Follow(p), StoreWritePtr(p)
    PROVE  View!Step(p)
<1>0. PICK r, h, l : r = db[p].idxoff /\ h = chainoff(p) /\ l = loc[p]
  OBVIOUS
<1>1. /\ DOMAIN pc = Procs /\ DOMAIN loc = Procs
      /\ pc[p] = "store.writeptr" /\ pc'[p] = "unlock"
      /\ pc' = [pc EXCEPT ![p] = "unlock"] /\ r <= PTR_MAX
      /\ writeptr(h, r) /\ loc'[p] = [l EXCEPT !.ptrval = 0]
      /\ UNCHANGED <<dat, lock, db, client>> /\ l \in LocType
  BY <1>0, StepOthers, FileParts DEF StoreWritePtr, Transition, Goto, CrashSafe, MemoryTypeOK
<1>2. /\ call' = call /\ db' = db /\ torn' = torn /\ chainoff(p)' = chainoff(p)
      /\ pc[p] \notin Outside /\ pc'[p] \notin Outside /\ h \in 0..NHASH /\ r # h
  <2>1. call' = call /\ db' = db
    BY <1>1 DEF client
  <2>2. Knows(own, p) /\ pc[p] \notin Outside /\ pc'[p] \notin Outside /\ HasNew(p)
    BY <1>1, StepFacts DEF Outside, HasNew
  <2>3. r \in Recs /\ h \in Chains
    BY <1>0, <2>2 DEF Knows
  <2> QED BY <2>1, <2>2, <2>3, StepFacts, Remembered DEF chainoff, CrashSafe
<1>3. OnTorn(p)' <=> OnTorn(p)
  BY <1>2 DEF OnTorn
<1>4. h \notin astray' /\ \A x : x # h => (x \in astray' <=> x \in astray)
  BY <1>0, <1>1 DEF Follow, Misleads, Writes
<1>5. /\ ~Walking(p) /\ ~Walking(p)' /\ ~SaveCopy(p) /\ ~SaveCopy(p)' /\ ~HeadCopy(p)'
      /\ RecCopy(p)' <=> RecCopy(p)
  BY <1>0, <1>1, <1>2, <1>3, <1>4
     DEF Walking, HeadCopy, RecCopy, SaveCopy, Heads, Storing, Tearing
<1>6. /\ vPc[p] = pc[p] /\ vPc'[p] = pc'[p] /\ vDb'[p] = vDb[p]
      /\ vLoc'[p] = [l EXCEPT !.ptrval = 0] /\ vDb[p].idxoff = r
  <2>1. vPc[p] = pc[p] /\ vDb[p].idxoff = r
    BY <1>0, <1>5, ViewFields
  <2>2. vPc'[p] = pc'[p] /\ vDb'[p] = vDb[p]
    BY <1>2, <1>5, ViewProc, ViewProcNext
  <2>3. vLoc'[p] = [l EXCEPT !.ptrval = 0]
    BY <1>1, <1>5, ViewProcNext
  <2> QED BY <2>1, <2>2, <2>3
<1>7. /\ vPc' = [vPc EXCEPT ![p] = vPc'[p]] /\ vDb' = vDb /\ vLoc' = [vLoc EXCEPT ![p] = vLoc'[p]]
  BY <1>6, ViewOthers, SameAt, ViewFunctions
<1>8. vLoc'[p] = [vLoc[p] EXCEPT !.ptrval = 0]
  <2>1. vLoc[p] = l \/ vLoc[p] = [l EXCEPT !.ptrval = 0]
    BY <1>0, <1>5, ViewProc
  <2>2. PICK m : m = vLoc[p]
    OBVIOUS
  <2> QED BY <1>1, <1>6, <2>1, <2>2 DEF LocType
<1>9. View!writeptr(h, r)
  BY <1>1, <1>2, <1>4, ViewWritePtr
<1>10. View!StoreWritePtr(p)
  BY <1>0, <1>1, <1>6, <1>7, <1>8, <1>9, SameOperators
     DEF View!StoreWritePtr, View!Transition, View!Goto, View!client, client
<1> QED BY <1>10 DEF View!Store, View!Step

\* _db_dodelete(): the key becomes blank.
LEMMA DelWriteIdxMaps ==
    ASSUME NEW p \in Procs, NEW own, NEW dep, NEW c, NEW left, NEW Z, CrashSafe,
           Torn(own, dep, c, left, Z), Step(p), Follow(p), DelWriteIdx(p)
    PROVE  View!Step(p)
<1>0. PICK r, f, d, rec : r = db[p].idxoff /\ f = loc[p].freeptr /\ d = db[p]
                          /\ rec = IdxRecord(p, BLANK, f)
  OBVIOUS
<1>1. /\ DOMAIN pc = Procs /\ DOMAIN db = Procs
      /\ pc[p] = "dodelete.writeidx" /\ pc'[p] = "dodelete.writefree"
      /\ pc' = [pc EXCEPT ![p] = "dodelete.writefree"]
      /\ idx' = WriteAt(idx, r - NHASH, rec) /\ db'[p] = [d EXCEPT !.ptrval = f]
      /\ UNCHANGED <<table, dat, lock, loc, client>> /\ d \in DbType
  BY <1>0, StepOthers, FileParts DEF DelWriteIdx, Transition, Goto, CrashSafe, MemoryTypeOK
<1>2. /\ call' = call /\ loc' = loc /\ table' = table /\ torn' = torn /\ chainoff(p)' = chainoff(p)
      /\ pc[p] \notin Outside /\ pc'[p] \notin Outside /\ r \in Recs /\ p \notin lost
      /\ db'[p].idxoff = r
  <2>1. call' = call /\ loc' = loc /\ table' = table
    BY <1>1 DEF client
  <2>2. r \in Recs
    BY <1>0, <1>1, Remembered DEF CrashSafe, HasRec
  <2>3. p \notin lost
    BY <1>1, StepFacts DEF Tearing
  <2>4. db'[p].idxoff = r
    BY <1>0, <1>1 DEF DbType
  <2> QED BY <1>1, <2>1, <2>2, <2>3, <2>4, StepFacts DEF chainoff, Outside
<1>3. OnTorn(p)' <=> OnTorn(p)
  BY <1>2 DEF OnTorn
<1>4. /\ r \notin astray' /\ \A x : x # r => (x \in astray' <=> x \in astray)
      /\ p \in lost' <=> r \in astray
  BY <1>0, <1>1, <1>2 DEF Follow, Misleads, Writes, Reads, Tearing
<1>5. /\ ~Walking(p) /\ ~Walking(p)' /\ ~HeadCopy(p) /\ ~HeadCopy(p)' /\ ~RecCopy(p)'
      /\ SaveCopy(p)' <=> SaveCopy(p)
  BY <1>0, <1>1, <1>2, <1>3, <1>4
     DEF Walking, HeadCopy, RecCopy, SaveCopy, Heads, Storing, Tearing
<1>6. /\ vPc[p] = pc[p] /\ vPc'[p] = pc'[p] /\ vLoc'[p] = vLoc[p]
      /\ vDb'[p] = [d EXCEPT !.ptrval = f] /\ vDb[p].idxoff = r /\ vLoc[p].freeptr = f
  <2>1. vPc[p] = pc[p] /\ vDb[p].idxoff = r /\ vLoc[p].freeptr = f
    BY <1>0, <1>5, ViewFields
  <2>2. vPc'[p] = pc'[p] /\ vLoc'[p] = vLoc[p]
    BY <1>2, <1>5, ViewProc, ViewProcNext
  <2>3. vDb'[p] = [d EXCEPT !.ptrval = f]
    BY <1>1, <1>5, ViewProcNext
  <2> QED BY <2>1, <2>2, <2>3
<1>7. /\ vPc' = [vPc EXCEPT ![p] = vPc'[p]] /\ vLoc' = vLoc /\ vDb' = [vDb EXCEPT ![p] = vDb'[p]]
  BY <1>6, ViewOthers, SameAt, ViewFunctions
<1>8. vDb'[p] = [vDb[p] EXCEPT !.ptrval = f]
  <2>1. vDb[p] = d \/ vDb[p] = [d EXCEPT !.ptrval = 0]
    BY <1>0, <1>5, ViewProc
  <2>2. PICK m : m = vDb[p]
    OBVIOUS
  <2> QED BY <1>1, <1>6, <2>1, <2>2 DEF DbType
<1>9. rec = View!IdxRecord(p, BLANK, f)
  <2>1. vDb[p].datoff = db[p].datoff /\ vDb[p].datlen = db[p].datlen
    BY <1>5, ViewFields
  <2> QED BY <1>0, <2>1 DEF IdxRecord, View!IdxRecord
<1>10. vIdx' = View!WriteAt(vIdx, r - NHASH, rec) /\ vTable' = vTable
  BY <1>1, <1>2, <1>4, ViewWriteIdx
<1>11. View!DelWriteIdx(p)
  BY <1>1, <1>6, <1>7, <1>8, <1>9, <1>10
     DEF View!DelWriteIdx, View!Transition, View!Goto, View!client, client
<1> QED BY <1>11 DEF View!DoDelete, View!Step

\* db_store(): the new index record, or the free one that is used again.
LEMMA NewIdxMaps ==
    ASSUME NEW p \in Procs, NEW own, NEW dep, NEW c, NEW left, NEW Z, CrashSafe,
           Torn(own, dep, c, left, Z), Step(p), Follow(p), StoreWriteIdx(p) \/ AppendIdxWrite(p)
    PROVE  View!Step(p)
<1>0. PICK r, h, t, d, k, rec :
        /\ r = db[p].idxoff /\ h = loc[p].ptrval /\ t = vLoc[p].ptrval /\ d = db[p]
        /\ k = call[p].key /\ rec = IdxRecord(p, k, h)
  OBVIOUS
<1>1. /\ DOMAIN pc = Procs /\ DOMAIN db = Procs
      /\ pc[p] \in {"append.idxwrite", "reuse.writeidx"}
      /\ pc'[p] = IF pc[p] = "append.idxwrite" THEN "append.idxunlock" ELSE "store.writeptr"
      /\ pc' = [pc EXCEPT ![p] = pc'[p]]
      /\ idx' = WriteAt(idx, r - NHASH, rec)
      /\ db'[p] = IF pc[p] = "append.idxwrite" THEN d ELSE [d EXCEPT !.ptrval = h]
      /\ UNCHANGED <<table, dat, lock, loc, client>> /\ d \in DbType
  BY <1>0, StepOthers, FileParts
     DEF StoreWriteIdx, AppendIdxWrite, Transition, Goto, CrashSafe, MemoryTypeOK
<1>2. /\ call' = call /\ loc' = loc /\ table' = table /\ torn' = torn /\ chainoff(p)' = chainoff(p)
      /\ pc[p] \notin Outside /\ pc'[p] \notin Outside /\ db'[p].idxoff = r
      /\ chainoff(p) \in Chains /\ p \notin lost /\ p \notin lost'
  <2>1. call' = call /\ loc' = loc /\ table' = table
    BY <1>1 DEF client
  <2>2. p \notin lost /\ p \notin lost' /\ Knows(own, p)
    BY <1>1, StepFacts DEF Tearing
  <2>3. db'[p].idxoff = r
    BY <1>0, <1>1 DEF DbType
  <2>4. pc[p] \notin Outside /\ pc'[p] \notin Outside
    BY <1>1 DEF Outside
  <2> QED BY <1>1, <2>1, <2>2, <2>3, <2>4, StepFacts DEF chainoff, Knows
<1>3. /\ r \in Recs \cup {NHASH + Len(idx) + 1} /\ r # chainoff(p) /\ r \notin astray
  <2>1. CASE pc[p] = "append.idxwrite"
    <3>1. /\ r = NHASH + Len(idx) + 1 /\ NHASH \in Nat /\ Len(idx) \in Nat
          /\ chainoff(p) \in 1..NHASH /\ c \in 1..NHASH
      BY <1>0, <1>2, <2>1, StepFacts, FileParts, DbAssumption
         DEF CrashSafe, FileInv, AppendAtEnd, Chains
    <3>2. r # chainoff(p) /\ r \notin Recs /\ r # c
      BY <3>1 DEF Recs
    <3> QED BY <3>1, <3>2, StepFacts
  <2>2. CASE pc[p] = "reuse.writeidx"
    <3>1. Knows(own, p) /\ Apartness(own, c, left, Z) /\ c \in Chains
      BY StepFacts
    <3>2. r \in Recs /\ readidx(r).key = BLANK
      BY <1>0, <2>2, <3>1 DEF Knows, Reuses
    <3>3. r # chainoff(p) /\ r # c
      BY <1>2, <3>1, <3>2, DbAssumption DEF Recs, Chains
    <3> QED BY <3>1, <3>2, <3>3 DEF Apartness
  <2> QED BY <1>1, <2>1, <2>2
<1>4. (OnTorn(p)' <=> OnTorn(p)) /\ (chainoff(p) \in astray => OnTorn(p))
  <2>1. call[p] \in Requests
    BY HeldLists, <1>2 DEF CrashSafe
  <2> QED BY <1>2, <2>1, StepFacts DEF OnTorn
<1>5. /\ r \in astray' <=> chainoff(p) \in astray
      /\ \A x : x # r => (x \in astray' <=> x \in astray)
  <2>1. Misleads(p) <=> chainoff(p) \in astray
    BY <1>1 DEF Misleads
  <2>2. \A x : Writes(p, x) <=> x = r
    BY <1>0, <1>1 DEF Writes
  <2>3. CASE Misleads(p)
    <3>1. astray' = astray \cup {r}
      BY <1>0, <2>2, <2>3 DEF Follow
    <3> QED BY <2>1, <2>3, <3>1
  <2>4. CASE ~Misleads(p)
    <3>1. astray' = astray \ {r}
      BY <2>2, <2>4 DEF Follow
    <3> QED BY <2>1, <2>4, <3>1
  <2> QED BY <2>3, <2>4
<1>6. /\ ~Walking(p) /\ ~Walking(p)' /\ ~SaveCopy(p) /\ ~SaveCopy(p)'
      /\ HeadCopy(p) <=> chainoff(p) \in astray
      /\ HeadCopy(p)' <=> HeadCopy(p)
      /\ RecCopy(p)' <=> HeadCopy(p)
      /\ pc[p] = "append.idxwrite" => (RecCopy(p) <=> HeadCopy(p))
  <2>1. /\ ~Walking(p) /\ ~Walking(p)' /\ ~SaveCopy(p) /\ ~SaveCopy(p)'
    BY <1>1, <1>2 DEF Walking, SaveCopy, Tearing
  <2>2. HeadCopy(p) <=> chainoff(p) \in astray
    BY <1>1, <1>4 DEF HeadCopy, Heads, Storing
  <2>3. HeadCopy(p)' <=> HeadCopy(p)
    BY <1>1, <1>2, <1>3, <1>4, <1>5 DEF HeadCopy, Heads, Storing
  <2>4. RecCopy(p)' <=> HeadCopy(p)
    BY <1>1, <1>2, <1>4, <1>5, <2>2 DEF RecCopy
  <2>5. pc[p] = "append.idxwrite" => (RecCopy(p) <=> HeadCopy(p))
    BY <1>0, <1>3, <1>4, <2>2 DEF RecCopy
  <2> QED BY <2>1, <2>2, <2>3, <2>4, <2>5
<1>7. /\ vPc[p] = pc[p] /\ vPc'[p] = pc'[p] /\ vLoc'[p] = vLoc[p]
      /\ vDb[p].idxoff = r /\ t = IF HeadCopy(p) THEN 0 ELSE h
  <2>1. vPc[p] = pc[p] /\ vDb[p].idxoff = r /\ t = IF HeadCopy(p) THEN 0 ELSE h
    BY <1>0, <1>6, ViewFields
  <2>2. vPc'[p] = pc'[p] /\ vLoc'[p] = vLoc[p]
    BY <1>2, <1>6, ViewProc, ViewProcNext
  <2> QED BY <2>1, <2>2
<1>8. vDb'[p] = IF pc[p] = "append.idxwrite" THEN vDb[p] ELSE [vDb[p] EXCEPT !.ptrval = t]
  <2>1. PICK m : m = vDb[p]
    OBVIOUS
  <2>2. m = IF RecCopy(p) THEN [d EXCEPT !.ptrval = 0] ELSE d
    BY <1>0, <1>6, <2>1, ViewProc
  <2>3. vDb'[p] = IF HeadCopy(p) THEN [db'[p] EXCEPT !.ptrval = 0] ELSE db'[p]
    BY <1>6, ViewProcNext
  <2>4. CASE pc[p] = "append.idxwrite"
    BY <1>1, <1>6, <2>1, <2>2, <2>3, <2>4
  <2>5. CASE pc[p] = "reuse.writeidx"
    <3>1. db'[p] = [d EXCEPT !.ptrval = h] /\ d \in DbType /\ (m = d \/ m = [d EXCEPT !.ptrval = 0])
      BY <1>1, <2>2, <2>5
    <3>2. CASE HeadCopy(p)
      <4>1. vDb'[p] = [db'[p] EXCEPT !.ptrval = 0] /\ t = 0
        BY <1>7, <2>3, <3>2
      <4>2. vDb'[p] = [m EXCEPT !.ptrval = t]
        BY <3>1, <4>1 DEF DbType
      <4> QED BY <2>1, <2>5, <4>2
    <3>3. CASE ~HeadCopy(p)
      <4>1. vDb'[p] = db'[p] /\ t = h
        BY <1>7, <2>3, <3>3
      <4>2. vDb'[p] = [m EXCEPT !.ptrval = t]
        BY <3>1, <4>1 DEF DbType
      <4> QED BY <2>1, <2>5, <4>2
    <3> QED BY <3>2, <3>3
  <2> QED BY <1>1, <2>4, <2>5
<1>9. /\ vPc' = [vPc EXCEPT ![p] = vPc'[p]] /\ vLoc' = vLoc /\ vDb' = [vDb EXCEPT ![p] = vDb'[p]]
  BY <1>7, ViewOthers, SameAt, ViewFunctions
<1>10. vIdx' = View!WriteAt(vIdx, r - NHASH, View!IdxRecord(p, k, t)) /\ vTable' = vTable
  <2>1. PICK vrec : vrec = View!IdxRecord(p, k, t)
    OBVIOUS
  <2>2. vrec = IF r \in astray' THEN [rec EXCEPT !.ptr = 0] ELSE rec
    <3>1. t = (IF r \in astray' THEN 0 ELSE h) /\ ~Walking(p)
      BY <1>5, <1>6, <1>7
    <3>2. vDb[p].datoff = db[p].datoff /\ vDb[p].datlen = db[p].datlen
      BY <3>1, ViewFields
    <3> QED BY <1>0, <2>1, <3>1, <3>2 DEF IdxRecord, View!IdxRecord
  <2>3. vIdx' = View!WriteAt(vIdx, r - NHASH, vrec) /\ vTable' = vTable
    BY <1>1, <1>2, <1>3, <1>5, <2>2, ViewWriteIdx
  <2> QED BY <2>1, <2>3
<1>11. CASE pc[p] = "append.idxwrite"
  <2>1. vDb' = vDb
    BY <1>8, <1>9, <1>11, SameAt, ViewFunctions
  <2>2. View!AppendIdxWrite(p)
    BY <1>0, <1>1, <1>2, <1>7, <1>9, <1>10, <1>11, <2>1
       DEF View!AppendIdxWrite, View!Transition, View!Goto, View!client, client
  <2> QED BY <2>2 DEF View!AppendIdx, View!Step
<1>12. CASE pc[p] = "reuse.writeidx"
  <2>1. View!StoreWriteIdx(p)
    BY <1>0, <1>1, <1>2, <1>7, <1>8, <1>9, <1>10, <1>12
       DEF View!StoreWriteIdx, View!Transition, View!Goto, View!client, client
  <2> QED BY <2>1 DEF View!Store, View!Step
<1> QED BY <1>1, <1>11, <1>12

\* On torn files, every step of the three functions looks in the view like a step
\* of the same function, or like none: a process behind a pointer that leads off
\* the chain is seen at the end of its chain, its search without a record, and none
\* of its steps there is seen.
LEMMA StepMaps ==
    ASSUME NEW p \in Procs, NEW own, NEW dep, NEW c, NEW left, NEW Z, CrashSafe,
           Torn(own, dep, c, left, Z), Step(p), Follow(p)
    PROVE  View!Step(p) \/ UNCHANGED View!vars
<1>1. CASE Find(p)
  BY <1>1, FindLockMaps, FindReadPtrMaps, FindReadIdxMaps, WalkMaps DEF Find
<1>2. CASE FetchReadDat(p)
  BY <1>2, MemoryMaps
<1>3. CASE DoDelete(p)
  BY <1>3, QuietMaps, DelReadFreeMaps, DelWriteIdxMaps, DelWriteFreeMaps, DelWritePtrMaps DEF DoDelete
<1>4. CASE FindFree(p)
  BY <1>4, QuietMaps, MemoryMaps, FreeReadIdxMaps, FreeWritePtrMaps DEF FindFree
<1>5. CASE AppendDat(p)
  BY <1>5, QuietMaps, MemoryMaps DEF AppendDat
<1>6. CASE AppendIdx(p)
  BY <1>6, QuietMaps, AppendIdxSeekMaps, NewIdxMaps DEF AppendIdx
<1>7. CASE Store(p)
  BY <1>7, StoreHeadMaps, MemoryMaps, NewIdxMaps, StoreWritePtrMaps, LeaveMaps DEF Store
<1>8. CASE Unlock(p)
  BY <1>8, LeaveMaps
<1> QED BY <1>1, <1>2, <1>3, <1>4, <1>5, <1>6, <1>7, <1>8 DEF Step

-----------------------------------------------------------------------------
\* The offset is on the torn chain c, or that of a new record for it.
OfChain(c, o) == o = c \/ (o \in Recs /\ readidx(o).key \in Keys /\ Hash[readidx(o).key] = c)

\* A step writes pointer val at offset off, and leaves the other offsets alone.
Wrote(off, val) ==
    /\ off \in 0..NHASH \cup Recs' /\ Recs \subseteq Recs' /\ Recs' \subseteq Recs \cup {off}
    /\ readptr(off)' = val
    /\ \A x \in 0..NHASH \cup Recs : x # off =>
          readptr(x)' = readptr(x) /\ (x \in Recs => readidx(x).key' = readidx(x).key)
    /\ \A x : x # off => (x \in astray' <=> x \in astray)

\* What a step of process p writes does not lead into Z, nor off another chain.
WritesSafely(p, c, left, Z) ==
    \E off, val : /\ Wrote(off, val) /\ val \notin Z /\ off \notin left
                  /\ off \in astray' => val \in Stray(Z) /\ OfChain(c, off)'
                  /\ pc[p] = "reuse.writeidx" => off = db[p].idxoff

\* What these proofs know of the offsets.
LEMMA Offsets ==
    ASSUME NEW own, NEW dep, NEW c, NEW left, NEW Z, CrashSafe, Torn(own, dep, c, left, Z)
    PROVE  /\ Apartness(own, c, left, Z) /\ c \in 0..NHASH /\ FREE_OFF \in 0..NHASH
           /\ 0..NHASH \subseteq Nat /\ Chains \subseteq 0..NHASH
           /\ FREE_OFF \notin Chains /\ FREE_OFF # Nowhere /\ \A h \in Chains : h # Nowhere
           /\ \A x \in Recs : x \notin 0..NHASH /\ x # 0 /\ x \in Nat
           /\ 0 \notin Z /\ \A x \in 0..NHASH : x \notin Z /\ x \notin left
           /\ \A x : own[x] # Nowhere /\ x \in Recs => x \notin Z /\ x \notin left
           /\ \A x \in astray : OfChain(c, x) /\ readptr(x) \in Stray(Z)
           /\ \A x \in astray : x \in 0..NHASH \cup Recs /\ own[x] \in {c, Nowhere}
           /\ \A x \in (0..NHASH \cup (Recs \cap Ptr)) \ Z : readptr(x) \notin Z
           /\ \A x \in 0..NHASH \cup Recs : readptr(x) \in Target
           /\ NHASH \in Nat /\ Len(idx) \in Nat /\ torn = {c}
<1>1. /\ Apartness(own, c, left, Z) /\ c \in Chains /\ OffChain(c, Z) /\ Unreached(left, Z)
      /\ View!NewRecs(own, left) /\ torn = {c}
  BY TornApart DEF Torn, View!Good
<1>2. /\ NHASH \in Nat /\ Len(idx) \in Nat /\ c \in 1..NHASH /\ Chains = 1..NHASH /\ FREE_OFF = 0
  BY <1>1, DbAssumption DEF Chains, FREE_OFF, CrashSafe, FileInv, FileTypeOK
<1>3. /\ \A x \in Recs : x \notin 0..NHASH /\ x # 0 /\ x \in Nat
      /\ FREE_OFF # Nowhere /\ \A h \in Chains : h # Nowhere
  BY <1>2 DEF Recs, Nowhere
<1>4. \A x \in left : own[x] = Nowhere
  BY <1>1, SameOperators DEF View!NewRecs
<1>5. \A x \in astray : OfChain(c, x) /\ readptr(x) \in Stray(Z)
  BY <1>1 DEF OffChain, OfChain
<1>6. \A x \in 0..NHASH \cup Recs : readptr(x) \in Target
  BY PtrOK DEF CrashSafe
<1>7. 0 \notin Z /\ \A x \in 0..NHASH : x \notin Z /\ x \notin left
  BY <1>1, <1>3 DEF Apartness
<1>8. \A x : own[x] # Nowhere /\ x \in Recs => x \notin Z /\ x \notin left
  BY <1>1, <1>4 DEF Apartness
<1>9. \A x \in astray : x \in 0..NHASH \cup Recs /\ own[x] \in {c, Nowhere}
  BY <1>1, <1>2 DEF Apartness
<1>10. \A x \in (0..NHASH \cup (Recs \cap Ptr)) \ Z : readptr(x) \notin Z
  BY <1>1 DEF Unreached
<1>11. 0..NHASH \subseteq Nat /\ Chains \subseteq 0..NHASH /\ c \in 0..NHASH /\ FREE_OFF \in 0..NHASH
       /\ FREE_OFF \notin Chains
  BY <1>2
<1> QED BY <1>1, <1>2, <1>3, <1>5, <1>6, <1>7, <1>8, <1>9, <1>10, <1>11

\* A step that writes nothing to the index file.
LEMMA NothingWritten ==
    ASSUME NEW p \in Procs, NEW own, NEW dep, NEW c, NEW left, NEW Z, CrashSafe,
           Torn(own, dep, c, left, Z), table' = table, idx' = idx, astray' = astray,
           pc[p] # "reuse.writeidx"
    PROVE  WritesSafely(p, c, left, Z)
<1>1. Recs' = Recs /\ \A x : readptr(x)' = readptr(x) /\ readidx(x)' = readidx(x)
  BY DatWritten
<1>2. PICK v : v = readptr(FREE_OFF)
  OBVIOUS
<1>3. Wrote(FREE_OFF, v)
  BY <1>1, <1>2, Offsets DEF Wrote
<1>4. v \notin Z /\ FREE_OFF \notin left /\ FREE_OFF \notin astray'
  <2>1. FREE_OFF \in 0..NHASH /\ FREE_OFF \notin Z /\ FREE_OFF \notin left
    BY Offsets
  <2>2. FREE_OFF \notin astray
    BY <2>1, Offsets DEF Apartness
  <2> QED BY <1>2, <2>1, <2>2, Offsets
<1> QED BY <1>3, <1>4 DEF WritesSafely

\* A step that writes a pointer.
LEMMA PtrSafely ==
    ASSUME NEW p \in Procs, NEW own, NEW dep, NEW c, NEW left, NEW Z, CrashSafe,
           Torn(own, dep, c, left, Z), NEW off \in 0..NHASH \cup Recs, NEW val,
           own[off] # Nowhere, writeptr(off, val), dat' = dat, pc[p] # "reuse.writeidx",
           \A x : x # off => (x \in astray' <=> x \in astray), val \notin Z,
           off \in astray' => val \in Stray(Z) /\ OfChain(c, off)
    PROVE  WritesSafely(p, c, left, Z)
<1>1. /\ Recs' = Recs /\ readptr(off)' = val
      /\ \A x \in 0..NHASH \cup Recs : x # off => readptr(x)' = readptr(x)
      /\ \A x \in Recs : readidx(x).key' = readidx(x).key
  BY PtrWritten DEF CrashSafe, SameEntry
<1>2. Wrote(off, val)
  BY <1>1 DEF Wrote
<1>3. off \notin left
  BY Offsets
<1>4. OfChain(c, off) => OfChain(c, off)'
  BY <1>1 DEF OfChain
<1> QED BY <1>2, <1>3, <1>4 DEF WritesSafely

\* A step that writes an index record.
LEMMA IdxSafely ==
    ASSUME NEW p \in Procs, NEW own, NEW dep, NEW c, NEW left, NEW Z, CrashSafe,
           Torn(own, dep, c, left, Z), NEW r, r \in Recs \/ r = NHASH + Len(idx) + 1,
           NEW rec \in IdxRec, r \notin left, r = db[p].idxoff,
           idx' = WriteAt(idx, r - NHASH, rec), table' = table, dat' = dat,
           \A x : x # r => (x \in astray' <=> x \in astray), rec.ptr \notin Z,
           r \in astray' => rec.ptr \in Stray(Z) /\ rec.key \in Keys /\ Hash[rec.key] = c
    PROVE  WritesSafely(p, c, left, Z)
<1>1. /\ Recs' = Recs \cup {r} /\ readidx(r)' = rec /\ readptr(r)' = rec.ptr
      /\ \A x \in 0..NHASH \cup Recs : x # r =>
            readptr(x)' = readptr(x) /\ (x \in Recs => readidx(x).key' = readidx(x).key)
  BY IdxWritten DEF CrashSafe, SameEntry
<1>2. PICK v : v = rec.ptr
  OBVIOUS
<1>3. Wrote(r, v)
  BY <1>1, <1>2 DEF Wrote
<1>4. r \in astray' => OfChain(c, r)'
  BY <1>1 DEF OfChain
<1> QED BY <1>2, <1>3, <1>4 DEF WritesSafely

\* The steps that write to the index file, and the others.
WritesIndex(p) ==
    \/ DelWriteIdx(p) \/ StoreWriteIdx(p) \/ AppendIdxWrite(p)
    \/ DelWriteFree(p) \/ DelWritePtr(p) \/ FreeWritePtr(p) \/ StoreWritePtr(p)

LEMMA OtherSteps ==
    ASSUME NEW p \in Procs, CrashSafe, Step(p), Follow(p), ~WritesIndex(p)
    PROVE  table' = table /\ idx' = idx /\ astray' = astray /\ pc[p] # "reuse.writeidx"
<1>1. table' = table /\ idx' = idx
  <2>1. CASE files' = files
    BY <2>1 DEF files
  <2>2. CASE files' # files
    BY <2>2, Writers DEF WritesIndex, DelWriteDat, StoreWriteDat, AppendDatWrite
  <2> QED BY <2>1, <2>2
<1>2. \/ pc[p] \notin {"dodelete.writeidx", "append.idxwrite", "reuse.writeidx",
                       "dodelete.writeptr", "store.writeptr"}
      \/ pc[p] = "store.writeptr" /\ pc'[p] # "unlock"
  <2> USE DEF WritesIndex, Transition, Lock, Release
  <2>1. CASE Find(p)
    BY <2>1 DEF Find, FindLock, FindReadPtr, FindReadIdx
  <2>2. CASE DoDelete(p)
    BY <2>2 DEF DoDelete, DelLock, DelWriteDat, DelReadFree, DelUnlock
  <2>3. CASE FindFree(p)
    BY <2>3 DEF FindFree, FreeLock, FreeReadPtr, FreeReadIdx, FreeUnlock
  <2>4. CASE AppendDat(p) \/ AppendIdx(p)
    BY <2>4 DEF AppendDat, AppendDatLock, AppendDatSeek, AppendDatWrite, AppendDatUnlock,
       AppendIdx, AppendIdxLock, AppendIdxSeek, AppendIdxUnlock
  <2>5. CASE Store(p)
    <3>1. DOMAIN pc = Procs
      BY StepOthers
    <3> QED BY <2>5, <3>1 DEF Store, StoreHead, StoreWriteDat, StoreQuit, Goto
  <2>6. CASE FetchReadDat(p) \/ Unlock(p)
    BY <2>6 DEF FetchReadDat, Unlock
  <2> QED BY <2>1, <2>2, <2>3, <2>4, <2>5, <2>6 DEF Step
<1>3. ~Misleads(p) /\ \A x : ~Writes(p, x)
  BY <1>2 DEF Misleads, Writes
<1> QED BY <1>1, <1>2, <1>3 DEF Follow

LEMMA StepWrites ==
    ASSUME NEW p \in Procs, NEW own, NEW dep, NEW c, NEW left, NEW Z, CrashSafe,
           Torn(own, dep, c, left, Z), Step(p), Follow(p)
    PROVE  WritesSafely(p, c, left, Z)
<1>0. PICK r, o, s, f, h, t, o2, g, k :
        /\ r = db[p].idxoff /\ o = db[p].ptroff /\ s = loc[p].saveptr /\ f = loc[p].freeptr
        /\ h = loc[p].ptrval /\ t = db[p].ptrval /\ o2 = loc[p].saveoffset /\ g = chainoff(p)
        /\ k = call[p].key
  OBVIOUS
<1>1. /\ Knows(own, p) /\ Carries(p, Z) /\ Control /\ FileInv
      /\ pc[p] \notin Outside =>
            call[p] \in Requests /\ k \in Keys /\ Hash[k] = g /\ g \in Chains
      /\ pc[p] \in HasRec => r \in Recs \cap Ptr
      /\ o \in 0..NHASH \cup Recs /\ o2 \in 0..NHASH \cup Recs
      /\ s \in Target /\ f \in Target /\ h \in Target /\ t \in Target
      /\ pc[p] \in HasRec \cup HasDat => db[p].datoff \in 1..Len(dat)
  <2>1. LocalOK(p)
    BY FileParts DEF CrashSafe
  <2>2. pc[p] \notin Outside =>
          call[p] \in Requests /\ k \in Keys /\ Hash[k] = g /\ g \in Chains
    BY <1>0, HeldLists DEF CrashSafe, chainoff
  <2> QED BY <1>0, <2>1, <2>2, StepFacts DEF CrashSafe, LocalOK
<1>2. /\ \A x \in Target : x = 0 \/ own[x] = FREE_OFF \/ own[x] \in Chains => x \notin Z
      /\ \A x \in Stray(Z) : x \notin Z
      /\ \A x : own[x] = FREE_OFF \/ own[x] \in Chains => own[x] # Nowhere
      /\ \A x : x \in astray /\ own[x] = FREE_OFF => FALSE
  <2>1. \A x \in Target : x = 0 \/ x \in Recs
    BY DEF Target
  <2>2. \A x : own[x] = FREE_OFF \/ own[x] \in Chains => own[x] # Nowhere
    BY Offsets
  <2>3. FREE_OFF # c /\ FREE_OFF # Nowhere
    BY Offsets DEF Apartness
  <2> QED BY <2>1, <2>2, <2>3, Offsets DEF Stray
<1>3. CASE ~WritesIndex(p)
  BY <1>3, OtherSteps, NothingWritten
<1>4. CASE DelWriteIdx(p)
  <2>1. /\ pc[p] = "dodelete.writeidx" /\ idx' = WriteAt(idx, r - NHASH, IdxRecord(p, BLANK, f))
        /\ table' = table /\ dat' = dat
    BY <1>0, <1>4 DEF DelWriteIdx, Transition
  <2>2. PICK rec : rec = IdxRecord(p, BLANK, f)
    OBVIOUS
  <2>3. rec \in IdxRec /\ rec.ptr = f /\ r \in Recs
    <3>1. rec \in IdxRec
      BY <1>1, <2>1, <2>2, IdxRecordOK DEF HasRec, Outside
    <3> QED BY <1>1, <2>1, <2>2, <3>1 DEF HasRec, IdxRecord
  <2>4. own[r] = g /\ g \in Chains /\ (f = 0 \/ own[f] = FREE_OFF)
    BY <1>0, <1>1, <2>1 DEF Knows, AtRec, Outside
  <2>5. r \notin left /\ f \notin Z
    BY <1>1, <1>2, <2>3, <2>4, Offsets
  <2>6. r \notin astray' /\ \A x : x # r => (x \in astray' <=> x \in astray)
    BY <1>0, <2>1 DEF Follow, Misleads, Writes
  <2> QED BY <1>0, <2>1, <2>2, <2>3, <2>5, <2>6, IdxSafely
<1>5. CASE StoreWriteIdx(p) \/ AppendIdxWrite(p)
  <2>1. /\ pc[p] \in {"append.idxwrite", "reuse.writeidx"}
        /\ idx' = WriteAt(idx, r - NHASH, IdxRecord(p, k, h))
        /\ table' = table /\ dat' = dat
    BY <1>0, <1>5 DEF StoreWriteIdx, AppendIdxWrite, Transition
  <2>2. PICK rec : rec = IdxRecord(p, k, h)
    OBVIOUS
  <2>3. rec \in IdxRec /\ rec.ptr = h /\ rec.key = k /\ Hash[k] = g /\ k \in Keys
    <3>1. rec \in IdxRec
      BY <1>0, <1>1, <2>1, <2>2, IdxRecordOK DEF HasRec, HasDat, Outside
    <3> QED BY <1>1, <2>1, <2>2, <3>1 DEF Outside, IdxRecord
  <2>4. (r \in Recs \/ r = NHASH + Len(idx) + 1) /\ r \notin left
    <3>1. CASE pc[p] = "append.idxwrite"
      <4>1. r = NHASH + Len(idx) + 1 /\ NHASH \in Nat /\ Len(idx) \in Nat
        BY <1>0, <1>1, <3>1, Offsets DEF FileInv, AppendAtEnd
      <4>2. r \notin Recs
        BY <4>1 DEF Recs
      <4> QED BY <4>1, <4>2, Offsets DEF Apartness
    <3>2. CASE pc[p] = "reuse.writeidx"
      <4>1. HasNew(p)
        BY <3>2 DEF HasNew
      <4> QED BY <1>0, <1>1, <4>1, Offsets DEF Apartness, Knows
    <3> QED BY <2>1, <3>1, <3>2
  <2>5. /\ r \in astray' => g \in astray
        /\ \A x : x # r => (x \in astray' <=> x \in astray)
    <3>1. Misleads(p) <=> g \in astray
      BY <1>0, <2>1 DEF Misleads
    <3>2. \A x : Writes(p, x) <=> x = r
      BY <1>0, <2>1 DEF Writes
    <3>3. CASE Misleads(p)
      BY <1>0, <3>1, <3>2, <3>3 DEF Follow
    <3>4. CASE ~Misleads(p)
      BY <3>1, <3>2, <3>4 DEF Follow
    <3> QED BY <3>3, <3>4
  <2>6. g \in astray => HeadCopy(p) /\ g = c
    <3>1. pc[p] \notin Outside /\ call[p] \in Requests /\ pc[p] \in Heads
      BY <1>1, <2>1 DEF Outside, Heads, Storing
    <3> QED BY <1>0, <3>1, StepFacts DEF HeadCopy
  <2>7. h \notin Z /\ (g \in astray => h \in Stray(Z))
    <3>1. HeadCopy(p) => h \in Stray(Z)
      BY <1>0, <1>1 DEF Carries
    <3>2. ~HeadCopy(p) => h = 0 \/ own[h] = g
      BY <1>0, <1>1, <2>1 DEF Knows, Heads, Storing
    <3> QED BY <1>1, <1>2, <2>1, <2>6, <3>1, <3>2 DEF Outside
  <2> QED BY <1>0, <2>1, <2>2, <2>3, <2>4, <2>5, <2>6, <2>7, IdxSafely
<1>6. CASE DelWriteFree(p)
  <2>1. pc[p] = "dodelete.writefree" /\ writeptr(FREE_OFF, r) /\ dat' = dat
    BY <1>0, <1>6 DEF DelWriteFree, Transition
  <2>2. own[r] = FREE_OFF /\ r \in Recs /\ own[FREE_OFF] = FREE_OFF /\ FREE_OFF # Nowhere
        /\ FREE_OFF \in 0..NHASH
    BY <1>0, <1>1, <2>1, Offsets DEF Knows, Tearing, HasRec, Apartness
  <2>3. astray' = astray /\ FREE_OFF \notin astray /\ r \notin Z
    BY <2>1, <2>2, StepFacts, Offsets
  <2> QED BY <2>1, <2>2, <2>3, PtrSafely
<1>7. CASE DelWritePtr(p)
  <2>1. pc[p] = "dodelete.writeptr" /\ writeptr(o, s) /\ dat' = dat
    BY <1>0, <1>7 DEF DelWritePtr, Transition
  <2>2. own[o] = g /\ g \in Chains /\ (p \in lost \/ s = 0 \/ own[s] = g)
    BY <1>0, <1>1, <2>1 DEF Knows, Tearing, Outside
  <2>3. /\ o \in astray' => p \in lost
        /\ \A x : x # o => (x \in astray' <=> x \in astray)
    BY <1>0, <2>1 DEF Follow, Misleads, Writes
  <2>4. p \in lost => s \in Stray(Z) /\ g = c
    <3>1. p \in lost => SaveCopy(p)
      BY <1>1, <2>1 DEF Carries, SaveCopy, OnTorn, Tearing
    <3> QED BY <1>0, <1>1, <3>1, Offsets DEF Carries
  <2>5. s \notin Z
    BY <1>1, <1>2, <2>2, <2>4
  <2>6. p \in lost => OfChain(c, o)
    <3>1. CASE o \in 0..NHASH
      BY <2>2, <2>4, <3>1 DEF OfChain, Torn, View!Good, View!Lists, View!Ordered
    <3>2. CASE o \in Recs
      BY <2>2, <2>4, <3>2, ViewFiles, SameConstants DEF OfChain, Torn, View!Good, View!Keyed
    <3> QED BY <1>1, <3>1, <3>2
  <2> QED BY <1>1, <1>2, <2>1, <2>2, <2>3, <2>4, <2>5, <2>6, PtrSafely
<1>8. CASE FreeWritePtr(p)
  <2>1. pc[p] = "findfree.writeptr" /\ writeptr(o2, t) /\ dat' = dat
    BY <1>0, <1>8 DEF FreeWritePtr, Transition
  <2>2. own[o2] = FREE_OFF /\ own[r] = FREE_OFF /\ t = readptr(r) /\ r \in Recs \cap Ptr
    BY <1>0, <1>1, <2>1 DEF Knows, HasRec
  <2>3. astray' = astray /\ o2 \notin astray
    BY <1>2, <2>1, <2>2, StepFacts
  <2>4. t \notin Z
    <3>1. r \notin Z
      BY <1>2, <2>2, Offsets
    <3> QED BY <2>2, <3>1, Offsets
  <2> QED BY <1>1, <1>2, <2>1, <2>2, <2>3, <2>4, PtrSafely
<1>9. CASE StoreWritePtr(p)
  <2>1. pc[p] = "store.writeptr" /\ pc'[p] = "unlock" /\ writeptr(g, r) /\ dat' = dat
    <3>1. DOMAIN pc = Procs
      BY StepOthers
    <3> QED BY <1>0, <1>9, <3>1 DEF StoreWritePtr, Transition, Goto
  <2>2. own[g] = g /\ g \in Chains /\ r \notin Z
    BY <1>0, <1>1, <2>1 DEF Knows, Carries, Outside
  <2>3. g \notin astray' /\ \A x : x # g => (x \in astray' <=> x \in astray)
    BY <1>0, <2>1 DEF Follow, Misleads, Writes
  <2>4. g \in 0..NHASH /\ own[g] # Nowhere
    BY <1>2, <2>2, Offsets
  <2> QED BY <2>1, <2>2, <2>3, <2>4, PtrSafely
<1> QED BY <1>3, <1>4, <1>5, <1>6, <1>7, <1>8, <1>9 DEF WritesIndex

\* The records in Z, when process p has taken its step: it may have written the one
\* that it took off the free list.
Kept(p, Z) == IF pc[p] = "reuse.writeidx" THEN Z \ {db[p].idxoff} ELSE Z

LEMMA FilesStayApart ==
    ASSUME NEW p \in Procs, NEW own, NEW dep, NEW c, NEW left, NEW Z, CrashSafe,
           Torn(own, dep, c, left, Z), WritesSafely(p, c, left, Z), NEW Z2, Z2 = Kept(p, Z)
    PROVE  /\ OffChain(c, Z2)' /\ Stray(Z) \subseteq Stray(Z2)'
           /\ \A x \in left \ Z2 : readidx(x).key' = BLANK
           /\ \A o \in (0..NHASH \cup (Recs' \cap Ptr)) \ Z2 : readptr(o)' \notin Z2
<1>1. PICK off, val :
        /\ Wrote(off, val) /\ val \notin Z /\ off \notin left
        /\ off \in astray' => val \in Stray(Z) /\ OfChain(c, off)'
        /\ pc[p] = "reuse.writeidx" => off = db[p].idxoff
  BY DEF WritesSafely
<1>2. Z2 \subseteq Z /\ \A x \in Z \ Z2 : x = off
  BY <1>1 DEF Kept
<1>3. /\ off \in 0..NHASH \cup Recs' /\ Recs \subseteq Recs' /\ Recs' \subseteq Recs \cup {off}
      /\ readptr(off)' = val
      /\ \A x \in 0..NHASH \cup Recs : x # off =>
            readptr(x)' = readptr(x) /\ (x \in Recs => readidx(x).key' = readidx(x).key)
      /\ \A x : x # off => (x \in astray' <=> x \in astray)
  BY <1>1 DEF Wrote
<1>4. Stray(Z) \subseteq Stray(Z2)'
  BY <1>2, <1>3 DEF Stray
<1>5. OffChain(c, Z2)'
  <2> SUFFICES ASSUME NEW o \in astray'
               PROVE  /\ o = c \/ (o \in Recs' /\ readidx(o).key' \in Keys /\ Hash[readidx(o).key'] = c)
                      /\ readptr(o)' \in Stray(Z2)'
    BY DEF OffChain
  <2>1. CASE o = off
    BY <1>1, <1>3, <1>4, <2>1 DEF OfChain
  <2>2. CASE o # off
    <3>1. /\ o \in astray /\ OfChain(c, o) /\ readptr(o) \in Stray(Z) /\ o \in 0..NHASH \cup Recs
      BY <1>3, <2>2, Offsets
    <3> QED BY <1>3, <1>4, <2>2, <3>1 DEF OfChain
  <2> QED BY <2>1, <2>2
<1>6. \A x \in left \ Z2 : readidx(x).key' = BLANK
  <2>1. \A x \in left \ Z2 : x \in Recs /\ x # off /\ x \notin Z
    BY <1>1, <1>2, Offsets DEF Apartness
  <2> QED BY <1>3, <2>1 DEF Torn, Unreached
<1>7. \A o \in (0..NHASH \cup (Recs' \cap Ptr)) \ Z2 : readptr(o)' \notin Z2
  <2> SUFFICES ASSUME NEW o \in (0..NHASH \cup (Recs' \cap Ptr)) \ Z2, o # off
               PROVE  readptr(o)' \notin Z2
    BY <1>1, <1>2, <1>3
  <2>1. o \in (0..NHASH \cup (Recs \cap Ptr)) \ Z /\ o \in 0..NHASH \cup Recs
    BY <1>2, <1>3
  <2> QED BY <1>2, <1>3, <2>1, Offsets
<1> QED BY <1>4, <1>5, <1>6, <1>7

-----------------------------------------------------------------------------
\* How a process comes, outside _db_find(), to the places where it may carry a
\* pointer that leads off its chain, and with what.
Moves(p) ==
    /\ pc[p] \notin {"find", "find.readptr", "find.readidx"}
    /\ pc'[p] \notin {"find.readptr", "find.readidx"}
    /\ pc'[p] \in Tearing =>
          /\ pc[p] \in {"dodelete.writeidx", "dodelete.writefree"}
          /\ loc'[p] = loc[p] /\ db'[p].idxoff = db[p].idxoff
    /\ pc'[p] = "dodelete.writeidx" =>
          /\ pc[p] = "dodelete.readptr" /\ db'[p] = db[p] /\ loc'[p].saveptr = db[p].ptrval
    /\ pc'[p] \in Heads =>
          \/ pc[p] \in Heads /\ loc'[p].ptrval = loc[p].ptrval
          \/ pc[p] \in {"store.head", "store.rehead"} /\ loc'[p].ptrval = readptr(chainoff(p))
    /\ pc'[p] \in AtRec => pc[p] \in AtRec \ {"dodelete.writeidx"} /\ db'[p] = db[p]
    /\ pc'[p] = "append.idxunlock" => pc[p] = "append.idxwrite" /\ db'[p] = db[p]
    /\ pc'[p] = "store.writeptr" =>
          /\ pc[p] \in {"append.idxunlock", "reuse.writeidx"} /\ db'[p].idxoff = db[p].idxoff
    /\ Stale(p) /\ pc[p] # "reuse.writeidx" => Stale(p)' /\ db'[p].idxoff = db[p].idxoff

LEMMA StepMoves ==
    ASSUME NEW p \in Procs, CrashSafe, Step(p), ~Find(p)
    PROVE  Moves(p)
<1>1. /\ DOMAIN pc = Procs /\ DOMAIN db = Procs /\ DOMAIN loc = Procs
      /\ db[p] \in DbType /\ loc[p] \in LocType
  BY StepOthers, FileParts DEF CrashSafe, MemoryTypeOK
<1> USE <1>1 DEF Moves, Transition, Goto, Lock, Release, Tearing, Heads, Storing, AtRec, Stale
<1>2. CASE DelLock(p) \/ DelWriteDat(p) \/ DelUnlock(p)
  BY <1>2 DEF DelLock, DelWriteDat, DelUnlock
<1>3. CASE DelReadFree(p)
  BY <1>3 DEF DelReadFree, LocType
<1>4. CASE DelWriteIdx(p)
  BY <1>4 DEF DelWriteIdx, DbType
<1>5. CASE DelWriteFree(p) \/ DelWritePtr(p)
  BY <1>5 DEF DelWriteFree, DelWritePtr
<1>6. CASE FreeLock(p) \/ FreeUnlock(p) \/ FreeWritePtr(p)
  BY <1>6 DEF FreeLock, FreeUnlock, FreeWritePtr
<1>7. CASE FreeReadPtr(p)
  BY <1>7 DEF FreeReadPtr, FreeNext, LocType
<1>8. CASE FreeReadIdx(p)
  BY <1>8 DEF FreeReadIdx, FreeNext, LocType
<1>9. CASE AppendDatLock(p) \/ AppendDatSeek(p) \/ AppendDatWrite(p) \/ AppendDatUnlock(p)
  BY <1>9 DEF AppendDatLock, AppendDatSeek, AppendDatWrite, AppendDatUnlock
<1>10. CASE AppendIdxLock(p) \/ AppendIdxSeek(p) \/ AppendIdxWrite(p) \/ AppendIdxUnlock(p)
  BY <1>10 DEF AppendIdxLock, AppendIdxSeek, AppendIdxWrite, AppendIdxUnlock
<1>11. CASE StoreHead(p)
  BY <1>11 DEF StoreHead, LocType
<1>12. CASE StoreWriteDat(p)
  BY <1>12 DEF StoreWriteDat, DbType
<1>13. CASE StoreWriteIdx(p)
  BY <1>13 DEF StoreWriteIdx, DbType
<1>14. CASE StoreWritePtr(p) \/ StoreQuit(p) \/ FetchReadDat(p) \/ Unlock(p)
  BY <1>14 DEF StoreWritePtr, StoreQuit, FetchReadDat, Unlock
<1> QED BY <1>2, <1>3, <1>4, <1>5, <1>6, <1>7, <1>8, <1>9, <1>10, <1>11, <1>12, <1>13, <1>14
       DEF Step, DoDelete, FindFree, AppendDat, AppendIdx, Store

\* What process p carries, it carries on.
LEMMA LostOn ==
    ASSUME NEW p \in Procs, NEW own, NEW dep, NEW c, NEW left, NEW Z, CrashSafe,
           Torn(own, dep, c, left, Z), Step(p), Follow(p), p \in lost'
    PROVE  /\ pc'[p] \notin Outside /\ pc'[p] \in {"find.readidx"} \cup Tearing
           /\ chainoff(p)' = chainoff(p) /\ chainoff(p)' \in torn' /\ OnTorn(p)
           /\ p \in lost \/ \E o \in astray : Reads(p, o)
<1>1. /\ Knows(own, p) /\ Carries(p, Z) /\ torn' = torn
      /\ pc'[p] \in {"find.readidx"} \cup Tearing
      /\ p \in lost \/ \E o \in astray : Reads(p, o)
  BY StepFacts DEF Follow
<1>2. pc'[p] \notin Outside /\ call'[p] = call[p]
  BY <1>1, StepOthers DEF Outside, Tearing
<1>3. chainoff(p)' = chainoff(p)
  BY <1>2 DEF chainoff
<1>4. OnTorn(p)
  <2>1. CASE p \in lost
    BY <1>1, <2>1 DEF Carries, OnTorn
  <2>2. CASE p \notin lost
    <3>1. PICK o \in astray : Reads(p, o)
      BY <1>1, <2>2
    <3>2. pc[p] \notin Outside /\ Control
      BY <3>1 DEF Reads, Outside, CrashSafe
    <3>3. CASE pc[p] = "find.readptr"
      <4>1. call[p] \in Requests
        BY <3>2, HeldLists
      <4> QED BY <3>1, <3>2, <3>3, <4>1, StepFacts DEF Reads
    <3>4. CASE pc[p] # "find.readptr"
      <4>1. own[o] = chainoff(p)
        BY <1>1, <2>2, <3>1, <3>4 DEF Reads, Knows, AtRec
      <4> QED BY <3>1, <3>2, <4>1, StepFacts
    <3> QED BY <3>3, <3>4
  <2> QED BY <2>1, <2>2
<1> QED BY <1>1, <1>2, <1>3, <1>4 DEF OnTorn

LEMMA CarriesOn ==
    ASSUME NEW p \in Procs, NEW own, NEW dep, NEW c, NEW left, NEW Z, CrashSafe,
           Torn(own, dep, c, left, Z), Step(p), Follow(p), ~Find(p), NEW Z2, Z2 = Kept(p, Z),
           Stray(Z) \subseteq Stray(Z2)'
    PROVE  Carries(p, Z2)'
<1>1. /\ Moves(p) /\ Carries(p, Z) /\ Knows(own, p) /\ torn' = torn
      /\ \A o \in astray : readptr(o) \in Stray(Z)
  BY StepMoves, StepFacts, Offsets
<1>2. pc[p] \notin Outside /\ (pc'[p] \notin Outside => chainoff(p)' = chainoff(p))
      /\ (OnTorn(p)' => OnTorn(p))
  <2>1. pc[p] \notin Outside
    BY <1>1, StepOthers DEF Moves, Outside
  <2>2. pc'[p] \notin Outside => call'[p] = call[p]
    BY StepOthers DEF Outside
  <2> QED BY <1>1, <2>1, <2>2 DEF OnTorn, chainoff
<1>3. p \in lost' => pc'[p] \notin Outside /\ chainoff(p)' \in torn'
                     /\ pc'[p] \in {"find.readidx"} \cup Tearing
  BY LostOn
<1>4. ~Walking(p)'
  BY <1>1 DEF Moves, Walking
<1>5. ASSUME SaveCopy(p)' PROVE loc'[p].saveptr \in Stray(Z)
  <2>1. OnTorn(p)
    BY <1>2, <1>5 DEF SaveCopy
  <2>2. CASE pc'[p] = "dodelete.writeidx"
    <3>1. /\ pc[p] = "dodelete.readptr" /\ db'[p] = db[p] /\ loc'[p].saveptr = db[p].ptrval
          /\ db'[p].idxoff \in astray'
      BY <1>1, <1>5, <2>2 DEF Moves, SaveCopy, Tearing
    <3>2. astray' = astray
      BY <3>1, StepFacts
    <3>3. RecCopy(p) /\ pc[p] \in AtRec
      BY <2>1, <3>1, <3>2 DEF RecCopy, AtRec
    <3> QED BY <1>1, <3>1, <3>3 DEF Carries
  <2>3. CASE pc'[p] \in Tearing /\ p \in lost'
    <3>1. /\ pc[p] \in {"dodelete.writeidx", "dodelete.writefree"} /\ loc'[p] = loc[p]
      BY <1>1, <2>3 DEF Moves
    <3>2. p \in lost \/ \E o \in astray : Reads(p, o)
      BY <2>3, LostOn
    <3>3. pc[p] = "dodelete.writeidx" => p \notin lost
      BY <1>1 DEF Carries, Tearing
    <3>4. pc[p] = "dodelete.writefree" => p \in lost
      BY <3>2 DEF Reads
    <3>5. SaveCopy(p)
      BY <2>1, <3>1, <3>2, <3>3, <3>4 DEF SaveCopy, Reads, Tearing
    <3> QED BY <1>1, <3>1, <3>5 DEF Carries
  <2> QED BY <1>5, <2>2, <2>3 DEF SaveCopy
<1>6. ASSUME HeadCopy(p)' PROVE loc'[p].ptrval \in Stray(Z)
  <2>1. OnTorn(p) /\ pc'[p] \in Heads /\ chainoff(p)' \in astray' /\ chainoff(p)' = chainoff(p)
    BY <1>2, <1>6 DEF HeadCopy, OnTorn
  <2>2. CASE pc[p] \in Heads /\ loc'[p].ptrval = loc[p].ptrval
    <3>1. chainoff(p) \in astray
      BY <2>1, <2>2 DEF Follow, Misleads, Heads, Storing
    <3> QED BY <1>1, <2>1, <2>2, <3>1 DEF HeadCopy, Carries
  <2>3. CASE pc[p] \in {"store.head", "store.rehead"} /\ loc'[p].ptrval = readptr(chainoff(p))
    <3>1. astray' = astray
      BY <2>3, StepFacts
    <3> QED BY <1>1, <2>1, <2>3, <3>1
  <2> QED BY <1>1, <2>1, <2>2, <2>3 DEF Moves
<1>7. ASSUME RecCopy(p)', pc'[p] \in AtRec PROVE db'[p].ptrval \in Stray(Z)
  <2>1. pc[p] \in AtRec \ {"dodelete.writeidx"} /\ db'[p] = db[p] /\ OnTorn(p)
    BY <1>1, <1>2, <1>7 DEF Moves, RecCopy
  <2>2. astray' = astray
    BY <2>1, StepFacts DEF AtRec
  <2>3. RecCopy(p)
    BY <1>7, <2>1, <2>2 DEF RecCopy, AtRec
  <2> QED BY <1>1, <2>1, <2>3 DEF Carries
<1>8. ASSUME pc'[p] \in {"append.idxunlock", "store.writeptr"} PROVE db'[p].idxoff \notin Z2
  <2>1. CASE pc[p] = "append.idxwrite"
    <3>1. db'[p].idxoff = NHASH + Len(idx) + 1
      BY <1>1, <1>8, <2>1 DEF Moves, CrashSafe, FileInv, AppendAtEnd
    <3>2. NHASH + Len(idx) + 1 \notin Recs
      BY Offsets DEF Recs
    <3> QED BY <3>1, <3>2, Offsets DEF Kept, Apartness
  <2>2. CASE pc[p] = "append.idxunlock"
    BY <1>1, <1>8, <2>2 DEF Moves, Carries, Kept
  <2>3. CASE pc[p] = "reuse.writeidx"
    BY <1>1, <1>8, <2>3 DEF Moves, Kept
  <2> QED BY <1>1, <1>8, <2>1, <2>2, <2>3 DEF Moves
<1> QED BY <1>3, <1>4, <1>5, <1>6, <1>7, <1>8 DEF Carries

LEMMA CarriesFind ==
    ASSUME NEW p \in Procs, NEW own, NEW dep, NEW c, NEW left, NEW Z, CrashSafe,
           Torn(own, dep, c, left, Z), Step(p), Follow(p), Find(p), NEW Z2, Z2 = Kept(p, Z),
           Stray(Z) \subseteq Stray(Z2)'
    PROVE  Carries(p, Z2)'
<1>0. PICK x, y, s : x = loc[p].offset /\ y = chainoff(p) /\ s = readidx(x).ptr
  OBVIOUS
<1>1. /\ Carries(p, Z) /\ torn' = torn /\ DOMAIN pc = Procs /\ DOMAIN db = Procs /\ DOMAIN loc = Procs
      /\ db[p] \in DbType /\ loc[p] \in LocType
      /\ pc[p] = "find.readidx" => x \in Recs /\ s = readptr(x)
      /\ \A o \in astray : readptr(o) \in Stray(Z)
  <2>1. pc[p] = "find.readidx" => x \in Recs
    BY <1>0, Remembered DEF CrashSafe
  <2>2. x \in Recs => s = readptr(x)
    BY <1>0, Offsets DEF readptr, readidx
  <2> QED BY <2>1, <2>2, StepFacts, StepOthers, Offsets, FileParts DEF CrashSafe, MemoryTypeOK
<1>2. /\ pc[p] \in {"find", "find.readptr", "find.readidx"} /\ astray' = astray
      /\ pc'[p] \in {"find.readptr", "find.readidx", "unlock", "store.head", "fetch.readdat",
                     "dodelete", "replace.writedat"}
      /\ pc'[p] = "find.readidx" =>
            \/ pc[p] = "find.readptr" /\ loc'[p].offset = readptr(y) /\ readptr(y) # 0
            \/ pc[p] = "find.readidx" /\ loc'[p].offset = s /\ s # 0
      /\ pc'[p] \in AtRec =>
            pc[p] = "find.readidx" /\ db'[p].idxoff = x /\ db'[p].ptrval = s
  <2>1. pc[p] \in {"find", "find.readptr", "find.readidx"}
    BY DEF Find, FindLock, FindReadPtr, FindReadIdx, Transition
  <2>2. astray' = astray
    BY <2>1, StepFacts
  <2>3. CASE FindLock(p)
    BY <1>1, <2>1, <2>2, <2>3 DEF FindLock, Transition, Goto, AtRec
  <2>4. ASSUME NEW d, NEW off, FindNext(p, d, off)
        PROVE  /\ pc'[p] = IF off # 0 THEN "find.readidx" ELSE NotFound(call[p]).pc
               /\ loc'[p].offset = off
    BY <1>1, <2>4 DEF FindNext, Goto, NoLoc
  <2>5. NotFound(call[p]).pc \in {"unlock", "store.head"}
    BY NotFoundPc
  <2>6. CASE FindReadPtr(p)
    <3>1. PICK d : FindNext(p, d, readptr(y)) /\ pc[p] = "find.readptr"
      BY <1>0, <2>6 DEF FindReadPtr
    <3> QED BY <2>1, <2>2, <2>4, <2>5, <3>1 DEF AtRec
  <2>7. CASE FindReadIdx(p)
    <3>1. CASE readidx(x).key = call[p].key
      <4>1. Found(call[p], readidx(x).datlen).pc
              \in {"fetch.readdat", "dodelete", "replace.writedat", "unlock"}
        BY DEF Found
      <4>2. /\ pc'[p] = Found(call[p], readidx(x).datlen).pc /\ pc[p] = "find.readidx"
            /\ db'[p] = AfterReadIdx(db[p], x)
        BY <1>0, <1>1, <2>7, <3>1 DEF FindReadIdx, Goto
      <4>3. db'[p].idxoff = x /\ db'[p].ptrval = s
        BY <1>0, <1>1, <4>2 DEF AfterReadIdx, DbType
      <4> QED BY <2>1, <2>2, <4>1, <4>2, <4>3 DEF AtRec
    <3>2. CASE readidx(x).key # call[p].key
      <4>1. PICK d : FindNext(p, d, s) /\ pc[p] = "find.readidx"
        BY <1>0, <2>7, <3>2 DEF FindReadIdx
      <4> QED BY <2>1, <2>2, <2>4, <2>5, <4>1 DEF AtRec
    <3> QED BY <3>1, <3>2
  <2> QED BY <2>3, <2>6, <2>7 DEF Find
<1>3. p \in lost' => pc'[p] \notin Outside /\ chainoff(p)' \in torn'
                     /\ pc'[p] \in {"find.readidx"} \cup Tearing
  BY LostOn
<1>4. ASSUME Walking(p)' PROVE loc'[p].offset \in Stray(Z)
  <2>1. pc'[p] = "find.readidx" /\ (p \in lost \/ \E o \in astray : Reads(p, o))
    BY <1>4, LostOn DEF Walking
  <2>2. CASE pc[p] = "find.readptr"
    <3>1. p \notin lost
      BY <1>1, <2>2 DEF Carries, Tearing
    <3>2. y \in astray
      BY <1>0, <2>1, <2>2, <3>1 DEF Reads
    <3> QED BY <1>1, <1>2, <2>1, <2>2, <3>2
  <2>3. CASE pc[p] = "find.readidx" /\ p \notin lost
    <3>1. x \in astray
      BY <1>0, <2>1, <2>3 DEF Reads
    <3> QED BY <1>1, <1>2, <2>1, <2>3, <3>1
  <2>4. CASE pc[p] = "find.readidx" /\ p \in lost
    <3>1. x \in Stray(Z)
      BY <1>0, <1>1, <2>4 DEF Carries, Walking
    <3>2. readptr(x) \notin Z /\ readptr(x) \in Target
      BY <3>1, Offsets DEF Stray
    <3>3. loc'[p].offset = readptr(x) /\ readptr(x) # 0
      BY <1>1, <1>2, <2>1, <2>4
    <3> QED BY <3>2, <3>3 DEF Target, Stray
  <2> QED BY <1>2, <2>1, <2>2, <2>3, <2>4
<1>5. ~SaveCopy(p)' /\ ~HeadCopy(p)'
  <2>1. pc'[p] \notin Tearing \cup Heads \cup {"dodelete.writeidx"}
    BY <1>2 DEF Heads, Storing, Tearing
  <2> QED BY <2>1 DEF SaveCopy, HeadCopy
<1>6. ASSUME RecCopy(p)', pc'[p] \in AtRec PROVE db'[p].ptrval \in Stray(Z)
  <2>1. db'[p].idxoff \in astray
    BY <1>2, <1>6 DEF RecCopy, AtRec
  <2> QED BY <1>1, <1>2, <1>6, <2>1
<1>7. pc'[p] \notin {"append.idxunlock", "store.writeptr"}
  BY <1>2 DEF AtRec
<1> QED BY <1>3, <1>4, <1>5, <1>6, <1>7 DEF Carries

LEMMA CarriesOthers ==
    ASSUME NEW p \in Procs, NEW q \in Procs \ {p}, NEW own, NEW dep, NEW c, NEW left, NEW Z,
           CrashSafe, Torn(own, dep, c, left, Z), Step(p), Follow(p), NEW Z2, Z2 = Kept(p, Z),
           Stray(Z) \subseteq Stray(Z2)'
    PROVE  Carries(q, Z2)'
<1>1. /\ SameFlags(q) /\ Carries(q, Z) /\ torn' = torn /\ (q \in lost' <=> q \in lost)
      /\ pc'[q] = pc[q] /\ call'[q] = call[q] /\ db'[q] = db[q] /\ loc'[q] = loc[q]
  BY ViewOthers, StepOthers DEF Torn, Others, Follow
<1>2. Z2 \subseteq Z /\ chainoff(q)' = chainoff(q)
  BY <1>1 DEF Kept, chainoff
<1> QED BY <1>1, <1>2 DEF Carries, SameFlags

LEMMA StillUnreached ==
    ASSUME NEW p \in Procs, NEW own, NEW dep, NEW c, NEW left, NEW Z, CrashSafe,
           Torn(own, dep, c, left, Z), Step(p), NEW Z2, Z2 = Kept(p, Z), NEW x \in Z2, x \notin left
    PROVE  \E q \in Procs : Stale(q)' /\ db'[q].idxoff = x
<1>1. PICK q \in Procs : Stale(q) /\ db[q].idxoff = x
  BY DEF Torn, Unreached, Kept
<1>2. CASE q # p
  <2>1. pc'[q] = pc[q] /\ db'[q] = db[q] /\ loc'[q] = loc[q]
    BY <1>2, StepOthers DEF Others
  <2> QED BY <1>1, <2>1 DEF Stale
<1>3. CASE q = p
  <2>1. pc[p] # "reuse.writeidx"
    BY <1>1, <1>3 DEF Kept
  <2>2. ~Find(p)
    BY <1>1, <1>3 DEF Stale, Find, FindLock, FindReadPtr, FindReadIdx, Transition
  <2> QED BY <1>1, <1>3, <2>1, <2>2, StepMoves DEF Moves
<1> QED BY <1>2, <1>3

\* The state after the kill is kept by every step,
LEMMA TornStep ==
    ASSUME NEW p \in Procs, NEW own, NEW dep, NEW c, NEW left, NEW Z, CrashSafe,
           Torn(own, dep, c, left, Z), Step(p), Follow(p)
    PROVE  \E own2, dep2, Z2 : Torn(own2, dep2, c, left, Z2)'
<1>1. PICK Z2 : Z2 = Kept(p, Z)
  OBVIOUS
<1>2. [View!Next]_View!vars
  <2>1. View!Step(p) \/ UNCHANGED View!vars
    BY StepMaps
  <2> QED BY <2>1 DEF View!Next
<1>3. View!MapInv(left)
  BY DEF Torn, View!MapInv
<1>4. View!MapInv(left)'
  BY <1>2, <1>3, ViewControl, ViewFileInv, SameConstants, View!EveryStepGood
<1>5. PICK own2, dep2 : View!Good(own2, dep2, left)'
  BY <1>4 DEF View!MapInv
<1>6. /\ OffChain(c, Z2)' /\ Stray(Z) \subseteq Stray(Z2)'
      /\ \A x \in left \ Z2 : readidx(x).key' = BLANK
      /\ \A o \in (0..NHASH \cup (Recs' \cap Ptr)) \ Z2 : readptr(o)' \notin Z2
  BY <1>1, StepWrites, FilesStayApart
<1>7. Unreached(left, Z2)'
  BY <1>1, <1>6, StillUnreached DEF Unreached
<1>8. \A q \in Procs : Carries(q, Z2)'
  BY <1>1, <1>6, CarriesOn, CarriesFind, CarriesOthers
<1>9. c \in Chains /\ torn' = {c}
  BY DEF Torn, Follow
<1> QED BY <1>5, <1>6, <1>7, <1>8, <1>9 DEF Torn

\* ... by every call,
LEMMA TornCall ==
    ASSUME NEW p \in Procs, NEW own, NEW dep, NEW c, NEW left, NEW Z, CrashSafe,
           Torn(own, dep, c, left, Z), Call(p), UNCHANGED <<crashes, torn, astray, lost>>
    PROVE  \E own2, dep2, Z2 : Torn(own2, dep2, c, left, Z2)'
<1>1. View!Call(p) /\ \A q \in Procs : SameFlags(q)
  BY CallMaps
<1>2. /\ pc[p] = "idle" /\ pc'[p] = "find" /\ UNCHANGED <<files, db, loc>> /\ UNCHANGED <<torn, astray, lost>>
      /\ \A q \in Procs \ {p} : pc'[q] = pc[q] /\ call'[q] = call[q]
  BY DEF Call, Abs!Call, Transition, Goto, CrashSafe, Control, ControlTypeOK
<1>3. /\ table' = table /\ idx' = idx /\ dat' = dat /\ Recs' = Recs
      /\ \A x : readptr(x)' = readptr(x) /\ readidx(x)' = readidx(x)
  BY <1>2, DatWritten DEF files
<1>4. PICK own2, dep2 : View!Good(own2, dep2, left)'
  <2>1. View!MapInv(left) /\ [View!Next]_View!vars
    BY <1>1 DEF Torn, View!MapInv, View!Next
  <2>2. View!MapInv(left)'
    BY <2>1, ViewControl, ViewFileInv, SameConstants, View!EveryStepGood
  <2> QED BY <2>2 DEF View!MapInv
<1>5. OffChain(c, Z)' /\ Stray(Z)' = Stray(Z)
  BY <1>2, <1>3 DEF Torn, OffChain, Stray
<1>6. \A q \in Procs : (Stale(q)' <=> Stale(q)) /\ db'[q] = db[q]
  BY <1>2 DEF Stale
<1>7. Unreached(left, Z)'
  BY <1>3, <1>6 DEF Torn, Unreached
<1>8. ASSUME NEW q \in Procs PROVE Carries(q, Z)'
  <2>1. Carries(q, Z) /\ SameFlags(q)
    BY <1>1 DEF Torn
  <2>2. CASE q = p
    <3>1. p \notin lost
      BY <1>2, <2>1, <2>2 DEF Carries, Outside
    <3>2. ~Walking(p)' /\ ~SaveCopy(p)' /\ ~HeadCopy(p)' /\ ~RecCopy(p)'
      BY <1>2 DEF Walking, SaveCopy, HeadCopy, RecCopy, OnTorn, Outside
    <3> QED BY <1>2, <2>2, <3>1, <3>2 DEF Carries
  <2>3. CASE q # p
    <3>1. pc'[q] = pc[q] /\ chainoff(q)' = chainoff(q) /\ db'[q] = db[q] /\ loc'[q] = loc[q]
      BY <1>2, <2>3 DEF chainoff
    <3> QED BY <1>2, <1>5, <2>1, <3>1 DEF Carries, SameFlags
  <2> QED BY <2>2, <2>3
<1>9. c \in Chains /\ torn' = {c}
  BY <1>2 DEF Torn
<1> QED BY <1>4, <1>5, <1>7, <1>8, <1>9 DEF Torn

\* ... and when nothing happens.
LEMMA TornStutter ==
    ASSUME NEW own, NEW dep, NEW c, NEW left, NEW Z, CrashSafe, Torn(own, dep, c, left, Z),
           UNCHANGED crashVars
    PROVE  \E own2, dep2, Z2 : Torn(own2, dep2, c, left, Z2)'
<1>1. UNCHANGED <<table, idx, dat, lock, pc, db, loc, calls, kv, call, ret, torn, astray, lost>>
  BY DEF crashVars, vars
<1>2. \A q \in Procs : /\ Walking(q)' = Walking(q) /\ OnTorn(q)' = OnTorn(q)
                       /\ chainoff(q)' = chainoff(q)
  BY <1>1 DEF Walking, OnTorn, chainoff
<1>3. \A q \in Procs : /\ HeadCopy(q)' = HeadCopy(q) /\ RecCopy(q)' = RecCopy(q)
                       /\ SaveCopy(q)' = SaveCopy(q) /\ Stale(q)' = Stale(q)
  BY <1>1, <1>2 DEF HeadCopy, RecCopy, SaveCopy, Stale
<1>4. UNCHANGED View!vars
  <2>1. vPc' = vPc /\ vDb' = vDb /\ vLoc' = vLoc
    BY <1>1, <1>2, <1>3 DEF vPc, vDb, vLoc, NotFound
  <2> QED BY <1>1, <2>1, ViewSame DEF View!vars
<1>5. /\ Recs' = Recs /\ \A x : readptr(x)' = readptr(x) /\ readidx(x)' = readidx(x)
  BY <1>1, DatWritten
<1>6. PICK own2, dep2 : View!Good(own2, dep2, left)'
  <2>1. View!MapInv(left)
    BY DEF Torn, View!MapInv
  <2>2. View!MapInv(left)'
    BY <1>4, <2>1, ViewControl, ViewFileInv, SameConstants, View!EveryStepGood
  <2> QED BY <2>2 DEF View!MapInv
<1>7. OffChain(c, Z)' /\ Stray(Z)' = Stray(Z)
  BY <1>1, <1>5 DEF Torn, OffChain, Stray
<1>8. Unreached(left, Z)'
  BY <1>1, <1>3, <1>5 DEF Torn, Unreached
<1>9. \A q \in Procs : Carries(q, Z)'
  BY <1>1, <1>2, <1>3, <1>7 DEF Torn, Carries
<1> QED BY <1>1, <1>6, <1>7, <1>8, <1>9 DEF Torn
-----------------------------------------------------------------------------
\* Before a kill tears a chain there is nothing to leave out: the view is the state.
LEMMA ViewIsState ==
    ASSUME CrashSafe, torn = {}, astray = {}, lost = {}
    PROVE  vTable = table /\ vIdx = idx /\ vPc = pc /\ vDb = db /\ vLoc = loc
<1>1. /\ pc \in [Procs -> Labels] /\ DOMAIN db = Procs /\ DOMAIN loc = Procs
      /\ table \in [0..NHASH -> Ptr] /\ idx \in Seq(IdxRec)
      /\ db = [q \in Procs |-> db[q]] /\ loc = [q \in Procs |-> loc[q]]
  BY FileParts DEF CrashSafe, Control, ControlTypeOK, FileInv, FileTypeOK, MemoryTypeOK
<1>2. \A q \in Procs : ~Walking(q) /\ ~OnTorn(q)
  BY DEF Walking, OnTorn
<1>3. \A q \in Procs : ~RecCopy(q) /\ ~HeadCopy(q) /\ ~SaveCopy(q)
  BY <1>2 DEF RecCopy, HeadCopy, SaveCopy
<1>4. vTable = table
  BY <1>1 DEF vTable
<1>5. vIdx = idx
  <2>1. vIdx = [i \in 1..Len(idx) |-> idx[i]]
    BY DEF vIdx
  <2> QED BY <1>1, <2>1
<1>6. vPc = pc
  BY <1>1, <1>2 DEF vPc
<1>7. vDb = db /\ vLoc = loc
  BY <1>1, <1>2, <1>3 DEF vDb, vLoc
<1> QED BY <1>4, <1>5, <1>6, <1>7

LEMMA ViewGood ==
    ASSUME NEW own, NEW dep, NEW left, CrashSafe, torn = {}, astray = {}, lost = {},
           Good(own, dep, left)
    PROVE  View!Good(own, dep, left)
<1>0. vTable = table /\ vIdx = idx /\ vPc = pc /\ vDb = db /\ vLoc = loc
  BY ViewIsState
<1>1. /\ View!Recs = Recs /\ View!FREE_OFF = FREE_OFF /\ View!Nowhere = Nowhere
      /\ View!Chains = Chains
      /\ \A o : View!readptr(o) = readptr(o) /\ View!readidx(o) = readidx(o)
      /\ \A q : View!chainoff(q) = chainoff(q)
  BY <1>0, SameConstants, SameOperators
     DEF View!Recs, Recs, View!readptr, readptr, View!readidx, readidx
<1>2. /\ \A o, s : View!Follows(own, dep, o, s) <=> Follows(own, dep, o, s)
      /\ \A k, r : View!Hit(own, k, r) <=> Hit(own, k, r)
      /\ \A k : View!Absent(own, k) <=> Absent(own, k)
  BY <1>1 DEF View!Follows, Follows, View!Hit, Hit, View!Absent, Absent
<1>3. \A k, v : View!Shows(own, k, v) <=> Shows(own, k, v)
  BY <1>1, <1>2 DEF View!Shows, Shows
<1>4. \A q : View!HasNew(q) <=> HasNew(q)
  BY <1>0 DEF View!HasNew, HasNew
<1>5. /\ View!Storing = Storing /\ View!Deleting = Deleting /\ View!AtRec = AtRec
      /\ View!Gone = Gone /\ View!Heads = Heads /\ View!HasDat = HasDat
  BY DEF View!Storing, Storing, View!Deleting, Deleting, View!AtRec, AtRec, View!Gone, Gone,
     View!Heads, Heads, View!HasDat, HasDat
<1>6. View!Lists(own, dep) /\ View!Pointers(own, dep)
  BY <1>0, <1>1, <1>2 DEF Good, View!Lists, Lists, View!Ordered, Ordered, View!Pointers, Pointers,
     View!Pending, Pending
<1>7. View!Keyed(own) /\ View!MapShown(own)
  BY <1>0, <1>1, <1>2, <1>3, <1>5
     DEF Good, View!Keyed, Keyed, View!MapShown, MapShown, View!Busy, Busy, View!Changing, Changing
<1>8. View!NewRecs(own, left) /\ View!NewDats /\ View!DataOK
  BY <1>0, <1>1, <1>4, <1>5
     DEF Good, View!NewRecs, NewRecs, View!NewDats, NewDats, View!DataOK, DataOK
<1>9. ASSUME NEW q \in Procs PROVE View!At(own, dep, q)
  <2>0. At(own, dep, q)
    BY DEF Good
  <2>1. /\ View!Finding(own, dep, q) /\ View!AtRecord(own, dep, q) /\ View!Missing(own, q)
        /\ View!Saved(own, dep, q) /\ View!Freed(own, dep, q) /\ View!Unlinking(own, dep, q)
        /\ View!Heading(own, dep, q) /\ View!Searching(own, dep, q) /\ View!Taking(own, dep, q)
    BY <1>0, <1>1, <1>2, <1>5, <2>0 DEF At, View!Finding, Finding, View!AtRecord, AtRecord,
       View!Missing, Missing, View!Saved, Saved, View!Freed, Freed, View!Unlinking, Unlinking,
       View!Heading, Heading, View!Searching, Searching, View!Taking, Taking
  <2>2. /\ View!Reusing(q) /\ View!Replacing(q) /\ View!Measured(q) /\ View!Filled(q)
        /\ View!Written(q)
    BY <1>0, <1>1, <1>5, <2>0 DEF At, View!Reusing, Reusing, View!Reuses, Reuses, View!Replacing,
       Replacing, View!Measured, Measured, View!Filled, Filled, View!Written, Written
  <2>3. View!Replying(q) /\ View!Done(own, q)
    BY <1>0, <1>3, <1>5, <2>0 DEF At, View!Replying, Replying, View!Done, Done, View!Abs!Reply,
       Abs!Reply, View!Abs!Refused, Abs!Refused, View!Abs!Effect, Abs!Effect,
       View!Abs!DB_INSERT, Abs!DB_INSERT, View!Abs!DB_REPLACE, Abs!DB_REPLACE
  <2> QED BY <2>1, <2>2, <2>3 DEF View!At
<1> QED BY <1>6, <1>7, <1>8, <1>9 DEF View!Good

-----------------------------------------------------------------------------
\* The kill that tears a chain.  What the process still knew:
LEMMA Tears ==
    ASSUME NEW p \in Procs, NEW own, NEW dep, NEW left, CrashSafe, Good(own, dep, left),
           pc[p] \in Tearing
    PROVE  /\ pc[p] \notin Outside /\ ~HasNew(p) /\ ~Stale(p)
           /\ Owns(p, chainoff(p)) /\ Owns(p, FREE_OFF) /\ chainoff(p) \in Chains
           /\ own[db[p].ptroff] = chainoff(p) /\ db[p].ptroff \in 0..NHASH \cup Recs
           /\ Follows(own, dep, db[p].ptroff, loc[p].saveptr)
           /\ own[db[p].idxoff] = FREE_OFF /\ db[p].idxoff \in Recs \cap Ptr
           /\ readptr(db[p].ptroff) = db[p].idxoff
           /\ readidx(db[p].idxoff).key = BLANK
           /\ pc[p] = "dodelete.writefree" => readptr(FREE_OFF) = readptr(db[p].idxoff)
           /\ List(loc[p].saveptr) = CutTail(own, dep, p)
<1>0. PICK o1, r, c, s : o1 = db[p].ptroff /\ r = db[p].idxoff /\ c = chainoff(p) /\ s = loc[p].saveptr
  OBVIOUS
<1>1. /\ Control /\ FileInv /\ LocalOK(p) /\ At(own, dep, p) /\ Lists(own, dep) /\ Keyed(own)
      /\ pc[p] \in Deleting /\ pc[p] \in FreeLocked /\ pc[p] \in HasRec
  BY FileParts DEF CrashSafe, Good, Tearing, Deleting, FreeLocked, HasRec
<1>2. /\ pc[p] \notin Outside /\ Owns(p, c) /\ Held(p, c) /\ Owns(p, FREE_OFF) /\ c \in Chains
  BY <1>0, <1>1, HeldLists
<1>3. /\ own[o1] = c /\ Follows(own, dep, o1, s) /\ own[r] = FREE_OFF /\ readptr(o1) = r
      /\ pc[p] = "dodelete.writefree" => readptr(FREE_OFF) = readptr(r)
  BY <1>0, <1>1 DEF At, Unlinking, Freed, Tearing
<1>4. r \in Recs \cap Ptr /\ o1 \in 0..NHASH \cup Recs
  BY <1>0, <1>1 DEF LocalOK
<1>5. readidx(r).key = BLANK
  BY <1>1, <1>3, <1>4 DEF Keyed
<1>6. ~HasNew(p) /\ ~Stale(p)
  BY DEF HasNew, Stale, Tearing
<1>7. /\ NHASH \in Nat /\ c \in 0..NHASH /\ c # FREE_OFF /\ o1 \in Nat /\ own[FREE_OFF] = FREE_OFF
      /\ dep \in [Nat -> Nat]
  BY <1>1, <1>2, <1>4, DbAssumption DEF Chains, FREE_OFF, Recs, Lists, Ordered
<1>8. ASSUME NEW o \in Nat, own[o] = c, dep[o1] < dep[o] PROVE Follows(own, dep, o, readptr(o))
  <2>1. o # FREE_OFF /\ o # o1
    BY <1>7, <1>8
  <2>2. ~Pending(p, o)
    BY <1>0, <2>1 DEF Pending
  <2> QED BY <1>1, <1>2, <1>7, <1>8, <2>2, Settled
<1>9. List(s) = {x \in Recs : own[x] = c /\ dep[o1] < dep[x]}
  BY <1>1, <1>3, <1>7, <1>8, ListFrom
<1> QED BY <1>0, <1>2, <1>3, <1>4, <1>5, <1>6, <1>9 DEF CutTail

\* In the view, the record of the pointer becomes the last of its chain.
LEMMA TearMaps ==
    ASSUME NEW p \in Procs, NEW own, NEW dep, NEW left, CrashSafe, torn = {}, astray = {}, lost = {},
           Good(own, dep, left), Crash(p), pc[p] \in Tearing
    PROVE  /\ torn' = {chainoff(p)} /\ astray' = {db[p].ptroff} /\ lost' = {}
           /\ \A q \in Procs : ~Walking(q)' /\ ~OnTorn(q)'
           /\ vPc' = pc' /\ vDb' = db' /\ vLoc' = loc' /\ View!writeptr(db[p].ptroff, 0)
<1>0. PICK o1, c : o1 = db[p].ptroff /\ c = chainoff(p)
  OBVIOUS
<1>1. /\ Others(p) /\ UNCHANGED files /\ pc'[p] = "idle"
      /\ torn' = {c} /\ astray' = {o1} /\ lost' = {}
  BY <1>0, CrashFacts DEF Crash, CrashSafe
<1>2. /\ Owns(p, c) /\ c \in Chains /\ c \in Regions /\ o1 \in 0..NHASH \cup Recs
  <2>1. Owns(p, c) /\ c \in Chains /\ o1 \in 0..NHASH \cup Recs
    BY <1>0, Tears
  <2> QED BY <2>1, Remembered DEF CrashSafe
<1>3. ASSUME NEW q \in Procs PROVE ~Walking(q)' /\ ~OnTorn(q)'
  <2>1. CASE q = p
    BY <1>1, <2>1 DEF Walking, OnTorn, Outside
  <2>2. CASE q # p
    <3>1. ~Held(q, c)
      BY <1>2, <2>2, Exclusive DEF CrashSafe
    <3>2. pc[q] \in Outside \/ chainoff(q) # c
      BY <3>1 DEF Held
    <3>3. pc'[q] = pc[q] /\ chainoff(q)' = chainoff(q)
      BY <1>1, <2>2 DEF Others, chainoff
    <3> QED BY <1>1, <3>2, <3>3 DEF Walking, OnTorn
  <2> QED BY <2>1, <2>2
<1>4. \A q \in Procs : ~RecCopy(q)' /\ ~HeadCopy(q)' /\ ~SaveCopy(q)'
  BY <1>3 DEF RecCopy, HeadCopy, SaveCopy
<1>5. /\ pc' = [q \in Procs |-> pc'[q]] /\ db' = [q \in Procs |-> db'[q]]
      /\ loc' = [q \in Procs |-> loc'[q]]
  BY FileParts DEF Crash, Goto, CrashSafe, Control, ControlTypeOK, MemoryTypeOK
<1>6. vPc' = pc'
  BY <1>3, <1>5 DEF vPc
<1>7. vDb' = db' /\ vLoc' = loc'
  BY <1>3, <1>4, <1>5 DEF vDb, vLoc
<1>8. View!writeptr(o1, 0)
  <2>0. /\ table' = table /\ idx' = idx /\ NHASH \in Nat /\ Len(idx) \in Nat
        /\ vTable = table /\ vIdx = idx /\ idx \in Seq(IdxRec) /\ table \in [0..NHASH -> Ptr]
    BY <1>1, ViewIsState, DbAssumption DEF files, CrashSafe, FileInv, FileTypeOK
  <2>1. /\ vTable' = [o \in 0..NHASH |-> IF o = o1 THEN 0 ELSE table[o]]
        /\ vIdx' = [i \in 1..Len(idx) |->
                      IF NHASH + i = o1 THEN [idx[i] EXCEPT !.ptr = 0] ELSE idx[i]]
    BY <1>1, <2>0 DEF vTable, vIdx
  <2>2. CASE o1 \in 0..NHASH
    <3>1. vTable' = [table EXCEPT ![o1] = 0]
      BY <2>0, <2>1, <2>2
    <3>2. vIdx' = [i \in 1..Len(idx) |-> idx[i]]
      BY <2>0, <2>1, <2>2
    <3>3. vIdx' = vIdx
      BY <2>0, <3>2
    <3> QED BY <2>0, <2>2, <3>1, <3>3 DEF View!writeptr
  <2>3. CASE o1 \in Recs
    <3>1. o1 \notin 0..NHASH /\ o1 \in Nat /\ o1 - NHASH \in 1..Len(idx)
      BY <2>0, <2>3 DEF Recs
    <3>2. vTable' = [o \in 0..NHASH |-> table[o]]
      BY <2>0, <2>1, <3>1
    <3>3. vTable' = vTable
      BY <2>0, <3>2
    <3>4. \A i \in 1..Len(idx) : NHASH + i = o1 <=> i = o1 - NHASH
      BY <2>0, <3>1
    <3>5. vIdx' = [idx EXCEPT ![o1 - NHASH].ptr = 0]
      <4>1. PICK j \in 1..Len(idx) : j = o1 - NHASH
        BY <3>1
      <4>2. vIdx' = [i \in 1..Len(idx) |-> IF i = j THEN [idx[i] EXCEPT !.ptr = 0] ELSE idx[i]]
        BY <2>1, <3>4, <4>1
      <4>3. idx = [i \in 1..Len(idx) |-> idx[i]]
        BY <2>0
      <4>4. vIdx' = [idx EXCEPT ![j].ptr = 0]
        BY <4>2, <4>3
      <4> QED BY <4>1, <4>4
    <3> QED BY <2>0, <3>1, <3>3, <3>5 DEF View!writeptr
  <2> QED BY <1>2, <2>2, <2>3
<1> QED BY <1>0, <1>1, <1>3, <1>6, <1>7, <1>8

\* The records that the kill cuts off, with those that others had taken off the
\* free list and not yet written: no pointer from outside leads there.
Severed(own, dep, p) ==
    CutTail(own, dep, p) \cup {db[q].idxoff : q \in {q \in Procs : Stale(q)}}

LEMMA CutsOff ==
    ASSUME NEW p \in Procs, NEW own, NEW dep, CrashSafe, Good(own, dep, {}), pc[p] \in Tearing,
           NEW Z, Z = Severed(own, dep, p),
           NEW o \in (0..NHASH \cup (Recs \cap Ptr)) \ Z
    PROVE  readptr(o) \notin Z
<1>0. PICK o1, r, c, s : o1 = db[p].ptroff /\ r = db[p].idxoff /\ c = chainoff(p) /\ s = readptr(o)
  OBVIOUS
<1>1. /\ Control /\ FileInv /\ Lists(own, dep) /\ NewRecs(own, {}) /\ Pointers(own, dep)
      /\ own[o1] = c /\ own[r] = FREE_OFF /\ readptr(o1) = r /\ c \in Chains /\ r \in Recs
      /\ o1 \in 0..NHASH \cup Recs /\ Owns(p, c) /\ Owns(p, FREE_OFF)
      /\ (pc[p] = "dodelete.writefree" => readptr(FREE_OFF) = readptr(r))
  BY <1>0, Tears DEF CrashSafe, Good
<1>2. /\ NHASH \in Nat /\ c \in 0..NHASH /\ FREE_OFF \in 0..NHASH /\ c # FREE_OFF /\ c # Nowhere
      /\ FREE_OFF # Nowhere /\ own[FREE_OFF] = FREE_OFF
      /\ o \in Nat /\ o1 \in Nat /\ r \in Nat
      /\ own \in [Nat -> Nowhere..NHASH] /\ dep \in [Nat -> Nat]
      /\ \A x \in Recs : x \in Nat /\ x # 0
      /\ \A h \in Chains : h # Nowhere /\ h \in 0..NHASH
      /\ \A h \in 0..NHASH : own[h] = h /\ dep[h] = 0 /\ h # Nowhere
  <2>1. /\ NHASH \in Nat /\ c \in 1..NHASH /\ Chains = 1..NHASH /\ FREE_OFF = 0 /\ Nowhere = -1
        /\ \A x \in Recs : x \in Nat /\ x # 0
    BY <1>1, DbAssumption DEF Chains, FREE_OFF, Recs, Nowhere
  <2>2. /\ own \in [Nat -> Nowhere..NHASH] /\ dep \in [Nat -> Nat]
        /\ \A h \in 0..NHASH : own[h] = h /\ dep[h] = 0
    BY <1>1 DEF Lists, Ordered
  <2>3. /\ c \in 0..NHASH /\ FREE_OFF \in 0..NHASH /\ c # FREE_OFF
        /\ \A h \in Chains : h \in 0..NHASH
        /\ \A h \in 0..NHASH : h # Nowhere
    BY <2>1
  <2>4. o \in Nat /\ o1 \in Nat /\ r \in Nat
    BY <1>1, <2>1
  <2> QED BY <2>1, <2>2, <2>3, <2>4
<1>3. ASSUME NEW q \in Procs, Stale(q)
      PROVE  HasNew(q) /\ db[q].idxoff \in Recs /\ own[db[q].idxoff] = Nowhere
  <2>1. HasNew(q)
    BY <1>3 DEF Stale, HasNew
  <2> QED BY <1>1, <2>1 DEF NewRecs
<1>4. \A x \in Z : x \in Recs /\ (own[x] = Nowhere \/ (own[x] = c /\ dep[o1] < dep[x]))
  BY <1>0, <1>3 DEF Severed, CutTail
<1>5. \A x \in Recs : own[x] = c /\ dep[o1] < dep[x] => x \in Z
  BY <1>0 DEF Severed, CutTail
<1>6. s = 0 \/ own[s] = FREE_OFF \/ (own[s] \in Chains /\ own[s] # c) => s \notin Z
  BY <1>2, <1>4
<1>7. CASE own[o] = Nowhere
  <2>1. o \in Recs /\ o \in Ptr /\ o \notin 0..NHASH
    BY <1>2, <1>7
  <2>2. PICK q \in Procs : HasNew(q) /\ db[q].idxoff = o
    BY <1>1, <1>2, <1>7, <2>1, DbAssumption DEF NewRecs, Ptr
  <2>3. ~Stale(q)
    BY <2>2 DEF Severed
  <2>4. pc[q] \in {"append.idxunlock", "store.writeptr"}
    BY <2>2, <2>3 DEF HasNew, Stale
  <2>5. q # p
    BY <2>4 DEF Tearing
  <2>6. pc[q] \in Heads /\ pc[q] \notin Outside
    BY <2>4 DEF Heads, Storing, Outside
  <2>7. s = loc[q].ptrval /\ Follows(own, dep, chainoff(q), s)
    BY <1>0, <2>2, <2>4, <2>6 DEF Good, At, Written, Heading
  <2>8. chainoff(q) \in Chains /\ chainoff(q) # c
    <3>1. ~Held(q, c)
      BY <1>1, <1>2, <2>5, Exclusive, Remembered
    <3> QED BY <1>1, <2>6, <3>1, HeldLists DEF Held
  <2>9. s = 0 \/ own[s] = chainoff(q)
    BY <1>2, <2>7, <2>8 DEF Follows
  <2> QED BY <1>0, <1>6, <2>8, <2>9
<1>8. CASE own[o] # Nowhere /\ \E q \in Procs : Pending(q, o)
  <2>1. PICK q \in Procs : Pending(q, o)
    BY <1>8
  <2>2. q = p
    <3>1. Held(q, FREE_OFF)
      BY <2>1 DEF Pending, Held, FreeLocked
    <3>2. FREE_OFF \in Regions
      BY <1>1, <1>2, Remembered
    <3> QED BY <1>1, <3>1, <3>2, Exclusive
  <2>3. CASE o = o1
    BY <1>0, <1>1, <1>6, <2>3
  <2>4. CASE o # o1
    <3>1. o = FREE_OFF /\ pc[p] = "dodelete.writefree"
      BY <1>0, <2>1, <2>2, <2>4 DEF Pending
    <3>2. s = readptr(r)
      BY <1>0, <1>1, <3>1
    <3>3. ~Pending(p, r)
      <4>1. r # o1 /\ r # FREE_OFF
        BY <1>1, <1>2, Remembered
      <4> QED BY <1>0, <4>1 DEF Pending
    <3>4. Held(p, own[r])
      BY <1>1 DEF Owns
    <3>5. Follows(own, dep, r, s)
      BY <1>1, <1>2, <3>2, <3>3, <3>4, Settled
    <3> QED BY <1>0, <1>1, <1>6, <3>5 DEF Follows
  <2> QED BY <2>3, <2>4
<1>9. CASE own[o] # Nowhere /\ \A q \in Procs : ~Pending(q, o)
  <2>1. Follows(own, dep, o, s)
    BY <1>0, <1>1, <1>2, <1>9 DEF Pointers
  <2>2. SUFFICES ASSUME s \in Z PROVE FALSE
    BY <1>0
  <2>3. s \in Nat /\ s # 0 /\ s \in Recs
    BY <1>2, <1>4, <2>2
  <2>4. own[s] = own[o] /\ dep[o] < dep[s] /\ \A x \in Nat : own[x] = own[o] /\ dep[o] < dep[x] => dep[s] <= dep[x]
    BY <2>1, <2>3 DEF Follows
  <2>5. own[s] = c /\ dep[o1] < dep[s]
    BY <1>4, <1>9, <2>2, <2>4
  <2>6. ~(dep[o1] < dep[o])
    <3>1. CASE o \in Recs
      BY <1>5, <2>4, <2>5, <3>1
    <3>2. CASE o \in 0..NHASH
      BY <1>2, <3>2
    <3> QED BY <3>1, <3>2
  <2>7. o # o1
    BY <1>0, <1>9 DEF Pending, Tearing
  <2>8. dep[o] # dep[o1]
    <3>1. \A x, y \in Nat : own[x] # Nowhere /\ own[x] = own[y] /\ dep[x] = dep[y] => x = y
      BY <1>1 DEF Lists, Ordered
    <3>2. own[o] # Nowhere /\ own[o] = own[o1]
      BY <1>1, <1>9, <2>4, <2>5
    <3> QED BY <1>2, <2>7, <3>1, <3>2
  <2>9. dep[o] < dep[o1]
    BY <1>2, <2>6, <2>8
  <2>10. dep[s] <= dep[o1]
    BY <1>1, <1>2, <2>4, <2>5, <2>9
  <2> QED BY <1>2, <2>3, <2>5, <2>10
<1> QED BY <1>7, <1>8, <1>9

LEMMA TearTorn ==
    ASSUME NEW p \in Procs, NEW own, NEW dep, CrashSafe, torn = {}, astray = {}, lost = {},
           Good(own, dep, {}), Crash(p), pc[p] \in Tearing
    PROVE  \E own2, c, left2, Z : Torn(own2, dep, c, left2, Z)'
<1>0. PICK o1, r, c, Off, Cut, Z, own2 :
        /\ o1 = db[p].ptroff /\ r = db[p].idxoff /\ c = chainoff(p)
        /\ Off = Dropped(own, dep, p) /\ Cut = CutTail(own, dep, p) /\ Z = Severed(own, dep, p)
        /\ own2 = [x \in Nat |-> IF x \in Off THEN Nowhere ELSE own[x]]
  OBVIOUS
<1>1. /\ Control /\ FileInv /\ NewRecs(own, {}) /\ Keyed(own) /\ CrashSafe'
      /\ pc[p] \notin Outside /\ ~HasNew(p) /\ ~Stale(p) /\ c \in Chains
      /\ own[o1] = c /\ o1 \in 0..NHASH \cup Recs
      /\ own[r] = FREE_OFF /\ r \in Recs \cap Ptr /\ readptr(o1) = r /\ readidx(r).key = BLANK
      /\ List(loc[p].saveptr) = Cut
  BY <1>0, Tears, CrashControl, CrashFiles DEF CrashSafe, Good
<1>2. /\ Others(p) /\ pc'[p] = "idle" /\ kv' = KvAfterCrash(p)
      /\ table' = table /\ idx' = idx /\ dat' = dat /\ Recs' = Recs
      /\ \A x : readptr(x)' = readptr(x) /\ readidx(x)' = readidx(x)
  BY <1>1, CrashFacts, DatWritten DEF files
<1>3. /\ torn' = {c} /\ astray' = {o1} /\ lost' = {}
      /\ \A q \in Procs : ~Walking(q)' /\ ~OnTorn(q)'
      /\ vPc' = pc' /\ vDb' = db' /\ vLoc' = loc' /\ View!writeptr(o1, 0)
  BY <1>0, TearMaps
<1>4. /\ vPc = pc /\ vDb = db /\ vLoc = loc /\ View!Recs = Recs
      /\ \A q : View!chainoff(q) = chainoff(q)
      /\ \A x \in Recs : View!readidx(x).key = readidx(x).key
      /\ View!Nowhere = Nowhere
  BY ViewIsState, ViewFiles, SameOperators
<1>5. View!Good(own2, dep, Off)'
  <2>1. View!Control /\ View!FileInv /\ View!Good(own, dep, {})
    BY ViewControl, ViewFileInv, ViewGood
  <2>2. View!Others(p)
    BY <1>2, <1>3, <1>4 DEF Others, View!Others
  <2>3. Cut = View!CutTail(own, dep, p) /\ Off = View!Dropped(own, dep, p)
    BY <1>0, <1>4 DEF CutTail, Dropped, View!CutTail, View!Dropped
  <2>4. own2 = [x \in Nat |-> IF x \in Off THEN View!Nowhere ELSE own[x]]
    BY <1>0, <1>4
  <2>5. \A x \in Cut : x \in Recs
    BY <1>0 DEF CutTail
  <2>6. kv' = [k \in Keys |-> IF k = call[p].key \/ \E x \in Cut : View!readidx(x).key = k
                              THEN NULL ELSE kv[k]]
    <3>1. kv' = [k \in Keys |-> IF k \in CutOff(p) THEN NULL ELSE kv[k]]
      BY <1>2 DEF KvAfterCrash, Tearing
    <3>2. \A k : k \in CutOff(p) <=> k = call[p].key \/ \E x \in Cut : View!readidx(x).key = k
      BY <1>1, <1>4, <2>5 DEF CutOff
    <3> QED BY <3>1, <3>2
  <2>7. /\ vPc[p] \in {"dodelete.writefree", "dodelete.writeptr"} /\ vPc'[p] = "idle"
        /\ View!writeptr(vDb[p].ptroff, 0)
    BY <1>0, <1>2, <1>3, <1>4 DEF Tearing
  <2>8. View!Good(own2, dep, {} \cup Off)'
    BY <1>2, <2>1, <2>2, <2>3, <2>4, <2>6, <2>7, SameConstants, View!TearGood
  <2>9. {} \cup Off = Off
    OBVIOUS
  <2> QED BY <2>8, <2>9
<1>6. /\ \A q \in Procs : Stale(q) => q # p /\ HasNew(q)
      /\ \A q \in Procs : HasNew(q) =>
            db[q].idxoff \in Recs /\ own[db[q].idxoff] = Nowhere /\ q # p
      /\ \A q1, q2 \in Procs : q1 # q2 /\ HasNew(q1) /\ HasNew(q2) => db[q1].idxoff # db[q2].idxoff
  BY <1>1 DEF Stale, HasNew, NewRecs
<1>7. /\ FREE_OFF # Nowhere /\ FREE_OFF # c /\ Nowhere # c
      /\ \A x \in Z : x \in Recs /\ own[x] \in {c, Nowhere}
  <2>1. FREE_OFF # Nowhere /\ FREE_OFF # c /\ Nowhere # c
    BY <1>1, DbAssumption DEF FREE_OFF, Nowhere, Chains
  <2> QED BY <1>0, <1>6, <2>1 DEF Severed, CutTail
<1>8. OffChain(c, Z)'
  <2>1. r \notin Z
    BY <1>1, <1>7
  <2>2. o1 = c \/ (o1 \in Recs /\ readidx(o1).key \in Keys /\ Hash[readidx(o1).key] = c)
    <3>1. CASE o1 \in 0..NHASH
      BY <1>1, <3>1 DEF Good, Lists, Ordered
    <3>2. CASE o1 \in Recs
      BY <1>1, <3>2 DEF Keyed
    <3> QED BY <1>1, <3>1, <3>2
  <2> QED BY <1>1, <1>2, <1>3, <2>1, <2>2 DEF OffChain, Stray
<1>9. Unreached(Off, Z)'
  <2>1. \A x \in Z : x \in Off \/ \E q \in Procs : Stale(q)' /\ db'[q].idxoff = x
    <3>1. \A q \in Procs : Stale(q) => Stale(q)' /\ db'[q] = db[q]
      BY <1>2, <1>6 DEF Others, Stale
    <3> QED BY <1>0, <3>1 DEF Severed, Dropped
  <2>2. \A x \in Off \ Z : readidx(x)'.key = BLANK
    BY <1>0, <1>1, <1>2 DEF Severed, Dropped
  <2>3. \A o \in (0..NHASH \cup (Recs \cap Ptr)) \ Z : readptr(o) \notin Z
    BY <1>0, CutsOff
  <2> QED BY <1>2, <2>1, <2>2, <2>3 DEF Unreached
<1>10. ASSUME NEW q \in Procs PROVE Carries(q, Z)'
  <2>1. ~Walking(q)' /\ ~RecCopy(q)' /\ ~HeadCopy(q)' /\ ~SaveCopy(q)' /\ q \notin lost'
    BY <1>3 DEF RecCopy, HeadCopy, SaveCopy
  <2>2. pc'[q] \in {"append.idxunlock", "store.writeptr"} => db'[q].idxoff \notin Z
    <3> SUFFICES ASSUME pc'[q] \in {"append.idxunlock", "store.writeptr"}
                 PROVE  db'[q].idxoff \notin Z
      OBVIOUS
    <3>1. q # p /\ pc[q] = pc'[q] /\ db'[q] = db[q]
      BY <1>2 DEF Others
    <3>2. HasNew(q) /\ ~Stale(q)
      BY <3>1 DEF HasNew, Stale
    <3>3. db[q].idxoff \notin Cut
      BY <1>0, <1>6, <1>7, <3>2 DEF CutTail
    <3>4. \A q2 \in Procs : Stale(q2) => db[q2].idxoff # db[q].idxoff
      BY <1>6, <3>2
    <3> QED BY <1>0, <3>1, <3>3, <3>4 DEF Severed
  <2> QED BY <2>1, <2>2 DEF Carries
<1>11. Torn(own2, dep, c, Off, Z)'
  BY <1>1, <1>3, <1>5, <1>8, <1>9, <1>10 DEF Torn
<1> QED BY <1>11

-----------------------------------------------------------------------------
\* Until a process is killed, the files are those of Db; after a kill, as long as
\* it is the only one, no chain is torn, or the view has the lists.
CrashInv ==
    /\ crashes \in Nat
    /\ torn = {} => astray = {} /\ lost = {}
    /\ crashes = 0 => torn = {} /\ MapInv({})
    /\ crashes <= 1 /\ torn # {} => \E own, dep, c, left, Z : Torn(own, dep, c, left, Z)

LEMMA CrashInvStep == CrashSafe /\ CrashInv /\ [CrashNext]_crashVars => CrashInv'
<1> SUFFICES ASSUME CrashSafe, CrashInv, [CrashNext]_crashVars PROVE CrashInv'
  OBVIOUS
<1>1. ASSUME NEW p \in Procs, Crash(p) PROVE CrashInv'
  <2>1. crashes \in Nat /\ crashes' = crashes + 1 /\ ~(crashes' = 0)
    BY <1>1 DEF CrashInv, Crash
  <2>2. CASE pc[p] \in Tearing /\ crashes = 0
    <3>1. MapInv({}) /\ torn = {} /\ astray = {} /\ lost = {}
      BY <2>2 DEF CrashInv
    <3>2. PICK own, dep : Good(own, dep, {})
      BY <3>1 DEF MapInv
    <3>3. (\E own2, dep2, c, left2, Z : Torn(own2, dep2, c, left2, Z))'
      BY <1>1, <2>2, <3>1, <3>2, TearTorn
    <3>4. torn' # {}
      BY <1>1, <2>2 DEF Crash
    <3> QED BY <2>1, <3>3, <3>4 DEF CrashInv
  <2>3. CASE pc[p] \notin Tearing
    <3>1. torn' = torn /\ astray' = astray /\ lost' = lost \ {p}
      BY <1>1, <2>3 DEF Crash
    <3>2. crashes' <= 1 => crashes = 0
      BY <2>1
    <3> QED BY <2>1, <3>1, <3>2 DEF CrashInv
  <2>4. CASE pc[p] \in Tearing /\ crashes # 0
    <3>1. torn' # {} /\ ~(crashes' <= 1)
      BY <1>1, <2>1, <2>4 DEF Crash
    <3> QED BY <2>1, <3>1 DEF CrashInv
  <2> QED BY <2>2, <2>3, <2>4
<1>2. ASSUME ~\E p \in Procs : Crash(p) PROVE CrashInv'
  <2>1. crashes' = crashes /\ torn' = torn /\ [Next]_vars
    BY <1>2 DEF CrashNext, crashVars, Follow, Next
  <2>2. torn' = {} => astray' = {} /\ lost' = {}
    <3> SUFFICES ASSUME torn' = {} PROVE astray' = {} /\ lost' = {}
      OBVIOUS
    <3>1. astray = {} /\ lost = {}
      BY <2>1 DEF CrashInv
    <3>2. ASSUME NEW p \in Procs, Follow(p) PROVE astray' = {} /\ lost' = {}
      BY <3>1, <3>2 DEF Follow, Misleads
    <3> QED BY <1>2, <3>1, <3>2 DEF CrashNext, crashVars
  <2>3. crashes' = 0 => torn' = {} /\ MapInv({})'
    <3>1. crashes = 0 => MapInv({}) /\ torn = {}
      BY DEF CrashInv
    <3> QED BY <2>1, <3>1, EveryStepGood DEF CrashSafe
  <2>4. ASSUME crashes' <= 1, torn' # {}
        PROVE  (\E own, dep, c, left, Z : Torn(own, dep, c, left, Z))'
    <3>1. PICK own, dep, c, left, Z : Torn(own, dep, c, left, Z)
      BY <2>1, <2>4 DEF CrashInv
    <3>2. CASE \E p \in Procs : Step(p) /\ Follow(p)
      BY <3>1, <3>2, TornStep
    <3>3. CASE \E p \in Procs : Call(p) /\ UNCHANGED <<crashes, torn, astray, lost>>
      BY <3>1, <3>3, TornCall
    <3>4. CASE UNCHANGED crashVars
      BY <3>1, <3>4, TornStutter
    <3>5. Finished /\ UNCHANGED <<crashes, torn, astray, lost>> => UNCHANGED crashVars
      BY DEF Finished, crashVars
    <3> QED BY <1>2, <3>2, <3>3, <3>4, <3>5 DEF CrashNext
  <2> QED BY <2>1, <2>2, <2>3, <2>4 DEF CrashInv
<1> QED BY <1>1, <1>2

LEMMA CrashInvariant == CrashSpec => [](CrashSafe /\ Untorn /\ CrashInv)
<1>1. CrashInit => Untorn /\ CrashInv
  BY InitEmpty, EmptyGood DEF CrashInit, Untorn, CrashInv
<1> QED BY <1>1, UntornStep, CrashInvStep, CrashesLeaveNoDanglingPointer, PTL DEF CrashSpec

-----------------------------------------------------------------------------
\* A list that nobody is changing holds what the view says; the torn chain may also
\* lead to other records, but not into Z.
LEMMA TornList ==
    ASSUME NEW own, NEW dep, NEW c, NEW left, NEW Z, CrashSafe, Torn(own, dep, c, left, Z),
           NEW a \in QuietHeads, NEW L, L = List(readptr(a))
    PROVE  /\ \A x \in Recs : own[x] = a => x \in L
           /\ \A x \in L : x \in Recs /\ (own[x] = a \/ (a = c /\ x \in Stray(Z)))
           /\ \A k \in Keys : Hash[k] = a => View!Shows(own, k, kv[k])
           /\ a # c => \A x \in Nat : own[x] = a => View!Follows(own, dep, x, readptr(x))
<1>1. /\ View!Control /\ View!FileInv /\ View!Good(own, dep, left) /\ FileInv /\ View!PtrsInFile
      /\ PtrsInFile
  <2>1. View!Control /\ View!FileInv /\ View!Good(own, dep, left) /\ FileInv
    BY ViewControl, ViewFileInv DEF Torn, CrashSafe
  <2> QED BY <2>1, PtrsOK, View!PtrsOK, SameConstants
<1>2. /\ \A o \in 0..NHASH \cup Recs : View!readptr(o) = IF o \in astray THEN 0 ELSE readptr(o)
      /\ View!Recs = Recs /\ View!QuietHeads = QuietHeads /\ a \in 0..NHASH
      /\ View!WriteLocked(a) <=> WriteLocked(a)
  BY ViewFiles DEF View!QuietHeads, QuietHeads, View!WriteLocked, WriteLocked
<1>3. /\ \A o \in Nat : own[o] = a => View!Follows(own, dep, o, View!readptr(o))
      /\ View!List(View!readptr(a)) = {r \in Recs : own[r] = a}
      /\ \A k \in Keys : Hash[k] = a => View!Shows(own, k, kv[k])
  BY <1>1, <1>2, SameConstants, View!QuietList
<1>4. /\ \A o \in astray : own[o] \in {c, Nowhere} /\ readptr(o) \in Stray(Z)
      /\ \A x \in 0..NHASH \cup Recs : readptr(x) \in Target
      /\ \A x \in (0..NHASH \cup (Recs \cap Ptr)) \ Z : readptr(x) \notin Z
      /\ \A x \in Recs : x # 0 /\ x \in Nat
      /\ a \in Nat /\ own[a] = a /\ a # Nowhere
  <2>1. a \in Nat /\ own[a] = a /\ a # Nowhere
    BY <1>1, <1>2, DbAssumption DEF View!Good, View!Lists, View!Ordered, Nowhere
  <2> QED BY <2>1, Offsets
<1>5. ASSUME NEW o \in Nat, o \in 0..NHASH \cup Recs, own[o] = a
      PROVE  /\ o \in astray => a = c
             /\ o \notin astray => View!Follows(own, dep, o, readptr(o))
                                   /\ (readptr(o) = 0 \/ own[readptr(o)] = a)
  <2>1. o \in astray => a = c
    BY <1>4, <1>5
  <2>2. o \notin astray => View!Follows(own, dep, o, readptr(o))
    BY <1>2, <1>3, <1>5
  <2> QED BY <1>5, <2>1, <2>2, FollowsOwn
<1>6. PICK f : f = readptr(a)
  OBVIOUS
<1>7. f = 0 \/ f \in Recs
  BY <1>2, <1>4, <1>6 DEF Target
<1>8. /\ L \subseteq Recs /\ (f # 0 => f \in L) /\ Closed(L)
      /\ \A T : (f = 0 \/ f \in T) /\ Closed(T) => L \subseteq T
  BY <1>1, <1>6, <1>7, ListLeast DEF ListIsLeast
<1>9. \A x \in Recs : own[x] = a => x \in L
  <2>1. View!Closed(L)
    BY <1>2, <1>8 DEF Closed, View!Closed
  <2>2. PICK v : v = View!readptr(a)
    OBVIOUS
  <2>3. (v = 0 \/ v \in L) /\ v \in {0} \cup Recs
    BY <1>2, <1>6, <1>7, <1>8, <2>2
  <2>4. View!List(v) \subseteq L
    BY <1>1, <1>2, <2>1, <2>3, SameConstants, View!ListLeast DEF View!ListIsLeast
  <2> QED BY <1>3, <2>2, <2>4
<1>10. ASSUME NEW T, T = {x \in Recs : own[x] = a \/ (a = c /\ x \in Stray(Z))}
       PROVE  L \subseteq T
  <2>1. ASSUME NEW o \in 0..NHASH \cup Recs, own[o] = a PROVE readptr(o) = 0 \/ readptr(o) \in T
    <3>1. o \in Nat /\ readptr(o) \in Target
      BY <1>4, <2>1, DbAssumption
    <3>2. CASE o \in astray
      <4>1. a = c /\ readptr(o) \in Stray(Z)
        BY <1>4, <1>5, <2>1, <3>1, <3>2
      <4> QED BY <1>10, <4>1 DEF Stray
    <3>3. CASE o \notin astray
      <4>1. readptr(o) = 0 \/ own[readptr(o)] = a
        BY <1>5, <2>1, <3>1, <3>3
      <4> QED BY <1>10, <3>1, <4>1 DEF Target
    <3> QED BY <3>2, <3>3
  <2>2. ASSUME NEW o \in Stray(Z), a = c PROVE readptr(o) = 0 \/ readptr(o) \in T
    <3>1. readptr(o) \in Target /\ readptr(o) \notin Z
      BY <1>4, <2>2 DEF Stray
    <3> QED BY <1>10, <2>2, <3>1 DEF Target, Stray
  <2>3. Closed(T)
    BY <1>10, <2>1, <2>2 DEF Closed
  <2>4. f = 0 \/ f \in T
    BY <1>2, <1>4, <1>6, <2>1
  <2> QED BY <1>8, <2>3, <2>4
<1>11. \A x \in L : x \in Recs /\ (own[x] = a \/ (a = c /\ x \in Stray(Z)))
  BY <1>10
<1>12. ASSUME a # c, NEW x \in Nat, own[x] = a PROVE View!Follows(own, dep, x, readptr(x))
  <2>1. x \in 0..NHASH \cup Recs
    <3>1. x > NHASH => x \in Recs
      BY <1>1, <1>2, <1>4, <1>12, SameOperators DEF View!Good, View!Lists
    <3> QED BY <3>1, DbAssumption
  <2> QED BY <1>5, <1>12, <2>1
<1> QED BY <1>3, <1>9, <1>11, <1>12

\* At most one kill: the chains hold the map ...
LEMMA ContainsCrash == CrashSafe /\ Untorn /\ CrashInv => CrashContained
<1> SUFFICES ASSUME CrashSafe, Untorn, CrashInv, crashes <= 1 PROVE ChainsHoldMap
  BY DEF CrashContained
<1>1. CASE torn = {}
  <2>1. PICK left : MapInv(left)
    BY <1>1 DEF Untorn
  <2> QED BY <2>1, MapOnChains DEF CrashSafe
<1>2. CASE torn # {}
  <2>1. PICK own, dep, c, left, Z : Torn(own, dep, c, left, Z)
    BY <1>2 DEF CrashInv
  <2> SUFFICES ASSUME NEW k \in Keys, NEW a, a = Hash[k], ~WriteLocked(a),
                      NEW hits, hits = {o \in List(readptr(a)) : readidx(o).key = k}
               PROVE  \/ kv[k] = NULL /\ hits = {}
                      \/ \E o \in hits : hits = {o} /\ dat[readidx(o).datoff].data = kv[k]
    BY DEF ChainsHoldMap
  <2>2. a \in QuietHeads /\ a \in Regions
    <3>1. a \in Chains /\ NHASH \in Nat
      BY DbAssumption
    <3>2. a \in 0..NHASH
      BY <3>1 DEF Chains
    <3> QED BY <3>1, <3>2 DEF QuietHeads, Regions, DATFILE
  <2>3. /\ \A x \in Recs : own[x] = a => x \in List(readptr(a))
        /\ \A x \in List(readptr(a)) : x \in Recs /\ (own[x] = a \/ (a = c /\ x \in Stray(Z)))
        /\ View!Shows(own, k, kv[k])
    BY <2>1, <2>2, TornList
  <2>4. /\ View!Recs = Recs
        /\ \A o \in Recs : /\ View!readidx(o).key = readidx(o).key
                           /\ View!readidx(o).datoff = readidx(o).datoff
    BY ViewFiles
  <2>5. \A q \in Procs : pc[q] \in {"append.idxunlock", "store.writeptr"} => chainoff(q) # Hash[k]
    <3> SUFFICES ASSUME NEW q \in Procs, pc[q] \in {"append.idxunlock", "store.writeptr"},
                        chainoff(q) = a
                 PROVE  FALSE
      OBVIOUS
    <3>1. Owns(q, a)
      BY HeldLists DEF CrashSafe, Storing
    <3>2. lock[a][q] = "write"
      BY <2>2, <3>1 DEF CrashSafe, Control, LockDiscipline, LockOf, Owns
    <3> QED BY <3>2 DEF WriteLocked
  <2>6. \A o : o \in hits <=> View!Hit(own, k, o)
    <3>1. ASSUME NEW o \in hits PROVE View!Hit(own, k, o)
      <4>1. o \in Recs /\ readidx(o).key = k /\ (own[o] = a \/ o \in Stray(Z))
        BY <2>3
      <4>2. CASE own[o] = a
        BY <2>4, <4>1, <4>2 DEF View!Hit
      <4>3. CASE o \in Stray(Z)
        BY <2>1, <2>5, <4>1, <4>3, StrayHit
      <4> QED BY <4>1, <4>2, <4>3
    <3>2. ASSUME NEW o, View!Hit(own, k, o) PROVE o \in hits
      BY <2>3, <2>4, <3>2 DEF View!Hit
    <3> QED BY <3>1, <3>2
  <2>7. CASE kv[k] = NULL
    <3>1. \A o \in Recs : ~View!Hit(own, k, o)
      BY <2>3, <2>4, <2>7 DEF View!Shows, View!Absent
    <3> QED BY <2>4, <2>6, <2>7, <3>1 DEF View!Hit
  <2>8. CASE kv[k] # NULL
    <3>1. PICK o \in Recs : View!Hit(own, k, o) /\ dat[View!readidx(o).datoff].data = kv[k]
      BY <2>3, <2>4, <2>8 DEF View!Shows
    <3>2. \A x : View!Hit(own, k, x) => x = o
      BY <2>1, <3>1 DEF Torn, View!Good, View!Keyed, View!Hit
    <3> QED BY <2>4, <2>6, <3>1, <3>2
  <2> QED BY <2>7, <2>8
<1> QED BY <1>1, <1>2

\* ... and the free list is sound.
LEMMA SoundFreeList == CrashSafe /\ Untorn /\ CrashInv => FreeListSound
<1> SUFFICES ASSUME CrashSafe, Untorn, CrashInv, crashes <= 1, ~WriteLocked(FREE_OFF),
                    NEW free, free = List(readptr(FREE_OFF))
             PROVE  /\ \A o \in free : readidx(o).key = BLANK /\ o \notin List(readptr(o))
                    /\ \A h \in Chains \ torn :
                          ~WriteLocked(h) => free \cap List(readptr(h)) = {}
  BY DEF FreeListSound
<1>0. /\ NHASH \in Nat /\ FREE_OFF \in QuietHeads /\ FREE_OFF \notin Chains
      /\ \A h \in Chains : ~WriteLocked(h) => h \in QuietHeads
  BY DbAssumption DEF Chains, FREE_OFF, QuietHeads
<1>1. CASE torn = {}
  <2>1. PICK left : MapInv(left)
    BY <1>1 DEF Untorn
  <2>2. ListsDisjoint
    BY <2>1, DisjointLists DEF CrashSafe
  <2> QED BY <1>0, <2>2 DEF ListsDisjoint
<1>2. CASE torn # {}
  <2>1. PICK own, dep, c, left, Z : Torn(own, dep, c, left, Z)
    BY <1>2 DEF CrashInv
  <2>2. FREE_OFF # c /\ c \in Chains /\ torn = {c}
    BY <1>0, <2>1 DEF Torn
  <2>3. /\ \A x \in free : x \in Recs /\ own[x] = FREE_OFF
        /\ \A x \in Nat : own[x] = FREE_OFF => View!Follows(own, dep, x, readptr(x))
    BY <1>0, <2>1, <2>2, TornList
  <2>4. ASSUME NEW o \in free PROVE readidx(o).key = BLANK
    <3>1. View!Recs = Recs /\ View!FREE_OFF = FREE_OFF /\ View!readidx(o).key = readidx(o).key
      BY <2>3, ViewFiles, SameOperators
    <3> QED BY <2>1, <2>3, <3>1 DEF Torn, View!Good, View!Keyed
  <2>5. ASSUME NEW o \in free PROVE o \notin List(readptr(o))
    <3> DEFINE T == {x \in Recs : own[x] = FREE_OFF /\ dep[o] < dep[x]}
    <3>0. PICK s : s = readptr(o)
      OBVIOUS
    <3>1. /\ \A x \in Recs : x \in Nat /\ x # 0 /\ dep[x] \in Nat
          /\ o \in Recs /\ own[o] = FREE_OFF
      <4>1. dep \in [Nat -> Nat]
        BY <2>1 DEF Torn, View!Good, View!Lists, View!Ordered
      <4>2. \A x \in Recs : x \in Nat /\ x # 0
        BY <2>1, Offsets
      <4> QED BY <2>3, <4>1, <4>2
    <3>2. PtrsInFile /\ \A x \in Recs : readptr(x) = 0 \/ readptr(x) \in Recs
      BY PtrsOK DEF PtrsInFile, CrashSafe
    <3>3. \A x \in Recs : own[x] = FREE_OFF /\ dep[o] <= dep[x] => readptr(x) = 0 \/ readptr(x) \in T
      <4> SUFFICES ASSUME NEW x \in Recs, own[x] = FREE_OFF, dep[o] <= dep[x], NEW t,
                          t = readptr(x), t # 0
                   PROVE  t \in T
        OBVIOUS
      <4>1. own[t] = FREE_OFF /\ dep[x] < dep[t] /\ t \in Recs
        BY <2>3, <3>1, <3>2 DEF View!Follows
      <4> QED BY <3>1, <4>1
    <3>4. Closed(T) /\ (s = 0 \/ s \in T)
      <4>1. \A x \in T : readptr(x) = 0 \/ readptr(x) \in T
        BY <3>1, <3>3
      <4> QED BY <3>0, <3>1, <3>3, <4>1 DEF Closed
    <3>5. s = 0 \/ s \in Recs
      BY <3>0, <3>1, <3>2
    <3>6. o \notin T
      BY <3>1
    <3> HIDE DEF T
    <3>7. List(s) \subseteq T
      BY <3>2, <3>4, <3>5, ListLeast DEF ListIsLeast
    <3> QED BY <3>0, <3>6, <3>7
  <2>6. ASSUME NEW h \in Chains \ torn, ~WriteLocked(h)
        PROVE  free \cap List(readptr(h)) = {}
    <3>1. h \in QuietHeads /\ h # c /\ h # FREE_OFF
      BY <1>0, <2>2, <2>6
    <3>2. \A x \in List(readptr(h)) : own[x] = h
      BY <2>1, <3>1, TornList
    <3> QED BY <2>3, <3>1, <3>2
  <2> QED BY <2>4, <2>5, <2>6
<1> QED BY <1>1, <1>2

\* A process that is killed, at any place in the three functions, costs at most the
\* record of its call and, if a deletion had written its index record and not yet the
\* chain pointer, the records behind that one on the chain: whatever the others do after it, and as long
\* as no second one is killed, every chain that is not being changed shows what the
\* map has left.
THEOREM OneCrashIsContained == CrashSpec => []CrashContained
<1>1. CrashSpec => [](CrashSafe /\ Untorn /\ CrashInv)
  BY CrashInvariant
<1> QED BY <1>1, ContainsCrash, PTL

\* Nor does it make the free list run into itself, or into a chain that is not torn.
THEOREM FreeListStaysSound == CrashSpec => []FreeListSound
<1>1. CrashSpec => [](CrashSafe /\ Untorn /\ CrashInv)
  BY CrashInvariant
<1> QED BY <1>1, SoundFreeList, PTL
=============================================================================
