------------------------------ MODULE DbCrash ------------------------------
(***************************************************************************)
(* Db with processes that are killed between two system calls: the kernel  *)
(* drops their locks, the files stay as they are, and another process      *)
(* takes their place.  Nothing in apue/db.lock.fine looks for traces of an *)
(* interrupted call, so what a crash leaves behind is what the order of    *)
(* the writes makes of it.                                                 *)
(*                                                                         *)
(* A deletion that is killed after it has written the index record and     *)
(* before its last write, that of the chain pointer (dodelete.c:43-53, the *)
(* write of the free list pointer lies between), leaves a pointer that     *)
(* leads off its hash chain, to the deleted record and so into the free    *)
(* list.  The history variables astray and lost follow that pointer.       *)
(***************************************************************************)
EXTENDS DbProps

CONSTANT
    MaxCrashes  \* bound of the model: processes killed

VARIABLES
    crashes,    \* number of processes killed
    torn,       \* the chains that were cut by the kill of a deletion
    astray,     \* the offsets whose pointer leads off its chain
    lost        \* the processes that have such a pointer: behind which they
                \* are in _db_find(), or which they save in _db_dodelete()

crashVars == <<vars, crashes, torn, astray, lost>>

ASSUME CrashAssumption == MaxCrashes \in Nat /\ BLANK # NULL

\* The index record is blank and no longer on its chain, but the chain pointer is
\* still to be written.
Tearing == {"dodelete.writefree", "dodelete.writeptr"}

\* No record has the key: the old one is deleted, or was not there, and the new
\* one is not yet on the chain.
NotStored ==
    {"dodelete.unlock", "store.head", "store.rehead", "findfree", "findfree.readptr",
     "findfree.readidx", "findfree.writeptr", "findfree.unlock", "reuse.writedat",
     "reuse.writeidx", "append.datlock", "append.idxlock", "store.writeptr"}
        \cup DatLocked \cup TailLocked

\* The keys that are lost when process p is killed at a place in Tearing: that of
\* the record, and those of the records behind it.
CutOff(p) == {call[p].key} \cup {readidx(o).key : o \in List(loc[p].saveptr)}

\* What the map is after process p is killed: a call that has made its last
\* write has its effect; a deletion that has blanked the data but not the key
\* leaves the key with blank data; keys that no chain leads to are gone; any
\* other call has no effect.
KvAfterCrash(p) ==
    LET r == call[p]
    IN  IF pc[p] = "unlock" THEN Abs!Effect(kv, r)
        ELSE IF pc[p] \in {"dodelete.readptr", "dodelete.writeidx"}
        THEN [kv EXCEPT ![r.key] = BLANK]
        ELSE IF pc[p] \in Tearing
        THEN [k \in Keys |-> IF k \in CutOff(p) THEN NULL ELSE kv[k]]
        ELSE IF pc[p] \in NotStored THEN [kv EXCEPT ![r.key] = NULL]
        ELSE kv

Crash(p) ==
    /\ crashes < MaxCrashes
    /\ call[p] \in Requests
    /\ crashes' = crashes + 1
    /\ IF pc[p] \in Tearing
       THEN torn' = torn \cup {chainoff(p)} /\ astray' = astray \cup {db[p].ptroff}
       ELSE UNCHANGED <<torn, astray>>
    /\ lost' = lost \ {p}
    /\ unlock_all(p)
    /\ Goto(p, "idle")
    /\ kv' = KvAfterCrash(p)
    /\ call' = [call EXCEPT ![p] = NULL]
    /\ ret' = [ret EXCEPT ![p] = NULL]
    /\ db' = [db EXCEPT ![p] = NoDb]
    /\ loc' = [loc EXCEPT ![p] = NoLoc]
    /\ UNCHANGED <<files, calls>>
----------------------------------------------------------------------------
\* In its next step, process p goes on with the pointer at offset off.
Reads(p, off) ==
    \/ pc[p] = "find.readptr" /\ off = chainoff(p)
    \/ pc[p] = "find.readidx" /\ off = loc[p].offset
    \/ pc[p] = "dodelete.writeidx" /\ off = db[p].idxoff

\* In the step, process p writes the pointer at offset off of its chain, or of a
\* record that it takes off or puts on its chain ...
Writes(p, off) ==
    \/ pc[p] \in {"dodelete.writeidx", "append.idxwrite", "reuse.writeidx"} /\ off = db[p].idxoff
    \/ pc[p] = "dodelete.writeptr" /\ off = db[p].ptroff
    \/ pc[p] = "store.writeptr" /\ pc'[p] = "unlock" /\ off = chainoff(p)

\* ... with a pointer that leads off the chain.
Misleads(p) ==
    \/ pc[p] = "dodelete.writeptr" /\ p \in lost
    \/ pc[p] \in {"append.idxwrite", "reuse.writeidx"} /\ chainoff(p) \in astray

\* What a step of process p adds to the history.
Follow(p) ==
    /\ lost' = IF /\ pc'[p] \in {"find.readidx"} \cup Tearing
                  /\ p \in lost \/ \E off \in astray : Reads(p, off)
               THEN lost \cup {p} ELSE lost \ {p}
    /\ astray' = IF Misleads(p)
                 THEN astray \cup {off \in {db[p].ptroff, db[p].idxoff} : Writes(p, off)}
                 ELSE {off \in astray : ~Writes(p, off)}
    /\ UNCHANGED <<crashes, torn>>

CrashInit == Init /\ crashes = 0 /\ torn = {} /\ astray = {} /\ lost = {}

CrashNext ==
    \/ \E p \in Procs : Call(p) /\ UNCHANGED <<crashes, torn, astray, lost>>
    \/ \E p \in Procs : Step(p) /\ Follow(p)
    \/ \E p \in Procs : Crash(p)
    \/ Finished /\ UNCHANGED <<crashes, torn, astray, lost>>

CrashSpec == CrashInit /\ [][CrashNext]_crashVars
----------------------------------------------------------------------------
\* One crash harms nothing but what it interrupted: every chain holds each of its
\* keys once, with its current data, and a torn chain holds all keys that it has
\* not lost in the crash, though it may lead into the free list and into chains
\* that took records from there.  A second crash may: a lookup on one torn chain
\* can then find its record through a record that another process is about to put
\* on a third chain, and the deletion that follows writes into that one.
CrashContained == crashes <= 1 => ChainsHoldMap

\* After one crash, the free list never runs into itself nor into a chain that is
\* not torn: a record is handed out to one store at a time, even if the torn chain
\* leads to it.
FreeListSound ==
    crashes <= 1 /\ ~WriteLocked(FREE_OFF) =>
        LET free == List(readptr(FREE_OFF))
        IN  /\ \A o \in free : readidx(o).key = BLANK /\ o \notin List(readptr(o))
            /\ \A h \in Chains \ torn :
                  ~WriteLocked(h) => free \cap List(readptr(h)) = {}
=============================================================================
