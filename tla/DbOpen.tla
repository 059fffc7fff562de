------------------------------- MODULE DbOpen -------------------------------
(***************************************************************************)
(* Db from the first db_open() on: processes that open, create, empty and  *)
(* close the database between their calls.  open() with O_TRUNC empties a  *)
(* file at once, before any lock; only the initialisation of the index     *)
(* file is done under a lock, on the whole file.  As nothing protects the  *)
(* emptying, the processes have to keep two rules among themselves, which  *)
(* are guards here: EmptyWhenQuiet and ReadyForCalls.                      *)
(***************************************************************************)
EXTENDS DbProps

CONSTANTS
    OpenFlags,  \* the oflag arguments of db_open(): sets of O_CREAT, O_TRUNC
    MaxOpens    \* bound of the model: calls of db_open() altogether

VARIABLES
    exists,     \* the files that exist, of "idx" and "dat"
    hdr,        \* the index file begins with the pointers; if not, it is empty
    oflag,      \* oflag[p]: the argument of the db_open() that p is in
    opens       \* number of calls of db_open()

openVars == <<exists, hdr, oflag, opens>>
allVars == <<vars, openVars>>

ASSUME OpenAssumption ==
    /\ OpenFlags \subseteq SUBSET {"O_CREAT", "O_TRUNC"}
    /\ MaxOpens \in Nat

NoPointers == [off \in 0..NHASH |-> 0]
Opening == {"open.dat", "open.lock", "open.fstat", "open.write", "open.unlock"}

\* The places at which a process is in no function.
AtRest == {"closed", "idle", "exited"}

\* Everything in the index file is locked by the one lock of db_open().
IdxRegions == Regions \ {DATFILE}

\* A process is between its open() of the two files and empties the second.
Emptying == \E p \in Procs : pc[p] = "open.dat" /\ "O_TRUNC" \in oflag[p]

\* Nobody empties the files while a process reads or writes them.
EmptyWhenQuiet(flag) ==
    "O_TRUNC" \in flag => \A p \in Procs : pc[p] \in AtRest \cup Opening

\* Nobody calls a function before the files are emptied, and the pointers are
\* there or about to be written.
ReadyForCalls ==
    /\ ~Emptying
    /\ hdr \/ \E p \in Procs : pc[p] \in {"open.fstat", "open.write"}
----------------------------------------------------------------------------
OpenInit ==
    /\ table = NoPointers /\ idx = <<>> /\ dat = <<>>
    /\ lock = [r \in Regions |-> [p \in Procs |-> "none"]]
    /\ pc = [p \in Procs |-> "closed"]
    /\ db = [p \in Procs |-> NoDb] /\ loc = [p \in Procs |-> NoLoc]
    /\ calls = 0
    /\ Abs!Init
    /\ exists = {}
    /\ hdr = FALSE
    /\ oflag = [p \in Procs |-> {}]
    /\ opens = 0

\* db_open(): open the index file; without O_CREAT it has to exist.
OpenIdx(p) ==
    /\ pc[p] = "closed"
    /\ opens < MaxOpens
    /\ opens' = opens + 1
    /\ \E flag \in OpenFlags :
          LET found == "idx" \in exists \/ "O_CREAT" \in flag
              empties == found /\ "O_TRUNC" \in flag
          IN  /\ EmptyWhenQuiet(flag)
              /\ oflag' = [oflag EXCEPT ![p] = IF found THEN flag ELSE {}]
              /\ Goto(p, IF found THEN "open.dat" ELSE "closed")
              /\ exists' = IF found THEN exists \cup {"idx"} ELSE exists
              /\ hdr' = (hdr /\ ~empties)
              /\ table' = IF empties THEN NoPointers ELSE table
              /\ idx' = IF empties THEN <<>> ELSE idx
              /\ kv' = IF empties THEN [k \in Keys |-> NULL] ELSE kv
    /\ UNCHANGED <<dat, lock, db, loc, calls, call, ret>>

\* db_open(): open the data file; after a failure _db_free() closes the index
\* file.
OpenDat(p) ==
    /\ pc[p] = "open.dat"
    /\ LET found == "dat" \in exists \/ "O_CREAT" \in oflag[p]
       IN  /\ Goto(p, IF ~found THEN "closed"
                      ELSE IF oflag[p] = {"O_CREAT", "O_TRUNC"} THEN "open.lock"
                      ELSE "idle")
           /\ exists' = IF found THEN exists \cup {"dat"} ELSE exists
           /\ dat' = IF found /\ "O_TRUNC" \in oflag[p] THEN <<>> ELSE dat
    /\ UNCHANGED <<table, idx, lock, db, loc, client, hdr, oflag, opens>>

BUGOpenLocksHead(p) ==
    /\ Transition(p, "open.lock", "open.fstat")
    /\ writew_lock(p, FREE_OFF)
    /\ UNCHANGED <<files, db, loc, client, openVars>>

\* db_open(): write lock the entire index file.
OpenLock(p) ==
    /\ Transition(p, "open.lock", "open.fstat")
    /\ \A r \in IdxRegions, q \in Procs \ {p} : lock[r][q] = "none"
    /\ lock' = [r \in Regions |->
                  IF r \in IdxRegions THEN [lock[r] EXCEPT ![p] = "write"] ELSE lock[r]]
    /\ UNCHANGED <<files, db, loc, client, openVars>>

BUGOpenFstat(p) ==
    /\ Transition(p, "open.fstat", "open.write")
    /\ UNCHANGED <<files, lock, db, loc, client, openVars>>

\* db_open(): has somebody else initialised the file?
OpenFstat(p) ==
    /\ pc[p] = "open.fstat"
    /\ Goto(p, IF hdr THEN "open.unlock" ELSE "open.write")
    /\ UNCHANGED <<files, lock, db, loc, client, openVars>>

\* db_open(): write the free list pointer and the chain pointers, all 0.
OpenWrite(p) ==
    /\ Transition(p, "open.write", "open.unlock")
    /\ table' = NoPointers
    /\ hdr' = TRUE
    /\ UNCHANGED <<idx, dat, lock, db, loc, client, exists, oflag, opens>>

BUGOpenKeepsLock(p) ==
    /\ Transition(p, "open.unlock", "idle")
    /\ un_lock(p, FREE_OFF)
    /\ UNCHANGED <<files, db, loc, client, openVars>>

\* db_open(): unlock the index file and return.
OpenUnlock(p) ==
    /\ Transition(p, "open.unlock", "idle")
    /\ lock' = [r \in Regions |->
                  IF r \in IdxRegions THEN [lock[r] EXCEPT ![p] = "none"] ELSE lock[r]]
    /\ UNCHANGED <<files, db, loc, client, openVars>>

\* db_close().
CloseDb(p) ==
    /\ Transition(p, "idle", "closed")
    /\ oflag' = [oflag EXCEPT ![p] = {}]
    /\ UNCHANGED <<files, lock, db, loc, client, exists, hdr, opens>>

Open(p) == OpenDat(p) \/ OpenLock(p) \/ OpenFstat(p) \/ OpenWrite(p) \/ OpenUnlock(p)

\* No process is in a function, and the bounds let none begin one.
AllClosed ==
    /\ \A p \in Procs : pc[p] \in {"closed", "exited"}
    /\ opens = MaxOpens
    /\ UNCHANGED allVars

FunctionStep(p) == Open(p) \/ (Step(p) /\ UNCHANGED openVars)

OpenNext ==
    \/ \E p \in Procs :
          \/ FunctionStep(p)
          \/ OpenIdx(p)
          \/ CloseDb(p)
          \/ ReadyForCalls /\ Call(p) /\ UNCHANGED openVars
    \/ AllClosed

\* As in Db, the scheduler runs every process that is in a function.
OpenSpec == OpenInit /\ [][OpenNext]_allVars /\ \A p \in Procs : WF_allVars(FunctionStep(p))
----------------------------------------------------------------------------
\* "Write lock the entire file so that we can stat the file, check its size, and
\* initialize it, as an atomic operation" (open.c:38): no function ever reads a
\* pointer of a file that is not initialised, though it may be called while the
\* initialisation is under way.  (That the pointers are not written over those
\* to stored records is ChainsHoldMap.)
OpenIsReady == \A p \in Procs : pc[p] \notin AtRest \cup Opening \cup {"find"} => hdr

\* Every db_open() and every other call returns or ends its process: the lock on
\* the whole index file waits for all the locks of the other functions, and
\* these wait for it, but nobody waits for ever.
EveryFunctionEnds == \A p \in Procs : (pc[p] \notin AtRest) ~> (pc[p] \in AtRest)
=============================================================================
