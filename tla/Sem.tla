-------------------------------- MODULE Sem --------------------------------
(***************************************************************************)
(* The semaphore library of apue/lib.44/semaph.c: processes that create or *)
(* open, use and close the semaphore of one key.  The semaphore is a       *)
(* System V set of three members: its value, a counter that starts at      *)
(* BIGCOUNT and is one less for every process that has the semaphore, and  *)
(* a lock.  A step is one system call.  The kernel's side is modelled from *)
(* the library's use of it: semop() is atomic, sleeps while an operation   *)
(* is impossible, fails with EINVAL on a set that was removed before the   *)
(* call and with EIDRM on one removed during it; what a process added with *)
(* SEM_UNDO is taken back when it exits.                                   *)
(***************************************************************************)
EXTENDS Integers, FiniteSets

CONSTANTS
    Procs,      \* the processes
    Servers,    \* the processes that remove the semaphore when they are done
    BIGCOUNT,   \* initial value of the process counter
    MaxSets,    \* bound of the model: sets created under the key
    MaxExits    \* bound of the model: processes that exit without sem_close()

VARIABLES
    gen,        \* identifier of the last set created under the key
    live,       \* does that set still exist?
    sem,        \* its three members
    undo,       \* undo[p]: what the exit of p takes back, member by member
    pc,         \* pc[p]: the system call process p makes next
    id,         \* id[p]: the set process p works on, 0 for none
    asleep,     \* the processes that sleep in semop()
    creator,    \* the processes that have the semaphore from sem_create()
    exits       \* number of exits without sem_close()

kernel == <<gen, live, sem, undo>>
vars == <<gen, live, sem, undo, pc, id, asleep, creator, exits>>

ASSUME SemAssumption ==
    /\ BIGCOUNT \in Nat /\ MaxSets \in Nat /\ MaxExits \in Nat
    /\ Servers \subseteq Procs /\ IsFiniteSet(Procs) /\ Cardinality(Procs) < BIGCOUNT

Zero == [val |-> 0, count |-> 0, lock |-> 0]
Plus(s, t) == [m \in {"val", "count", "lock"} |-> s[m] + t[m]]
Minus(s, t) == [m \in {"val", "count", "lock"} |-> s[m] - t[m]]

\* An array of semaphore operations: the members it waits for to be 0, what it
\* then adds to each, and what of that the exit of the process takes back.
Op(zero, val, count, lock) ==
    LET add == [val |-> val, count |-> count, lock |-> lock]
    IN  [zero |-> zero, add |-> add, undo |-> add]

\* The same array without SEM_UNDO.
BUGForget(op) == [op EXCEPT !.undo = Zero]

BUGLockNoUndo == BUGForget(Op({"lock"}, 0, 0, 1))
op_lock == Op({"lock"}, 0, 0, 1)
BUGEndcreateNoCount == Op({}, 0, 0, -1)
op_endcreate == Op({}, 0, -1, -1)
op_open == Op({}, 0, -1, 0)
BUGCloseNoUndo == BUGForget(Op({"lock"}, 0, 1, 1))
op_close == Op({"lock"}, 0, 1, 1)
op_unlock == Op({}, 0, 0, -1)
BUGWaitNoUndo == BUGForget(Op({}, -1, 0, 0))
op_wait == Op({}, -1, 0, 0)
op_signal == Op({}, 1, 0, 0)

\* Does the set of process p still exist?
Valid(p) == live /\ id[p] = gen

Possible(op) ==
    /\ \A m \in op.zero : sem[m] = 0
    /\ \A m \in DOMAIN sem : sem[m] + op.add[m] >= 0

Goto(p, label) == pc' = [pc EXCEPT ![p] = label]

\* exit(): the kernel takes back what the process has added.
Undone(p) == IF Valid(p) THEN Plus(sem, undo[p]) ELSE sem

\* err_sys() and err_dump(): the process prints a message and exits.
Error(p) ==
    /\ Goto(p, "error")
    /\ sem' = Undone(p)
    /\ undo' = [undo EXCEPT ![p] = Zero]
    /\ asleep' = asleep \ {p}
    /\ creator' = creator \ {p}
    /\ UNCHANGED <<gen, live, id, exits>>

\* semop() by process p, from place "from" on to place "to".
Semop(p, op, from, to) ==
    /\ pc[p] = from
    /\ Valid(p)
    /\ Possible(op)
    /\ sem' = Plus(sem, op.add)
    /\ undo' = [undo EXCEPT ![p] = Minus(@, op.undo)]
    /\ asleep' = asleep \ {p}
    /\ Goto(p, to)
    /\ UNCHANGED <<gen, live, id, exits>>

\* semop() has to sleep.
Sleep(p, op, from) ==
    /\ pc[p] = from
    /\ Valid(p)
    /\ ~Possible(op)
    /\ p \notin asleep
    /\ asleep' = asleep \cup {p}
    /\ UNCHANGED <<kernel, pc, id, creator, exits>>

\* semop() or semctl() fails and err_sys() ends the process.
Fails(p, from) ==
    /\ pc[p] = from
    /\ ~Valid(p)
    /\ Error(p)

\* semctl(IPC_RMID): the set is gone, and with it what exits would take back.
Remove(p) ==
    /\ live' = FALSE
    /\ sem' = Zero
    /\ undo' = [q \in Procs |-> Zero]
    /\ Goto(p, "idle")
    /\ id' = [id EXCEPT ![p] = 0]
    /\ creator' = creator \ {p}
    /\ UNCHANGED <<gen, asleep, exits>>
----------------------------------------------------------------------------
Init ==
    /\ gen = 0
    /\ live = FALSE
    /\ sem = Zero
    /\ undo = [p \in Procs |-> Zero]
    /\ pc = [p \in Procs |-> "idle"]
    /\ id = [p \in Procs |-> 0]
    /\ asleep = {}
    /\ creator = {}
    /\ exits = 0

\* sem_create(): semget(IPC_CREAT), which makes a set of three zeros if there is
\* none.
Create(p) ==
    /\ pc[p] \in {"idle", "create"}
    /\ live \/ gen < MaxSets
    /\ gen' = IF live THEN gen ELSE gen + 1
    /\ live' = TRUE
    /\ id' = [id EXCEPT ![p] = gen']
    /\ Goto(p, "create.lock")
    /\ UNCHANGED <<sem, undo, asleep, creator, exits>>

\* sem_create(): get the lock.
CreateLock(p) ==
    \/ Semop(p, op_lock, "create.lock", "create.getval") /\ UNCHANGED creator
    \/ Sleep(p, op_lock, "create.lock")

\* The set was removed since semget(): EINVAL, go back and create it again.
CreateAgain(p) ==
    /\ pc[p] = "create.lock"
    /\ ~Valid(p)
    /\ p \notin asleep
    /\ Goto(p, "create")
    /\ UNCHANGED <<kernel, id, asleep, creator, exits>>

\* The set was removed while the process slept: EIDRM, err_sys("can't lock").
CreateRemoved(p) == p \in asleep /\ Fails(p, "create.lock")

\* sem_create(): the process counter tells if the set has been initialised.
CreateGetval(p) ==
    \/ /\ pc[p] = "create.getval"
       /\ Valid(p)
       /\ Goto(p, IF sem.count = 0 THEN "create.setval0" ELSE "create.end")
       /\ UNCHANGED <<kernel, id, asleep, creator, exits>>
    \/ Fails(p, "create.getval")

\* semctl(SETVAL) of a member: nobody's exit takes back anything of it any more.
Setval(p, m, v, from, to) ==
    \/ /\ pc[p] = from
       /\ Valid(p)
       /\ sem' = [sem EXCEPT ![m] = v]
       /\ undo' = [q \in Procs |-> [undo[q] EXCEPT ![m] = 0]]
       /\ Goto(p, to)
       /\ UNCHANGED <<gen, live, id, asleep, creator, exits>>
    \/ Fails(p, from)

\* The initial value is 1: the semaphore of a critical section.
CreateSetval0(p) == Setval(p, "val", 1, "create.setval0", "create.setval1")
CreateSetval1(p) == Setval(p, "count", BIGCOUNT, "create.setval1", "create.end")

\* sem_create(): count this process and unlock.
CreateEnd(p) ==
    \/ /\ Semop(p, op_endcreate, "create.end", "using")
       /\ creator' = creator \cup {p}
    \/ Fails(p, "create.end")

\* sem_open(): semget() of a set that exists; without one it returns -1.
Open(p) ==
    /\ pc[p] = "idle"
    /\ live
    /\ id' = [id EXCEPT ![p] = gen]
    /\ Goto(p, "open.semop")
    /\ UNCHANGED <<kernel, asleep, creator, exits>>

\* sem_open(): count this process, without the lock.
OpenSemop(p) ==
    \/ Semop(p, op_open, "open.semop", "using") /\ UNCHANGED creator
    \/ Sleep(p, op_open, "open.semop")
    \/ Fails(p, "open.semop")
----------------------------------------------------------------------------
\* sem_wait() and sem_signal() around a critical section.
Wait(p) ==
    \/ Semop(p, op_wait, "using", "holding") /\ UNCHANGED creator
    \/ Sleep(p, op_wait, "using")
    \/ Fails(p, "using")

Signal(p) ==
    \/ Semop(p, op_signal, "holding", "using") /\ UNCHANGED creator
    \/ Fails(p, "holding")

\* sem_close(): lock, and one process less.  (A process in sem_wait() cannot
\* call it.)
Close(p) ==
    \/ /\ p \notin asleep \cup Servers
       /\ pc[p] = "using"
       /\ Goto(p, "close.semop")
       /\ UNCHANGED <<kernel, id, asleep, creator, exits>>
    \/ Semop(p, op_close, "close.semop", "close.getval") /\ creator' = creator \ {p}
    \/ Sleep(p, op_close, "close.semop")
    \/ Fails(p, "close.semop")

BUGCloseEarly(p) ==
    \/ /\ pc[p] = "close.getval"
       /\ Valid(p)
       /\ Goto(p, IF sem.count >= BIGCOUNT - 1 THEN "close.rm" ELSE "close.unlock")
       /\ UNCHANGED <<kernel, id, asleep, creator, exits>>
    \/ Fails(p, "close.getval")

\* sem_close(): is this the last process?
CloseGetval(p) ==
    \/ /\ pc[p] = "close.getval"
       /\ Valid(p)
       /\ IF sem.count > BIGCOUNT
          THEN Error(p)
          ELSE /\ Goto(p, IF sem.count = BIGCOUNT THEN "close.rm" ELSE "close.unlock")
               /\ UNCHANGED <<kernel, id, asleep, creator, exits>>
    \/ Fails(p, "close.getval")

\* sem_close(): the last process removes the semaphore ...
CloseRm(p) ==
    \/ pc[p] = "close.rm" /\ Valid(p) /\ Remove(p)
    \/ Fails(p, "close.rm")

\* ... another one unlocks it.
CloseUnlock(p) ==
    \/ /\ Semop(p, op_unlock, "close.unlock", "idle")
       /\ UNCHANGED creator
    \/ Fails(p, "close.unlock")

\* sem_rm(): a server that is being shut down removes the semaphore, whoever
\* uses it.
Rm(p) ==
    /\ p \in Servers \ asleep
    /\ pc[p] = "using"
    /\ \/ Valid(p) /\ Remove(p)
       \/ Fails(p, "using")

\* A process exits, or is killed, and a new one takes its place.
Exit(p) ==
    /\ exits < MaxExits
    /\ pc[p] # "idle"
    /\ exits' = exits + 1
    /\ sem' = Undone(p)
    /\ undo' = [undo EXCEPT ![p] = Zero]
    /\ Goto(p, "idle")
    /\ id' = [id EXCEPT ![p] = 0]
    /\ asleep' = asleep \ {p}
    /\ creator' = creator \ {p}
    /\ UNCHANGED <<gen, live>>

Step(p) ==
    \/ Create(p) \/ CreateLock(p) \/ CreateAgain(p) \/ CreateRemoved(p)
    \/ CreateGetval(p) \/ CreateSetval0(p) \/ CreateSetval1(p) \/ CreateEnd(p)
    \/ Open(p) \/ OpenSemop(p)
    \/ Wait(p) \/ Signal(p)
    \/ Close(p) \/ CloseGetval(p) \/ CloseRm(p) \/ CloseUnlock(p)
    \/ Rm(p) \/ Exit(p)

\* The program may stop: the bounds are reached, every process was ended by an
\* error, or what is left waits in sem_open() for a creator that died between
\* semget() and the initialisation.
Abandoned(p) == p \in asleep /\ pc[p] = "open.semop" /\ sem.count = 0 /\ sem.lock = 0
Finished ==
    /\ \A p \in Procs :
          \/ pc[p] = "error"
          \/ pc[p] \in {"idle", "create"} /\ ~live /\ gen = MaxSets
          \/ Abandoned(p)
    /\ UNCHANGED vars

Next == (\E p \in Procs : Step(p)) \/ Finished

Spec == Init /\ [][Next]_vars
----------------------------------------------------------------------------
Members == {"val", "count", "lock"}
Labels ==
    {"idle", "create", "create.lock", "create.getval", "create.setval0",
     "create.setval1", "create.end", "open.semop", "using", "holding",
     "close.semop", "close.getval", "close.rm", "close.unlock", "error"}

\* Every variable has its type; no member is ever negative or above BIGCOUNT, so
\* that sem_close() never calls err_dump() (semaph.c:248).
TypeOK ==
    /\ gen \in 0..MaxSets /\ live \in BOOLEAN
    /\ sem \in [Members -> 0..BIGCOUNT]
    /\ undo \in [Procs -> [Members -> -1..1]]
    /\ pc \in [Procs -> Labels]
    /\ id \in [Procs -> 0..MaxSets]
    /\ asleep \subseteq Procs /\ creator \subseteq Procs
    /\ exits \in 0..MaxExits

On(labels) == {p \in Procs : pc[p] \in labels /\ Valid(p)}

Locking ==
    On({"create.getval", "create.setval0", "create.setval1", "create.end",
        "close.getval", "close.rm", "close.unlock"})
Users == On({"using", "holding", "close.semop"})
Holders == On({"holding"})

\* The lock member is 1 exactly while one process is between the lock and the
\* unlock of sem_create() or sem_close(): whoever exits or fails there leaves
\* no lock behind.
LockHeld == Cardinality(Locking) = sem.lock /\ sem.lock <= 1

\* "The counter is initialized to a large number, decremented on every create
\* or open and incremented on every close ... any process that exit's without
\* calling sem_close() is accounted for" (semaph.c:17): once the set is
\* initialised the counter is BIGCOUNT less the processes that use it.
CounterCorrect ==
    IF sem.count = 0 THEN Users = {} ELSE sem.count = BIGCOUNT - Cardinality(Users)

\* In an initialised set the value is 1 less the process in the critical
\* section, and there is at most one: nobody initialises a semaphore that is in
\* use, and an exit in the critical section opens it again.
CriticalSection ==
    live /\ sem.count # 0 => sem.val = 1 - Cardinality(Holders)

\* sem_close() removes the set only when no process has it from sem_create().
CreatorsKeepIt ==
    \A p \in Procs : pc[p] = "close.rm" /\ Valid(p) => creator \cap Users = {}

\* "We 'decrement' the counter of processes using the semaphore, and if this was
\* the last one, we can remove the semaphore" (semaph.c:219), and sem_open()
\* does not need the lock to be counted among them (semaph.c:190).
UsersKeepIt ==
    \A p \in Procs : pc[p] = "close.rm" /\ Valid(p) => Users = {}

\* "We handle the error condition of an invalid semaphore ID specially below,
\* and if it does happen, we just go back and create it again" (semaph.c:120):
\* no sem_create() fails because a sem_close() removed the set after semget().
CreateSucceeds ==
    [][\A p \in Procs : pc[p] = "create.lock" => pc'[p] # "error"]_vars
=============================================================================
