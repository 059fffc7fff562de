-------------------------------- MODULE Shm --------------------------------
(***************************************************************************)
(* The shared memory example of src_C/server.cpp and src_C/client.cpp: a   *)
(* server that creates a set of two semaphores and a segment of shared     *)
(* memory, receives NUMMSG messages and removes both, and clients, each of *)
(* which puts one message into the segment.  Semaphore inuse (number 0 in  *)
(* the code) is meant to be 1 while the segment is being used, semaphore   *)
(* changed (number 1) to be 1 when a client has changed it.  A step is one *)
(* system call or one access to the segment, which is whole: all clients   *)
(* write the same text, so a copy that the server reads before it is       *)
(* complete does not differ from the one it overwrites.  Nothing is       *)
(* called with SEM_UNDO: a process that is killed leaves the semaphores as *)
(* they are.  The server may be started again when it has ended; it is     *)
(* never killed.                                                           *)
(***************************************************************************)
EXTENDS Integers, FiniteSets

CONSTANTS
    Clients,    \* the client processes
    NUMMSG,     \* the number of messages the server receives
    MaxRuns,    \* bound of the model: runs of the server
    MaxKills    \* bound of the model: clients killed

VARIABLES
    run,        \* the run of the server: the identifier of what it creates
    set,        \* the semaphore set that exists, 0 if there is none
    seg,        \* the shared memory segment that exists, 0 if there is none
    inuse, changed,     \* the two semaphores of the set
    server,     \* the system call the server makes next
    received,   \* number of messages this run has received
    client,     \* client[c]: the system call client c makes next
    semid, shmid,       \* the set and the segment client c works on, 0 for none
    text,       \* history: the client whose message the segment holds, none if {}
    sent,       \* history: number of clients of this set that have written and told
    printed,    \* history: the clients whose message this run has printed
    kills       \* number of clients killed

semaphores == <<inuse, changed, sent>>
memory == <<text, printed>>
ids == <<semid, shmid>>
vars == <<run, set, seg, semaphores, memory, server, received, client, ids, kills>>

ASSUME ShmAssumption ==
    IsFiniteSet(Clients) /\ NUMMSG \in Nat /\ MaxRuns \in Nat /\ MaxKills \in Nat

ServerGoto(label) == server' = label
ClientGoto(c, label) == client' = [client EXCEPT ![c] = label]

Init ==
    /\ run = 0 /\ set = 0 /\ seg = 0
    /\ inuse = 0 /\ changed = 0 /\ sent = 0
    /\ text = {} /\ printed = {}
    /\ server = "ended" /\ received = 0
    /\ client = [c \in Clients |-> "semget"]
    /\ semid = [c \in Clients |-> 0] /\ shmid = [c \in Clients |-> 0]
    /\ kills = 0
----------------------------------------------------------------------------
\* The server: semget(IPC_CREAT | IPC_EXCL).
ServerSemget ==
    /\ server = "ended" /\ run < MaxRuns
    /\ set = 0
    /\ run' = run + 1 /\ set' = run'
    /\ inuse' = 0 /\ changed' = 0 /\ sent' = 0
    /\ received' = 0 /\ printed' = {}
    /\ ServerGoto("setall")
    /\ UNCHANGED <<seg, text, client, ids, kills>>

\* The server: semctl(SETALL), then shmget(IPC_CREAT | IPC_EXCL) and shmat().
ServerSetall ==
    /\ server = "setall"
    /\ inuse' = 0 /\ changed' = 0
    /\ ServerGoto("shmget")
    /\ UNCHANGED <<run, set, seg, sent, memory, received, client, ids, kills>>

ServerShmget ==
    /\ server = "shmget" /\ seg = 0
    /\ seg' = run /\ text' = {}
    /\ ServerGoto("receive")
    /\ UNCHANGED <<run, set, semaphores, printed, received, client, ids, kills>>

\* The same two calls in the other order.
BUGSegmentFirst ==
    \/ /\ server = "setall" /\ seg = 0
       /\ seg' = run /\ text' = {}
       /\ ServerGoto("shmget")
       /\ UNCHANGED <<run, set, semaphores, printed, received, client, ids, kills>>
    \/ /\ server = "shmget"
       /\ inuse' = 0 /\ changed' = 0
       /\ ServerGoto("receive")
       /\ UNCHANGED <<run, set, seg, sent, memory, received, client, ids, kills>>

ServerCreate == ServerSetall \/ ServerShmget

\* The server waits for a change and marks the segment as used, without waiting
\* for another user of the segment.
ServerReceive ==
    /\ server = "receive" /\ received < NUMMSG
    /\ changed > 0
    /\ changed' = changed - 1 /\ inuse' = inuse + 1
    /\ received' = received + 1
    /\ ServerGoto("print")
    /\ UNCHANGED <<run, set, seg, sent, memory, client, ids, kills>>

\* The server prints what the segment holds, and sleeps.
ServerPrint ==
    /\ server = "print"
    /\ printed' = printed \cup text
    /\ ServerGoto("release")
    /\ UNCHANGED <<run, set, seg, semaphores, text, received, client, ids, kills>>

BUGServerKeepsSegment ==
    /\ server = "release"
    /\ ServerGoto("receive")
    /\ UNCHANGED <<run, set, seg, semaphores, memory, received, client, ids, kills>>

\* The server frees the segment, with IPC_NOWAIT.
ServerRelease ==
    /\ server = "release"
    /\ inuse' = IF inuse > 0 THEN inuse - 1 ELSE inuse
    /\ ServerGoto(IF inuse > 0 THEN "receive" ELSE "failed")
    /\ UNCHANGED <<run, set, seg, changed, sent, memory, received, client, ids, kills>>

\* The server removes the set, whoever uses it, detaches the segment ...
ServerRemoveSet ==
    /\ server = "receive" /\ received = NUMMSG
    /\ set' = 0
    /\ inuse' = 0 /\ changed' = 0 /\ sent' = 0
    /\ ServerGoto("shmctl")
    /\ UNCHANGED <<run, seg, memory, received, client, ids, kills>>

\* ... and removes it.
ServerRemoveSegment ==
    /\ server = "shmctl"
    /\ seg' = 0 /\ text' = {}
    /\ ServerGoto("ended")
    /\ UNCHANGED <<run, set, semaphores, printed, received, client, ids, kills>>
----------------------------------------------------------------------------
\* A client: semget() and shmget() of what exists, and shmat().
ClientSemget(c) ==
    /\ client[c] = "semget"
    /\ semid' = [semid EXCEPT ![c] = set]
    /\ ClientGoto(c, IF set = 0 THEN "failed" ELSE "shmget")
    /\ UNCHANGED <<run, set, seg, semaphores, memory, server, received, shmid, kills>>

ClientShmget(c) ==
    /\ client[c] = "shmget"
    /\ shmid' = [shmid EXCEPT ![c] = seg]
    /\ ClientGoto(c, IF seg = 0 THEN "failed" ELSE "acquire")
    /\ UNCHANGED <<run, set, seg, semaphores, memory, server, received, semid, kills>>

\* semop() fails: the set was removed before the call or during it.
ClientFails(c) ==
    /\ client[c] \in {"acquire", "release"}
    /\ semid[c] # set
    /\ ClientGoto(c, "failed")
    /\ UNCHANGED <<run, set, seg, semaphores, memory, server, received, ids, kills>>

\* A client waits for the segment to be free and marks it as used.
ClientAcquire(c) ==
    /\ client[c] = "acquire" /\ semid[c] = set
    /\ inuse = 0
    /\ inuse' = inuse + 1
    /\ ClientGoto(c, "write")
    /\ UNCHANGED <<run, set, seg, changed, sent, memory, server, received, ids, kills>>

\* The client copies its message into the segment it has attached, over the one
\* that is there.
ClientWrite(c) ==
    /\ client[c] = "write"
    /\ text' = IF shmid[c] = seg THEN {c} ELSE text
    /\ ClientGoto(c, "release")
    /\ UNCHANGED <<run, set, seg, semaphores, printed, server, received, ids, kills>>

\* The client frees the segment and tells the server.
ClientRelease(c) ==
    /\ client[c] = "release" /\ semid[c] = set
    /\ inuse > 0
    /\ inuse' = inuse - 1 /\ changed' = changed + 1 /\ sent' = sent + 1
    /\ ClientGoto(c, "done")
    /\ UNCHANGED <<run, set, seg, memory, server, received, ids, kills>>

\* The same two steps in the other order.
BUGSignalFirst(c) ==
    \/ /\ client[c] = "write" /\ semid[c] = set
       /\ inuse > 0
       /\ inuse' = inuse - 1 /\ changed' = changed + 1 /\ sent' = sent + 1
       /\ ClientGoto(c, "release")
       /\ UNCHANGED <<run, set, seg, memory, server, received, ids, kills>>
    \/ /\ client[c] = "release"
       /\ text' = IF shmid[c] = seg THEN {c} ELSE text
       /\ ClientGoto(c, "done")
       /\ UNCHANGED <<run, set, seg, semaphores, printed, server, received, ids, kills>>

ClientSend(c) == ClientWrite(c) \/ ClientRelease(c)

\* A client is killed between its two calls of semop().
ClientKilled(c) ==
    /\ client[c] \in {"write", "release"} /\ kills < MaxKills
    /\ kills' = kills + 1
    /\ ClientGoto(c, "killed")
    /\ UNCHANGED <<run, set, seg, semaphores, memory, server, received, ids>>

ServerStep ==
    \/ ServerCreate \/ ServerReceive \/ ServerPrint \/ ServerRelease
    \/ ServerRemoveSet \/ ServerRemoveSegment
ClientStep(c) ==
    \/ ClientSemget(c) \/ ClientShmget(c) \/ ClientFails(c)
    \/ ClientAcquire(c) \/ ClientSend(c)

Next == ServerSemget \/ ServerStep \/ \E c \in Clients : ClientStep(c) \/ ClientKilled(c)

\* The scheduler is fair; nobody has to start the server or to kill a client.
Spec ==
    /\ Init /\ [][Next]_vars
    /\ WF_vars(ServerStep)
    /\ \A c \in Clients : WF_vars(ClientStep(c))
----------------------------------------------------------------------------
\* The clients that are at one of the labels and work on the set that exists.
At(labels) == {c \in Clients : client[c] \in labels /\ set # 0 /\ semid[c] = set}

TypeOK ==
    /\ run \in 0..MaxRuns /\ set \in {0, run} /\ seg \in {0, run}
    /\ inuse \in Nat /\ changed \in Nat
    /\ server \in {"ended", "setall", "shmget", "receive", "print", "release", "shmctl",
                  "failed"}
    /\ received \in 0..NUMMSG
    /\ client \in [Clients -> {"semget", "shmget", "acquire", "write", "release",
                                "done", "failed", "killed"}]
    /\ semid \in [Clients -> 0..MaxRuns] /\ shmid \in [Clients -> 0..MaxRuns]
    /\ text \subseteq Clients /\ printed \subseteq Clients
    /\ sent \in Nat /\ kills \in 0..MaxKills

\* Semaphore 0 counts the users of the segment: the clients between their two
\* calls of semop(), those killed there, and the server until it releases.  So no
\* release ever waits or fails.  It can be 2: the server does not wait for a client
\* that is writing.
UsersCounted ==
    inuse = Cardinality(At({"write", "release", "killed"}))
            + (IF server \in {"print", "release"} THEN 1 ELSE 0)

\* At most one client is between its two calls of semop(), and it writes into the
\* segment the server reads: no client gets past shmget() before the server has
\* initialised the set, and none has a segment of an earlier run.
OneWriter ==
    /\ Cardinality(At({"write", "release", "killed"})) <= 1
    /\ \A c \in At({"write", "release"}) : shmid[c] = run

\* The message written last is not missed.  If its client has told the server, it
\* has been printed, is being printed, or will be the next to be: semaphore 1 is
\* still up, and no receive uses up the signal of more than one client.  This is
\* all the code gives: a message that the next client writes over before the
\* server has printed it is lost, and the later one printed twice.
NewestReceived ==
    set # 0 =>
        /\ sent = changed + received
        /\ changed = 0 /\ server # "print" => text \cap At({"done"}) \subseteq printed

\* A client that waits for the segment ends, with its message sent or because the
\* server has removed the set, unless a client was killed while it wrote.
ClientsEnd ==
    \A c \in Clients :
        client[c] = "acquire" ~> client[c] \in {"done", "failed", "killed"} \/ kills > 0
=============================================================================
