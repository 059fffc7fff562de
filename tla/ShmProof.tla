------------------------------ MODULE ShmProof ------------------------------
(***************************************************************************)
(* Proofs about the shared memory example, for every number of clients,    *)
(* messages, runs of the server and clients killed.                        *)
(***************************************************************************)
EXTENDS Shm, FiniteSetTheorems, TLAPS

\* The users of the segment among the clients.
Users == At({"write", "release", "killed"})

\* The set and the segment exist from their creation to their removal, with the
\* number of the run that created them.
Lifetimes ==
    /\ server # "failed"
    /\ server # "ended" => run # 0
    /\ set = IF server \in {"ended", "shmctl"} THEN 0 ELSE run
    /\ seg = IF server \in {"receive", "print", "release", "shmctl"} THEN run ELSE 0
    /\ seg = 0 => text = {}

\* A client works on a set that was created, and if it is that of the last run it
\* got to semop() after the server had initialised it, with the segment of that run.
ClientIds(c) ==
    /\ semid[c] <= run
    /\ client[c] \in {"shmget", "acquire", "write", "release", "killed"} => semid[c] # 0
    /\ client[c] \in {"acquire", "write", "release"} => shmid[c] # 0
    /\ client[c] \in {"acquire", "write", "release", "killed"} /\ semid[c] = run =>
            shmid[c] = run /\ server \notin {"setall", "shmget"}

\* A new set has no messages.
NewSet == server = "setall" => sent = 0 /\ received = 0

IInv ==
    /\ TypeOK /\ Lifetimes /\ NewSet
    /\ \A c \in Clients : ClientIds(c)
    /\ UsersCounted /\ OneWriter /\ NewestReceived

----------------------------------------------------------------------------
\* Users is a finite set of clients, so that one more or less counts one.
LEMMA UsersFinite == IsFiniteSet(Users) /\ Cardinality(Users) \in Nat
<1>1. Users \subseteq Clients
  BY DEF Users, At
<1> QED
  BY <1>1, ShmAssumption, FS_Subset, FS_CardinalityType

\* Nobody uses a set that does not exist or that nobody has got to.
LEMMA NoUsers == Users = {} => Cardinality(Users) = 0
  BY FS_EmptySet

LEMMA InitInv == Init => IInv
<1> SUFFICES ASSUME Init PROVE IInv
  OBVIOUS
<1> USE ShmAssumption DEF Init
<1>1. TypeOK
  BY DEF TypeOK
<1>2. Lifetimes /\ NewSet
  BY DEF Lifetimes, NewSet
<1>3. \A c \in Clients : ClientIds(c)
  BY DEF ClientIds
<1>4. Users = {} /\ At({"write", "release"}) = {}
  BY DEF Users, At
<1>5. UsersCounted /\ OneWriter
  BY <1>4, NoUsers DEF UsersCounted, OneWriter, Users
<1>6. NewestReceived
  BY DEF NewestReceived
<1> QED
  BY <1>1, <1>2, <1>3, <1>5, <1>6 DEF IInv

\* Every step keeps the types.
LEMMA TypeStep == IInv /\ [Next]_vars => TypeOK'
<1> SUFFICES ASSUME IInv, [Next]_vars PROVE TypeOK'
  OBVIOUS
<1> USE ShmAssumption DEF IInv, TypeOK, ServerGoto, ClientGoto, ids, semaphores, memory
<1>1. CASE ServerSemget
  BY <1>1 DEF ServerSemget, Lifetimes
<1>2. CASE ServerCreate
  BY <1>2 DEF ServerCreate, ServerSetall, ServerShmget
<1>3. CASE ServerReceive
  BY <1>3 DEF ServerReceive
<1>4. CASE ServerPrint \/ ServerRelease
  BY <1>4 DEF ServerPrint, ServerRelease
<1>5. CASE ServerRemoveSet
  BY <1>5 DEF ServerRemoveSet
<1>6. CASE ServerRemoveSegment
  BY <1>6 DEF ServerRemoveSegment
<1>7. ASSUME NEW c \in Clients, ClientSemget(c) PROVE TypeOK'
  BY <1>7 DEF ClientSemget
<1>8. ASSUME NEW c \in Clients, ClientShmget(c) PROVE TypeOK'
  BY <1>8 DEF ClientShmget
<1>9. ASSUME NEW c \in Clients, ClientFails(c) PROVE TypeOK'
  BY <1>9 DEF ClientFails
<1>10. ASSUME NEW c \in Clients, ClientAcquire(c) PROVE TypeOK'
  BY <1>10 DEF ClientAcquire
<1>11. ASSUME NEW c \in Clients, ClientSend(c) PROVE TypeOK'
  BY <1>11 DEF ClientSend, ClientWrite, ClientRelease
<1>12. ASSUME NEW c \in Clients, ClientKilled(c) PROVE TypeOK'
  BY <1>12 DEF ClientKilled
<1>13. CASE UNCHANGED vars
  BY <1>13 DEF vars
<1> QED
  BY <1>1, <1>2, <1>3, <1>4, <1>5, <1>6, <1>7, <1>8, <1>9, <1>10, <1>11, <1>12, <1>13
     DEF Next, ServerStep, ClientStep

\* Until the server releases, semaphore 0 is not zero: its release does not fail.
LEMMA PrintCounted == IInv /\ server \in {"print", "release"} => inuse > 0
  BY UsersFinite DEF IInv, UsersCounted, Users

\* Every step keeps the life of the set and the segment in order.
LEMMA LifetimeStep == IInv /\ [Next]_vars => Lifetimes' /\ NewSet'
<1> SUFFICES ASSUME IInv, [Next]_vars PROVE Lifetimes' /\ NewSet'
  OBVIOUS
<1> USE ShmAssumption DEF IInv, TypeOK, Lifetimes, NewSet, ServerGoto, ClientGoto, ids, semaphores, memory
<1>1. CASE ServerSemget
  BY <1>1 DEF ServerSemget
<1>2. CASE ServerCreate
  BY <1>2 DEF ServerCreate, ServerSetall, ServerShmget
<1>3. CASE ServerReceive
  BY <1>3 DEF ServerReceive
<1>4. CASE ServerPrint \/ ServerRelease
  BY <1>4, PrintCounted DEF ServerPrint, ServerRelease
<1>5. CASE ServerRemoveSet
  BY <1>5 DEF ServerRemoveSet
<1>6. CASE ServerRemoveSegment
  BY <1>6 DEF ServerRemoveSegment
<1>7. ASSUME NEW c \in Clients, ClientStep(c) \/ ClientKilled(c) PROVE Lifetimes' /\ NewSet'
  <2>1. UNCHANGED <<run, set, seg, server, received>> /\ (seg = 0 => UNCHANGED text)
        /\ (server = "setall" => UNCHANGED sent)
    BY <1>7 DEF ClientStep, ClientSemget, ClientShmget, ClientFails, ClientAcquire,
         ClientSend, ClientWrite, ClientRelease, ClientKilled, ClientIds
  <2> QED
    BY <2>1
<1>8. CASE UNCHANGED vars
  BY <1>8 DEF vars
<1> QED
  BY <1>1, <1>2, <1>3, <1>4, <1>5, <1>6, <1>7, <1>8 DEF Next, ServerStep

\* Every step keeps what is known of the identifiers of each client.
LEMMA IdsStep == IInv /\ [Next]_vars => \A c \in Clients : ClientIds(c)'
<1> SUFFICES ASSUME IInv, [Next]_vars, NEW c \in Clients PROVE ClientIds(c)'
  OBVIOUS
<1> USE ShmAssumption DEF IInv, TypeOK, ClientIds, Lifetimes, ServerGoto, ClientGoto, ids, memory
<1>1. CASE ServerSemget
  BY <1>1 DEF ServerSemget
<1>2. CASE ServerStep
  BY <1>2 DEF ServerStep, ServerCreate, ServerSetall, ServerShmget, ServerReceive, ServerPrint, ServerRelease,
       ServerRemoveSet, ServerRemoveSegment
<1>3. ASSUME NEW d \in Clients, ClientSemget(d) PROVE ClientIds(c)'
  BY <1>3 DEF ClientSemget
<1>4. ASSUME NEW d \in Clients, ClientShmget(d) PROVE ClientIds(c)'
  BY <1>4 DEF ClientShmget
<1>5. ASSUME NEW d \in Clients, ClientFails(d) PROVE ClientIds(c)'
  BY <1>5 DEF ClientFails
<1>6. ASSUME NEW d \in Clients, ClientAcquire(d) PROVE ClientIds(c)'
  BY <1>6 DEF ClientAcquire
<1>7. ASSUME NEW d \in Clients, ClientSend(d) PROVE ClientIds(c)'
  BY <1>7 DEF ClientSend, ClientWrite, ClientRelease
<1>8. ASSUME NEW d \in Clients, ClientKilled(d) PROVE ClientIds(c)'
  BY <1>8 DEF ClientKilled
<1>9. CASE UNCHANGED vars
  BY <1>9 DEF vars
<1> QED
  BY <1>1, <1>2, <1>3, <1>4, <1>5, <1>6, <1>7, <1>8, <1>9 DEF Next, ClientStep

\* Every step keeps the count of the users, one writer at most among them.
LEMMA CountStep == IInv /\ [Next]_vars => UsersCounted' /\ OneWriter'
<1> DEFINE Counts == inuse = Cardinality(Users) + (IF server \in {"print", "release"} THEN 1 ELSE 0)
           Goal == Counts' /\ Cardinality(Users') <= 1
<1> SUFFICES ASSUME IInv, [Next]_vars PROVE UsersCounted' /\ OneWriter'
  OBVIOUS
<1> SUFFICES Goal
  <2>1. \A c \in Clients : client'[c] \in {"write", "release"} /\ set' # 0 /\ semid'[c] = set' => shmid'[c] = run'
    BY IdsStep, LifetimeStep DEF ClientIds, Lifetimes
  <2> QED
    BY <2>1 DEF UsersCounted, OneWriter, Users, At
<1>0. Counts /\ Cardinality(Users) \in Nat /\ Cardinality(Users) <= 1 /\ IsFiniteSet(Users)
  BY UsersFinite DEF IInv, UsersCounted, OneWriter, Users
<1> USE ShmAssumption DEF IInv, TypeOK, Lifetimes, NewSet, ServerGoto,
      ClientGoto, ids, semaphores, memory
<1>1. CASE ServerSemget
  <2>1. Users' = {}
    BY <1>1 DEF ServerSemget, Users, At, ClientIds
  <2> QED
    BY <1>1, <2>1, FS_EmptySet DEF ServerSemget
<1>2. CASE ServerSetall
  <2>1. Users' = {}
    BY <1>2 DEF ServerSetall, Users, At, ClientIds
  <2> QED
    BY <1>2, <2>1, FS_EmptySet DEF ServerSetall
<1>3. CASE ServerShmget
  <2>1. Users' = Users
    BY <1>3 DEF ServerShmget, Users, At
  <2> QED
    BY <1>0, <1>3, <2>1 DEF ServerShmget
<1>4. CASE ServerReceive
  <2>1. Users' = Users
    BY <1>4 DEF ServerReceive, Users, At
  <2> QED
    BY <1>0, <1>4, <2>1 DEF ServerReceive
<1>5. CASE ServerRelease
  <2>1. Users' = Users
    BY <1>5 DEF ServerRelease, Users, At
  <2> QED
    BY <1>0, <1>5, <2>1 DEF ServerRelease
<1>6. CASE ServerRemoveSet
  <2>1. Users' = {}
    BY <1>6 DEF ServerRemoveSet, Users, At
  <2> QED
    BY <1>6, <2>1, FS_EmptySet DEF ServerRemoveSet
<1>7. CASE ServerRemoveSegment
  <2>1. Users' = Users
    BY <1>7 DEF ServerRemoveSegment, Users, At
  <2> QED
    BY <1>0, <1>7, <2>1 DEF ServerRemoveSegment
<1>8. ASSUME NEW c \in Clients, ClientSemget(c) \/ ClientShmget(c) \/ ClientFails(c) \/ ClientKilled(c)
      PROVE  Goal
  <2>1. Users' = Users
    BY <1>8 DEF ClientSemget, ClientShmget, ClientFails, ClientKilled, Users, At
  <2>2. UNCHANGED <<set, inuse, changed, sent, server, received>>
    BY <1>8 DEF ClientSemget, ClientShmget, ClientFails, ClientKilled
  <2> QED
    BY <1>0, <2>1, <2>2
<1>9. ASSUME NEW c \in Clients, ClientAcquire(c) PROVE Goal
  <2>1. Users = {} /\ server \notin {"print", "release"}
    BY <1>0, <1>9, FS_EmptySet DEF ClientAcquire
  <2>2. Users' = {c}
    BY <1>9, <2>1 DEF ClientAcquire, Users, At, ClientIds
  <2>3. Cardinality({c}) = 1
    BY FS_Singleton
  <2> QED
    BY <1>9, <2>1, <2>2, <2>3 DEF ClientAcquire
<1>10. ASSUME NEW c \in Clients, ClientRelease(c) PROVE Goal
  <2>1. c \in Users /\ Users' = Users \ {c}
    BY <1>10 DEF ClientRelease, Users, At, ClientIds
  <2>2. Cardinality(Users') = Cardinality(Users) - 1
    BY <1>0, <2>1, FS_RemoveElement
  <2> QED
    BY <1>0, <1>10, <2>2 DEF ClientRelease
<1>11. ASSUME NEW c \in Clients, ClientWrite(c) PROVE Goal
  <2>1. Users' = Users
    BY <1>11 DEF ClientWrite, Users, At
  <2> QED
    BY <1>0, <1>11, <2>1 DEF ClientWrite
<1>12. CASE ServerPrint
  <2>1. Users' = Users
    BY <1>12 DEF ServerPrint, Users, At
  <2> QED
    BY <1>0, <1>12, <2>1 DEF ServerPrint
<1>13. CASE UNCHANGED vars
  <2>1. Users' = Users
    BY <1>13 DEF vars, Users, At
  <2> QED
    BY <1>0, <1>13, <2>1 DEF vars
<1> QED
  BY <1>1, <1>2, <1>3, <1>4, <1>5, <1>6, <1>7, <1>8, <1>9, <1>10, <1>11, <1>12, <1>13
     DEF Next, ServerStep, ServerCreate, ClientStep, ClientSend

\* Every step keeps the newest message from being missed.
LEMMA NewestStep == IInv /\ [Next]_vars => NewestReceived'
<1> SUFFICES ASSUME IInv, [Next]_vars PROVE NewestReceived'
  OBVIOUS
<1> USE ShmAssumption DEF IInv, TypeOK, Lifetimes, NewSet, NewestReceived, At, ServerGoto,
      ClientGoto, ids, semaphores, memory
<1>1. CASE ServerSemget
  <2>1. At({"done"})' = {}
    BY <1>1 DEF ServerSemget, ClientIds
  <2> QED
    BY <1>1, <2>1 DEF ServerSemget
<1>2. CASE ServerCreate
  BY <1>2 DEF ServerCreate, ServerSetall, ServerShmget
<1>3. CASE ServerReceive
  BY <1>3 DEF ServerReceive
<1>4. CASE ServerPrint
  BY <1>4 DEF ServerPrint
<1>5. CASE ServerRelease
  BY <1>5 DEF ServerRelease
<1>6. CASE ServerRemoveSet \/ ServerRemoveSegment
  BY <1>6 DEF ServerRemoveSet, ServerRemoveSegment
<1>7. ASSUME NEW c \in Clients, ClientSemget(c) \/ ClientShmget(c) \/ ClientFails(c) \/ ClientAcquire(c)
                \/ ClientKilled(c)
      PROVE  NewestReceived'
  <2>1. At({"done"})' \subseteq At({"done"}) /\ UNCHANGED <<set, changed, sent, memory, server, received>>
    BY <1>7 DEF ClientSemget, ClientShmget, ClientFails, ClientAcquire, ClientKilled
  <2> QED
    BY <2>1
<1>8. ASSUME NEW c \in Clients, ClientWrite(c) PROVE NewestReceived'
  <2>1. At({"done"})' \subseteq At({"done"}) \ {c} /\ text' \in {text, {c}}
    BY <1>8 DEF ClientWrite
  <2> QED
    BY <1>8, <2>1 DEF ClientWrite
<1>9. ASSUME NEW c \in Clients, ClientRelease(c) PROVE NewestReceived'
  BY <1>9 DEF ClientRelease
<1>10. CASE UNCHANGED vars
  BY <1>10 DEF vars
<1> QED
  BY <1>1, <1>2, <1>3, <1>4, <1>5, <1>6, <1>7, <1>8, <1>9, <1>10
     DEF Next, ServerStep, ClientStep, ClientSend

LEMMA Inductive == IInv /\ [Next]_vars => IInv'
  BY TypeStep, LifetimeStep, IdsStep, CountStep, NewestStep DEF IInv

LEMMA Invariant == Spec => []IInv
<1>1. Init => IInv
  BY InitInv
<1>2. IInv /\ [Next]_vars => IInv'
  BY Inductive
<1> QED
  BY <1>1, <1>2, PTL DEF Spec
----------------------------------------------------------------------------
\* Semaphore 0 counts the users of the segment, those killed included.
THEOREM CountsUsers == Spec => []UsersCounted
<1>1. IInv => UsersCounted
  BY DEF IInv
<1> QED
  BY <1>1, Invariant, PTL

\* At most one client writes, and into the segment that the server reads.
THEOREM WritersExclude == Spec => []OneWriter
<1>1. IInv => OneWriter
  BY DEF IInv
<1> QED
  BY <1>1, Invariant, PTL

\* The message written last is not missed: its client's signal is still up unless
\* it has been printed or is being printed.
THEOREM ReceivesNewest == Spec => []NewestReceived
<1>1. IInv => NewestReceived
  BY DEF IInv
<1> QED
  BY <1>1, Invariant, PTL
=============================================================================
