------------------------------- MODULE Calld -------------------------------
(***************************************************************************)
(* The call server of apue/calld: a daemon that accepts clients, reads the *)
(* system each one wants to call, and forks a child that dials on a device *)
(* no other call uses.  The child passes the open device to the client and *)
(* exits; when it fails the daemon tries the next line of the Systems file.*)
(* The daemon is one process with a SIGCHLD handler that interrupts it     *)
(* anywhere.  Pending SIGCHLDs are one bit, and the handler waits for one  *)
(* child.  A pid is the index of the child, an fd the client behind it.    *)
(***************************************************************************)
EXTENDS Integers, Sequences

CONSTANTS
    NConns,     \* the number of client processes, each of which connects once
    Devices,    \* the lines (device names) of the Devices file
    NoDevice,   \* stands for a line of Systems that dev_find() finds no device for
    Systems,    \* Systems[s]: the devices of the lines of Systems for system s
    Wanted,     \* Wanted[c]: the system client c asks for
    Garbage,    \* what a new entry may hold but for fd: malloc() does not clear it
    Impatient   \* the clients that may leave while their call is being placed

VARIABLES
    slot,       \* the client[] array
    lock,       \* lock[d]: pid of the child device d is locked for, 0 for none
    pc,         \* where the daemon is
    cur,        \* index of cliptr in the loops over client[]
    ret,        \* where the daemon goes on when it is done with request() or child_done()
    rset,       \* the clients select() found readable
    chld_flag,  \* set by the handler, reset by child_done()
    pending,    \* is a SIGCHLD pending?
    child,      \* the children, in the order of their creation
    cli,        \* cli[c]: what client c does
    answer,     \* answer[c]: the child whose device c has, -1 for an error, 0 for none yet
    unread,     \* the clients whose request the daemon has not read
    backlog,    \* the clients the daemon has not accepted
    misled      \* history: the clients whose entry has misled the daemon

daemon == <<pc, cur, ret, rset>>
clients == <<cli, answer, unread, backlog>>
vars == <<slot, lock, pc, cur, ret, rset, chld_flag, pending, child, cli, answer, unread, backlog,
          misled>>

Conns == 1..NConns

ASSUME CalldAssumption ==
    /\ NConns \in Nat
    /\ NoDevice \notin Devices /\ "" \in DOMAIN Systems /\ Systems[""] = <<>>
    /\ \A s \in DOMAIN Systems : Systems[s] \in Seq(Devices \cup {NoDevice})
    /\ Wanted \in [Conns -> DOMAIN Systems] /\ Impatient \subseteq Conns
    /\ Garbage \subseteq [pid : Nat, childdone : 0..2, sysftell : Nat \cup {-1},
                          sysname : DOMAIN Systems]

Slots == Conns
Pids == DOMAIN child
Killed == -1

Init ==
    /\ \E garbage \in [Slots -> Garbage] :
           slot = [i \in Slots |->
                     [fd |-> -1, pid |-> garbage[i].pid, childdone |-> garbage[i].childdone,
                      sysftell |-> garbage[i].sysftell, sysname |-> garbage[i].sysname]]
    /\ lock = [d \in Devices |-> 0]
    /\ pc = "top" /\ cur = 1 /\ ret = "top" /\ rset = {}
    /\ chld_flag = FALSE /\ pending = FALSE
    /\ child = <<>>
    /\ cli = [c \in Conns |-> "idle"] /\ answer = [c \in Conns |-> 0]
    /\ unread = {} /\ backlog = <<>>
    /\ misled = {}

(***************************************************************************)
(* The clients.                                                            *)
(***************************************************************************)
Connect(c) ==
    /\ cli[c] = "idle"
    /\ cli' = [cli EXCEPT ![c] = "open"]
    /\ backlog' = Append(backlog, c)
    /\ UNCHANGED <<slot, lock, daemon, chld_flag, pending, child, answer, unread, misled>>

Ask(c) ==
    /\ cli[c] = "open"
    /\ cli' = [cli EXCEPT ![c] = "asked"]
    /\ unread' = unread \cup {c}
    /\ UNCHANGED <<slot, lock, daemon, chld_flag, pending, child, answer, backlog, misled>>

\* The client terminates: its device and its end of the stream pipe are closed.
Leave(c) ==
    /\ \/ cli[c] = "open"
       \/ cli[c] = "asked" /\ (answer[c] # 0 \/ c \in Impatient)
    /\ cli' = [cli EXCEPT ![c] = "closed"]
    /\ UNCHANGED <<slot, lock, daemon, chld_flag, pending, child, answer, unread, backlog, misled>>

(***************************************************************************)
(* The children.                                                           *)
(***************************************************************************)
Exit(p, code) ==
    /\ child' = [child EXCEPT ![p].st = "zombie", ![p].code = code]
    /\ pending' = TRUE

\* child_dial() has the device open and sends it to the client.  Writing to a
\* client that has gone kills the child with SIGPIPE.
DialDone(p) ==
    LET c == child[p].conn
    IN  /\ child[p].st = "dial"
        /\ IF cli[c] = "closed"
           THEN Exit(p, Killed) /\ UNCHANGED answer
           ELSE /\ child' = [child EXCEPT ![p].st = "sent"]
                /\ answer' = [answer EXCEPT ![c] = IF @ = 0 THEN p ELSE @]
                /\ UNCHANGED pending
        /\ UNCHANGED <<slot, lock, daemon, chld_flag, cli, unread, backlog, misled>>

\* child_dial() fails: it writes its message to the client, if there is one, and
\* calls exit(1).
DialFails(p) ==
    /\ child[p].st = "dial"
    /\ \E code \in {Killed, 1} :
          /\ code = Killed => cli[child[p].conn] = "closed"
          /\ Exit(p, code)
    /\ UNCHANGED <<slot, lock, daemon, chld_flag, clients, misled>>

ChildExits(p) ==
    /\ child[p].st = "sent"
    /\ Exit(p, 0)
    /\ UNCHANGED <<slot, lock, daemon, chld_flag, clients, misled>>

(***************************************************************************)
(* The SIGCHLD handler.  It interrupts select(); elsewhere the daemon goes *)
(* on where it was.                                                        *)
(***************************************************************************)
\* n is the first number in a set.
First(n, S) == n \in S /\ \A m \in S : n <= m

SlotsOf(pid) == {i \in Slots : slot[i].pid = pid}

BUGStatusNotPlusOne(pid, stat) ==
    \E i \in Slots :
        First(i, SlotsOf(pid)) /\ slot' = [slot EXCEPT ![i].childdone = stat - 1]
client_sigchld(pid, stat) ==
    \E i \in Slots :
        First(i, SlotsOf(pid)) /\ slot' = [slot EXCEPT ![i].childdone = stat]

sig_chld(p) ==
    /\ pending /\ pc # "dead" /\ child[p].st = "zombie"
    /\ pending' = FALSE
    /\ chld_flag' = TRUE
    /\ child' = [child EXCEPT ![p].st = "gone"]
    /\ IF child[p].code # Killed /\ SlotsOf(p) # {}
       THEN client_sigchld(p, child[p].code + 1)
       ELSE UNCHANGED slot
    /\ IF child[p].code # Killed /\ SlotsOf(p) = {}
       THEN pc' = "dead" /\ UNCHANGED ret
       ELSE IF pc = "select" THEN pc' = "again" /\ ret' = "top"
       ELSE UNCHANGED <<pc, ret>>
    /\ misled' = IF pc = "request" /\ child[p].code # Killed /\ First(cur, SlotsOf(p))
                 THEN misled \cup {slot[cur].fd}
                 ELSE misled
    /\ UNCHANGED <<lock, cur, rset, clients>>

(***************************************************************************)
(* loop(): the flag is tested, then select() is called, and a signal in    *)
(* between is seen only when select() returns.                             *)
(***************************************************************************)
Top ==
    /\ pc = "top"
    /\ IF chld_flag
       THEN pc' = "again" /\ ret' = "call"
       ELSE pc' = "call" /\ UNCHANGED ret
    /\ UNCHANGED <<slot, lock, cur, rset, chld_flag, pending, child, clients, misled>>

CallSelect ==
    /\ pc = "call"
    /\ pc' = "select"
    /\ UNCHANGED <<slot, lock, cur, ret, rset, chld_flag, pending, child, clients, misled>>

\* serv_accept() and client_add(): the first entry that is free, of which only
\* fd is set.
Accept ==
    /\ pc = "select" /\ backlog # <<>>
    /\ \E i \in Slots :
          /\ First(i, {j \in Slots : slot[j].fd = -1})
          /\ slot' = [slot EXCEPT ![i].fd = Head(backlog)]
    /\ backlog' = Tail(backlog)
    /\ pc' = "top"
    /\ UNCHANGED <<lock, cur, ret, rset, chld_flag, pending, child, cli, answer, unread, misled>>

allset == {slot[i].fd : i \in Slots} \ {-1}
Readable == {c \in allset : c \in unread \/ cli[c] = "closed"}

Select ==
    /\ pc = "select" /\ backlog = <<>> /\ Readable # {}
    /\ rset' = Readable
    /\ pc' = "scan"
    /\ UNCHANGED <<slot, lock, cur, ret, chld_flag, pending, child, clients, misled>>

lock_rel(pid) == [d \in Devices |-> IF lock[d] = pid THEN 0 ELSE lock[d]]

\* cli_done(): only the descriptor of the entry is reset.
cli_done(i) == slot' = [slot EXCEPT ![i].fd = -1]

\* An entry that is not readable.
ScanNext ==
    /\ pc = "scan" /\ cur \in Slots /\ slot[cur].fd \notin rset
    /\ cur' = cur + 1
    /\ UNCHANGED <<slot, lock, pc, ret, rset, chld_flag, pending, child, clients, misled>>

\* The end of the loop over client[]: cliptr and rset are not used again before
\* they are set.
ScanEnd ==
    /\ pc = "scan" /\ cur \notin Slots
    /\ pc' = "top" /\ cur' = 1 /\ rset' = {} /\ ret' = "top"
    /\ UNCHANGED <<slot, lock, chld_flag, pending, child, clients, misled>>

BUGEofKeepsLock ==
    /\ pc = "scan" /\ cur \in Slots /\ slot[cur].fd \in rset \ unread
    /\ cli_done(cur)
    /\ cur' = cur + 1
    /\ UNCHANGED <<lock, pc, ret, rset, chld_flag, pending, child, clients, misled>>

\* End of file from the client.
ReadEof ==
    /\ pc = "scan" /\ cur \in Slots /\ slot[cur].fd \in rset \ unread
    /\ lock' = lock_rel(slot[cur].pid)
    /\ cli_done(cur)
    /\ cur' = cur + 1
    /\ UNCHANGED <<pc, ret, rset, chld_flag, pending, child, clients, misled>>

\* A request from the client: its arguments go to the entry.
ReadRequest ==
    LET c == slot[cur].fd
    IN  /\ pc = "scan" /\ cur \in Slots /\ c \in rset \cap unread
        /\ unread' = unread \ {c}
        /\ slot' = [slot EXCEPT ![cur].childdone = 0, ![cur].sysftell = 0,
                                ![cur].sysname = Wanted[c]]
        /\ pc' = "request" /\ ret' = "scan"
        /\ UNCHANGED <<lock, cur, rset, chld_flag, pending, child, cli, answer, backlog, misled>>

(***************************************************************************)
(* request(): the lines of the system from where the client left off, up   *)
(* to one whose device is not locked.  -1 in sysftell is the end of the    *)
(* file, where sys_posn() cannot go back to.                               *)
(***************************************************************************)
BUGSameLine(i) ==
    LET line == Systems[slot[i].sysname]
    IN  {n \in DOMAIN line : n >= slot[i].sysftell /\ (line[n] # NoDevice => lock[line[n]] = 0)}
Candidates(i) ==
    LET line == Systems[slot[i].sysname]
    IN  {n \in DOMAIN line : n > slot[i].sysftell /\ (line[n] # NoDevice => lock[line[n]] = 0)}

Device(i, n) == Systems[slot[i].sysname][n]

\* Where the loop that called request() goes on.
Caller == IF ret = "scan" THEN "scan" ELSE "child"

\* fork(): until TELL_CHILD() the child waits in WAIT_PARENT().
BUGDoNotWait(i, n) ==
    [conn |-> slot[i].fd, dev |-> Device(i, n), line |-> n, st |-> "dial", code |-> 0]
NewChild(i, n) ==
    [conn |-> slot[i].fd, dev |-> Device(i, n), line |-> n, st |-> "wait", code |-> 0]

Fork ==
    /\ pc = "request" /\ slot[cur].sysftell # -1
    /\ \E n \in Candidates(cur) :
          /\ First(n, Candidates(cur)) /\ Device(cur, n) # NoDevice
          /\ child' = Append(child, NewChild(cur, n))
          /\ slot' = [slot EXCEPT ![cur].pid = Len(child) + 1, ![cur].sysftell = n]
    /\ misled' = IF SlotsOf(Len(child) + 1) \subseteq {cur} THEN misled
                 ELSE misled \cup {slot[cur].fd}
    /\ pc' = "lock"
    /\ UNCHANGED <<lock, cur, ret, rset, chld_flag, pending, clients>>

\* lock_set() and TELL_CHILD().
LockSet ==
    LET p == slot[cur].pid
    IN  /\ pc = "lock"
        /\ lock' = [lock EXCEPT ![child[p].dev] = p]
        /\ child' = [child EXCEPT ![p].st = "dial"]
        /\ pc' = Caller /\ cur' = cur + 1
        /\ UNCHANGED <<slot, ret, rset, chld_flag, pending, clients, misled>>

\* request() fails: the client gets an error and is done with.  Writing to a
\* client that has gone kills the daemon, and so does a sysftell of -1.
GiveUp ==
    LET c == slot[cur].fd
        dies == slot[cur].sysftell = -1 \/ cli[c] = "closed"
    IN  /\ pc = "request"
        /\ \E n \in Candidates(cur) \cup {-1} :
              /\ IF Candidates(cur) = {} THEN n = -1 ELSE First(n, Candidates(cur))
              /\ slot[cur].sysftell # -1 /\ n # -1 => Device(cur, n) = NoDevice
              /\ slot' = [slot EXCEPT ![cur].fd = -1, ![cur].sysftell = n]
        /\ answer' = [answer EXCEPT ![c] = IF @ = 0 /\ ~dies THEN -1 ELSE @]
        /\ pc' = IF dies THEN "dead" ELSE Caller
        /\ cur' = cur + 1
        /\ UNCHANGED <<lock, ret, rset, chld_flag, pending, child, cli, unread, backlog, misled>>

(***************************************************************************)
(* child_done(): the entries whose childdone the handler has set.          *)
(***************************************************************************)
Again ==
    /\ pc = "again"
    /\ chld_flag' = FALSE
    /\ pc' = "child"
    /\ UNCHANGED <<slot, lock, cur, ret, rset, pending, child, clients, misled>>

Marked(i) == slot[i].fd # -1 /\ slot[i].childdone # 0

ChildNext ==
    /\ pc = "child" /\ cur \in Slots /\ ~Marked(cur)
    /\ cur' = cur + 1
    /\ UNCHANGED <<slot, lock, pc, ret, rset, chld_flag, pending, child, clients, misled>>

\* The status is looked at; until it is reset the handler may set it again.
ChildFound ==
    /\ pc = "child" /\ cur \in Slots /\ Marked(cur)
    /\ pc' = IF slot[cur].childdone = 1 THEN "connected" ELSE "failed"
    /\ UNCHANGED <<slot, lock, cur, ret, rset, chld_flag, pending, child, clients, misled>>

\* The child did exit(0): the device stays locked.
Connected ==
    /\ pc = "connected"
    /\ slot' = [slot EXCEPT ![cur].childdone = 0]
    /\ pc' = "child" /\ cur' = cur + 1
    /\ UNCHANGED <<lock, ret, rset, chld_flag, pending, child, clients, misled>>

\* The child failed: its device is released and the next line is tried.  The mark
\* may also have been left in the entry of a client whose request is not read yet.
Retry ==
    /\ pc = "failed"
    /\ slot' = [slot EXCEPT ![cur].childdone = 0]
    /\ misled' = IF cli[slot[cur].fd] = "open" \/ slot[cur].fd \in unread
                 THEN misled \cup {slot[cur].fd}
                 ELSE misled
    /\ lock' = lock_rel(slot[cur].pid)
    /\ pc' = "request"
    /\ UNCHANGED <<cur, ret, rset, chld_flag, pending, child, clients>>

BUGResetLate ==
    /\ pc = "child" /\ cur \notin Slots
    /\ chld_flag' = FALSE
    /\ pc' = ret /\ ret' = "top" /\ cur' = 1
    /\ UNCHANGED <<slot, lock, rset, pending, child, clients, misled>>

\* More SIGCHLDs have been caught: once more; else back to loop().
ChildEnd ==
    /\ pc = "child" /\ cur \notin Slots
    /\ IF chld_flag THEN pc' = "again" /\ UNCHANGED ret ELSE pc' = ret /\ ret' = "top"
    /\ cur' = 1
    /\ UNCHANGED <<slot, lock, rset, chld_flag, pending, child, clients, misled>>

Daemon ==
    \/ Top \/ CallSelect \/ Accept \/ Select \/ ScanNext \/ ScanEnd \/ ReadEof \/ ReadRequest
    \/ Fork \/ LockSet \/ GiveUp
    \/ Again \/ ChildNext \/ ChildFound \/ Connected \/ Retry \/ ChildEnd

Handler == \E p \in Pids : sig_chld(p)
Dial(p) == DialDone(p) \/ DialFails(p) \/ ChildExits(p)

Next ==
    \/ \E c \in Conns : Connect(c) \/ Ask(c) \/ Leave(c)
    \/ \E p \in Pids : Dial(p)
    \/ Handler
    \/ Daemon

Spec == Init /\ [][Next]_vars

\* The daemon runs, a pending signal is delivered, and a child that dials
\* comes to an end.
Fairness ==
    /\ WF_vars(Daemon)
    /\ WF_vars(Handler)
    /\ WF_vars(\E p \in Pids : Dial(p))

FairSpec == Spec /\ Fairness

(***************************************************************************)
(* Properties.  They are about a daemon that runs: its locks go with it.   *)
(*                                                                         *)
(* An entry is not cleared for a new client, and so may mislead the daemon *)
(* about it.  A client is in misled from the moment that                   *)
(*   - child_done() tries to call for it before its request is read, or    *)
(*   - the handler writes to its entry the status of a former client's     *)
(*     child, between the reading of its request and fork(), or            *)
(*   - its child gets a pid that another entry has held from the beginning.*)
(* About all other clients the following is true, whoever leaves when.     *)
(***************************************************************************)
TypeOK ==
    /\ slot \in [Slots -> [fd : Conns \cup {-1}, pid : Nat, childdone : 0..2,
                           sysftell : Nat \cup {-1}, sysname : DOMAIN Systems]]
    /\ lock \in [Devices -> Pids \cup {0}]
    /\ pc \in {"top", "call", "select", "scan", "request", "lock", "again", "child",
              "connected", "failed", "dead"}
    /\ cur \in 1..(NConns + 1)
    /\ ret \in {"top", "call", "scan"} /\ rset \subseteq Conns
    /\ chld_flag \in BOOLEAN /\ pending \in BOOLEAN
    /\ child \in Seq([conn : Conns, dev : Devices, line : Nat \ {0}, code : {Killed, 0, 1},
                      st : {"wait", "dial", "sent", "zombie", "gone"}])
    /\ cli \in [Conns -> {"idle", "open", "asked", "closed"}]
    /\ answer \in [Conns -> Pids \cup {0, -1}]
    /\ unread \subseteq Conns /\ backlog \in Seq(Conns) /\ misled \subseteq Conns \cup {-1}

Alive == pc # "dead"

\* The child is that of a client whose entry has not misled the daemon.
Sound(p) == child[p].conn \notin misled

\* The entry holds the pid of a child of its client, which is collected.
Own(i) == slot[i].pid \in Pids /\ child[slot[i].pid].conn = slot[i].fd
Collected(i) == Own(i) /\ child[slot[i].pid].st = "gone"

\* A device in use, by the client that has it or by the child that dials on it for
\* a client that waits, is locked for that child: no two calls share a device
\* (lock_set() before TELL_CHILD(), lock_rel() at the client's end of file).  When
\* the client of a dialing child leaves, the device is released under the child.
UseIsLocked ==
    Alive =>
        /\ \A p \in Pids :
               Sound(p) /\ child[p].st = "dial" /\ cli[child[p].conn] # "closed" =>
                   lock[child[p].dev] = p
        /\ \A c \in Conns \ misled :
               cli[c] = "asked" /\ answer[c] > 0 => lock[child[answer[c]].dev] = answer[c]

\* A locked device is locked for the child of a client that is connected: a
\* device is never locked for good (the lock_rel() calls of loop() and
\* child_done() name the pid of an entry).
LockOwned ==
    Alive => \A d \in Devices : lock[d] # 0 /\ Sound(lock[d]) =>
                 \E i \in Slots : slot[i].pid = lock[d] /\ Own(i)

\* The last child of the entry's client has failed, and the handler knows it.
HasFailed(i) == Collected(i) /\ child[slot[i].pid].code = 1

\* A client that waits for its answer has a child at work, a child whose end
\* the handler is still to collect, a failure that child_done() is still to
\* see, or the daemon is placing its call.
NotForgotten ==
    Alive => \A i \in Slots :
        LET c == slot[i].fd
        IN  c # -1 /\ c \notin misled /\ cli[c] = "asked" /\ c \notin unread /\ answer[c] = 0 =>
                \/ Own(i) /\ child[slot[i].pid].st \in {"wait", "dial", "zombie"}
                \/ HasFailed(i) /\ slot[i].childdone = 2
                \/ pc = "request" /\ cur = i

\* The failure of a client's child, once it is collected, is seen without another
\* signal: the entry is marked, and the flag is set, or child_done() is on its way
\* to the entry (the flag is reset before the loop over client[], and tested again
\* behind it).
FailuresNoticed ==
    Alive => \A i \in Slots :
        slot[i].fd \notin misled /\ HasFailed(i) /\ ~(pc = "request" /\ cur = i) =>
            /\ slot[i].childdone = 2
            /\ \/ chld_flag
               \/ pc \in {"child", "failed"} /\ cur <= i
               \/ pc \in {"connected", "request", "lock"} /\ ret # "scan" /\ cur < i

\* A client's children dial one after the other, each on a later line of the
\* Systems file than the one before ("try again from where we left off").
CallsInOrder ==
    \A p, q \in Pids : p < q /\ child[p].conn = child[q].conn /\ Sound(p) =>
        child[p].line < child[q].line /\ child[p].st = "gone"

\* "We'll find out the child's status when it terminates" (loop()): the end of
\* every child is collected.
StatusFound ==
    \A p \in Conns :
        (Alive /\ p \in Pids /\ child[p].st = "zombie")
            ~> (Alive => p \in Pids /\ child[p].st = "gone")
=============================================================================
