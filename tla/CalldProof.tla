---------------------------- MODULE CalldProof ----------------------------
(***************************************************************************)
(* Proofs about Calld, for any clients, devices and Systems file, whatever *)
(* malloc() returns and whoever leaves while its call is being placed.     *)
(*                                                                         *)
(* The invariant ties the daemon's table to the children.  The pid of an   *)
(* entry says nothing about the client that has the entry now, unless the  *)
(* child was forked for that client (Own).  A sound child has one entry at *)
(* most, and while its client is there this entry is the client's: so what *)
(* the handler sets and what lock_rel() releases for it are its own.  What *)
(* is left over counts for clients that have no child only (Marks).        *)
(***************************************************************************)
EXTENDS Calld, SequenceTheorems, TLAPS

\* Where the daemon is and what its loop variables then hold.
Control ==
    /\ pc \in {"top", "call", "select", "again"} => cur = 1
    /\ pc \in {"top", "call", "select"} => ret = "top"
    /\ pc \in {"again", "child", "connected", "failed"} => ret \in {"top", "call"}
    /\ pc = "scan" => ret # "call"
    /\ pc \in {"request", "lock", "connected", "failed"} => cur \in Slots
    /\ pc \in {"request", "connected", "failed"} => slot[cur].fd # -1

InBacklog(c) == \E m \in DOMAIN backlog : backlog[m] = c

\* A client is in one entry, or in the backlog, or in neither.
Connections ==
    /\ \A i, j \in Slots : slot[i].fd # -1 /\ slot[i].fd = slot[j].fd => i = j
    /\ \A m, n \in DOMAIN backlog : backlog[m] = backlog[n] => m = n
    /\ \A c \in Conns : InBacklog(c) => \A i \in Slots : slot[i].fd # c
    /\ \A c \in Conns : cli[c] = "idle" => ~InBacklog(c) /\ \A i \in Slots : slot[i].fd # c
    /\ \A c \in unread : cli[c] \in {"asked", "closed"}
    /\ \A c \in Conns : InBacklog(c) /\ cli[c] = "asked" => c \in unread

\* A client whose request the daemon has not read has no child and no answer.
Unheard(c) == cli[c] \in {"idle", "open"} \/ c \in unread \/ InBacklog(c)

NewClients ==
    \A c \in Conns \ misled : Unheard(c) => answer[c] = 0 /\ \A p \in Pids : child[p].conn # c

\* A child whose call is still open, and one that has passed its device on.
Working(p) == child[p].st \in {"wait", "dial"} \/ (child[p].st = "zombie" /\ child[p].code = 1)
Succeeded(p) == child[p].st = "sent" \/ (child[p].st \in {"zombie", "gone"} /\ child[p].code = 0)

\* What a child's state says of its entry and of its client.
Children ==
    \A p \in Pids :
        /\ child[p].st = "wait" => pc = "lock" /\ slot[cur].pid = p
        /\ Sound(p) =>
              /\ child[p].code = Killed => cli[child[p].conn] = "closed"
              /\ Working(p) /\ cli[child[p].conn] # "closed" =>
                    /\ \E i \in Slots : slot[i].pid = p /\ Own(i)
                    /\ cli[child[p].conn] = "asked" /\ answer[child[p].conn] = 0
              /\ Succeeded(p) => answer[child[p].conn] = p

\* A sound child has one entry; an entry has the last child of its client and
\* the line of that child; its childdone is the status of that child.
Entries ==
    /\ \A i, j \in Slots :
          slot[i].pid \in Pids /\ Sound(slot[i].pid) /\ slot[i].pid = slot[j].pid => i = j
    /\ \A i \in Slots : Own(i) /\ slot[i].fd \notin misled =>
          /\ \A p \in Pids : child[p].conn = slot[i].fd => p <= slot[i].pid
          /\ slot[i].sysftell = child[slot[i].pid].line
          /\ Collected(i) /\ child[slot[i].pid].code = 0 => slot[i].childdone # 2
          /\ HasFailed(i) /\ cli[slot[i].fd] # "closed" =>
                cli[slot[i].fd] = "asked" /\ answer[slot[i].fd] = 0

\* What holds when request() starts, and between fork() and lock_set().
Placing ==
    /\ pc = "request" /\ slot[cur].fd \notin misled =>
          /\ slot[cur].fd \notin unread
          /\ cli[slot[cur].fd] # "closed" => cli[slot[cur].fd] = "asked" /\ answer[slot[cur].fd] = 0
          /\ \A p \in Pids : child[p].conn = slot[cur].fd =>
                child[p].st = "gone" /\ child[p].line <= slot[cur].sysftell
    /\ pc = "request" => \A d \in Devices : lock[d] # 0 /\ Sound(lock[d]) => lock[d] # slot[cur].pid
    /\ pc = "lock" =>
          /\ slot[cur].pid \in Pids /\ child[slot[cur].pid].st = "wait" /\ Own(cur)
          /\ lock[child[slot[cur].pid].dev] = 0

\* A client that has a device has it from a child of its own, and its entry
\* has the pid of that child while it is connected.
Answers ==
    \A c \in Conns \ misled : answer[c] > 0 =>
        /\ child[answer[c]].conn = c /\ Succeeded(answer[c])
        /\ cli[c] = "asked" => \E i \in Slots : slot[i].fd = c /\ slot[i].pid = answer[c]

\* The part of rset still to be scanned is not out of date.
ScanRead ==
    \A i \in Slots :
        slot[i].fd \in rset /\ (\/ pc = "scan" /\ cur <= i
                                \/ pc \in {"request", "lock"} /\ ret = "scan" /\ cur < i)
            => slot[i].fd \in unread \/ cli[slot[i].fd] = "closed"

NoChild(c) == \A p \in Pids : child[p].conn # c

\* An entry has a child of its client, or the client has no child: then its
\* request is being served, or is still to be read, or it has gone without one.
\* childdone is the status of the entry's own child when it has one.
Marks ==
    \A i \in Slots : slot[i].fd \notin misled \cup {-1} =>
        /\ \/ Own(i)
           \/ /\ NoChild(slot[i].fd)
              /\ Unheard(slot[i].fd) \/ cli[slot[i].fd] = "closed" \/ (pc = "request" /\ cur = i)
        /\ Own(i) /\ slot[i].childdone # 0 =>
              Collected(i) /\ slot[i].childdone = child[slot[i].pid].code + 1
        /\ pc = "request" /\ cur = i => slot[i].childdone = 0
        /\ pc = "connected" /\ cur = i /\ Own(i) => slot[i].childdone = 1
        /\ pc = "failed" /\ cur = i /\ Own(i) => slot[i].childdone = 2

\* What holds while the daemon runs, and the whole invariant: what it left
\* behind when it died keeps only its type and the order of the calls.
Inner ==
    /\ Control /\ Connections /\ NewClients /\ Children /\ Entries /\ Placing /\ Answers
    /\ ScanRead /\ Marks /\ LockOwned /\ UseIsLocked /\ FailuresNoticed /\ NotForgotten

IInv == TypeOK /\ CallsInOrder /\ (Alive => Inner)

-----------------------------------------------------------------------------
\* The types of an entry of client[] and of a child.
Entry == [fd : Conns \cup {-1}, pid : Nat, childdone : 0..2,
          sysftell : Nat \cup {-1}, sysname : DOMAIN Systems]
Child == [conn : Conns, dev : Devices, line : Nat \ {0}, code : {Killed, 0, 1},
          st : {"wait", "dial", "sent", "zombie", "gone"}]

\* The types of the parts of entries, children and answers.
LEMMA Basics ==
    ASSUME TypeOK
    PROVE  /\ slot \in [Slots -> Entry] /\ child \in Seq(Child)
           /\ Pids = 1..Len(child) /\ Len(child) \in Nat
           /\ Pids \subseteq Int /\ 0 \notin Pids /\ -1 \notin Pids /\ \A p \in Pids : p > 0
           /\ Slots = Conns /\ Conns \subseteq Int /\ -1 \notin Conns /\ 0 \notin Conns
           /\ cur \in Int /\ 1 \in 1..(NConns + 1)
           /\ \A i \in Slots : i + 1 \in 1..(NConns + 1) /\ 1 <= i /\ (cur \notin Slots => i < cur)
           /\ \A i \in Slots : /\ slot[i] \in Entry
                               /\ slot[i].fd \in Conns \cup {-1} /\ slot[i].pid \in Int
                               /\ slot[i].childdone \in Int /\ slot[i].sysftell \in Int
           /\ \A p \in Pids : /\ child[p] \in Child
                              /\ child[p].conn \in Conns /\ child[p].dev \in Devices
                              /\ child[p].line \in Int /\ child[p].line > 0
           /\ \A c \in Conns : answer[c] \in Pids \cup {0, -1}
           /\ \A d \in Devices : lock[d] \in Pids \cup {0}
<1>1. slot \in [Slots -> Entry] /\ child \in Seq(Child)
    BY DEF TypeOK, Entry, Child
<1>2. Len(child) \in Nat /\ Pids = 1..Len(child)
    BY <1>1, LenProperties DEF Pids
<1>3. cur \in 1..(NConns + 1)
    BY DEF TypeOK
<1> NConns \in Nat
    BY CalldAssumption
<1>4. Conns \subseteq Int /\ -1 \notin Conns /\ 0 \notin Conns /\ Slots = Conns /\ cur \in Int
    BY <1>3 DEF Conns, Slots
<1>10. \A i \in Slots : i + 1 \in 1..(NConns + 1) /\ 1 <= i /\ (cur \notin Slots => i < cur)
    BY <1>3 DEF Conns, Slots
<1>11. 1 \in 1..(NConns + 1)
    OBVIOUS
<1>5. \A p \in Pids : child[p] \in Child
    BY <1>1, <1>2, ElementOfSeq
<1>6. \A i \in Slots : slot[i] \in Entry
    BY <1>1
<1>7. \A i \in Slots : /\ slot[i].fd \in Conns \cup {-1} /\ slot[i].pid \in Int
                       /\ slot[i].childdone \in Int /\ slot[i].sysftell \in Int
    BY <1>6 DEF Entry
<1>8. \A p \in Pids : /\ child[p].conn \in Conns /\ child[p].dev \in Devices
                      /\ child[p].line \in Int /\ child[p].line > 0
    BY <1>5 DEF Child
<1>9. (\A c \in Conns : answer[c] \in Pids \cup {0, -1}) /\ (\A d \in Devices : lock[d] \in Pids \cup {0})
    BY DEF TypeOK
<1> QED  BY <1>1, <1>2, <1>4, <1>5, <1>6, <1>7, <1>8, <1>9, <1>10, <1>11

\* What keeps 0 and -1 apart from pids and descriptors.
LEMMA Numbers ==
    ASSUME TypeOK
    PROVE  /\ 0 \notin Pids /\ -1 \notin Pids /\ -1 \notin Conns
           /\ cur \in Int /\ \A i \in Slots : i \in Int
           /\ \A p \in Pids : p \in Int /\ p > 0
           /\ \A c \in Conns : answer[c] > 0 => answer[c] \in Pids
<1>1. \A c \in Conns : answer[c] \in Pids \/ answer[c] = 0 \/ answer[c] = -1
    BY Basics
<1> QED  BY <1>1, Basics

\* Replacing an entry changes that entry only.
LEMMA SlotUpdate ==
    ASSUME TypeOK, NEW k \in Slots, NEW e \in Entry, slot' = [slot EXCEPT ![k] = e]
    PROVE  /\ slot' \in [Slots -> Entry]
           /\ \A i \in Slots : slot'[i] = IF i = k THEN e ELSE slot[i]
BY Basics

\* Replacing a child changes that child only.
LEMMA ChildUpdate ==
    ASSUME TypeOK, NEW p \in Pids, NEW e \in Child, child' = [child EXCEPT ![p] = e]
    PROVE  /\ child' \in Seq(Child) /\ Pids' = Pids
           /\ \A q \in Pids : child'[q] = IF q = p THEN e ELSE child[q]
<1>1. child' \in Seq(Child) /\ Len(child') = Len(child)
    BY Basics, ExceptSeq
<1>2. Pids' = Pids
    BY <1>1, Basics, LenProperties DEF Pids
<1> QED  BY <1>1, <1>2, Basics, ExceptSeq

\* What setting childdone leaves alone.
LEMMA SetDone ==
    ASSUME TypeOK, NEW k \in Slots, NEW n \in 0..2, slot' = [slot EXCEPT ![k].childdone = n]
    PROVE  /\ slot' \in [Slots -> Entry]
           /\ \A i \in Slots :
                /\ slot'[i].fd = slot[i].fd /\ slot'[i].pid = slot[i].pid
                /\ slot'[i].sysftell = slot[i].sysftell
                /\ slot'[i].childdone = IF i = k THEN n ELSE slot[i].childdone
<1> DEFINE e == [slot[k] EXCEPT !.childdone = n]
<1>1. slot[k] \in Entry
    BY Basics
<1>2. e \in Entry /\ e.fd = slot[k].fd /\ e.pid = slot[k].pid /\ e.sysftell = slot[k].sysftell
         /\ e.childdone = n
    BY <1>1 DEF Entry
<1>3. slot' = [slot EXCEPT ![k] = e]
    OBVIOUS
<1> HIDE DEF e
<1> QED  BY <1>2, <1>3, SlotUpdate

\* What setting the state of a child leaves alone.
LEMMA SetState ==
    ASSUME TypeOK, NEW p \in Pids, NEW s \in {"wait", "dial", "sent", "zombie", "gone"},
           child' = [child EXCEPT ![p].st = s]
    PROVE  /\ child' \in Seq(Child) /\ Pids' = Pids
           /\ \A q \in Pids :
                /\ child'[q].conn = child[q].conn /\ child'[q].dev = child[q].dev
                /\ child'[q].line = child[q].line /\ child'[q].code = child[q].code
                /\ child'[q].st = IF q = p THEN s ELSE child[q].st
<1> DEFINE e == [child[p] EXCEPT !.st = s]
<1>1. child[p] \in Child
    BY Basics
<1>2. e \in Child /\ e.conn = child[p].conn /\ e.dev = child[p].dev /\ e.line = child[p].line
         /\ e.st = s /\ e.code = child[p].code
    BY <1>1 DEF Child
<1>3. child' = [child EXCEPT ![p] = e]
    OBVIOUS
<1> HIDE DEF e
<1>4. /\ child' \in Seq(Child) /\ Pids' = Pids
      /\ \A q \in Pids : child'[q] = IF q = p THEN e ELSE child[q]
    BY <1>2, <1>3, ChildUpdate
<1> QED  BY <1>2, <1>4

\* What the exit of a child leaves alone.
LEMMA SetExit ==
    ASSUME TypeOK, NEW p \in Pids, NEW n \in {Killed, 0, 1},
           child' = [child EXCEPT ![p].st = "zombie", ![p].code = n]
    PROVE  /\ child' \in Seq(Child) /\ Pids' = Pids
           /\ \A q \in Pids :
                /\ child'[q].conn = child[q].conn /\ child'[q].dev = child[q].dev
                /\ child'[q].line = child[q].line
                /\ child'[q].st = IF q = p THEN "zombie" ELSE child[q].st
                /\ child'[q].code = IF q = p THEN n ELSE child[q].code
<1> DEFINE e == [child[p] EXCEPT !.st = "zombie", !.code = n]
<1>1. child[p] \in Child
    BY Basics
<1>2. e \in Child /\ e.conn = child[p].conn /\ e.dev = child[p].dev /\ e.line = child[p].line
         /\ e.st = "zombie" /\ e.code = n
    BY <1>1 DEF Child
<1>3. child' = [child EXCEPT ![p] = e]
    BY Basics
<1> HIDE DEF e
<1>4. /\ child' \in Seq(Child) /\ Pids' = Pids
      /\ \A q \in Pids : child'[q] = IF q = p THEN e ELSE child[q]
    BY <1>2, <1>3, ChildUpdate
<1>5. \A q \in Pids : q # p => child'[q] = child[q]
    BY <1>4
<1>6. child'[p] = e
    BY <1>4
<1>7. /\ child'[p].conn = child[p].conn /\ child'[p].dev = child[p].dev
      /\ child'[p].line = child[p].line /\ child'[p].st = "zombie" /\ child'[p].code = n
    BY <1>2, <1>6, Zenon
<1>8. \A q \in Pids :
         /\ q = p => child'[q].st = "zombie" /\ child'[q].code = n
         /\ q # p => child'[q].st = child[q].st /\ child'[q].code = child[q].code
    BY <1>5, <1>7, Zenon
<1>9. \A q \in Pids :
         /\ child'[q].conn = child[q].conn /\ child'[q].dev = child[q].dev
         /\ child'[q].line = child[q].line
    BY <1>5, <1>7, Zenon
<1> QED  BY <1>4, <1>8, <1>9

\* What a step says of entries and children that leaves both alone.
LEMMA SameTable ==
    ASSUME UNCHANGED <<slot, child, misled>>
    PROVE  /\ Pids' = Pids
           /\ \A i \in Slots : /\ Own(i)' <=> Own(i)
                               /\ Collected(i)' <=> Collected(i)
                               /\ HasFailed(i)' <=> HasFailed(i)
           /\ \A p \in Pids : /\ Sound(p)' <=> Sound(p)
                              /\ Working(p)' <=> Working(p)
                              /\ Succeeded(p)' <=> Succeeded(p)
BY DEF Pids, Own, Collected, HasFailed, Sound, Working, Succeeded

\* An entry with a child of its own has a client.
LEMMA OwnEntry ==
    ASSUME TypeOK, NEW i \in Slots, Own(i)
    PROVE  slot[i].pid \in Pids /\ slot[i].fd \in Conns /\ child[slot[i].pid].conn = slot[i].fd
BY Basics DEF Own

\* connect() of a client adds it to the backlog.
LEMMA ConnectStep ==
    ASSUME IInv, NEW c \in Conns, Connect(c)
    PROVE  IInv'
<1> TypeOK /\ CallsInOrder
    BY DEF IInv
<1>1. /\ UNCHANGED <<slot, lock, pc, cur, ret, rset, chld_flag, pending, child, answer, unread,
                     misled>>
      /\ cli[c] = "idle"
      /\ cli' = [cli EXCEPT ![c] = "open"] /\ backlog' = Append(backlog, c)
    BY DEF Connect, daemon
<1>s. Pids' = Pids
    BY <1>1, SameTable
<1>2. /\ cli' \in [Conns -> {"idle", "open", "asked", "closed"}]
      /\ \A b \in Conns : cli'[b] = IF b = c THEN "open" ELSE cli[b]
    BY <1>1 DEF TypeOK
<1>3. backlog \in Seq(Conns)
    BY DEF TypeOK
<1>4. /\ backlog' \in Seq(Conns)
      /\ DOMAIN backlog' = 1..(Len(backlog) + 1) /\ DOMAIN backlog = 1..Len(backlog)
      /\ Len(backlog) \in Nat
      /\ \A m \in DOMAIN backlog' :
            backlog'[m] = IF m = Len(backlog) + 1 THEN c ELSE backlog[m]
    BY <1>1, <1>3
<1>5. TypeOK'
    BY <1>1, <1>s, <1>2, <1>4 DEF TypeOK
<1>6. CallsInOrder'
    BY <1>1, <1>s, SameTable DEF CallsInOrder
<1>7. ASSUME Alive' PROVE Inner'
    <2> Inner
        BY <1>1, <1>7 DEF IInv, Alive
    <2>0. \A b \in Conns : InBacklog(b)' <=> InBacklog(b) \/ b = c
        BY <1>4 DEF InBacklog
    <2>1. Control'
        BY <1>1 DEF Inner, Control
    <2>2. Connections'
        <3>1. ~InBacklog(c) /\ \A i \in Slots : slot[i].fd # c
            BY <1>1 DEF Inner, Connections
        <3>2. \A m, n \in DOMAIN backlog' : backlog'[m] = backlog'[n] => m = n
            BY <3>1, <1>4 DEF Inner, Connections, InBacklog
        <3> QED  BY <3>1, <3>2, <2>0, <1>1, <1>2 DEF Inner, Connections
    <2>3. NewClients'
        BY <1>1, <1>s, <1>2, <2>0 DEF Inner, NewClients, Unheard
    <2>4. Children'
        BY <1>1, <1>2, Basics, SameTable DEF Inner, Children
    <2>5. Entries'
        BY <1>1, <1>2, Basics, SameTable, OwnEntry DEF Inner, Entries
    <2>6. Placing'
        BY <1>1, <1>2, Basics, SameTable DEF Inner, Control, Placing
    <2>7. Answers'
        BY <1>1, <1>2, SameTable, Numbers DEF Inner, Answers
    <2>8. LockOwned'
        BY <1>1, SameTable, Basics DEF Inner, LockOwned, Alive
    <2>9. ScanRead'
        BY <1>1, <1>2, Basics DEF Inner, ScanRead, TypeOK
    <2>10. UseIsLocked'
        BY <1>1, <1>2, Basics, SameTable DEF Inner, UseIsLocked, Alive
    <2>11. FailuresNoticed'
        BY <1>1, SameTable DEF Inner, FailuresNoticed, Alive
    <2>12. NotForgotten'
        BY <1>1, <1>2, Basics, SameTable DEF Inner, NotForgotten, Alive
    <2>13. Marks'
        <3>1. \A i \in Slots : slot[i].fd \notin misled \cup {-1} =>
                  /\ NoChild(slot[i].fd)' <=> NoChild(slot[i].fd)
                  /\ Unheard(slot[i].fd) => Unheard(slot[i].fd)'
                  /\ cli[slot[i].fd] = "closed" => cli'[slot[i].fd] = "closed"
            <4>1. \A i \in Slots : slot[i].fd # -1 => slot[i].fd \in Conns /\ ~InBacklog(slot[i].fd)
                BY Basics DEF Inner, Connections
            <4> QED  BY <1>1, <1>s, <1>2, <4>1 DEF NoChild, Unheard
        <3> QED  BY <1>1, <3>1, SameTable DEF Inner, Marks
    <2> QED  BY <2>1, <2>2, <2>3, <2>4, <2>5, <2>6, <2>7, <2>8, <2>9, <2>10, <2>11, <2>12, <2>13
                DEF Inner
<1> QED  BY <1>5, <1>6, <1>7 DEF IInv

\* The request of a client: nobody has acted for it yet, unless its entry has
\* misled the daemon.
LEMMA AskStep ==
    ASSUME IInv, NEW c \in Conns, Ask(c)
    PROVE  IInv'
<1> TypeOK /\ CallsInOrder
    BY DEF IInv
<1>1. /\ UNCHANGED <<slot, lock, pc, cur, ret, rset, chld_flag, pending, child, answer, backlog,
                     misled>>
      /\ cli[c] = "open"
      /\ cli' = [cli EXCEPT ![c] = "asked"] /\ unread' = unread \cup {c}
    BY DEF Ask, daemon
<1>s. Pids' = Pids
    BY <1>1, SameTable
<1>2. /\ cli' \in [Conns -> {"idle", "open", "asked", "closed"}]
      /\ \A b \in Conns : cli'[b] = IF b = c THEN "asked" ELSE cli[b]
    BY <1>1 DEF TypeOK
<1>3. TypeOK'
    BY <1>1, <1>s, <1>2 DEF TypeOK
<1>4. CallsInOrder'
    BY <1>1, <1>s, SameTable DEF CallsInOrder
<1>5. ASSUME Alive' PROVE Inner'
    <2> Inner
        BY <1>1, <1>5 DEF IInv, Alive
    <2>0. c \notin misled => answer[c] = 0 /\ \A p \in Pids : child[p].conn # c
        BY <1>1 DEF Inner, NewClients, Unheard
    <2>1. Control'
        BY <1>1 DEF Inner, Control
    <2>2. Connections'
        BY <1>1, <1>2 DEF Inner, Connections, InBacklog, TypeOK
    <2>3. NewClients'
        BY <1>1, <1>s, <1>2, <2>0 DEF Inner, NewClients, Unheard, InBacklog
    <2>4. Children'
        BY <1>1, <1>2, Basics, SameTable DEF Inner, Children
    <2>5. Entries'
        BY <1>1, <1>2, Basics, SameTable, OwnEntry DEF Inner, Entries
    <2>6. Placing'
        <3>1. pc = "request" /\ slot[cur].fd \notin misled => slot[cur].fd # c
            BY <1>1 DEF Inner, Control, Placing
        <3> QED  BY <3>1, <1>1, <1>2, Basics, SameTable DEF Inner, Control, Placing
    <2>7. Answers'
        BY <1>1, <1>2, <2>0, SameTable, Numbers DEF Inner, Answers
    <2>8. LockOwned'
        BY <1>1, SameTable, Basics DEF Inner, LockOwned, Alive
    <2>9. ScanRead'
        BY <1>1, <1>2, Basics DEF Inner, ScanRead, TypeOK
    <2>10. UseIsLocked'
        BY <1>1, <1>2, <2>0, Basics, SameTable DEF Inner, UseIsLocked, Alive
    <2>11. FailuresNoticed'
        BY <1>1, SameTable DEF Inner, FailuresNoticed, Alive
    <2>12. NotForgotten'
        BY <1>1, <1>2, Basics, SameTable DEF Inner, NotForgotten, Alive
    <2>13. Marks'
        BY <1>1, <1>s, <1>2, SameTable DEF Inner, Marks, NoChild, Unheard, InBacklog
    <2> QED  BY <2>1, <2>2, <2>3, <2>4, <2>5, <2>6, <2>7, <2>8, <2>9, <2>10, <2>11, <2>12, <2>13
                DEF Inner
<1> QED  BY <1>3, <1>4, <1>5 DEF IInv

\* A client leaves, with its answer or without.
LEMMA LeaveStep ==
    ASSUME IInv, NEW c \in Conns, Leave(c)
    PROVE  IInv'
<1> TypeOK /\ CallsInOrder
    BY DEF IInv
<1>1. /\ UNCHANGED <<slot, lock, pc, cur, ret, rset, chld_flag, pending, child, answer, unread,
                     backlog, misled>>
      /\ cli[c] \in {"open", "asked"}
      /\ cli' = [cli EXCEPT ![c] = "closed"]
    BY DEF Leave, daemon
<1>s. Pids' = Pids
    BY <1>1, SameTable
<1>2. /\ cli' \in [Conns -> {"idle", "open", "asked", "closed"}]
      /\ \A b \in Conns : cli'[b] = IF b = c THEN "closed" ELSE cli[b]
    BY <1>1 DEF TypeOK
<1>3. TypeOK'
    BY <1>1, <1>s, <1>2 DEF TypeOK
<1>4. CallsInOrder'
    BY <1>1, <1>s, SameTable DEF CallsInOrder
<1>5. ASSUME Alive' PROVE Inner'
    <2> Inner
        BY <1>1, <1>5 DEF IInv, Alive
    <2>1. Control'
        BY <1>1 DEF Inner, Control
    <2>2. Connections'
        BY <1>1, <1>2 DEF Inner, Connections, InBacklog, TypeOK
    <2>3. NewClients'
        BY <1>1, <1>s, <1>2 DEF Inner, NewClients, Unheard, InBacklog
    <2>4. Children'
        BY <1>1, <1>2, Basics, SameTable DEF Inner, Children
    <2>5. Entries'
        BY <1>1, <1>2, Basics, SameTable, OwnEntry DEF Inner, Entries
    <2>6. Placing'
        BY <1>1, <1>2, Basics, SameTable DEF Inner, Control, Placing
    <2>7. Answers'
        BY <1>1, <1>2, SameTable, Numbers DEF Inner, Answers
    <2>8. LockOwned'
        BY <1>1, SameTable, Basics DEF Inner, LockOwned, Alive
    <2>9. ScanRead'
        BY <1>1, <1>2, Basics DEF Inner, ScanRead, TypeOK
    <2>10. UseIsLocked'
        BY <1>1, <1>2, Basics, SameTable DEF Inner, UseIsLocked, Alive
    <2>11. FailuresNoticed'
        BY <1>1, SameTable DEF Inner, FailuresNoticed, Alive
    <2>12. NotForgotten'
        BY <1>1, <1>2, Basics, SameTable DEF Inner, NotForgotten, Alive
    <2>13. Marks'
        BY <1>1, <1>s, <1>2, SameTable DEF Inner, Marks, NoChild, Unheard, InBacklog
    <2> QED  BY <2>1, <2>2, <2>3, <2>4, <2>5, <2>6, <2>7, <2>8, <2>9, <2>10, <2>11, <2>12, <2>13
                DEF Inner
<1> QED  BY <1>3, <1>4, <1>5 DEF IInv

\* The actions that change nothing but where the daemon is.
Moves ==
    \/ Top \/ CallSelect \/ Select \/ ScanNext \/ ScanEnd \/ Again \/ ChildNext \/ ChildFound
    \/ ChildEnd

\* Moves keeps the invariant: the table is as it was, and what is marked is
\* still to be seen.
LEMMA MovesStep ==
    ASSUME IInv, Moves
    PROVE  IInv'
<1> TypeOK /\ CallsInOrder
    BY DEF IInv
<1> USE DEF Moves
<1>1. UNCHANGED <<slot, lock, pending, child, cli, answer, unread, backlog, misled>>
    BY DEF Top, CallSelect, Select, ScanNext, ScanEnd, Again, ChildNext, ChildFound, ChildEnd, clients
<1>s. Pids' = Pids
    BY <1>1, SameTable
<1>2. pc # "dead" /\ pc # "request" /\ pc # "lock" /\ pc' # "request" /\ pc' # "lock"
    <2>1. CASE pc = "child" /\ pc' = ret
        BY <2>1 DEF TypeOK
    <2> QED  BY <2>1 DEF Top, CallSelect, Select, ScanNext, ScanEnd, Again, ChildNext, ChildFound, ChildEnd
<1>3. Inner
    BY <1>2 DEF IInv, Alive
<1>4. Control
    BY <1>3 DEF Inner
<1>5. /\ cur' \in 1..(NConns + 1) /\ chld_flag' \in BOOLEAN /\ ret' \in {"top", "call", "scan"}
      /\ rset' \subseteq Conns
      /\ pc' \in {"top", "call", "select", "scan", "again", "child", "connected", "failed"}
    <2>1. 1 \in 1..(NConns + 1)
        BY Basics
    <2>2. CASE Select
        BY <2>2, Basics DEF Select, Readable, allset, TypeOK
    <2>3. CASE ScanNext \/ ChildNext
        BY <2>3, Basics DEF ScanNext, ChildNext, TypeOK
    <2>4. CASE ScanEnd \/ ChildEnd
        BY <2>1, <2>4, <1>4 DEF ScanEnd, ChildEnd, TypeOK, Control
    <2>5. CASE Top \/ CallSelect \/ Again \/ ChildFound
        BY <2>5 DEF Top, CallSelect, Again, ChildFound, TypeOK
    <2> QED  BY <2>2, <2>3, <2>4, <2>5
<1>6. TypeOK'
    BY <1>1, <1>s, <1>5 DEF TypeOK
<1>7. CallsInOrder'
    BY <1>1, <1>s, SameTable DEF CallsInOrder
<1>8. Inner'
    <2>1. Control'
        BY <1>1, <1>4 DEF Top, CallSelect, Select, ScanNext, ScanEnd, Again, ChildNext, ChildFound,
                          Marked, ChildEnd, Control
    <2>2. Connections'
        BY <1>1, <1>3 DEF Inner, Connections, InBacklog
    <2>3. NewClients'
        BY <1>1, <1>s, <1>3 DEF Inner, NewClients, Unheard, InBacklog
    <2>4. Children'
        BY <1>1, <1>2, <1>3, Basics, SameTable DEF Inner, Children
    <2>5. Entries'
        BY <1>1, <1>3, Basics, SameTable, OwnEntry DEF Inner, Entries
    <2>6. Placing'
        BY <1>2 DEF Placing
    <2>7. Answers'
        BY <1>1, <1>3, SameTable, Numbers DEF Inner, Answers
    <2>8. LockOwned'
        BY <1>1, <1>2, <1>3, SameTable, Basics DEF Inner, LockOwned, Alive
    <2>9. ScanRead'
        <3>1. CASE Select
            BY <3>1, <1>1 DEF Select, ScanRead, Readable
        <3>2. CASE ScanNext
            BY <3>2, <1>1, <1>3, Basics DEF ScanNext, Inner, ScanRead
        <3>3. CASE Top \/ CallSelect \/ ScanEnd \/ Again \/ ChildFound
            BY <3>3 DEF Top, CallSelect, ScanEnd, Again, ChildFound, ScanRead
        <3>4. CASE ChildNext \/ ChildEnd
            BY <3>4, <1>4 DEF ChildNext, ChildEnd, ScanRead, Control
        <3> QED  BY <3>1, <3>2, <3>3, <3>4
    <2>10. UseIsLocked'
        BY <1>1, <1>2, <1>3, SameTable, Basics DEF Inner, UseIsLocked, Alive
    <2>11. FailuresNoticed'
        <3> SUFFICES ASSUME NEW i \in Slots, slot[i].fd \notin misled, HasFailed(i)
                     PROVE  /\ slot[i].childdone = 2
                            /\ \/ chld_flag'
                               \/ pc' \in {"child", "failed"} /\ cur' <= i
                               \/ pc' = "connected" /\ ret' # "scan" /\ cur' < i
            BY <1>1, SameTable DEF FailuresNoticed
        <3>1. /\ slot[i].childdone = 2
              /\ \/ chld_flag \/ (pc \in {"child", "failed"} /\ cur <= i)
                 \/ pc = "connected" /\ ret # "scan" /\ cur < i
            BY <1>2, <1>3 DEF Inner, FailuresNoticed, Alive
        <3>2. CASE Again
            BY <3>1, <3>2, <1>4, Basics DEF Again, Control
        <3>3. CASE ChildNext
            <4>1. slot[i].fd # -1
                BY OwnEntry, Numbers DEF HasFailed, Collected
            <4> QED  BY <3>1, <3>3, <4>1, Basics DEF ChildNext, Marked
        <3>4. CASE ChildFound
            BY <3>1, <3>4, <1>4, Basics DEF ChildFound, Control
        <3>5. CASE ChildEnd
            BY <3>1, <3>5, Basics DEF ChildEnd
        <3>6. CASE Top \/ CallSelect \/ Select \/ ScanNext \/ ScanEnd
            BY <3>1, <3>6 DEF Top, CallSelect, Select, ScanNext, ScanEnd
        <3> QED  BY <3>2, <3>3, <3>4, <3>5, <3>6
    <2>12. NotForgotten'
        BY <1>1, <1>2, <1>3, SameTable, Basics DEF Inner, NotForgotten, Alive
    <2>13. Marks'
        <3>1. ASSUME NEW i \in Slots, pc' \in {"connected", "failed"}, cur' = i
              PROVE  /\ pc' = "connected" => slot[i].childdone = 1
                     /\ pc' = "failed" => slot[i].childdone = 2
            <4>1. ChildFound
                BY <1>2, <1>4, <3>1 DEF Top, CallSelect, Select, ScanNext, ScanEnd, Again, ChildNext,
                                        ChildEnd, Control
            <4>2. slot[i].childdone \in 0..2 /\ slot[i].childdone # 0 /\ cur = i
                BY <3>1, <4>1, Basics DEF ChildFound, Marked, Entry
            <4> QED  BY <4>1, <4>2 DEF ChildFound
        <3> QED  BY <1>1, <1>s, <1>2, <1>3, <3>1, SameTable DEF Inner, Marks, NoChild, Unheard, InBacklog
    <2> QED  BY <2>1, <2>2, <2>3, <2>4, <2>5, <2>6, <2>7, <2>8, <2>9, <2>10, <2>11, <2>12, <2>13
                DEF Inner
<1> QED  BY <1>6, <1>7, <1>8 DEF IInv

\* End of file: the client is closed, so the locks released are of no use to
\* anybody.
LEMMA ReadEofStep ==
    ASSUME IInv, ReadEof
    PROVE  IInv'
<1> TypeOK /\ CallsInOrder
    BY DEF IInv
<1>1. /\ UNCHANGED <<pc, ret, rset, chld_flag, pending, child, cli, answer, unread, backlog, misled>>
      /\ pc = "scan" /\ cur \in Slots /\ cur' = cur + 1 /\ Pids' = Pids
      /\ slot[cur].fd \in rset /\ slot[cur].fd \notin unread
    BY DEF ReadEof, clients, Pids
<1>2. slot' = [slot EXCEPT ![cur].fd = -1]
    BY DEF ReadEof, cli_done
<1>3. /\ slot' \in [Slots -> Entry]
      /\ \A i \in Slots :
           /\ slot'[i].fd = IF i = cur THEN -1 ELSE slot[i].fd
           /\ slot'[i].pid = slot[i].pid /\ slot'[i].sysftell = slot[i].sysftell
           /\ slot'[i].childdone = slot[i].childdone
    <2> DEFINE e == [slot[cur] EXCEPT !.fd = -1]
    <2>1. slot[cur] \in Entry
        BY <1>1, Basics
    <2>2. e \in Entry /\ e.fd = -1 /\ e.pid = slot[cur].pid /\ e.sysftell = slot[cur].sysftell
             /\ e.childdone = slot[cur].childdone
        BY <2>1 DEF Entry
    <2>3. slot' = [slot EXCEPT ![cur] = e]
        BY <1>2
    <2> HIDE DEF e
    <2> QED  BY <1>1, <2>2, <2>3, SlotUpdate
<1>4. /\ lock' \in [Devices -> Pids \cup {0}]
      /\ \A d \in Devices : lock'[d] = IF lock[d] = slot[cur].pid THEN 0 ELSE lock[d]
    <2>1. lock' = [d \in Devices |-> IF lock[d] = slot[cur].pid THEN 0 ELSE lock[d]]
        BY DEF ReadEof, lock_rel
    <2> QED  BY <2>1, Basics
<1>5. TypeOK'
    BY <1>1, <1>3, <1>4, Basics DEF TypeOK, Entry
<1>6. CallsInOrder'
    BY <1>1 DEF CallsInOrder, Sound
<1>7. ASSUME Alive' PROVE Inner'
    <2> Inner
        BY <1>1, <1>7 DEF IInv, Alive
    <2>a. slot[cur].fd \in Conns /\ cli[slot[cur].fd] = "closed" /\ slot[cur].fd # -1
        BY <1>1, Basics DEF Inner, ScanRead, TypeOK
    <2>b. \A p \in Pids : /\ Sound(p)' <=> Sound(p)
                          /\ Working(p)' <=> Working(p)
                          /\ Succeeded(p)' <=> Succeeded(p)
        BY <1>1 DEF Sound, Working, Succeeded
    <2>c. \A i \in Slots : /\ Own(i)' <=> i # cur /\ Own(i)
                           /\ Collected(i)' <=> i # cur /\ Collected(i)
                           /\ HasFailed(i)' <=> i # cur /\ HasFailed(i)
        <3>1. -1 \notin Conns /\ \A p \in Pids : child[p].conn \in Conns
            BY Basics
        <3>2. \A i \in Slots : Own(i)' <=> i # cur /\ Own(i)
            BY <1>1, <1>3, <3>1 DEF Own
        <3>3. \A i \in Slots : child'[slot'[i].pid] = child[slot[i].pid]
            BY <1>1, <1>3
        <3> QED  BY <3>2, <3>3 DEF Collected, HasFailed
    <2>1. Control'
        BY <1>1 DEF Inner, Control
    <2>2. Connections'
        BY <1>1, <1>3, Numbers DEF Inner, Connections, InBacklog
    <2>3. NewClients'
        BY <1>1 DEF Inner, NewClients, Unheard, InBacklog
    <2>4. Children'
        <3> SUFFICES ASSUME NEW p \in Pids
                     PROVE  /\ child[p].st # "wait"
                            /\ Sound(p) =>
                                 /\ child[p].code = Killed => cli[child[p].conn] = "closed"
                                 /\ Working(p) /\ cli[child[p].conn] # "closed" =>
                                       /\ \E i \in Slots : slot'[i].pid = p /\ Own(i)'
                                       /\ cli[child[p].conn] = "asked" /\ answer[child[p].conn] = 0
                                 /\ Succeeded(p) => answer[child[p].conn] = p
            BY <1>1, <2>b DEF Children
        <3>1. \A i \in Slots : slot[i].pid = p /\ Own(i) /\ cli[child[p].conn] # "closed" => i # cur
            BY <2>a DEF Own
        <3> QED  BY <1>1, <1>3, <2>c, <3>1 DEF Inner, Children
    <2>5. Entries'
        BY <1>1, <1>3, <2>b, <2>c DEF Inner, Entries
    <2>6. Placing'
        BY <1>1 DEF Placing
    <2>7. Answers'
        BY <1>1, <1>3, <2>a, <2>b, Numbers DEF Inner, Answers
    <2>8. LockOwned'
        <3> SUFFICES ASSUME NEW d \in Devices, lock'[d] # 0, child'[lock'[d]].conn \notin misled'
                     PROVE  \E i \in Slots : slot'[i].pid = lock'[d] /\ Own(i)'
            BY DEF LockOwned, Sound
        <3>1. lock'[d] = lock[d] /\ lock[d] # 0 /\ lock[d] # slot[cur].pid /\ Sound(lock[d])
            BY <1>1, <1>4 DEF Sound
        <3>2. PICK i \in Slots : slot[i].pid = lock[d] /\ Own(i)
            BY <1>1, <3>1 DEF Inner, LockOwned, Alive
        <3> QED  BY <1>3, <2>c, <3>1, <3>2
    <2>9. ScanRead'
        BY <1>1, <1>3, Numbers DEF Inner, ScanRead
    <2>10. UseIsLocked'
        <3>1. \A p \in Pids : Sound(p) /\ child[p].st = "dial" /\ cli[child[p].conn] # "closed" =>
                  p # slot[cur].pid
            <4> SUFFICES ASSUME NEW p \in Pids, Sound(p), child[p].st = "dial",
                                cli[child[p].conn] # "closed"
                         PROVE  p # slot[cur].pid
                OBVIOUS
            <4>1. PICK i \in Slots : slot[i].pid = p /\ Own(i)
                BY DEF Inner, Children, Working
            <4>2. i # cur
                BY <2>a, <4>1 DEF Own
            <4> QED  BY <1>1, <4>1, <4>2 DEF Inner, Entries
        <3>2. \A c \in Conns \ misled : cli[c] = "asked" /\ answer[c] > 0 => answer[c] # slot[cur].pid
            <4> SUFFICES ASSUME NEW c \in Conns \ misled, cli[c] = "asked", answer[c] > 0
                         PROVE  answer[c] # slot[cur].pid
                OBVIOUS
            <4>1. answer[c] \in Pids /\ Sound(answer[c])
                BY Numbers DEF Inner, Answers, Sound
            <4>2. PICK i \in Slots : slot[i].fd = c /\ slot[i].pid = answer[c]
                BY DEF Inner, Answers
            <4>3. i # cur
                BY <2>a, <4>2
            <4> QED  BY <1>1, <4>1, <4>2, <4>3 DEF Inner, Entries
        <3>3. \A p \in Pids : child[p].dev \in Devices
            BY Basics
        <3> QED  BY <1>1, <1>4, <2>b, <3>1, <3>2, <3>3, Numbers DEF Inner, UseIsLocked, Alive
    <2>11. FailuresNoticed'
        BY <1>1, <1>3, <2>c DEF Inner, FailuresNoticed, Alive
    <2>12. NotForgotten'
        BY <1>1, <1>3, <2>c DEF Inner, NotForgotten, Alive
    <2>13. Marks'
        BY <1>1, <1>3, <2>c DEF Inner, Marks, NoChild, Unheard, InBacklog
    <2> QED  BY <2>1, <2>2, <2>3, <2>4, <2>5, <2>6, <2>7, <2>8, <2>9, <2>10, <2>11, <2>12, <2>13
                DEF Inner
<1> QED  BY <1>5, <1>6, <1>7 DEF IInv

\* A record whose childdone, sysftell and sysname are set is an entry.
LEMMA NewRequest ==
    ASSUME NEW r \in Entry, NEW s \in DOMAIN Systems
    PROVE  LET f == [r EXCEPT !.childdone = 0, !.sysftell = 0, !.sysname = s]
           IN  f \in Entry /\ f.fd = r.fd /\ f.pid = r.pid /\ f.sysftell = 0 /\ f.childdone = 0
<1> DEFINE f == [r EXCEPT !.childdone = 0, !.sysftell = 0, !.sysname = s]
<1>1. f.fd = r.fd /\ f.pid = r.pid /\ f.childdone = 0 /\ f.sysftell = 0 /\ f.sysname = s
    BY DEF Entry
<1>2. r.fd \in Conns \cup {-1} /\ r.pid \in Nat /\ 0 \in Nat \cup {-1} /\ 0 \in 0..2
    BY DEF Entry
<1>3. f = [x \in {"fd", "pid", "childdone", "sysftell", "sysname"} |-> f[x]]
    BY DEF Entry
<1> HIDE DEF f
<1>4. f = [fd |-> f.fd, pid |-> f.pid, childdone |-> f.childdone, sysftell |-> f.sysftell,
           sysname |-> f.sysname]
    BY <1>3
<1>5. f \in Entry
    BY <1>1, <1>2, <1>4 DEF Entry
<1> QED  BY <1>1, <1>5 DEF f

\* A request is read: its client has no child, so the pid left in the entry
\* locks nothing.
LEMMA ReadRequestStep ==
    ASSUME IInv, ReadRequest
    PROVE  IInv'
<1> TypeOK /\ CallsInOrder
    BY DEF IInv
<1> DEFINE c == slot[cur].fd
<1>1. /\ UNCHANGED <<lock, cur, rset, chld_flag, pending, child, cli, answer, backlog, misled>>
      /\ pc = "scan" /\ pc' = "request" /\ ret' = "scan" /\ cur \in Slots /\ Pids' = Pids
      /\ c \in unread /\ unread' = unread \ {c} /\ c \in Conns
    BY DEF ReadRequest, Pids, TypeOK
<1>2. slot' = [slot EXCEPT ![cur].childdone = 0, ![cur].sysftell = 0, ![cur].sysname = Wanted[c]]
    BY DEF ReadRequest
<1>3. /\ slot' \in [Slots -> Entry]
      /\ \A i \in Slots :
           /\ slot'[i].fd = slot[i].fd /\ slot'[i].pid = slot[i].pid
           /\ slot'[i].sysftell = IF i = cur THEN 0 ELSE slot[i].sysftell
           /\ slot'[i].childdone = IF i = cur THEN 0 ELSE slot[i].childdone
    <2> DEFINE e == [slot[cur] EXCEPT !.childdone = 0, !.sysftell = 0, !.sysname = Wanted[c]]
    <2>1. slot[cur] \in Entry /\ Wanted[c] \in DOMAIN Systems
        <3>1. slot[cur] \in Entry
            BY <1>1, Basics
        <3> QED  BY <1>1, <3>1, CalldAssumption
    <2> HIDE DEF c
    <2>2. e \in Entry /\ e.fd = slot[cur].fd /\ e.pid = slot[cur].pid /\ e.sysftell = 0
             /\ e.childdone = 0
        BY <2>1, NewRequest DEF e
    <2>3. slot' = [slot EXCEPT ![cur] = e]
        BY <1>2
    <2> HIDE DEF e
    <2> QED  BY <1>1, <2>2, <2>3, SlotUpdate
<1>4. TypeOK'
    BY <1>1, <1>3, Basics DEF TypeOK, Entry
<1>5. CallsInOrder'
    BY <1>1 DEF CallsInOrder, Sound
<1>6. Inner'
    <2> Inner
        BY <1>1 DEF IInv, Alive
    <2>a. /\ c # -1 /\ cli[c] \in {"asked", "closed"}
          /\ c \notin misled => answer[c] = 0 /\ \A p \in Pids : child[p].conn # c
        BY <1>1, Basics DEF Inner, Connections, NewClients, Unheard
    <2>b. \A p \in Pids : /\ Sound(p)' <=> Sound(p)
                          /\ Working(p)' <=> Working(p)
                          /\ Succeeded(p)' <=> Succeeded(p)
        BY <1>1 DEF Sound, Working, Succeeded
    <2>c. \A i \in Slots : /\ Own(i)' <=> Own(i)
                           /\ Collected(i)' <=> Collected(i)
                           /\ HasFailed(i)' <=> HasFailed(i)
        BY <1>1, <1>3 DEF Own, Collected, HasFailed
    <2>d. c \notin misled => ~Own(cur)
        BY <2>a DEF Own
    <2>1. Control'
        BY <1>1, <1>3, <2>a DEF Control
    <2>2. Connections'
        BY <1>1, <1>3, <2>a DEF Inner, Connections, InBacklog
    <2>3. NewClients'
        BY <1>1 DEF Inner, NewClients, Unheard, InBacklog
    <2>4. Children'
        <3>1. \A p \in Pids : child[p].st # "wait"
            BY <1>1 DEF Inner, Children
        <3> QED  BY <1>1, <1>3, <2>b, <2>c, <3>1 DEF Inner, Children
    <2>5. Entries'
        BY <1>1, <1>3, <2>b, <2>c, <2>d DEF Inner, Entries
    <2>6. Placing'
        <3>1. \A d \in Devices : lock[d] # 0 /\ Sound(lock[d]) => lock[d] # slot[cur].pid
            <4> SUFFICES ASSUME NEW d \in Devices, lock[d] # 0, Sound(lock[d]), lock[d] = slot[cur].pid
                         PROVE  FALSE
                OBVIOUS
            <4>1. PICK i \in Slots : slot[i].pid = lock[d] /\ Own(i)
                BY <1>1 DEF Inner, LockOwned, Alive
            <4>2. i = cur
                BY <1>1, <4>1 DEF Inner, Entries, Own
            <4> QED  BY <2>d, <4>1, <4>2 DEF Own, Sound
        <3> QED  BY <1>1, <1>3, <2>a, <3>1 DEF Placing, Sound
    <2>7. Answers'
        BY <1>1, <1>3, <2>b, Numbers DEF Inner, Answers
    <2>8. LockOwned'
        BY <1>1, <1>3, <2>b, <2>c, Basics DEF Inner, LockOwned, Alive
    <2>9. ScanRead'
        BY <1>1, <1>3, <2>a, Numbers DEF Inner, ScanRead, Connections
    <2>10. UseIsLocked'
        BY <1>1, <2>b, Basics DEF Inner, UseIsLocked, Alive
    <2>11. FailuresNoticed'
        BY <1>1, <1>3, <2>c DEF Inner, FailuresNoticed, Alive
    <2>12. NotForgotten'
        BY <1>1, <1>3, <2>a, <2>c, Numbers DEF Inner, NotForgotten, Alive, Connections
    <2>13. Marks'
        <3>1. \A i \in Slots : i # cur => slot[i].fd # c
            BY <1>1, <2>a DEF Inner, Connections
        <3>2. \A i \in Slots : i # cur => (Unheard(slot[i].fd)' <=> Unheard(slot[i].fd))
            BY <1>1, <1>3, <3>1 DEF Unheard, InBacklog
        <3>3. c \notin misled => NoChild(c)
            BY <2>a DEF NoChild
        <3> QED  BY <1>1, <1>3, <2>c, <2>d, <3>2, <3>3 DEF Inner, Marks, NoChild
    <2> QED  BY <2>1, <2>2, <2>3, <2>4, <2>5, <2>6, <2>7, <2>8, <2>9, <2>10, <2>11, <2>12, <2>13
                DEF Inner
<1> QED  BY <1>4, <1>5, <1>6 DEF IInv

\* serv_accept() and client_add(): the entry may still hold the pid of a
\* client that has gone.
LEMMA AcceptStep ==
    ASSUME IInv, Accept
    PROVE  IInv'
<1> TypeOK /\ CallsInOrder
    BY DEF IInv
<1> DEFINE c == Head(backlog)
<1>1. /\ UNCHANGED <<lock, cur, ret, rset, chld_flag, pending, child, cli, answer, unread, misled>>
      /\ pc = "select" /\ pc' = "top" /\ Pids' = Pids
      /\ backlog # <<>> /\ backlog' = Tail(backlog) /\ backlog \in Seq(Conns)
    BY DEF Accept, Pids, TypeOK
<1>2. PICK k \in Slots : slot[k].fd = -1 /\ slot' = [slot EXCEPT ![k].fd = c]
    BY DEF Accept, First
<1>3. /\ backlog' \in Seq(Conns) /\ c \in Conns /\ Len(backlog) \in Nat
      /\ DOMAIN backlog = 1..Len(backlog) /\ 1 \in DOMAIN backlog /\ c = backlog[1]
      /\ DOMAIN backlog' = 1..(Len(backlog) - 1)
      /\ \A m \in DOMAIN backlog' : backlog'[m] = backlog[m + 1]
    BY <1>1
<1>4. /\ slot' \in [Slots -> Entry]
      /\ \A i \in Slots :
           /\ slot'[i].fd = IF i = k THEN c ELSE slot[i].fd
           /\ slot'[i].pid = slot[i].pid /\ slot'[i].sysftell = slot[i].sysftell
           /\ slot'[i].childdone = slot[i].childdone
    <2> DEFINE e == [slot[k] EXCEPT !.fd = c]
    <2>1. slot[k] \in Entry
        BY Basics
    <2>2. e \in Entry /\ e.fd = c /\ e.pid = slot[k].pid /\ e.sysftell = slot[k].sysftell
             /\ e.childdone = slot[k].childdone
        BY <2>1, <1>3 DEF Entry
    <2>3. slot' = [slot EXCEPT ![k] = e]
        BY <1>2
    <2> HIDE DEF e
    <2> QED  BY <1>2, <2>2, <2>3, SlotUpdate
<1> HIDE DEF c
<1>5. TypeOK'
    BY <1>1, <1>3, <1>4 DEF TypeOK, Entry
<1>6. CallsInOrder'
    BY <1>1 DEF CallsInOrder, Sound
<1>7. Inner'
    <2> Inner
        BY <1>1 DEF IInv, Alive
    <2>0. \A b \in Conns : InBacklog(b)' <=> InBacklog(b) /\ b # c
        <3>1. \A m \in DOMAIN backlog : m # 1 => m - 1 \in DOMAIN backlog' /\ backlog'[m - 1] = backlog[m]
            BY <1>3
        <3>2. \A m \in DOMAIN backlog' : m + 1 \in DOMAIN backlog /\ m + 1 # 1
            BY <1>3
        <3>3. \A m \in DOMAIN backlog : backlog[m] = c => m = 1
            BY <1>3 DEF Inner, Connections
        <3> QED  BY <1>3, <3>1, <3>2, <3>3 DEF InBacklog
    <2>a. /\ c # -1 /\ c \notin misled => answer[c] = 0 /\ \A p \in Pids : child[p].conn # c
          /\ cli[c] # "idle" /\ (cli[c] = "asked" => c \in unread) /\ \A i \in Slots : slot[i].fd # c
        BY <1>3, Basics DEF Inner, Connections, NewClients, Unheard, InBacklog
    <2>b. \A p \in Pids : /\ Sound(p)' <=> Sound(p)
                          /\ Working(p)' <=> Working(p)
                          /\ Succeeded(p)' <=> Succeeded(p)
        BY <1>1 DEF Sound, Working, Succeeded
    <2>c. \A i \in Slots : i # k => /\ Own(i)' <=> Own(i)
                                    /\ Collected(i)' <=> Collected(i)
                                    /\ HasFailed(i)' <=> HasFailed(i)
        BY <1>1, <1>4 DEF Own, Collected, HasFailed
    <2>d. ~Own(k) /\ (c \notin misled => ~Own(k)')
        <3>1. \A p \in Pids : child[p].conn # -1
            BY Basics
        <3> QED  BY <1>1, <1>2, <1>4, <2>a, <3>1 DEF Own
    <2>e. c \notin misled => ~Collected(k)' /\ ~HasFailed(k)'
        BY <2>d DEF Collected, HasFailed
    <2>1. Control'
        BY <1>1 DEF Inner, Control
    <2>2. Connections'
        <3>1. \A m, n \in DOMAIN backlog' : backlog'[m] = backlog'[n] => m = n
            <4>1. \A m \in DOMAIN backlog' : m \in Int /\ m + 1 \in DOMAIN backlog
                BY <1>3
            <4> QED  BY <1>3, <4>1 DEF Inner, Connections
        <3> QED  BY <1>1, <1>4, <2>0, <2>a, <3>1 DEF Inner, Connections
    <2>3. NewClients'
        BY <1>1, <2>0 DEF Inner, NewClients, Unheard
    <2>4. Children'
        <3>1. \A p \in Pids : child[p].st # "wait"
            BY <1>1 DEF Inner, Children
        <3>2. \A p \in Pids, i \in Slots : slot[i].pid = p /\ Own(i) => slot'[i].pid = p /\ Own(i)'
            BY <1>4, <2>c, <2>d
        <3> QED  BY <1>1, <2>b, <3>1, <3>2 DEF Inner, Children
    <2>5. Entries'
        BY <1>1, <1>4, <2>b, <2>c, <2>d DEF Inner, Entries
    <2>6. Placing'
        BY <1>1 DEF Placing
    <2>7. Answers'
        <3>1. \A b \in Conns, i \in Slots : slot[i].fd = b => i # k
            BY <1>2, Numbers
        <3> QED  BY <1>1, <1>4, <2>b, <3>1, Numbers DEF Inner, Answers
    <2>8. LockOwned'
        BY <1>1, <1>4, <2>b, <2>c, <2>d, Basics DEF Inner, LockOwned, Alive
    <2>9. ScanRead'
        BY <1>1 DEF ScanRead
    <2>10. UseIsLocked'
        BY <1>1, <2>b, Basics DEF Inner, UseIsLocked, Alive
    <2>11. FailuresNoticed'
        BY <1>1, <1>4, <2>c, <2>e DEF Inner, FailuresNoticed, Alive
    <2>12. NotForgotten'
        BY <1>1, <1>4, <2>a, <2>c DEF Inner, NotForgotten, Alive
    <2>13. Marks'
        <3>1. /\ c # -1 /\ cli[c] \in {"idle", "open", "asked", "closed"}
              /\ \A i \in Slots : slot[i].fd # -1 => slot[i].fd \in Conns /\ ~InBacklog(slot[i].fd)
            <4>1. c # -1 /\ cli[c] \in {"idle", "open", "asked", "closed"}
                BY <1>3, Numbers DEF TypeOK
            <4>2. \A i \in Slots : slot[i].fd # -1 => slot[i].fd \in Conns
                BY Basics
            <4> QED  BY <4>1, <4>2 DEF Inner, Connections
        <3>2. \A i \in Slots : slot'[i].fd \notin misled \cup {-1} =>
                  IF i = k THEN NoChild(slot[i].fd)' /\ (Unheard(slot[i].fd)' \/ cli[slot'[i].fd] = "closed")
                  ELSE /\ NoChild(slot[i].fd)' <=> NoChild(slot[i].fd)
                       /\ Unheard(slot[i].fd) => Unheard(slot[i].fd)'
            BY <1>1, <1>4, <2>a, <3>1 DEF NoChild, Unheard
        <3>3. \A i \in Slots : i # k => child'[slot'[i].pid] = child[slot[i].pid]
            BY <1>1, <1>4
        <3> QED  BY <1>1, <1>4, <2>c, <2>d, <3>2, <3>3 DEF Inner, Marks
    <2> QED  BY <2>1, <2>2, <2>3, <2>4, <2>5, <2>6, <2>7, <2>8, <2>9, <2>10, <2>11, <2>12, <2>13
                DEF Inner
<1> QED  BY <1>5, <1>6, <1>7 DEF IInv

\* child_done() for exit(0).
LEMMA ConnectedStep ==
    ASSUME IInv, Connected
    PROVE  IInv'
<1> TypeOK /\ CallsInOrder
    BY DEF IInv
<1>a. pc = "connected" /\ Inner
    BY DEF Connected, IInv, Alive
<1> Inner
    BY <1>a
<1>1. /\ UNCHANGED <<lock, ret, rset, chld_flag, pending, child, cli, answer, unread, backlog, misled>>
      /\ pc' = "child" /\ cur' = cur + 1 /\ Pids' = Pids
    BY DEF Connected, clients, Pids
<1>2. slot' = [slot EXCEPT ![cur].childdone = 0] /\ cur \in Slots /\ 0 \in 0..2
    BY <1>a DEF Connected, Inner, Control
<1>3. /\ slot' \in [Slots -> Entry]
      /\ \A i \in Slots :
           /\ slot'[i].fd = slot[i].fd /\ slot'[i].pid = slot[i].pid
           /\ slot'[i].sysftell = slot[i].sysftell
           /\ slot'[i].childdone = IF i = cur THEN 0 ELSE slot[i].childdone
    BY <1>2, SetDone
<1>4. TypeOK'
    BY <1>1, <1>2, <1>3, Basics DEF TypeOK, Entry
<1>b. \A p \in Pids : /\ Sound(p)' <=> Sound(p)
                      /\ Working(p)' <=> Working(p)
                      /\ Succeeded(p)' <=> Succeeded(p)
    BY <1>1 DEF Sound, Working, Succeeded
<1>c. \A i \in Slots : /\ Own(i)' <=> Own(i)
                       /\ Collected(i)' <=> Collected(i)
                       /\ HasFailed(i)' <=> HasFailed(i)
    BY <1>1, <1>3 DEF Own, Collected, HasFailed
<1>d. \A i \in Slots : slot[i].fd \notin misled /\ HasFailed(i) => i # cur
    <2>1. \A i \in Slots : HasFailed(i) => Own(i) /\ slot[i].fd # -1
        BY OwnEntry, Numbers DEF HasFailed, Collected
    <2> QED  BY <1>a, <2>1 DEF Inner, Marks, FailuresNoticed, Alive
<1>5. CallsInOrder'
    BY <1>1, <1>b DEF CallsInOrder
<1>6. Inner'
    <2>1. Control'
        BY <1>a, <1>1 DEF Inner, Control
    <2>2. Connections'
        BY <1>1, <1>3 DEF Inner, Connections, InBacklog
    <2>3. NewClients'
        BY <1>1, <1>3 DEF Inner, NewClients, Unheard, InBacklog
    <2>4. Children'
        <3>1. \A p \in Pids : child[p].st # "wait"
            BY <1>a DEF Inner, Children
        <3> QED  BY <1>1, <1>3, <1>b, <1>c, <3>1 DEF Inner, Children
    <2>5. Entries'
        BY <1>1, <1>3, <1>b, <1>c DEF Inner, Entries
    <2>6. Placing'
        BY <1>1 DEF Placing
    <2>7. Answers'
        BY <1>1, <1>3, <1>b, Numbers DEF Inner, Answers
    <2>8. LockOwned'
        BY <1>a, <1>1, <1>3, <1>b, <1>c, Basics DEF Inner, LockOwned, Alive
    <2>9. ScanRead'
        BY <1>1 DEF ScanRead
    <2>10. UseIsLocked'
        BY <1>a, <1>1, <1>b, Basics DEF Inner, UseIsLocked, Alive
    <2>11. FailuresNoticed'
        <3> SUFFICES ASSUME NEW i \in Slots, slot[i].fd \notin misled, HasFailed(i)
                     PROVE  /\ slot'[i].childdone = 2
                            /\ chld_flag' \/ (pc' = "child" /\ cur' <= i)
            BY <1>1, <1>3, <1>c DEF FailuresNoticed
        <3>1. slot[i].childdone = 2 /\ (chld_flag \/ cur < i)
            BY <1>a, <1>1 DEF Inner, FailuresNoticed, Alive
        <3>2. i # cur
            BY <1>d
        <3> QED  BY <1>1, <1>2, <1>3, <3>1, <3>2, Numbers
    <2>12. NotForgotten'
        BY <1>a, <1>1, <1>3, <1>c, <1>d DEF Inner, NotForgotten, Alive
    <2>13. Marks'
        <3>1. \A i \in Slots : /\ NoChild(slot[i].fd)' <=> NoChild(slot[i].fd)
                               /\ Unheard(slot[i].fd)' <=> Unheard(slot[i].fd)
            BY <1>1, <1>3 DEF NoChild, Unheard, InBacklog
        <3> QED  BY <1>a, <1>1, <1>3, <1>c, <3>1 DEF Inner, Marks
    <2> QED  BY <2>1, <2>2, <2>3, <2>4, <2>5, <2>6, <2>7, <2>8, <2>9, <2>10, <2>11, <2>12, <2>13
                DEF Inner
<1> QED  BY <1>4, <1>5, <1>6 DEF IInv

\* child_done() for a failure: a sound child whose entry it is has gone, so
\* nobody uses what is released.
LEMMA RetryStep ==
    ASSUME IInv, Retry
    PROVE  IInv'
<1> TypeOK /\ CallsInOrder
    BY DEF IInv
<1>a. pc = "failed" /\ Inner
    BY DEF Retry, IInv, Alive
<1> Inner
    BY <1>a
<1>1. /\ UNCHANGED <<cur, ret, rset, chld_flag, pending, child, cli, answer, unread, backlog>>
      /\ pc' = "request" /\ Pids' = Pids
      /\ misled \subseteq misled'
      /\ slot[cur].fd \notin misled' => cli[slot[cur].fd] # "open" /\ slot[cur].fd \notin unread
    BY DEF Retry, clients, Pids
<1>2. /\ slot' = [slot EXCEPT ![cur].childdone = 0] /\ cur \in Slots /\ 0 \in 0..2
      /\ slot[cur].fd # -1 /\ slot[cur].fd \in Conns
    BY <1>a, Basics DEF Retry, Inner, Control
<1>3. /\ slot' \in [Slots -> Entry]
      /\ \A i \in Slots :
           /\ slot'[i].fd = slot[i].fd /\ slot'[i].pid = slot[i].pid
           /\ slot'[i].sysftell = slot[i].sysftell
           /\ slot'[i].childdone = IF i = cur THEN 0 ELSE slot[i].childdone
    BY <1>2, SetDone
<1>4. /\ lock' \in [Devices -> Pids \cup {0}]
      /\ \A d \in Devices : lock'[d] = IF lock[d] = slot[cur].pid THEN 0 ELSE lock[d]
    <2>1. lock' = [d \in Devices |-> IF lock[d] = slot[cur].pid THEN 0 ELSE lock[d]]
        BY DEF Retry, lock_rel
    <2> QED  BY <2>1, Basics
<1>m. misled' \subseteq Conns \cup {-1}
    BY <1>2 DEF Retry, TypeOK
<1>5. TypeOK'
    BY <1>1, <1>3, <1>4, <1>m DEF TypeOK, Entry
<1>b. \A p \in Pids : /\ Sound(p)' => Sound(p)
                      /\ Working(p)' <=> Working(p)
                      /\ Succeeded(p)' <=> Succeeded(p)
    BY <1>1 DEF Sound, Working, Succeeded
<1>c. \A i \in Slots : /\ Own(i)' <=> Own(i)
                       /\ Collected(i)' <=> Collected(i)
                       /\ HasFailed(i)' <=> HasFailed(i)
    BY <1>1, <1>3 DEF Own, Collected, HasFailed
<1>d. slot[cur].fd \notin misled' /\ Own(cur) =>
          /\ child[slot[cur].pid].st = "gone" /\ child[slot[cur].pid].code = 1
          /\ cli[slot[cur].fd] # "closed" => cli[slot[cur].fd] = "asked" /\ answer[slot[cur].fd] = 0
    <2> SUFFICES ASSUME slot[cur].fd \notin misled, Own(cur)
                 PROVE  /\ child[slot[cur].pid].st = "gone" /\ child[slot[cur].pid].code = 1
                        /\ cli[slot[cur].fd] # "closed" =>
                              cli[slot[cur].fd] = "asked" /\ answer[slot[cur].fd] = 0
        BY <1>1
    <2>1. Collected(cur) /\ child[slot[cur].pid].code + 1 = 2
        BY <1>a, <1>2 DEF Inner, Marks
    <2>2. child[slot[cur].pid].code \in {Killed, 0, 1}
        BY OwnEntry, <1>2, Basics DEF Child
    <2>3. child[slot[cur].pid].code = 1
        BY <2>1, <2>2 DEF Killed
    <2> QED  BY <1>2, <2>1, <2>3 DEF Inner, Entries, HasFailed, Collected
<1>e. slot[cur].fd \notin misled' /\ ~Own(cur) => NoChild(slot[cur].fd) /\ cli[slot[cur].fd] = "closed"
    <2> SUFFICES ASSUME slot[cur].fd \notin misled', slot[cur].fd \notin misled, ~Own(cur)
                 PROVE  NoChild(slot[cur].fd) /\ cli[slot[cur].fd] = "closed"
        BY <1>1
    <2>1. cli[slot[cur].fd] # "idle" /\ ~InBacklog(slot[cur].fd)
        BY <1>2 DEF Inner, Connections
    <2> QED  BY <1>a, <1>1, <1>2, <2>1 DEF Inner, Marks, Unheard
<1>6. CallsInOrder'
    BY <1>1, <1>b DEF CallsInOrder
<1>7. Inner'
    <2>1. Control'
        BY <1>a, <1>1, <1>2, <1>3 DEF Control
    <2>2. Connections'
        BY <1>1, <1>3 DEF Inner, Connections, InBacklog
    <2>3. NewClients'
        BY <1>1 DEF Inner, NewClients, Unheard, InBacklog
    <2>4. Children'
        <3>1. \A p \in Pids : child[p].st # "wait"
            BY <1>a DEF Inner, Children
        <3> QED  BY <1>1, <1>3, <1>b, <1>c, <3>1 DEF Inner, Children
    <2>5. Entries'
        <3>1. slot[cur].fd \notin misled' => (Own(cur) => child[slot[cur].pid].code # 0)
            BY <1>d
        <3> QED  BY <1>1, <1>3, <1>b, <1>c, <3>1 DEF Inner, Entries
    <2>6. Placing'
        <3>1. slot[cur].fd \notin misled' => slot[cur].fd \notin unread
            BY <1>1
        <3>2. ASSUME slot[cur].fd \notin misled', NEW p \in Pids, child[p].conn = slot[cur].fd
              PROVE  child[p].st = "gone" /\ child[p].line <= slot[cur].sysftell
            <4> Own(cur)
                BY <1>e, <3>2 DEF NoChild
            <4>1. p <= slot[cur].pid /\ slot[cur].sysftell = child[slot[cur].pid].line
                BY <1>1, <1>2, <1>d, <3>2 DEF Inner, Entries
            <4>2. slot[cur].pid \in Pids /\ child[slot[cur].pid].conn = slot[cur].fd
                BY <1>d, <3>2 DEF Own
            <4>3. CASE p = slot[cur].pid
                BY <1>d, <3>2, <4>1, <4>3, Basics
            <4>4. CASE p < slot[cur].pid
                <5>1. child[p].line < child[slot[cur].pid].line /\ child[p].st = "gone"
                    BY <1>1, <3>2, <4>2, <4>4 DEF CallsInOrder, Sound
                <5>2. child[p].line \in Int /\ child[slot[cur].pid].line \in Int
                    BY <4>2, Basics
                <5> QED  BY <4>1, <5>1, <5>2
            <4> QED  BY <4>1, <4>2, <4>3, <4>4, Numbers
        <3>3. \A d \in Devices : lock'[d] # 0 => lock'[d] # slot[cur].pid
            BY <1>4
        <3> QED  BY <1>1, <1>2, <1>3, <1>d, <1>e, <3>1, <3>2, <3>3 DEF Placing
    <2>7. Answers'
        BY <1>1, <1>3, <1>b, Numbers DEF Inner, Answers
    <2>8. LockOwned'
        <3> SUFFICES ASSUME NEW d \in Devices, lock'[d] # 0, child'[lock'[d]].conn \notin misled'
                     PROVE  \E i \in Slots : slot'[i].pid = lock'[d] /\ Own(i)'
            BY DEF LockOwned, Sound
        <3>1. lock'[d] = lock[d] /\ lock[d] # 0 /\ Sound(lock[d])
            BY <1>1, <1>4 DEF Sound
        <3> QED  BY <1>a, <1>3, <1>c, <3>1 DEF Inner, LockOwned, Alive
    <2>9. ScanRead'
        BY <1>a, <1>1 DEF Inner, Control, ScanRead
    <2>10. UseIsLocked'
        <3>1. \A p \in Pids : Sound(p)' /\ child[p].st = "dial" /\ cli[child[p].conn] # "closed" =>
                  p # slot[cur].pid
            <4> SUFFICES ASSUME NEW p \in Pids, Sound(p), Sound(p)', child[p].st = "dial",
                                cli[child[p].conn] # "closed", p = slot[cur].pid
                         PROVE  FALSE
                BY <1>b
            <4>1. PICK i \in Slots : slot[i].pid = p /\ Own(i)
                BY DEF Inner, Children, Working
            <4>2. i = cur
                BY <1>2, <4>1 DEF Inner, Entries
            <4>3. slot[cur].fd \notin misled'
                BY <1>1, <4>1, <4>2 DEF Own, Sound
            <4> QED  BY <1>d, <4>1, <4>2, <4>3
        <3>2. \A c \in Conns \ misled' : cli[c] = "asked" /\ answer[c] > 0 => answer[c] # slot[cur].pid
            <4> SUFFICES ASSUME NEW c \in Conns \ misled', cli[c] = "asked", answer[c] > 0,
                                answer[c] = slot[cur].pid
                         PROVE  FALSE
                OBVIOUS
            <4>1. answer[c] \in Pids /\ child[answer[c]].conn = c /\ Sound(answer[c])
                      /\ Succeeded(answer[c])
                BY <1>1, Numbers DEF Inner, Answers, Sound
            <4>2. PICK i \in Slots : slot[i].fd = c /\ slot[i].pid = answer[c]
                BY <1>1 DEF Inner, Answers
            <4>3. i = cur
                BY <1>2, <4>1, <4>2 DEF Inner, Entries
            <4>4. Own(cur)
                BY <4>1, <4>2, <4>3 DEF Own
            <4> QED  BY <1>d, <4>1, <4>2, <4>3, <4>4 DEF Succeeded
        <3>3. \A p \in Pids : child[p].dev \in Devices
            BY Basics
        <3> QED  BY <1>a, <1>1, <1>4, <1>b, <3>1, <3>2, <3>3, Numbers DEF Inner, UseIsLocked, Alive
    <2>11. FailuresNoticed'
        BY <1>a, <1>1, <1>2, <1>3, <1>c, Numbers DEF Inner, Control, FailuresNoticed, Alive
    <2>12. NotForgotten'
        BY <1>a, <1>1, <1>3, <1>c DEF Inner, NotForgotten, Alive
    <2>13. Marks'
        BY <1>a, <1>1, <1>3, <1>c DEF Inner, Marks, NoChild, Unheard, InBacklog
    <2> QED  BY <2>1, <2>2, <2>3, <2>4, <2>5, <2>6, <2>7, <2>8, <2>9, <2>10, <2>11, <2>12, <2>13
                DEF Inner
<1> QED  BY <1>5, <1>6, <1>7 DEF IInv

\* lock_set() before TELL_CHILD(): the device was free, and the child that
\* waits is the only one.
LEMMA LockSetStep ==
    ASSUME IInv, LockSet
    PROVE  IInv'
<1> TypeOK /\ CallsInOrder
    BY DEF IInv
<1>a. pc = "lock" /\ Inner
    BY DEF LockSet, IInv, Alive
<1> DEFINE p == slot[cur].pid
<1>b. /\ cur \in Slots /\ p \in Pids /\ child[p].st = "wait" /\ lock[child[p].dev] = 0
      /\ child[p].dev \in Devices /\ Own(cur)
    BY <1>a, Basics DEF Inner, Control, Placing
<1>1. /\ UNCHANGED <<slot, ret, rset, chld_flag, pending, cli, answer, unread, backlog, misled>>
      /\ pc' = (IF ret = "scan" THEN "scan" ELSE "child") /\ cur' = cur + 1
      /\ lock' = [lock EXCEPT ![child[p].dev] = p]
      /\ child' = [child EXCEPT ![p].st = "dial"]
    BY DEF LockSet, clients, Caller
<1>2. /\ child' \in Seq(Child) /\ Pids' = Pids
      /\ \A q \in Pids :
           /\ child'[q].conn = child[q].conn /\ child'[q].dev = child[q].dev
           /\ child'[q].line = child[q].line /\ child'[q].code = child[q].code
           /\ child'[q].st = IF q = p THEN "dial" ELSE child[q].st
    <2> HIDE DEF p
    <2>1. child' = [child EXCEPT ![p].st = "dial"] /\ p \in Pids
        BY <1>1, <1>b
    <2> QED  BY <2>1, SetState
<1>3. /\ lock' \in [Devices -> Pids \cup {0}]
      /\ \A d \in Devices : lock'[d] = IF d = child[p].dev THEN p ELSE lock[d]
    BY <1>1, <1>b DEF TypeOK
<1>p. p = slot[cur].pid
    OBVIOUS
<1> HIDE DEF p
<1>4. TypeOK'
    BY <1>1, <1>2, <1>3, <1>b, Basics DEF TypeOK, Child
<1>c. \A q \in Pids : /\ Sound(q)' <=> Sound(q)
                      /\ Working(q)' <=> Working(q)
                      /\ Succeeded(q)' <=> Succeeded(q)
    BY <1>b, <1>1, <1>2 DEF Sound, Working, Succeeded
<1>d. \A i \in Slots : /\ Own(i)' <=> Own(i)
                       /\ Collected(i)' <=> Collected(i)
                       /\ HasFailed(i)' <=> HasFailed(i)
    BY <1>b, <1>1, <1>2 DEF Own, Collected, HasFailed
<1>5. CallsInOrder'
    BY <1>b, <1>2, <1>c DEF CallsInOrder
<1>6. Inner'
    <2>1. Control'
        BY <1>a, <1>1 DEF Inner, Control, TypeOK
    <2>2. Connections'
        BY <1>a, <1>1 DEF Inner, Connections, InBacklog
    <2>3. NewClients'
        BY <1>a, <1>1, <1>2 DEF Inner, NewClients, Unheard, InBacklog
    <2>4. Children'
        BY <1>a, <1>p, <1>1, <1>2, <1>c, <1>d DEF Inner, Children
    <2>5. Entries'
        <3>1. \A i \in Slots : Own(i) => slot[i].pid \in Pids
            BY OwnEntry
        <3> QED  BY <1>a, <1>1, <1>2, <1>c, <1>d, <3>1 DEF Inner, Entries
    <2>6. Placing'
        BY <1>1 DEF Placing
    <2>7. Answers'
        BY <1>a, <1>1, <1>2, <1>c, Numbers DEF Inner, Answers
    <2>8. LockOwned'
        <3> SUFFICES ASSUME NEW d \in Devices, lock'[d] # 0, child'[lock'[d]].conn \notin misled'
                     PROVE  \E i \in Slots : slot'[i].pid = lock'[d] /\ Own(i)'
            BY DEF LockOwned, Sound
        <3>1. CASE d = child[p].dev
            BY <1>b, <1>p, <1>1, <1>3, <1>d, <3>1
        <3>2. CASE d # child[p].dev
            <4>1. lock'[d] = lock[d] /\ lock[d] # 0 /\ lock[d] \in Pids
                BY <1>3, <3>2, Basics
            <4>2. Sound(lock[d])
                BY <1>1, <1>2, <4>1 DEF Sound
            <4> QED  BY <1>a, <1>1, <1>d, <4>1, <4>2 DEF Inner, LockOwned, Alive
        <3> QED  BY <3>1, <3>2
    <2>9. ScanRead'
        BY <1>a, <1>1, Numbers DEF Inner, ScanRead
    <2>10. UseIsLocked'
        <3>1. \A q \in Pids : child[q].dev \in Devices
            BY Basics
        <3>2. \A q \in Pids : Sound(q) /\ child[q].st = "dial" /\ cli[child[q].conn] # "closed" =>
                  child[q].dev # child[p].dev
            BY <1>a, <1>b, Numbers DEF Inner, UseIsLocked, Alive
        <3>3. \A c \in Conns \ misled : cli[c] = "asked" /\ answer[c] > 0 =>
                  answer[c] \in Pids /\ child[answer[c]].dev # child[p].dev
            BY <1>a, <1>b, Numbers DEF Inner, UseIsLocked, Alive
        <3> QED  BY <1>a, <1>b, <1>1, <1>2, <1>3, <1>c, <3>1, <3>2, <3>3 DEF Inner, UseIsLocked, Alive
    <2>11. FailuresNoticed'
        BY <1>a, <1>1, <1>d, Numbers DEF Inner, FailuresNoticed, Alive
    <2>12. NotForgotten'
        <3>1. \A i \in Slots : Own(i) => slot[i].pid \in Pids
            BY OwnEntry
        <3> QED  BY <1>a, <1>1, <1>2, <1>d, <3>1 DEF Inner, NotForgotten, Alive
    <2>13. Marks'
        <3>1. \A i \in Slots : Own(i) => child'[slot[i].pid].code = child[slot[i].pid].code
            BY <1>2, OwnEntry
        <3> QED  BY <1>a, <1>1, <1>2, <1>d, <3>1 DEF Inner, Marks, NoChild, Unheard, InBacklog
    <2> QED  BY <2>1, <2>2, <2>3, <2>4, <2>5, <2>6, <2>7, <2>8, <2>9, <2>10, <2>11, <2>12, <2>13
                DEF Inner
<1> QED  BY <1>4, <1>5, <1>6 DEF IInv

\* request() fails: the entry is closed and nothing is locked by its pid.
LEMMA GiveUpStep ==
    ASSUME IInv, GiveUp
    PROVE  IInv'
<1> TypeOK /\ CallsInOrder
    BY DEF IInv
<1>a. pc = "request" /\ Inner
    BY DEF GiveUp, IInv, Alive
<1> DEFINE c == slot[cur].fd
           dies == slot[cur].sysftell = -1 \/ cli[c] = "closed"
<1>b. cur \in Slots /\ c # -1 /\ c \in Conns
    BY <1>a, Basics DEF Inner, Control
<1>1. /\ UNCHANGED <<lock, ret, rset, chld_flag, pending, child, cli, unread, backlog, misled>>
      /\ pc' = (IF dies THEN "dead" ELSE IF ret = "scan" THEN "scan" ELSE "child")
      /\ cur' = cur + 1 /\ Pids' = Pids
      /\ answer' = [answer EXCEPT ![c] = IF @ = 0 /\ ~dies THEN -1 ELSE @]
    BY DEF GiveUp, Caller, Pids
<1>2. PICK n \in Candidates(cur) \cup {-1} : slot' = [slot EXCEPT ![cur].fd = -1, ![cur].sysftell = n]
    BY DEF GiveUp
<1>3. n \in Nat \cup {-1}
    <2>1. slot[cur].sysname \in DOMAIN Systems
        BY <1>b, Basics DEF Entry
    <2>2. Systems[slot[cur].sysname] \in Seq(Devices \cup {NoDevice})
        BY <2>1, CalldAssumption
    <2> QED  BY <2>2 DEF Candidates
<1>4. /\ slot' \in [Slots -> Entry]
      /\ \A i \in Slots :
           /\ slot'[i].fd = IF i = cur THEN -1 ELSE slot[i].fd
           /\ slot'[i].pid = slot[i].pid /\ slot'[i].childdone = slot[i].childdone
           /\ i # cur => slot'[i].sysftell = slot[i].sysftell
    <2> DEFINE e == [slot[cur] EXCEPT !.fd = -1, !.sysftell = n]
    <2>1. slot[cur] \in Entry
        BY <1>b, Basics
    <2>2. e \in Entry /\ e.fd = -1 /\ e.pid = slot[cur].pid /\ e.childdone = slot[cur].childdone
        BY <2>1, <1>3 DEF Entry
    <2>3. slot' = [slot EXCEPT ![cur] = e]
        BY <1>2
    <2> HIDE DEF e
    <2> QED  BY <1>b, <2>2, <2>3, SlotUpdate
<1>5. /\ answer' \in [Conns -> Pids \cup {0, -1}]
      /\ \A b \in Conns : b # c => answer'[b] = answer[b]
      /\ answer'[c] \in {answer[c], -1}
      /\ ~dies => answer'[c] # 0
    BY <1>b, <1>1 DEF TypeOK
<1> HIDE DEF c, dies
<1>6. TypeOK'
    BY <1>1, <1>4, <1>5, <1>b, Basics DEF TypeOK, Entry
<1>7. CallsInOrder'
    BY <1>1 DEF CallsInOrder, Sound
<1>8. ASSUME Alive' PROVE Inner'
    <2>0. ~dies /\ c = slot[cur].fd /\ cli[c] # "closed"
        BY <1>1, <1>8 DEF Alive, c, dies
    <2>a. /\ c \notin misled => c \notin unread /\ cli[c] = "asked" /\ answer[c] = 0
          /\ \A p \in Pids : Sound(p) /\ child[p].conn = c => child[p].st = "gone"
          /\ \A d \in Devices : lock[d] # 0 /\ Sound(lock[d]) => lock[d] # slot[cur].pid
        BY <1>a, <2>0 DEF Inner, Placing, Sound
    <2>b. \A i \in Slots : /\ Own(i)' <=> i # cur /\ Own(i)
                           /\ Collected(i)' <=> i # cur /\ Collected(i)
                           /\ HasFailed(i)' <=> i # cur /\ HasFailed(i)
        <3>1. -1 \notin Conns /\ \A p \in Pids : child[p].conn \in Conns
            BY Basics
        <3>2. \A i \in Slots : Own(i)' <=> i # cur /\ Own(i)
            BY <1>1, <1>4, <3>1 DEF Own
        <3>3. \A i \in Slots : child'[slot'[i].pid] = child[slot[i].pid]
            BY <1>1, <1>4
        <3> QED  BY <3>2, <3>3 DEF Collected, HasFailed
    <2>c. \A i \in Slots : i # cur => slot[i].fd # c
        BY <1>a, <1>b, <2>0 DEF Inner, Connections
    <2>s. \A p \in Pids : /\ Sound(p)' <=> Sound(p)
                          /\ Working(p)' <=> Working(p)
                          /\ Succeeded(p)' <=> Succeeded(p)
        BY <1>1 DEF Sound, Working, Succeeded
    <2>d. \A p \in Pids : Sound(p) /\ child[p].conn = c => ~Working(p) /\ ~Succeeded(p)
        <3> SUFFICES ASSUME NEW p \in Pids, Sound(p), child[p].conn = c
                     PROVE  ~Working(p) /\ ~Succeeded(p)
            OBVIOUS
        <3>1. ~Working(p)
            BY <2>a DEF Working
        <3>2. answer[c] # p
            BY <2>a, Numbers DEF Sound
        <3> QED  BY <1>a, <3>1, <3>2 DEF Inner, Children
    <2>1. Control'
        BY <1>a, <1>1, <2>0 DEF Inner, Control, TypeOK
    <2>2. Connections'
        BY <1>a, <1>1, <1>4, Numbers DEF Inner, Connections, InBacklog
    <2>3. NewClients'
        <3>1. c \notin misled => ~Unheard(c)
            BY <1>a, <1>b, <2>0, <2>a DEF Inner, Unheard, Connections
        <3> QED  BY <1>a, <1>1, <1>5, <3>1 DEF Inner, NewClients, Unheard, InBacklog
    <2>4. Children'
        <3>1. \A p \in Pids : child[p].conn \in Conns
            BY Basics
        <3>2. \A p \in Pids : child[p].st # "wait"
            BY <1>a DEF Inner, Children
        <3>3. ASSUME NEW p \in Pids, Sound(p), Working(p), cli[child[p].conn] # "closed"
              PROVE  \E i \in Slots : slot'[i].pid = p /\ Own(i)'
            <4>1. PICK i \in Slots : slot[i].pid = p /\ Own(i)
                BY <1>a, <3>3 DEF Inner, Children
            <4>2. i # cur
                BY <2>0, <2>d, <3>3, <4>1 DEF Own
            <4> QED  BY <1>4, <2>b, <4>1, <4>2
        <3> QED  BY <1>a, <1>1, <1>5, <2>d, <2>s, <3>1, <3>2, <3>3 DEF Inner, Children
    <2>5. Entries'
        BY <1>a, <1>1, <1>4, <1>5, <2>b, <2>c, <2>s, OwnEntry DEF Inner, Entries
    <2>6. Placing'
        BY <1>1, <2>0 DEF Placing
    <2>7. Answers'
        <3>1. \A b \in Conns : answer'[b] > 0 => answer[b] > 0 /\ answer'[b] = answer[b]
            BY <1>5
        <3>2. \A b \in Conns \ misled : answer[b] > 0 => b # c
            BY <2>a
        <3> QED  BY <1>a, <1>1, <1>4, <2>0, <2>s, <3>1, <3>2, Numbers DEF Inner, Answers
    <2>8. LockOwned'
        BY <1>a, <1>1, <1>4, <2>a, <2>b, <2>s, Basics DEF Inner, LockOwned, Alive
    <2>9. ScanRead'
        BY <1>a, <1>1, <1>4, Numbers DEF Inner, ScanRead
    <2>10. UseIsLocked'
        <3>1. \A b \in Conns : answer'[b] > 0 => answer[b] > 0 /\ answer'[b] = answer[b]
            BY <1>5
        <3> QED  BY <1>a, <1>1, <2>s, <3>1, Numbers DEF Inner, UseIsLocked, Alive
    <2>11. FailuresNoticed'
        BY <1>a, <1>b, <1>1, <1>4, <2>0, <2>b, Numbers DEF Inner, FailuresNoticed, Alive
    <2>12. NotForgotten'
        <3>1. \A i \in Slots : slot[i].fd \in Conns \cup {-1}
            BY Basics
        <3> QED  BY <1>a, <1>1, <1>4, <1>5, <2>b, <2>c, <3>1 DEF Inner, NotForgotten, Alive
    <2>13. Marks'
        BY <1>a, <1>1, <1>4, <2>0, <2>b DEF Inner, Marks, NoChild, Unheard, InBacklog
    <2> QED  BY <2>1, <2>2, <2>3, <2>4, <2>5, <2>6, <2>7, <2>8, <2>9, <2>10, <2>11, <2>12, <2>13
                DEF Inner
<1> QED  BY <1>6, <1>7, <1>8 DEF IInv

\* The device is passed to the client: it is locked for this child, and stays
\* so.
LEMMA DialDoneStep ==
    ASSUME IInv, NEW p \in Pids, DialDone(p), cli[child[p].conn] # "closed"
    PROVE  IInv'
<1> TypeOK /\ CallsInOrder
    BY DEF IInv
<1> DEFINE c == child[p].conn
<1>1. /\ UNCHANGED <<slot, lock, pc, cur, ret, rset, chld_flag, cli, unread, backlog, misled, pending>>
      /\ child[p].st = "dial" /\ child' = [child EXCEPT ![p].st = "sent"]
      /\ answer' = [answer EXCEPT ![c] = IF @ = 0 THEN p ELSE @]
    BY DEF DialDone, daemon
<1>2. /\ child' \in Seq(Child) /\ Pids' = Pids
      /\ \A q \in Pids :
           /\ child'[q].conn = child[q].conn /\ child'[q].dev = child[q].dev
           /\ child'[q].line = child[q].line /\ child'[q].code = child[q].code
           /\ child'[q].st = IF q = p THEN "sent" ELSE child[q].st
    BY <1>1, SetState
<1>3. /\ answer' \in [Conns -> Pids \cup {0, -1}]
      /\ \A b \in Conns : b # c => answer'[b] = answer[b]
      /\ answer[c] = 0 => answer'[c] = p
    BY <1>1, Basics DEF TypeOK
<1>4. TypeOK'
    BY <1>1, <1>2, <1>3 DEF TypeOK, Child
<1>s. \A q \in Pids : /\ Sound(q)' <=> Sound(q)
                      /\ Working(q)' <=> Working(q) /\ q # p
                      /\ Succeeded(q)' <=> Succeeded(q) \/ q = p
    BY <1>1, <1>2 DEF Sound, Working, Succeeded
<1>5. CallsInOrder'
    BY <1>1, <1>2, <1>s DEF CallsInOrder
<1>6. ASSUME Alive' PROVE Inner'
    <2> Inner /\ Alive
        BY <1>1, <1>6 DEF IInv, Alive
    <2>b. c \in Conns /\ c # -1 /\ \A q \in Pids : child[q].conn \in Conns
        BY Basics
    <2>a. Sound(p) => cli[c] = "asked" /\ answer[c] = 0 /\ \E k \in Slots : slot[k].pid = p /\ Own(k)
        BY <1>1 DEF Inner, Children, Working
    <2>c. Sound(p) => answer'[c] = p
        BY <1>3, <2>a
    <2>d. c \in misled <=> ~Sound(p)
        BY DEF Sound
    <2>e. \A i \in Slots : /\ Own(i)' <=> Own(i)
                           /\ Collected(i)' <=> Collected(i)
                           /\ HasFailed(i)' <=> HasFailed(i)
        BY <1>1, <1>2 DEF Own, Collected, HasFailed
    <2>f. \A q \in Pids : child[q].conn = c /\ Sound(p) /\ q # p => ~Working(q) /\ ~Succeeded(q)
        <3> SUFFICES ASSUME NEW q \in Pids, child[q].conn = c, Sound(p), Sound(q), q # p
                     PROVE  ~Working(q) /\ ~Succeeded(q)
            BY DEF Sound
        <3>1. p \in Int /\ q \in Int /\ q # 0
            BY Numbers
        <3>2. CASE q < p
            <4>1. child[q].st = "gone"
                BY <3>2 DEF CallsInOrder
            <4> QED  BY <2>a, <3>1, <4>1 DEF Inner, Children, Working
        <3>3. CASE p < q
            BY <1>1, <3>3 DEF CallsInOrder
        <3> QED  BY <3>1, <3>2, <3>3
    <2>g. \A i \in Slots : Own(i) => slot[i].pid \in Pids /\ child[slot[i].pid].conn = slot[i].fd
        BY OwnEntry
    <2>k. child[p].conn = c
        OBVIOUS
    <2> HIDE DEF c
    <2>1. Control'
        BY <1>1 DEF Inner, Control
    <2>2. Connections'
        BY <1>1 DEF Inner, Connections, InBacklog
    <2>3. NewClients'
        <3>1. c \notin misled => ~Unheard(c)
            BY <2>b DEF Inner, NewClients, c
        <3> QED  BY <1>1, <1>2, <1>3, <3>1 DEF Inner, NewClients, Unheard, InBacklog
    <2>4. Children'
        <3> SUFFICES ASSUME NEW q \in Pids
                     PROVE  /\ child'[q].st = "wait" => pc = "lock" /\ slot[cur].pid = q
                            /\ Sound(q) =>
                                 /\ child[q].code = Killed => cli[child[q].conn] = "closed"
                                 /\ Working(q)' /\ cli[child[q].conn] # "closed" =>
                                       /\ \E i \in Slots : slot[i].pid = q /\ Own(i)
                                       /\ cli[child[q].conn] = "asked" /\ answer'[child[q].conn] = 0
                                 /\ Succeeded(q)' => answer'[child[q].conn] = q
            BY <1>1, <1>2, <1>s, <2>e DEF Children
        <3>1. CASE q = p
            BY <1>2, <1>s, <2>c, <2>k, <3>1 DEF Inner, Children
        <3>2. CASE q # p /\ child[q].conn # c
            BY <1>2, <1>3, <1>s, <2>b, <3>2 DEF Inner, Children
        <3>3. CASE q # p /\ child[q].conn = c
            <4>1. Sound(q) <=> Sound(p)
                BY <2>k, <3>3 DEF Sound
            <4> QED  BY <1>2, <1>s, <2>f, <3>3, <4>1 DEF Inner, Children
        <3> QED  BY <3>1, <3>2, <3>3
    <2>5. Entries'
        <3>1. \A i \in Slots : HasFailed(i) /\ slot[i].fd = c /\ c \notin misled => FALSE
            <4> SUFFICES ASSUME NEW i \in Slots, HasFailed(i), slot[i].fd = c, Sound(p)
                         PROVE  FALSE
                BY <2>d
            <4>1. Own(i) /\ child[slot[i].pid].st = "gone"
                BY DEF HasFailed, Collected
            <4>2. p <= slot[i].pid /\ p # slot[i].pid
                BY <1>1, <2>b, <2>d, <2>k, <4>1 DEF Inner, Entries
            <4>3. slot[i].pid \in Pids /\ slot[i].pid \in Int /\ p \in Int
                BY <2>g, <4>1, Numbers
            <4> QED  BY <1>1, <2>g, <2>k, <4>1, <4>2, <4>3 DEF CallsInOrder
        <3>2. \A i \in Slots : Own(i) => slot[i].fd \in Conns
            BY OwnEntry
        <3>3. \A i \in Slots : HasFailed(i) => Own(i)
            BY DEF HasFailed, Collected
        <3> QED  BY <1>1, <1>2, <1>3, <1>s, <2>e, <2>g, <3>1, <3>2, <3>3 DEF Inner, Entries
    <2>6. Placing'
        <3>1. pc = "request" => /\ slot[cur].fd \in Conns
                                /\ slot[cur].fd \notin misled => slot[cur].fd # c
            BY <1>1, <2>k, Basics DEF Inner, Control, Placing
        <3>2. ASSUME pc = "request", slot[cur].fd \notin misled
              PROVE  /\ cli[slot[cur].fd] # "closed" =>
                           cli[slot[cur].fd] = "asked" /\ answer'[slot[cur].fd] = 0
                     /\ \A q \in Pids : child[q].conn = slot[cur].fd =>
                           child'[q].st = "gone" /\ child[q].line <= slot[cur].sysftell
            BY <1>1, <1>2, <1>3, <3>1, <3>2 DEF Inner, Placing
        <3>3. \A d \in Devices : lock[d] # 0 => (Sound(lock[d])' <=> Sound(lock[d]))
            BY <1>1, <1>s, Basics
        <3>4. pc = "lock" => /\ slot[cur].pid \in Pids /\ child'[slot[cur].pid].st = "wait" /\ Own(cur)'
                             /\ lock[child'[slot[cur].pid].dev] = 0
            BY <1>1, <1>2, <2>e DEF Inner, Control, Placing
        <3> QED  BY <1>1, <1>2, <3>2, <3>3, <3>4 DEF Inner, Placing
    <2>7. Answers'
        <3>1. \A b \in Conns : answer'[b] > 0 => answer'[b] \in Pids
            <4>1. \A b \in Conns : answer'[b] \in Pids \/ answer'[b] = 0 \/ answer'[b] = -1
                BY <1>3
            <4> QED  BY <4>1
        <3>2. c \notin misled => \E k \in Slots : slot[k].fd = c /\ slot[k].pid = p
            BY <2>a, <2>d, <2>g, <2>k
        <3> QED  BY <1>1, <1>2, <1>3, <1>s, <2>c, <2>d, <2>k, <3>1, <3>2 DEF Inner, Answers
    <2>8. LockOwned'
        BY <1>1, <1>s, <2>e, Basics DEF Inner, LockOwned, Alive
    <2>9. ScanRead'
        BY <1>1 DEF Inner, ScanRead
    <2>10. UseIsLocked'
        <3>1. \A b \in Conns : b # c /\ answer'[b] > 0 => answer[b] \in Pids
            BY <1>3, Numbers
        <3>2. Sound(p) => lock[child[p].dev] = p
            BY <1>1, <2>a, <2>k DEF Inner, UseIsLocked, Alive
        <3>3. ASSUME NEW q \in Pids, Sound(q), child'[q].st = "dial", cli[child[q].conn] # "closed"
              PROVE  lock[child[q].dev] = q
            BY <1>1, <1>2, <3>3 DEF Inner, UseIsLocked, Alive
        <3>4. ASSUME NEW b \in Conns \ misled, cli[b] = "asked", answer'[b] > 0
              PROVE  lock[child'[answer'[b]].dev] = answer'[b]
            <4>1. CASE b = c
                BY <1>2, <2>c, <2>d, <3>2, <3>4, <4>1
            <4>2. CASE b # c
                <5>1. answer'[b] = answer[b] /\ answer[b] > 0 /\ answer[b] \in Pids
                    BY <1>3, <3>1, <3>4, <4>2
                <5> QED  BY <1>1, <1>2, <3>4, <5>1 DEF Inner, UseIsLocked, Alive
            <4> QED  BY <4>1, <4>2
        <3> QED  BY <1>1, <1>2, <1>s, <3>3, <3>4 DEF UseIsLocked
    <2>11. FailuresNoticed'
        BY <1>1, <2>e DEF Inner, FailuresNoticed, Alive
    <2>12. NotForgotten'
        <3> SUFFICES ASSUME NEW i \in Slots, slot[i].fd # -1, slot[i].fd \notin misled,
                            cli[slot[i].fd] = "asked", slot[i].fd \notin unread,
                            answer'[slot[i].fd] = 0
                     PROVE  \/ Own(i) /\ child'[slot[i].pid].st \in {"wait", "dial", "zombie"}
                            \/ HasFailed(i) /\ slot[i].childdone = 2
                            \/ pc = "request" /\ cur = i
            BY <1>1, <2>e DEF NotForgotten
        <3>1. slot[i].fd \in Conns
            BY Basics
        <3>2. slot[i].fd # c
            BY <2>c, <2>d, Numbers
        <3>3. \/ Own(i) /\ child[slot[i].pid].st \in {"wait", "dial", "zombie"}
              \/ HasFailed(i) /\ slot[i].childdone = 2
              \/ pc = "request" /\ cur = i
            BY <1>1, <1>3, <3>1, <3>2 DEF Inner, NotForgotten, Alive
        <3>4. Own(i) => slot[i].pid # p /\ slot[i].pid \in Pids
            BY <2>g, <2>k, <3>2
        <3> QED  BY <1>2, <3>3, <3>4
    <2>13. Marks'
        <3>1. \A i \in Slots : Own(i) => child'[slot[i].pid].code = child[slot[i].pid].code
            BY <1>2, <2>g
        <3> QED  BY <1>1, <1>2, <2>e, <3>1 DEF Inner, Marks, NoChild, Unheard, InBacklog
    <2> QED  BY <2>1, <2>2, <2>3, <2>4, <2>5, <2>6, <2>7, <2>8, <2>9, <2>10, <2>11, <2>12, <2>13
                DEF Inner
<1> QED  BY <1>4, <1>5, <1>6 DEF IInv

\* A child that ends: with 0 after it has sent its device, with 1 when it cannot
\* dial, and killed when its client has gone.
Ends(p) ==
    ChildExits(p) \/ DialFails(p) \/ (DialDone(p) /\ cli[child[p].conn] = "closed")

\* The end of a child changes nothing else.
LEMMA EndsStep ==
    ASSUME IInv, NEW p \in Pids, Ends(p)
    PROVE  IInv'
<1> TypeOK /\ CallsInOrder
    BY DEF IInv
<1>1. /\ UNCHANGED <<slot, lock, pc, cur, ret, rset, chld_flag, cli, answer, unread, backlog, misled>>
      /\ pending' = TRUE
    BY DEF Ends, ChildExits, DialFails, DialDone, Exit, daemon, clients
<1>2. PICK n \in {Killed, 0, 1} :
          /\ child' = [child EXCEPT ![p].st = "zombie", ![p].code = n]
          /\ \/ child[p].st = "sent" /\ n = 0
             \/ child[p].st = "dial" /\ n # 0 /\ (n = Killed => cli[child[p].conn] = "closed")
    BY DEF Ends, ChildExits, DialFails, DialDone, Exit, Killed
<1>3. /\ child' \in Seq(Child) /\ Pids' = Pids
      /\ \A q \in Pids :
           /\ child'[q].conn = child[q].conn /\ child'[q].dev = child[q].dev
           /\ child'[q].line = child[q].line
           /\ child'[q].st = IF q = p THEN "zombie" ELSE child[q].st
           /\ child'[q].code = IF q = p THEN n ELSE child[q].code
    BY <1>2, SetExit
<1>4. TypeOK'
    BY <1>1, <1>3 DEF TypeOK, Child
<1>5. CallsInOrder'
    <2>1. child[p].st # "gone"
        BY <1>2
    <2> QED  BY <1>1, <1>3, <2>1 DEF CallsInOrder, Sound
<1>6. ASSUME Alive' PROVE Inner'
    <2> Inner /\ Alive
        BY <1>1, <1>6 DEF IInv, Alive
    <2>a. child[p].st # "gone" /\ child[p].st # "wait" /\ child[p].st # "zombie"
        BY <1>2
    <2>b. \A q \in Pids : /\ Sound(q)' <=> Sound(q)
                          /\ Working(q)' => Working(q)
                          /\ Succeeded(q)' <=> Succeeded(q)
        <3>1. \A q \in Pids : Sound(q)' <=> Sound(q)
            BY <1>1, <1>3 DEF Sound
        <3>2. \A q \in Pids : q # p => (Working(q)' <=> Working(q)) /\ (Succeeded(q)' <=> Succeeded(q))
            BY <1>3 DEF Working, Succeeded
        <3>3. (Working(p)' => Working(p)) /\ (Succeeded(p)' <=> Succeeded(p))
            <4>1. child'[p].st = "zombie" /\ child'[p].code = n
                BY <1>3
            <4> QED  BY <1>2, <4>1 DEF Working, Succeeded
        <3> QED  BY <3>1, <3>2, <3>3
    <2>c. \A i \in Slots : /\ Own(i)' <=> Own(i)
                           /\ Collected(i)' <=> Collected(i)
                           /\ HasFailed(i)' <=> HasFailed(i)
        BY <1>1, <1>3, <2>a DEF Own, Collected, HasFailed
    <2>d. \A i \in Slots : Own(i) => slot[i].pid \in Pids /\ (Collected(i) => slot[i].pid # p)
        BY <2>a, OwnEntry DEF Collected
    <2>1. Control'
        BY <1>1 DEF Inner, Control
    <2>2. Connections'
        BY <1>1 DEF Inner, Connections, InBacklog
    <2>3. NewClients'
        BY <1>1, <1>3 DEF Inner, NewClients, Unheard, InBacklog
    <2>4. Children'
        <3>1. n = Killed => cli[child[p].conn] = "closed"
            BY <1>2 DEF Killed
        <3> QED  BY <1>1, <1>3, <2>a, <2>b, <2>c, <3>1 DEF Inner, Children
    <2>5. Entries'
        BY <1>1, <1>3, <2>b, <2>c, <2>d DEF Inner, Entries
    <2>6. Placing'
        <3>1. pc = "request" /\ slot[cur].fd \notin misled =>
                  \A q \in Pids : child[q].conn = slot[cur].fd =>
                      child'[q].st = "gone" /\ child[q].line <= slot[cur].sysftell
            BY <1>3, <2>a DEF Inner, Placing
        <3>2. \A d \in Devices : lock[d] # 0 => (Sound(lock[d])' <=> Sound(lock[d]))
            BY <1>1, <2>b, Basics
        <3>3. pc = "lock" => /\ slot[cur].pid \in Pids /\ child'[slot[cur].pid].st = "wait" /\ Own(cur)'
                             /\ lock[child'[slot[cur].pid].dev] = 0
            BY <1>1, <1>3, <2>a, <2>c DEF Inner, Control, Placing
        <3> QED  BY <1>1, <1>3, <3>1, <3>2, <3>3 DEF Inner, Placing
    <2>7. Answers'
        BY <1>1, <1>3, <2>b, Numbers DEF Inner, Answers
    <2>8. LockOwned'
        BY <1>1, <2>b, <2>c, Basics DEF Inner, LockOwned, Alive
    <2>9. ScanRead'
        BY <1>1 DEF Inner, ScanRead
    <2>10. UseIsLocked'
        BY <1>1, <1>3, <2>b, Numbers DEF Inner, UseIsLocked, Alive
    <2>11. FailuresNoticed'
        BY <1>1, <2>c DEF Inner, FailuresNoticed, Alive
    <2>12. NotForgotten'
        BY <1>1, <1>3, <2>c, <2>d DEF Inner, NotForgotten, Alive
    <2>13. Marks'
        <3>1. \A i \in Slots : Collected(i) => child'[slot[i].pid].code = child[slot[i].pid].code
            BY <1>3, <2>d DEF Collected
        <3> QED  BY <1>1, <1>3, <2>c, <3>1 DEF Inner, Marks, NoChild, Unheard, InBacklog
    <2> QED  BY <2>1, <2>2, <2>3, <2>4, <2>5, <2>6, <2>7, <2>8, <2>9, <2>10, <2>11, <2>12, <2>13
                DEF Inner
<1> QED  BY <1>4, <1>5, <1>6 DEF IInv

\* The handler: the entry of a sound child gets its status, and whatever else it
\* marks is the entry of no sound child.
LEMMA HandlerStep ==
    ASSUME IInv, NEW p \in Pids, sig_chld(p)
    PROVE  IInv'
<1> TypeOK /\ CallsInOrder
    BY DEF IInv
<1>1. /\ UNCHANGED <<lock, cur, rset, cli, answer, unread, backlog>>
      /\ pc # "dead" /\ child[p].st = "zombie" /\ pending' = FALSE /\ chld_flag' = TRUE
      /\ child' = [child EXCEPT ![p].st = "gone"] /\ misled \subseteq misled'
    BY DEF sig_chld, clients
<1> Inner /\ Alive
    BY <1>1 DEF IInv, Alive
<1>2. /\ child' \in Seq(Child) /\ Pids' = Pids
      /\ \A q \in Pids :
           /\ child'[q].conn = child[q].conn /\ child'[q].dev = child[q].dev
           /\ child'[q].line = child[q].line /\ child'[q].code = child[q].code
           /\ child'[q].st = IF q = p THEN "gone" ELSE child[q].st
    BY <1>1, SetState
<1>m. misled' \subseteq Conns \cup {-1}
    <2>1. pc = "request" => slot[cur].fd \in Conns \cup {-1}
        BY Basics DEF Inner, Control
    <2> QED  BY <2>1 DEF sig_chld, TypeOK
<1>3. child[p].code \in {Killed, 0, 1}
    BY Basics DEF Child
<1>s. \A q \in Pids : /\ Sound(q)' => Sound(q)
                      /\ Working(q)' <=> Working(q) /\ q # p
                      /\ Succeeded(q)' <=> Succeeded(q)
    BY <1>1, <1>2 DEF Sound, Working, Succeeded
<1>4. CallsInOrder'
    BY <1>2, <1>s DEF CallsInOrder
<1>5. CASE child[p].code # Killed /\ SlotsOf(p) = {}
    <2>1. UNCHANGED <<slot, ret>> /\ pc' = "dead"
        BY <1>5 DEF sig_chld
    <2>2. TypeOK'
        BY <1>1, <1>2, <1>m, <2>1 DEF TypeOK, Child
    <2> QED  BY <1>4, <2>1, <2>2 DEF IInv, Alive
<1>6. CASE child[p].code = Killed \/ SlotsOf(p) # {}
    <2>1. IF pc = "select" THEN pc' = "again" /\ ret' = "top" ELSE UNCHANGED <<pc, ret>>
        BY <1>6 DEF sig_chld
    <2>2. /\ slot' \in [Slots -> Entry]
          /\ \A i \in Slots :
               /\ slot'[i].fd = slot[i].fd /\ slot'[i].pid = slot[i].pid
               /\ slot'[i].sysftell = slot[i].sysftell
               /\ slot[i].pid # p => slot'[i].childdone = slot[i].childdone
               /\ pc = "request" /\ cur = i /\ slot[i].fd \notin misled' =>
                     slot'[i].childdone = slot[i].childdone
               /\ child[p].code = Killed => slot'[i].childdone = slot[i].childdone
               /\ slot[i].pid = p /\ Sound(p) /\ child[p].code # Killed =>
                     slot'[i].childdone = child[p].code + 1
        <3>1. CASE child[p].code = Killed
            <4>1. UNCHANGED slot
                BY <3>1 DEF sig_chld
            <4> QED  BY <3>1, <4>1, Basics
        <3>2. CASE child[p].code # Killed
            <4>1. PICK k \in Slots : /\ slot[k].pid = p
                                     /\ slot' = [slot EXCEPT ![k].childdone = child[p].code + 1]
                                     /\ pc = "request" /\ cur = k => slot[k].fd \in misled'
                <5>1. PICK k \in Slots : /\ First(k, SlotsOf(p))
                                         /\ slot' = [slot EXCEPT ![k].childdone = child[p].code + 1]
                    BY <1>6, <3>2 DEF sig_chld, client_sigchld
                <5>2. pc = "request" /\ cur = k => slot[k].fd \in misled'
                    BY <3>2, <5>1 DEF sig_chld
                <5> QED  BY <5>1, <5>2 DEF First, SlotsOf
            <4> DEFINE n == child[p].code + 1
            <4>2. n \in 0..2 /\ slot' = [slot EXCEPT ![k].childdone = n]
                BY <1>3, <3>2, <4>1 DEF Killed
            <4>3. Sound(p) => \A i \in Slots : slot[i].pid = p => i = k
                BY <4>1 DEF Inner, Entries
            <4>d. n = child[p].code + 1
                OBVIOUS
            <4> HIDE DEF n
            <4>4. /\ slot' \in [Slots -> Entry]
                  /\ \A i \in Slots :
                       /\ slot'[i].fd = slot[i].fd /\ slot'[i].pid = slot[i].pid
                       /\ slot'[i].sysftell = slot[i].sysftell
                       /\ slot'[i].childdone = IF i = k THEN n ELSE slot[i].childdone
                BY <4>2, SetDone
            <4> QED  BY <3>2, <4>1, <4>3, <4>4, <4>d
        <3> QED  BY <3>1, <3>2
    <2>3. TypeOK'
        BY <1>1, <1>2, <1>m, <2>1, <2>2 DEF TypeOK, Child, Entry
    <2>4. Inner'
        <3>a. \A i \in Slots : /\ Own(i)' <=> Own(i)
                               /\ Collected(i)' <=> Collected(i) \/ (Own(i) /\ slot[i].pid = p)
            BY <1>1, <1>2, <2>2 DEF Own, Collected
        <3>b. \A i \in Slots : Own(i) => slot[i].pid \in Pids /\ child[slot[i].pid].conn = slot[i].fd
            BY OwnEntry
        <3>c. \A i \in Slots :
                  HasFailed(i)' <=> HasFailed(i) \/ (Own(i) /\ slot[i].pid = p /\ child[p].code = 1)
            <4>1. \A i \in Slots : Own(i) => child'[slot'[i].pid].code = child[slot[i].pid].code
                BY <1>2, <2>2, <3>b
            <4>2. \A i \in Slots : Collected(i) => Own(i)
                BY DEF Collected
            <4> QED  BY <3>a, <4>1, <4>2 DEF HasFailed
        <3>d. \A i \in Slots : Own(i) /\ slot[i].pid = p /\ slot[i].fd \notin misled => Sound(p)
            BY <3>b DEF Sound
        <3>e. \A i \in Slots : Collected(i) => slot[i].pid # p
            BY <1>1 DEF Collected
        <3>f. pc' \in {"request", "lock", "scan"} => pc' = pc /\ ret' = ret
            BY <2>1
        <3>g. pc \in {"request", "lock", "scan"} => pc' = pc /\ ret' = ret
            BY <2>1
        <3>1. Control'
            BY <1>1, <2>1, <2>2 DEF Inner, Control
        <3>2. Connections'
            BY <1>1, <2>2 DEF Inner, Connections, InBacklog
        <3>3. NewClients'
            BY <1>1, <1>2 DEF Inner, NewClients, Unheard, InBacklog
        <3>4. Children'
            <4>1. ASSUME NEW q \in Pids, child'[q].st = "wait"
                  PROVE  pc' = "lock" /\ slot'[cur].pid = q
                BY <1>2, <2>2, <3>g, <4>1 DEF Inner, Children, Control
            <4>2. \A q \in Pids, i \in Slots : slot[i].pid = q /\ Own(i) => slot'[i].pid = q /\ Own(i)'
                BY <2>2, <3>a
            <4> QED  BY <1>1, <1>2, <1>s, <4>1, <4>2 DEF Inner, Children
        <3>5. Entries'
            <4>1. \A i, j \in Slots : 
                      slot'[i].pid \in Pids' /\ child'[slot'[i].pid].conn \notin misled'
                          /\ slot'[i].pid = slot'[j].pid => i = j
                BY <1>1, <1>2, <2>2 DEF Inner, Entries, Sound
            <4>2. ASSUME NEW i \in Slots, Own(i), slot[i].fd \notin misled
                  PROVE  /\ \A q \in Pids : child'[q].conn = slot[i].fd => q <= slot[i].pid
                         /\ slot[i].sysftell = child'[slot[i].pid].line
                BY <1>2, <3>b, <4>2 DEF Inner, Entries
            <4>3. ASSUME NEW i \in Slots, Own(i), slot[i].fd \notin misled
                  PROVE  /\ Collected(i)' /\ child'[slot[i].pid].code = 0 => slot'[i].childdone # 2
                         /\ HasFailed(i)' /\ cli[slot[i].fd] # "closed" =>
                               cli[slot[i].fd] = "asked" /\ answer[slot[i].fd] = 0
                <5>1. CASE slot[i].pid = p
                    <6>1. Sound(p) /\ child[p].conn = slot[i].fd
                        BY <3>b, <3>d, <4>3, <5>1
                    <6>2. child[p].code = 0 => slot'[i].childdone = 1
                        BY <2>2, <5>1, <6>1 DEF Killed
                    <6>3. child[p].code = 1 => Working(p)
                        BY <1>1 DEF Working
                    <6>4. HasFailed(i)' => child[p].code = 1
                        BY <3>c, <3>e, <5>1 DEF HasFailed
                    <6> QED  BY <1>2, <5>1, <6>1, <6>2, <6>3, <6>4 DEF Inner, Children
                <5>2. CASE slot[i].pid # p
                    BY <1>2, <2>2, <3>a, <3>b, <3>c, <4>3, <5>2 DEF Inner, Entries
                <5> QED  BY <5>1, <5>2
            <4> QED  BY <1>1, <1>2, <2>2, <3>a, <4>1, <4>2, <4>3 DEF Entries, Sound
        <3>6. Placing'
            <4>1. \A d \in Devices : lock[d] # 0 => (Sound(lock[d])' => Sound(lock[d]))
                BY <1>1, <1>s, Basics
            <4>2. CASE pc' = "request"
                <5>1. cur \in Slots /\ pc = "request"
                    BY <3>f, <4>2 DEF Inner, Control
                <5> QED  BY <1>1, <1>2, <2>2, <4>1, <4>2, <5>1 DEF Inner, Placing
            <4>3. CASE pc' = "lock"
                <5>1. cur \in Slots /\ pc = "lock" /\ slot[cur].pid # p
                    BY <1>1, <3>f, <4>3 DEF Inner, Control, Placing
                <5>2. slot[cur].pid \in Pids /\ child'[slot[cur].pid].st = "wait" /\ Own(cur)'
                         /\ lock[child'[slot[cur].pid].dev] = 0
                    BY <1>1, <1>2, <3>a, <5>1 DEF Inner, Placing
                <5> QED  BY <1>1, <1>2, <2>2, <4>3, <5>1, <5>2 DEF Placing
            <4> QED  BY <4>2, <4>3 DEF Placing
        <3>7. Answers'
            <4> SUFFICES ASSUME NEW c \in Conns \ misled', answer[c] > 0
                         PROVE  /\ child'[answer[c]].conn = c /\ Succeeded(answer[c])'
                                /\ cli[c] = "asked" =>
                                      \E i \in Slots : slot'[i].fd = c /\ slot'[i].pid = answer[c]
                BY <1>1 DEF Answers
            <4>1. answer[c] \in Pids /\ child[answer[c]].conn = c /\ Succeeded(answer[c])
                BY <1>1, Numbers DEF Inner, Answers
            <4>2. cli[c] = "asked" => \E i \in Slots : slot[i].fd = c /\ slot[i].pid = answer[c]
                BY <1>1 DEF Inner, Answers
            <4> QED  BY <1>1, <1>2, <1>s, <2>2, <4>1, <4>2
        <3>8. LockOwned'
            <4>1. \A d \in Devices : lock[d] # 0 => (Sound(lock[d])' => Sound(lock[d]))
                BY <1>1, <1>s, Basics
            <4> QED  BY <1>1, <2>2, <3>a, <4>1 DEF Inner, LockOwned
        <3>9. ScanRead'
            BY <1>1, <2>2, <3>f DEF Inner, ScanRead
        <3>10. UseIsLocked'
            BY <1>1, <1>2, <1>s, Numbers DEF Inner, UseIsLocked
        <3>11. FailuresNoticed'
            <4> SUFFICES ASSUME NEW i \in Slots, slot[i].fd \notin misled, slot[i].fd \notin misled', HasFailed(i)',
                                ~(pc' = "request" /\ cur = i)
                         PROVE  slot'[i].childdone = 2
                BY <1>1, <2>2 DEF FailuresNoticed
            <4>1. CASE slot[i].pid = p
                <5>1. Own(i) /\ child[p].code = 1
                    BY <3>c, <3>e, <4>1 DEF HasFailed
                <5> QED  BY <2>2, <3>d, <4>1, <5>1 DEF Killed
            <4>2. CASE slot[i].pid # p
                BY <2>2, <3>c, <3>g, <4>2 DEF Inner, FailuresNoticed
            <4> QED  BY <4>1, <4>2
        <3>12. NotForgotten'
            <4> SUFFICES ASSUME NEW i \in Slots, slot[i].fd # -1, slot[i].fd \notin misled,
                                slot[i].fd \notin misled',
                                cli[slot[i].fd] = "asked", slot[i].fd \notin unread,
                                answer[slot[i].fd] = 0
                         PROVE  \/ Own(i) /\ child'[slot[i].pid].st \in {"wait", "dial", "zombie"}
                                \/ HasFailed(i)' /\ slot'[i].childdone = 2
                                \/ pc' = "request" /\ cur = i
                BY <1>1, <2>2, <3>a DEF NotForgotten
            <4>1. \/ Own(i) /\ child[slot[i].pid].st \in {"wait", "dial", "zombie"}
                  \/ HasFailed(i) /\ slot[i].childdone = 2
                  \/ pc = "request" /\ cur = i
                BY DEF Inner, NotForgotten
            <4>2. CASE Own(i) /\ slot[i].pid = p
                <5>1. Sound(p) /\ child[p].conn = slot[i].fd
                    BY <3>b, <3>d, <4>2
                <5>2. child[p].code # Killed
                    BY <5>1 DEF Inner, Children
                <5>3. child[p].code # 0
                    BY <1>1, <5>1, Numbers DEF Inner, Children, Succeeded
                <5>4. child[p].code = 1
                    BY <1>3, <5>2, <5>3
                <5> QED  BY <2>2, <3>c, <4>2, <5>1, <5>4 DEF Killed
            <4>3. CASE Own(i) /\ slot[i].pid # p
                BY <1>2, <2>2, <3>b, <3>c, <3>g, <4>1, <4>3
            <4>4. CASE ~Own(i)
                BY <3>g, <4>1, <4>4 DEF HasFailed, Collected
            <4> QED  BY <4>2, <4>3, <4>4
        <3>13. Marks'
            <4> SUFFICES ASSUME NEW i \in Slots, slot[i].fd \notin misled \cup {-1}, slot[i].fd \notin misled'
                         PROVE  /\ \/ Own(i)
                                   \/ /\ NoChild(slot[i].fd)
                                      /\ \/ Unheard(slot[i].fd) \/ cli[slot[i].fd] = "closed"
                                         \/ pc' = "request" /\ cur = i
                                /\ Own(i) /\ slot'[i].childdone # 0 =>
                                      /\ Collected(i)'
                                      /\ slot'[i].childdone = child[slot[i].pid].code + 1
                                /\ pc' = "request" /\ cur = i => slot'[i].childdone = 0
                                /\ pc' = "connected" /\ cur = i /\ Own(i) => slot'[i].childdone = 1
                                /\ pc' = "failed" /\ cur = i /\ Own(i) => slot'[i].childdone = 2
                <5>1. \A i \in Slots : /\ NoChild(slot[i].fd)' <=> NoChild(slot[i].fd)
                                       /\ Unheard(slot[i].fd)' <=> Unheard(slot[i].fd)
                    BY <1>1, <1>2, <2>2 DEF NoChild, Unheard, InBacklog
                <5>2. \A i \in Slots : Own(i) => child'[slot'[i].pid].code = child[slot[i].pid].code
                    BY <1>2, <2>2, <3>b
                <5> QED  BY <1>1, <2>2, <3>a, <5>1, <5>2 DEF Marks
            <4>1. /\ \/ Own(i)
                     \/ /\ NoChild(slot[i].fd)
                        /\ Unheard(slot[i].fd) \/ cli[slot[i].fd] = "closed" \/ (pc = "request" /\ cur = i)
                  /\ Own(i) /\ slot[i].childdone # 0 =>
                        Collected(i) /\ slot[i].childdone = child[slot[i].pid].code + 1
                  /\ pc = "request" /\ cur = i => slot[i].childdone = 0
                  /\ pc = "connected" /\ cur = i /\ Own(i) => slot[i].childdone = 1
                  /\ pc = "failed" /\ cur = i /\ Own(i) => slot[i].childdone = 2
                BY DEF Inner, Marks
            <4>2. pc' \in {"connected", "failed"} => pc' = pc
                BY <2>1
            <4>3. Own(i) /\ slot[i].pid = p => slot[i].childdone = 0
                BY <3>e, <4>1
            <4>4. pc' = "request" /\ cur = i => slot'[i].childdone = 0
                BY <2>2, <3>f, <4>1
            <4>5. CASE Own(i) /\ slot[i].pid = p
                <5>1. Sound(p)
                    BY <3>d, <4>5
                <5> QED  BY <2>2, <3>a, <4>1, <4>2, <4>3, <4>4, <4>5, <5>1
            <4>6. CASE Own(i) /\ slot[i].pid # p
                BY <2>2, <3>a, <4>1, <4>2, <4>4, <4>6
            <4>7. CASE ~Own(i)
                BY <3>g, <4>1, <4>4, <4>7
            <4> QED  BY <4>5, <4>6, <4>7
        <3> QED  BY <3>1, <3>2, <3>3, <3>4, <3>5, <3>6, <3>7, <3>8, <3>9, <3>10, <3>11, <3>12, <3>13
                 DEF Inner
    <2> QED  BY <1>4, <2>3, <2>4 DEF IInv
<1> QED  BY <1>5, <1>6

\* fork(): a new pid, a later line, and no other child of the client is left.
LEMMA ForkStep ==
    ASSUME IInv, Fork
    PROVE  IInv'
<1> TypeOK /\ CallsInOrder
    BY DEF IInv
<1>a. pc = "request" /\ Inner
    BY DEF Fork, IInv, Alive
<1> Inner
    BY <1>a
<1> DEFINE c == slot[cur].fd
<1>q. PICK q \in Int : q = Len(child) + 1
    BY Basics
<1>b. cur \in Slots /\ c # -1 /\ c \in Conns
    BY <1>a, Basics DEF Inner, Control
<1>1. /\ UNCHANGED <<lock, cur, ret, rset, chld_flag, pending, cli, answer, unread, backlog>>
      /\ pc' = "lock" /\ misled \subseteq misled'
      /\ c \notin misled' => c \notin misled /\ \A i \in Slots : slot[i].pid = q => i = cur
    BY <1>q DEF Fork, clients, SlotsOf
<1>2. PICK n \in Candidates(cur) :
          /\ Device(cur, n) # NoDevice
          /\ child' = Append(child, NewChild(cur, n))
          /\ slot' = [slot EXCEPT ![cur].pid = q, ![cur].sysftell = n]
    BY <1>q DEF Fork
<1>m. misled' \subseteq Conns \cup {-1}
    BY <1>b DEF Fork, TypeOK
<1> DEFINE d == Device(cur, n)
<1>3. n \in Nat \ {0} /\ n > slot[cur].sysftell /\ d \in Devices /\ lock[d] = 0
    <2>1. slot[cur].sysname \in DOMAIN Systems
        BY <1>b, Basics DEF Entry
    <2>2. Systems[slot[cur].sysname] \in Seq(Devices \cup {NoDevice})
        BY <2>1, CalldAssumption
    <2>3. n \in 1..Len(Systems[slot[cur].sysname]) /\ n > slot[cur].sysftell /\ lock[d] = 0
        BY <1>2, <2>2 DEF Candidates, Device
    <2>4. d \in Devices \cup {NoDevice} /\ Len(Systems[slot[cur].sysname]) \in Nat
        BY <2>2, <2>3, ElementOfSeq DEF Device
    <2> QED  BY <1>2, <2>3, <2>4
<1>4. NewChild(cur, n) = [conn |-> c, dev |-> d, line |-> n, st |-> "wait", code |-> 0]
    BY DEF NewChild
<1>c. c = slot[cur].fd
    OBVIOUS
<1> HIDE DEF c, d
<1>5. NewChild(cur, n) \in Child
    BY <1>b, <1>3, <1>4 DEF Child
<1>6. /\ child' \in Seq(Child) /\ Pids' = Pids \cup {q} /\ q \notin Pids /\ q \in Nat
      /\ \A p \in Pids : child'[p] = child[p] /\ p < q
      /\ child'[q] = NewChild(cur, n)
    <2>1. child \in Seq(Child) /\ Pids = 1..Len(child) /\ Len(child) \in Nat
        BY Basics
    <2>2. child' \in Seq(Child) /\ Len(child') = q
        BY <1>q, <1>2, <1>5, <2>1
    <2>3. /\ \A p \in Pids : child'[p] = child[p]
          /\ child'[q] = NewChild(cur, n)
        BY <1>q, <1>2, <1>5, <2>1
    <2>4. Pids' = 1..q
        BY <2>2, LenProperties DEF Pids
    <2> QED  BY <1>q, <2>1, <2>2, <2>3, <2>4
<1>7. child'[q].conn = c /\ child'[q].dev = d /\ child'[q].line = n /\ child'[q].st = "wait"
         /\ child'[q].code = 0
    BY <1>4, <1>6
<1>8. /\ slot' \in [Slots -> Entry]
      /\ \A i \in Slots :
           /\ slot'[i].fd = slot[i].fd /\ slot'[i].childdone = slot[i].childdone
           /\ slot'[i].pid = IF i = cur THEN q ELSE slot[i].pid
           /\ slot'[i].sysftell = IF i = cur THEN n ELSE slot[i].sysftell
    <2> DEFINE e == [slot[cur] EXCEPT !.pid = q, !.sysftell = n]
    <2>1. slot[cur] \in Entry
        BY <1>b, Basics
    <2>2. e \in Entry /\ e.fd = slot[cur].fd /\ e.pid = q /\ e.sysftell = n
             /\ e.childdone = slot[cur].childdone
        BY <2>1, <1>3, <1>6 DEF Entry
    <2>3. slot' = [slot EXCEPT ![cur] = e]
        BY <1>2
    <2> HIDE DEF e
    <2> QED  BY <1>b, <2>2, <2>3, SlotUpdate
<1>9. TypeOK'
    BY <1>1, <1>6, <1>8, <1>m DEF TypeOK, Entry, Child
<1>10. c \notin misled => /\ \A p \in Pids : child[p].conn = c => child[p].st = "gone" /\ child[p].line < n
                          /\ c \notin unread
                          /\ cli[c] # "closed" => cli[c] = "asked" /\ answer[c] = 0
    <2>1. c \notin misled =>
              /\ \A p \in Pids : child[p].conn = c => child[p].st = "gone" /\ child[p].line <= slot[cur].sysftell
              /\ c \notin unread
              /\ cli[c] # "closed" => cli[c] = "asked" /\ answer[c] = 0
        BY <1>a DEF Inner, Placing, c
    <2> QED  BY <2>1, <1>b, <1>3, Basics
<1>s. /\ \A p \in Pids : /\ Sound(p)' => Sound(p)
                         /\ Working(p)' <=> Working(p)
                         /\ Succeeded(p)' <=> Succeeded(p)
      /\ Working(q)' /\ ~Succeeded(q)' /\ (Sound(q)' <=> c \notin misled')
    BY <1>1, <1>6, <1>7 DEF Sound, Working, Succeeded
<1>11. CallsInOrder'
    <2> SUFFICES ASSUME NEW p \in Pids', NEW r \in Pids', p < r, child'[p].conn = child'[r].conn,
                        Sound(p)'
                 PROVE  child'[p].line < child'[r].line /\ child'[p].st = "gone"
        BY DEF CallsInOrder
    <2>1. p \in Pids /\ Sound(p)
        BY <1>6, <1>s, Numbers
    <2>2. CASE r = q
        BY <1>1, <1>6, <1>7, <1>10, <2>1, <2>2 DEF Sound
    <2>3. CASE r \in Pids
        BY <1>6, <2>1, <2>3 DEF CallsInOrder
    <2> QED  BY <1>6, <2>2, <2>3
<1>12. Inner'
    <2>a. \A i \in Slots : i # cur => slot[i].fd # c
        BY <1>b, <1>c DEF Inner, Connections
    <2>b. \A i \in Slots : i # cur => /\ Own(i)' <=> Own(i)
                                      /\ Collected(i)' <=> Collected(i)
                                      /\ HasFailed(i)' <=> HasFailed(i)
        <3>1. \A i \in Slots : i # cur => (Own(i)' <=> Own(i))
            BY <1>6, <1>7, <1>8, <2>a DEF Own
        <3>2. \A i \in Slots : i # cur /\ Own(i) => child'[slot'[i].pid] = child[slot[i].pid]
            BY <1>6, <1>8 DEF Own
        <3> QED  BY <3>1, <3>2 DEF Collected, HasFailed
    <2>c. \A i \in Slots : i = cur => Own(i)' /\ ~Collected(i)' /\ ~HasFailed(i)'
        BY <1>b, <1>c, <1>6, <1>7, <1>8 DEF Own, Collected, HasFailed
    <2>d. \A p \in Pids : child[p].st # "wait"
        BY <1>a DEF Inner, Children
    <2>1. Control'
        BY <1>b, <1>1 DEF Control
    <2>2. Connections'
        BY <1>1, <1>8 DEF Inner, Connections, InBacklog
    <2>3. NewClients'
        <3>1. c \notin misled => ~Unheard(c)
            BY <1>b, <1>c, <1>10 DEF Inner, Connections, Unheard
        <3> QED  BY <1>1, <1>6, <1>7, <3>1 DEF Inner, NewClients, Unheard, InBacklog
    <2>4. Children'
        <3>1. ASSUME NEW p \in Pids, Sound(p)', Working(p), cli[child[p].conn] # "closed"
              PROVE  \E i \in Slots : slot'[i].pid = p /\ Own(i)'
            <4>1. PICK i \in Slots : slot[i].pid = p /\ Own(i)
                BY <1>s, <3>1 DEF Inner, Children
            <4>2. i # cur
                BY <1>c, <1>s, <1>10, <3>1, <4>1 DEF Own, Sound, Working
            <4> QED  BY <1>8, <2>b, <4>1, <4>2
        <3>2. ASSUME NEW p \in Pids, Sound(p)'
              PROVE  /\ child[p].code = Killed => cli[child[p].conn] = "closed"
                     /\ Working(p) /\ cli[child[p].conn] # "closed" =>
                           cli[child[p].conn] = "asked" /\ answer[child[p].conn] = 0
                     /\ Succeeded(p) => answer[child[p].conn] = p
            BY <1>s, <3>2 DEF Inner, Children
        <3>3. /\ child'[q].st = "wait" => pc' = "lock" /\ slot'[cur].pid = q
              /\ child'[q].code # Killed /\ slot'[cur].pid = q /\ Own(cur)'
            BY <1>b, <1>1, <1>7, <1>8, <2>c DEF Killed
        <3>4. Sound(q)' => (cli[c] # "closed" => cli[c] = "asked" /\ answer[c] = 0)
            BY <1>1, <1>s, <1>10
        <3>5. ASSUME NEW p \in Pids
              PROVE  /\ child'[p].st # "wait"
                     /\ Sound(p)' =>
                           /\ child'[p].code = Killed => cli'[child'[p].conn] = "closed"
                           /\ Working(p)' /\ cli'[child'[p].conn] # "closed" =>
                                 /\ \E i \in Slots : slot'[i].pid = p /\ Own(i)'
                                 /\ cli'[child'[p].conn] = "asked" /\ answer'[child'[p].conn] = 0
                           /\ Succeeded(p)' => answer'[child'[p].conn] = p
            BY <1>1, <1>6, <1>s, <2>d, <3>1, <3>2
        <3>6. Sound(q)' =>
                  /\ child'[q].code = Killed => cli'[child'[q].conn] = "closed"
                  /\ Working(q)' /\ cli'[child'[q].conn] # "closed" =>
                        /\ \E i \in Slots : slot'[i].pid = q /\ Own(i)'
                        /\ cli'[child'[q].conn] = "asked" /\ answer'[child'[q].conn] = 0
                  /\ Succeeded(q)' => answer'[child'[q].conn] = q
            BY <1>b, <1>1, <1>7, <1>8, <1>s, <2>c, <3>3, <3>4
        <3> QED  BY <1>1, <1>6, <3>3, <3>5, <3>6 DEF Children
    <2>5. Entries'
        <3>1. ASSUME NEW i \in Slots, NEW j \in Slots, slot'[i].pid \in Pids',
                     child'[slot'[i].pid].conn \notin misled', slot'[i].pid = slot'[j].pid
              PROVE  i = j
            <4>1. CASE slot'[i].pid = q
                BY <1>1, <1>7, <1>8, <3>1, <4>1
            <4>2. CASE slot'[i].pid \in Pids
                <5>1. i # cur /\ j # cur
                    BY <1>6, <1>8, <3>1, <4>2
                <5>2. Sound(slot[i].pid) /\ slot[i].pid = slot[j].pid /\ slot[i].pid \in Pids
                    BY <1>1, <1>6, <1>8, <3>1, <4>2, <5>1 DEF Sound
                <5> QED  BY <5>2 DEF Inner, Entries
            <4> QED  BY <1>6, <3>1, <4>1, <4>2
        <3>2. ASSUME NEW i \in Slots, Own(i)', slot[i].fd \notin misled'
              PROVE  /\ \A p \in Pids' : child'[p].conn = slot[i].fd => p <= slot'[i].pid
                     /\ slot'[i].sysftell = child'[slot'[i].pid].line
                     /\ Collected(i)' /\ child'[slot'[i].pid].code = 0 => slot'[i].childdone # 2
                     /\ HasFailed(i)' /\ cli[slot[i].fd] # "closed" =>
                           cli[slot[i].fd] = "asked" /\ answer[slot[i].fd] = 0
            <4>1. CASE i = cur
                BY <1>6, <1>7, <1>8, <2>c, <4>1, Numbers
            <4>2. CASE i # cur
                <5>1. Own(i) /\ slot[i].pid \in Pids /\ slot[i].fd # c /\ slot[i].fd \notin misled
                    BY <1>1, <2>a, <2>b, <3>2, <4>2 DEF Own
                <5> QED  BY <1>6, <1>7, <1>8, <2>b, <4>2, <5>1 DEF Inner, Entries
            <4> QED  BY <4>1, <4>2
        <3> QED  BY <1>1, <1>8, <3>1, <3>2 DEF Entries, Sound
    <2>6. Placing'
        BY <1>b, <1>1, <1>3, <1>6, <1>7, <1>8, <2>c DEF Placing
    <2>7. Answers'
        <3> SUFFICES ASSUME NEW b \in Conns \ misled', answer[b] > 0
                     PROVE  /\ child'[answer[b]].conn = b /\ Succeeded(answer[b])'
                            /\ cli[b] = "asked" =>
                                  \E i \in Slots : slot'[i].fd = b /\ slot'[i].pid = answer[b]
            BY <1>1 DEF Answers
        <3>1. answer[b] \in Pids /\ child[answer[b]].conn = b /\ Succeeded(answer[b])
            BY <1>1, Numbers DEF Inner, Answers
        <3>2. ASSUME cli[b] = "asked"
              PROVE  \E i \in Slots : slot'[i].fd = b /\ slot'[i].pid = answer[b]
            <4>1. PICK i \in Slots : slot[i].fd = b /\ slot[i].pid = answer[b]
                BY <1>1, <3>2 DEF Inner, Answers
            <4>2. i # cur
                BY <1>1, <1>c, <1>10, <3>2, <4>1, Numbers
            <4> QED  BY <1>8, <4>1, <4>2
        <3> QED  BY <1>1, <1>6, <1>s, <3>1, <3>2
    <2>8. LockOwned'
        <3> SUFFICES ASSUME NEW x \in Devices, lock[x] # 0, child'[lock[x]].conn \notin misled'
                     PROVE  \E i \in Slots : slot'[i].pid = lock[x] /\ Own(i)'
            BY <1>1 DEF LockOwned, Sound
        <3>1. lock[x] \in Pids /\ Sound(lock[x])
            <4>1. lock[x] \in Pids
                BY Basics
            <4> QED  BY <1>1, <1>6, <4>1 DEF Sound
        <3>2. lock[x] # slot[cur].pid
            BY <1>a, <3>1 DEF Inner, Placing
        <3>3. PICK i \in Slots : slot[i].pid = lock[x] /\ Own(i)
            BY <1>a, <3>1 DEF Inner, LockOwned, Alive
        <3> QED  BY <1>8, <2>b, <3>2, <3>3
    <2>9. ScanRead'
        BY <1>a, <1>1, <1>8 DEF Inner, ScanRead
    <2>10. UseIsLocked'
        BY <1>a, <1>1, <1>6, <1>7, <1>s, Numbers DEF Inner, UseIsLocked, Alive
    <2>11. FailuresNoticed'
        BY <1>a, <1>b, <1>1, <1>8, <2>b, <2>c DEF Inner, FailuresNoticed, Alive
    <2>12. NotForgotten'
        <3> SUFFICES ASSUME NEW i \in Slots, slot[i].fd # -1, slot[i].fd \notin misled',
                            cli[slot[i].fd] = "asked", slot[i].fd \notin unread,
                            answer[slot[i].fd] = 0
                     PROVE  \/ Own(i)' /\ child'[slot'[i].pid].st \in {"wait", "dial", "zombie"}
                            \/ HasFailed(i)' /\ slot'[i].childdone = 2
            BY <1>1, <1>8 DEF NotForgotten
        <3>1. CASE i = cur
            BY <1>7, <1>8, <2>c, <3>1
        <3>2. CASE i # cur
            <4>1. \/ Own(i) /\ child[slot[i].pid].st \in {"wait", "dial", "zombie"}
                  \/ HasFailed(i) /\ slot[i].childdone = 2
                BY <1>a, <1>1, <3>2 DEF Inner, NotForgotten, Alive
            <4> QED  BY <1>6, <1>8, <2>b, <3>2, <4>1, OwnEntry
        <3> QED  BY <3>1, <3>2
    <2>13. Marks'
        <3>1. \A i \in Slots : i # cur /\ NoChild(slot[i].fd) => NoChild(slot[i].fd)'
            BY <1>6, <1>7, <1>8, <2>a DEF NoChild
        <3>2. \A i \in Slots : i # cur /\ Collected(i) => child'[slot'[i].pid] = child[slot[i].pid]
            BY <1>6, <1>8 DEF Collected, Own
        <3>3. c \notin misled' => slot[cur].childdone = 0
            BY <1>a, <1>b, <1>c, <1>1 DEF Inner, Marks
        <3> QED  BY <1>a, <1>b, <1>c, <1>1, <1>8, <2>b, <2>c, <3>1, <3>2, <3>3
                 DEF Inner, Marks, Unheard, InBacklog
    <2> QED  BY <2>1, <2>2, <2>3, <2>4, <2>5, <2>6, <2>7, <2>8, <2>9, <2>10, <2>11, <2>12, <2>13
                DEF Inner
<1> QED  BY <1>9, <1>11, <1>12 DEF IInv

\* The invariant holds initially, whatever client[] holds.
LEMMA Initially ==
    ASSUME Init
    PROVE  IInv
<1>1. PICK garbage \in [Slots -> Garbage] :
          slot = [i \in Slots |->
                    [fd |-> -1, pid |-> garbage[i].pid, childdone |-> garbage[i].childdone,
                     sysftell |-> garbage[i].sysftell, sysname |-> garbage[i].sysname]]
    BY DEF Init
<1>2. /\ lock = [d \in Devices |-> 0] /\ pc = "top" /\ cur = 1 /\ ret = "top" /\ rset = {}
      /\ chld_flag = FALSE /\ pending = FALSE /\ child = <<>>
      /\ cli = [c \in Conns |-> "idle"] /\ answer = [c \in Conns |-> 0] /\ unread = {}
      /\ backlog = <<>> /\ misled = {}
    BY DEF Init
<1>3. Pids = {} /\ child \in Seq(Child) /\ backlog \in Seq(Conns) /\ DOMAIN backlog = {}
    BY <1>2 DEF Pids
<1>4. ASSUME NEW i \in Slots
      PROVE  slot[i] \in Entry /\ slot[i].fd = -1
    <2> DEFINE g == garbage[i]
               e == [fd |-> -1, pid |-> g.pid, childdone |-> g.childdone, sysftell |-> g.sysftell,
                     sysname |-> g.sysname]
    <2>1. g \in [pid : Nat, childdone : 0..2, sysftell : Nat \cup {-1}, sysname : DOMAIN Systems]
        BY CalldAssumption
    <2> HIDE DEF g
    <2>2. e \in Entry /\ e.fd = -1
        BY <2>1 DEF Entry
    <2>3. slot[i] = e
        BY <1>1 DEF g
    <2> HIDE DEF e
    <2> QED  BY <2>2, <2>3
<1>5. slot \in [Slots -> Entry]
    <2>1. slot = [i \in Slots |-> slot[i]]
        BY <1>1
    <2> QED  BY <1>4, <2>1
<1>6. 1 \in 1..(NConns + 1)
    <2>1. NConns \in Nat
        BY CalldAssumption
    <2> QED  BY <2>1
<1>7. TypeOK
    BY <1>2, <1>3, <1>5, <1>6 DEF TypeOK, Entry, Child
<1>8. CallsInOrder
    BY <1>3 DEF CallsInOrder
<1>9. \A i \in Slots : slot[i].fd = -1 /\ ~Own(i) /\ ~HasFailed(i)
    BY <1>3, <1>4 DEF Own, Collected, HasFailed
<1>10. \A c \in Conns : cli[c] = "idle" /\ answer[c] = 0
    BY <1>2
<1>11. \A i \in Slots : slot[i].fd \notin Conns
    BY <1>7, <1>9, Numbers
<1>12. Control /\ Placing /\ ScanRead
    BY <1>2 DEF Control, Placing, ScanRead
<1>13. Connections /\ NewClients
    BY <1>2, <1>3, <1>9, <1>10, <1>11 DEF Connections, NewClients, InBacklog
<1>14. Children /\ Entries /\ LockOwned
    BY <1>2, <1>3, <1>9 DEF Children, Entries, LockOwned
<1>15. Answers /\ UseIsLocked
    BY <1>3, <1>10 DEF Answers, UseIsLocked
<1>16. FailuresNoticed /\ NotForgotten /\ Marks
    BY <1>9 DEF FailuresNoticed, NotForgotten, Marks
<1> QED  BY <1>7, <1>8, <1>12, <1>13, <1>14, <1>15, <1>16 DEF IInv, Inner

\* A stuttering step keeps the invariant.
LEMMA Stutter ==
    ASSUME IInv, UNCHANGED vars
    PROVE  IInv'
<1> USE DEF vars, daemon, clients
<1>0. Pids' = Pids
    BY SameTable
<1>1. TypeOK' /\ CallsInOrder'
    BY <1>0 DEF IInv, TypeOK, CallsInOrder, Sound
<1>2. Alive' => Alive
    BY DEF Alive
<1>3. ASSUME Inner PROVE Inner'
    <2>1. Control' /\ Connections' /\ NewClients'
        BY <1>0, <1>3 DEF Inner, Control, Connections, InBacklog, NewClients, Unheard
    <2>2. Placing'
        BY <1>0, <1>3 DEF Inner, Placing, Sound, Own
    <2>3. Children' /\ Entries' /\ Answers'
        BY <1>0, <1>3 DEF Inner, Children, Working, Succeeded, Sound, Entries, Own, Collected,
                          HasFailed, Answers
    <2>4. LockOwned' /\ ScanRead' /\ UseIsLocked'
        BY <1>0, <1>3 DEF Inner, LockOwned, Own, Sound, ScanRead, UseIsLocked, Alive
    <2>5. FailuresNoticed' /\ NotForgotten'
        BY <1>0, <1>3 DEF Inner, FailuresNoticed, NotForgotten, Own, Collected, HasFailed, Alive
    <2>6. Marks'
        BY <1>0, <1>3 DEF Inner, Marks, NoChild, Unheard, InBacklog, Own, Collected
    <2> QED  BY <2>1, <2>2, <2>3, <2>4, <2>5, <2>6 DEF Inner
<1> QED  BY <1>1, <1>2, <1>3 DEF IInv

\* The invariant is inductive: every reachable state of calld satisfies it, whoever
\* leaves when, and whatever a new entry holds.
THEOREM Invariance == Spec => []IInv
<1>1. Init => IInv
    BY Initially
<1>2. IInv /\ [Next]_vars => IInv'
    <2> SUFFICES ASSUME IInv, [Next]_vars
                 PROVE  IInv'
        OBVIOUS
    <2>1. ASSUME NEW c \in Conns, Connect(c) \/ Ask(c) \/ Leave(c)
          PROVE  IInv'
        BY <2>1, ConnectStep, AskStep, LeaveStep
    <2>2. ASSUME NEW p \in Pids, Dial(p)
          PROVE  IInv'
        BY <2>2, DialDoneStep, EndsStep DEF Dial, Ends
    <2>3. CASE Handler
        BY <2>3, HandlerStep DEF Handler
    <2>4. CASE Daemon
        BY <2>4, MovesStep, AcceptStep, ReadEofStep, ReadRequestStep, ForkStep, LockSetStep,
           GiveUpStep, ConnectedStep, RetryStep DEF Daemon, Moves
    <2>5. CASE UNCHANGED vars
        BY <2>5, Stutter
    <2> QED  BY <2>1, <2>2, <2>3, <2>4, <2>5 DEF Next
<1> QED  BY <1>1, <1>2, PTL DEF Spec

\* UseIsLocked: while the daemon runs, a device in use, by the client that has it or
\* by the child that dials on it for a client that is there, is locked for that child,
\* unless the client's entry has misled the daemon.
THEOREM UseLocked == Spec => []UseIsLocked
<1>1. IInv => UseIsLocked
    BY DEF IInv, Inner, UseIsLocked
<1> QED  BY <1>1, Invariance, PTL

\* LockOwned: no device stays locked for a sound child when the client it was for has
\* gone.
THEOREM LocksOwned == Spec => []LockOwned
<1>1. IInv => LockOwned
    BY DEF IInv, Inner, LockOwned
<1> QED  BY <1>1, Invariance, PTL

\* NotForgotten: whoever waits for an answer has a child, or a failure to be seen, or
\* is being served, unless its entry has misled the daemon.
THEOREM NobodyForgotten == Spec => []NotForgotten
<1>1. IInv => NotForgotten
    BY DEF IInv, Inner, NotForgotten
<1> QED  BY <1>1, Invariance, PTL

\* FailuresNoticed: child_done() sees a failure that the handler noted while it was
\* running, without another signal.
THEOREM FailuresSeen == Spec => []FailuresNoticed
<1>1. IInv => FailuresNoticed
    BY DEF IInv, Inner, FailuresNoticed
<1> QED  BY <1>1, Invariance, PTL

\* CallsInOrder: the children of a client whose entry has not misled the daemon dial
\* one after the other, each on a later line of the Systems file.
THEOREM LinesInOrder == Spec => []CallsInOrder
<1>1. IInv => CallsInOrder
    BY DEF IInv
<1> QED  BY <1>1, Invariance, PTL
=============================================================================
