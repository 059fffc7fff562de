----------------------------- MODULE PollServer -----------------------------
(***************************************************************************)
(* The echo server of src_C/socket.srv.poll.c: one thread, a table of      *)
(* descriptors for poll(), and the clients at the other end.               *)
(*                                                                         *)
(* A step of the server is one system call with the computation up to the  *)
(* next one.  The sockets, the queue of the listening socket and the       *)
(* clients are the environment: TCP as the server sees it.  Accepted       *)
(* sockets are non-blocking as the listening one is, which the loop on     *)
(* recv() takes for granted.                                               *)
(***************************************************************************)
EXTENDS Integers, FiniteSets, SequencesExt

CONSTANTS
    N,          \* connections for which the process has descriptors
    MaxMsgs,    \* bound of the model: messages on one connection
    Backlog     \* bound of the model: connections that wait for accept()

ASSUME PollAssumption == N \in Nat \ {0} /\ MaxMsgs \in Nat /\ Backlog \in Nat \ {0}

VARIABLES
    fds,        \* fds[0..nfds-1].fd
    revents,    \* fds[0..current_size-1].revents of the last poll()
    i,          \* the entry that is looked at
    pc,         \* the system call the server makes next
    compress_array, end_server,
    sock,       \* the connections of the server, by descriptor
    queue       \* connections that wait for accept(): the state of the peer

vars == <<fds, revents, i, pc, compress_array, end_server, sock, queue>>

Fds == 1..N
listenfd == 0
Free == [peer |-> "free", unread |-> 0, quota |-> 0]

\* A new connection; quota is what the client may still send.
Connection(peer) == [peer |-> peer, unread |-> 0, quota |-> MaxMsgs]

Open(f) == sock[f] # Free

\* What poll() reports of descriptor f.
Polled(f) ==
    CASE f = -1 -> "none"
      [] f = listenfd -> IF queue = <<>> THEN "none" ELSE "IN"
      [] f \in Fds /\ ~Open(f) -> "NVAL"
      [] f \in Fds /\ sock[f].peer = "reset" -> "HUP"
      [] f \in Fds /\ Open(f) /\ sock[f].peer # "reset" ->
            IF sock[f].unread > 0 \/ sock[f].peer = "closed" THEN "IN" ELSE "none"

BUGSqueeze(s) == IF Contains(s, -1) THEN RemoveFirst(s, -1) ELSE s

\* The compression looks at entry x: an entry that is removed brings the next one
\* to its place, which is not looked at.
Look(acc, x) ==
    IF x = -1 /\ ~acc.moved
    THEN [acc EXCEPT !.moved = TRUE]
    ELSE [kept |-> Append(acc.kept, x), moved |-> FALSE]

\* The table after the compression.
Squeeze(s) ==
    LET upto[k \in 0..Len(s)] ==
            IF k = 0 THEN [kept |-> <<>>, moved |-> FALSE] ELSE Look(upto[k - 1], s[k])
    IN  upto[Len(s)].kept
----------------------------------------------------------------------------
Init ==
    /\ fds = <<listenfd>> /\ revents = <<>> /\ i = 1
    /\ pc = "poll"
    /\ compress_array = FALSE /\ end_server = FALSE
    /\ sock = [f \in Fds |-> Free]
    /\ queue = <<>>

\* poll() returns what is ready.
Poll ==
    /\ pc = "poll"
    /\ \E k \in 1..Len(fds) : Polled(fds[k]) # "none"
    /\ revents' = [k \in 1..Len(fds) |-> Polled(fds[k])]
    /\ i' = 1 /\ pc' = "scan"
    /\ UNCHANGED <<fds, compress_array, end_server, sock, queue>>

\* Nothing for three minutes, or poll() fails.
PollEnds ==
    /\ pc = "poll"
    /\ pc' = "cleanup"
    /\ UNCHANGED <<fds, revents, i, compress_array, end_server, sock, queue>>

\* The server is at entry i, and poll() has reported event.
At(event) == pc = "scan" /\ i <= Len(revents) /\ revents[i] = event

\* Nothing to do for entry i, or an unexpected result, which ends the server.
ScanNext ==
    /\ pc = "scan" /\ i <= Len(revents) /\ revents[i] \in {"none", "NVAL"}
    /\ IF revents[i] = "NVAL"
       THEN pc' = "compress" /\ end_server' = TRUE /\ UNCHANGED i
       ELSE i' = i + 1 /\ UNCHANGED <<pc, end_server>>
    /\ UNCHANGED <<fds, revents, compress_array, sock, queue>>

BUGPollHup ==
    /\ At("HUP")
    /\ sock' = [sock EXCEPT ![fds[i]] = Free]
    /\ compress_array' = TRUE
    /\ i' = i + 1
    /\ UNCHANGED <<fds, revents, pc, end_server, queue>>

\* close() of the descriptor at entry i.
Close ==
    /\ sock' = [sock EXCEPT ![fds[i]] = Free]
    /\ fds' = [fds EXCEPT ![i] = -1]
    /\ compress_array' = TRUE
    /\ i' = i + 1

\* POLLHUP: the connection is closed; what it has still to read is not read.
PollHup ==
    /\ At("HUP")
    /\ Close
    /\ UNCHANGED <<revents, pc, end_server, queue>>

\* POLLIN: accept or receive.
PollIn ==
    /\ At("IN")
    /\ pc' = IF fds[i] = listenfd THEN "accept" ELSE "recv"
    /\ UNCHANGED <<fds, revents, i, compress_array, end_server, sock, queue>>

\* The lowest descriptor that is free.
NewSd == CHOOSE f \in Fds : ~Open(f) /\ \A g \in 1..(f - 1) : Open(g)

\* accept() returns a connection.
Accept ==
    /\ pc = "accept"
    /\ queue # <<>> /\ \E f \in Fds : ~Open(f)
    /\ sock' = [sock EXCEPT ![NewSd] = Connection(Head(queue))]
    /\ fds' = Append(fds, NewSd)
    /\ queue' = Tail(queue)
    /\ UNCHANGED <<revents, i, pc, compress_array, end_server>>

BUGAcceptFails ==
    /\ pc = "accept"
    /\ queue # <<>> /\ (Head(queue) = "reset" \/ \A f \in Fds : Open(f))
    /\ end_server' = TRUE
    /\ pc' = "scan" /\ i' = i + 1
    /\ UNCHANGED <<fds, revents, compress_array, sock, queue>>

\* accept() fails: no connection waits, or, which ends the server after this
\* scan, there is no descriptor left or the client has gone again.
AcceptFails ==
    /\ pc = "accept"
    /\ \/ queue = <<>> /\ UNCHANGED <<end_server, queue>>
       \/ queue # <<>> /\ (\A f \in Fds : Open(f)) /\ end_server' = TRUE /\ UNCHANGED queue
       \/ queue # <<>> /\ Head(queue) = "reset" /\ end_server' = TRUE /\ queue' = Tail(queue)
    /\ pc' = "scan" /\ i' = i + 1
    /\ UNCHANGED <<fds, revents, compress_array, sock>>

\* recv() returns data; the answer follows.
Recv ==
    /\ pc = "recv"
    /\ sock[fds[i]].unread > 0
    /\ sock' = [sock EXCEPT ![fds[i]].unread = @ - 1]
    /\ pc' = "send"
    /\ UNCHANGED <<fds, revents, i, compress_array, end_server, queue>>

\* recv() fails with EWOULDBLOCK.
RecvNone ==
    /\ pc = "recv"
    /\ sock[fds[i]].unread = 0 /\ sock[fds[i]].peer = "open"
    /\ pc' = "scan" /\ i' = i + 1
    /\ UNCHANGED <<fds, revents, compress_array, end_server, sock, queue>>

\* recv() returns 0 or another error: close the connection.
RecvEnd ==
    /\ pc = "recv"
    /\ sock[fds[i]].unread = 0 /\ sock[fds[i]].peer # "open"
    /\ Close
    /\ pc' = "scan"
    /\ UNCHANGED <<revents, end_server, queue>>

\* send(); if it fails this is only reported.  A client that has closed its
\* socket answers with a reset.
Send ==
    /\ pc = "send"
    /\ pc' = "recv"
    /\ \/ UNCHANGED sock
       \/ /\ sock[fds[i]].peer = "closed"
          /\ sock' = [sock EXCEPT ![fds[i]].peer = "reset"]
    /\ UNCHANGED <<fds, revents, i, compress_array, end_server, queue>>

\* send() on a connection that is reset raises SIGPIPE, which nobody catches.
SendKills ==
    /\ pc = "send"
    /\ sock[fds[i]].peer = "reset"
    /\ pc' = "killed"
    /\ UNCHANGED <<fds, revents, i, compress_array, end_server, sock, queue>>

\* The scan is over.
ScanEnds ==
    /\ pc = "scan" /\ i > Len(revents)
    /\ pc' = "compress"
    /\ UNCHANGED <<fds, revents, i, compress_array, end_server, sock, queue>>

\* Compress the table, and poll again.
Compress ==
    /\ pc = "compress"
    /\ fds' = IF compress_array THEN Squeeze(fds) ELSE fds
    /\ compress_array' = FALSE
    /\ pc' = IF end_server THEN "cleanup" ELSE "poll"
    /\ revents' = <<>> /\ i' = 1
    /\ UNCHANGED <<end_server, sock, queue>>

\* Close all of the sockets that are open.
Cleanup ==
    /\ pc = "cleanup"
    /\ sock' = [f \in Fds |-> IF Contains(fds, f) THEN Free ELSE sock[f]]
    /\ pc' = "ended"
    /\ UNCHANGED <<fds, revents, i, compress_array, end_server, queue>>
----------------------------------------------------------------------------
\* A client connects.
Connect ==
    /\ Len(queue) < Backlog
    /\ queue' = Append(queue, "open")
    /\ UNCHANGED <<fds, revents, i, pc, compress_array, end_server, sock>>

\* A client gives up before it is accepted.
Abort ==
    /\ \E k \in 1..Len(queue) : queue[k] = "open" /\ queue' = [queue EXCEPT ![k] = "reset"]
    /\ UNCHANGED <<fds, revents, i, pc, compress_array, end_server, sock>>

\* The client of descriptor f sends, ends its connection or resets it.
ClientSends(f) ==
    /\ sock[f].peer = "open" /\ sock[f].quota > 0
    /\ sock' = [sock EXCEPT ![f].unread = @ + 1, ![f].quota = @ - 1]
    /\ UNCHANGED <<fds, revents, i, pc, compress_array, end_server, queue>>

ClientEnds(f) ==
    /\ sock[f].peer = "open"
    /\ \E peer \in {"closed", "reset"} : sock' = [sock EXCEPT ![f].peer = peer]
    /\ UNCHANGED <<fds, revents, i, pc, compress_array, end_server, queue>>
----------------------------------------------------------------------------
Server ==
    \/ Poll \/ ScanNext \/ PollHup \/ PollIn \/ Accept \/ AcceptFails
    \/ Recv \/ RecvNone \/ RecvEnd \/ Send \/ SendKills
    \/ ScanEnds \/ Compress \/ Cleanup

Clients == Connect \/ Abort \/ \E f \in Fds : ClientSends(f) \/ ClientEnds(f)

Over == pc \in {"ended", "killed"}

Next == Server \/ PollEnds \/ (~Over /\ Clients)

\* The scheduler runs the server; clients and the time-out may never come.
Spec == Init /\ [][Next]_vars /\ WF_vars(Server)
----------------------------------------------------------------------------
\* The table holds the listening socket first and every open connection exactly
\* once, and no descriptor that is closed: poll() never reports POLLNVAL, which
\* would end the server, and no connection is forgotten or served twice,
\* although numbers are used again and compression moves entries while a scan
\* leaves -1 in several places.
TableSound ==
    ~Over =>
        /\ fds[1] = listenfd
        /\ \A f \in Fds : Cardinality({k \in 1..Len(fds) : fds[k] = f}) = IF Open(f) THEN 1 ELSE 0

\* The compression leaves entries -1 behind (of a run of k it removes every
\* other), but they never pile up: with N connections at a time the table needs
\* no more than 2 * N entries, whatever the history.  So it stays within
\* fds[MAXCONN], which accept() does not look at, for N up to MAXCONN / 2.
TableBound == Len(fds) <= 2 * N

\* Every client that waits is accepted and what a connected client sends is
\* received, however the others behave, unless the server ends or the client
\* goes away.
Served ==
    /\ queue # <<>> ~> queue = <<>> \/ Over
    /\ \A f \in Fds :
          sock[f].unread > 0 /\ sock[f].peer = "open"
              ~> sock[f].unread = 0 \/ sock[f].peer # "open" \/ Over
=============================================================================
