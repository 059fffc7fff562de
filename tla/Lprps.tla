------------------------------- MODULE Lprps --------------------------------
(***************************************************************************)
(* The printer daemon lprps of apue/printer: one process that prints one   *)
(* job, the terminal line with its two queues, the printer at the other    *)
(* end, SIGINT from lprm and SIGALRM from alarm().                         *)
(*                                                                         *)
(* A step of the daemon is one system call with the computation up to the  *)
(* next one.  A signal comes between two steps, or while the daemon is     *)
(* blocked in select() or write().  Functions that do not return           *)
(* (handle_intr, handle_alrm, printer_flushing) just take over pc.         *)
(***************************************************************************)
EXTENDS LprpsInput, SequencesExt

CONSTANTS
    OQ,         \* size of the line's output queue, in writes
    IQ,         \* size of its input queue, in characters
    JobLen,     \* length of the job on stdin, in writes
    Texts,      \* what the job may make the printer send, ends of file included
    StatusOf,   \* the pairs "status: val" and the value of enum status
    PageNo,     \* the pairs "pagecount: val" and their numbers
    MaxInts     \* bound of the model: SIGINTs

VARIABLES
    toPrinter,  \* output queue of the line
    fromPrinter,\* input queue of the line
    printer,    \* the printer: state, what it is sending, pages printed and, as
                \* history, whether the job has made it send an end of file
    pc,         \* the system call the daemon makes next
    polling,    \* in proc_some_input(): the flags are tested, select() is next
    which,      \* the page count that get_page() fetches
    left,       \* what of the job is not written yet
    v,          \* the static and global variables the input acts on
    sig,        \* the flags of the handlers, the timer, what SIGINT does
    ints,       \* SIGINTs sent
    exit,       \* the daemon's exit code
    charged     \* the pages do_acct() wrote to the accounting file

line == <<toPrinter, fromPrinter>>
vars == <<line, printer, pc, polling, which, left, v, sig, ints, exit, charged>>

EOF == "^D"
EXIT_SUCCESS == 0
EXIT_REPRINT == 1
EXIT_THROW_AWAY == 2

Msg(pair) == MsgStart \o <<pair>> \o MsgEnd

Statuses == {"IDLE", "BUSY", "WAITING", "UNKNOWN"}

\* The printer can say that it is idle, busy or waiting, and how many pages it
\* has printed, and what it says differs from the rest of a message.
ASSUME LprpsAssumption ==
    /\ OQ \in Nat \ {0, 1} /\ IQ \in Nat \ {0} /\ JobLen \in Nat \ {0} /\ MaxInts \in Nat
    /\ MBSIZE > 1
    /\ EOF \notin Chars /\ Texts \subseteq Seq(Chars \cup {EOF})
    /\ StatusOf \in [DOMAIN StatusOf -> Statuses] /\ PageNo \in [DOMAIN PageNo -> Nat]
    /\ \A val \in {"IDLE", "BUSY", "WAITING"} : \E pair \in DOMAIN StatusOf : StatusOf[pair] = val
    /\ \A n \in 0..JobLen : \E pair \in DOMAIN PageNo : PageNo[pair] = n
    /\ DOMAIN StatusOf \cup DOMAIN PageNo \cup {"Error", "Flushing"} \subseteq Chars
    /\ DOMAIN StatusOf \cap DOMAIN PageNo = {}
    /\ (DOMAIN StatusOf \cup DOMAIN PageNo) \cap {"Error", "Flushing", "%", "[", "]"} = {}
----------------------------------------------------------------------------
\* proc_msg(): a message is acted upon if it is one pair with a known key.
\* "Error" only adds a line to the mail.
proc_msg(u, msg) ==
    IF msg = <<"Flushing">> THEN [u EXCEPT !.flushing = TRUE]
    ELSE IF Len(msg) = 1 /\ msg[1] \in DOMAIN StatusOf
    THEN [u EXCEPT !.status = StatusOf[msg[1]]]
    ELSE IF Len(msg) = 1 /\ msg[1] \in DOMAIN PageNo
    THEN IF u.start < 0 THEN [u EXCEPT !.start = PageNo[msg[1]]]
                        ELSE [u EXCEPT !.end = PageNo[msg[1]]]
    ELSE u

\* The parser takes a character.  What arrives during the job is kept as history
\* until the parser has taken it: if it takes anything else, it stays there.
\* What msgbuf has no room for is known to be lost.
Parsed(u, c) ==
    LET a == parse(u.parser, c)
        r == Append(u.received, c)
        rest == IF IsPrefix(a.taken, r) THEN SubSeq(r, Len(a.taken) + 1, Len(r)) ELSE r
        kept == IF HasRoom(u.parser) THEN rest ELSE Undecided(a)
    IN  [u EXCEPT !.parser = [a EXCEPT !.taken = <<>>],
                  !.received = IF u.in_job THEN kept ELSE <<>>]

\* proc_input_char(); after a Flushing message nothing is read any more.
proc_input_char(u, c) ==
    IF u.flushing THEN u
    ELSE IF c = EOF THEN [u EXCEPT !.eof = TRUE]
    ELSE IF u.ignore THEN u
    ELSE IF EndsMessage(u.parser, c) THEN proc_msg(Parsed(u, c), u.parser.msgbuf)
    ELSE Parsed(u, c)

\* The variables after everything that has arrived is read.
AfterRead == FoldLeft(proc_input_char, v, fromPrinter)

init_input(u, job) ==
    [u EXCEPT !.in_job = job, !.ignore = FALSE, !.parser = NewParser, !.received = <<>>]

\* The beginning of proc_upto_eof().
upto_eof(u, ignore) == [u EXCEPT !.ignore = ignore, !.eof = FALSE]

set_alrm(s) == [s EXCEPT !.alrm = FALSE, !.timer = TRUE]
clear_alrm(s) == [s EXCEPT !.alrm = FALSE, !.timer = FALSE]

tty_flush == toPrinter' = <<>> /\ fromPrinter' = <<>>

\* block_write() that does not have to wait.
block_write(item) ==
    /\ Len(toPrinter) < OQ
    /\ toPrinter' = Append(toPrinter, item)
    /\ UNCHANGED fromPrinter

Transition(from, to_) == pc = from /\ pc' = to_

\* exit(), with the environment and the line as they are.
Exit(code) ==
    /\ pc' = "exited"
    /\ exit' = code
    /\ UNCHANGED <<line, printer, polling, which, left, v, ints, charged>>

world == <<printer, left, ints, exit, charged>>
----------------------------------------------------------------------------
Init ==
    /\ toPrinter = <<>> /\ fromPrinter = <<>>
    /\ \E state \in {"idle", "busy", "waiting", "flushing"} :
          printer = [state |-> state, pages |-> 0, forged |-> FALSE,
                     sending |-> IF state = "flushing" THEN Msg("Flushing") ELSE <<>>]
    /\ pc = "status" /\ polling = FALSE /\ which = "start" /\ left = JobLen
    /\ v = [parser |-> NewParser, received |-> <<>>, in_job |-> FALSE, ignore |-> FALSE,
            eof |-> FALSE, flushing |-> FALSE, status |-> "INVALID", start |-> -1, end |-> -1]
    /\ sig = [intr |-> FALSE, alrm |-> FALSE, timer |-> FALSE, sigint |-> "default"]
    /\ ints = 0 /\ exit = -1 /\ charged = 0

\* get_status(): set the alarm and flush.
StatusFlush ==
    /\ Transition("status", "status.write")
    /\ sig' = set_alrm(sig)
    /\ tty_flush
    /\ UNCHANGED <<world, polling, which, v>>

\* get_status(): send Control-T.
StatusWrite ==
    /\ Transition("status.write", "status.read")
    /\ block_write("^T")
    /\ v' = init_input(v, FALSE)
    /\ UNCHANGED <<world, polling, which, sig>>

\* get_status(): the printer waits for the rest of a job; end that.
StatusEof ==
    /\ pc = "status.eof"
    /\ Len(toPrinter) < OQ
    /\ toPrinter' = Append(toPrinter, EOF)
    /\ pc' = "exited"
    /\ exit' = EXIT_REPRINT
    /\ UNCHANGED <<fromPrinter, printer, polling, which, left, v, sig, ints, charged>>


\* get_page(): set the alarm and flush.
PageFlush ==
    /\ Transition("page", "page.write")
    /\ sig' = set_alrm(sig)
    /\ tty_flush
    /\ UNCHANGED <<world, polling, which, v>>

\* get_page(): send the query.
PageWrite ==
    /\ Transition("page.write", "page.read")
    /\ block_write("query")
    /\ v' = [init_input(v, FALSE) EXCEPT ![which] = -1]
    /\ UNCHANGED <<world, polling, which, sig>>

BUGPageEof ==
    /\ Transition("page.eof", IF which = "end" THEN "acct" ELSE "page.upto")
    /\ block_write(EOF)
    /\ v' = upto_eof(v, FALSE)
    /\ UNCHANGED <<world, polling, which, sig>>

\* get_page(): send the end of file.
PageEof ==
    /\ Transition("page.eof", "page.upto")
    /\ block_write(EOF)
    /\ v' = upto_eof(v, FALSE)
    /\ UNCHANGED <<world, polling, which, sig>>
----------------------------------------------------------------------------
\* out_buf(): test the flag.
SendCheck ==
    /\ Transition("send.check", IF sig.intr THEN "intr" ELSE "send.select")
    /\ UNCHANGED <<line, world, polling, which, v, sig>>

BUGSendSelect ==
    LET n == IF OQ - Len(toPrinter) < left THEN OQ - Len(toPrinter) ELSE left
    IN  /\ pc = "send.select"
        /\ n > 0
        /\ toPrinter' = toPrinter \o [i \in 1..n |-> "data"]
        /\ left' = left - n
        /\ pc' = IF left = n THEN "send.eof" ELSE "send.check"
        /\ UNCHANGED <<fromPrinter, printer, polling, which, v, sig, ints, exit, charged>>

\* out_buf(): select(), read what is there, write what the line takes.
SendSelect ==
    LET room == OQ - Len(toPrinter)
        n == IF AfterRead.flushing THEN 0 ELSE IF room < left THEN room ELSE left
    IN  /\ pc = "send.select"
        /\ room > 0 \/ fromPrinter # <<>>
        /\ fromPrinter' = <<>>
        /\ v' = [AfterRead EXCEPT !.flushing = FALSE]
        /\ toPrinter' = toPrinter \o [i \in 1..n |-> "data"]
        /\ left' = left - n
        /\ pc' = IF AfterRead.flushing THEN "flush"
                 ELSE IF left = n THEN "send.eof" ELSE "send.check"
        /\ UNCHANGED <<printer, polling, which, sig, ints, exit, charged>>

BUGSendEof ==
    /\ pc = "send.eof" /\ pc' = "page"
    /\ which' = "end"
    /\ block_write(EOF)
    /\ v' = upto_eof(v, FALSE)
    /\ UNCHANGED <<world, polling, sig>>

\* send_file(): send the end of file.
SendEof ==
    /\ Transition("send.eof", "send.upto")
    /\ block_write(EOF)
    /\ v' = upto_eof(v, FALSE)
    /\ UNCHANGED <<world, polling, which, sig>>
----------------------------------------------------------------------------
\* handle_intr(): the flag is reset, and SIGINT is still caught.
IntrReset ==
    /\ Transition("intr", "intr.clear")
    /\ sig' = [sig EXCEPT !.intr = FALSE]
    /\ UNCHANGED <<line, world, polling, which, v>>

BUGIntrNoFlush ==
    /\ Transition("intr.clear", "intr.write")
    /\ sig' = [set_alrm(sig) EXCEPT !.sigint = "ignored"]
    /\ UNCHANGED <<line, world, polling, which, v>>

\* handle_intr(): ignore SIGINT, set the alarm, flush.
IntrClear ==
    /\ Transition("intr.clear", "intr.write")
    /\ sig' = [set_alrm(sig) EXCEPT !.sigint = "ignored"]
    /\ tty_flush
    /\ UNCHANGED <<world, polling, which, v>>

\* handle_intr(): Control-C interrupts the PS job ...
IntrWrite ==
    /\ Transition("intr.write", "intr.eof")
    /\ block_write("^C")
    /\ UNCHANGED <<world, polling, which, v, sig>>


\* ... followed by an end of file.
IntrEof ==
    /\ Transition("intr.eof", "intr.upto")
    /\ block_write(EOF)
    /\ v' = upto_eof(v, TRUE)
    /\ UNCHANGED <<world, polling, which, sig>>

\* printer_flushing(): ignore SIGINT, flush.
FlushClear ==
    /\ Transition("flush", "flush.eof")
    /\ sig' = [sig EXCEPT !.sigint = "ignored"]
    /\ tty_flush
    /\ UNCHANGED <<world, polling, which, v>>

\* printer_flushing(): send the end of file.
FlushEof ==
    /\ Transition("flush.eof", "flush.upto")
    /\ block_write(EOF)
    /\ v' = upto_eof(v, TRUE)
    /\ UNCHANGED <<world, polling, which, sig>>
----------------------------------------------------------------------------
\* The loops that call proc_some_input(), and the calls of block_write().
Reading == {"status.read", "page.read", "page.upto", "send.upto", "intr.upto", "flush.upto"}
Writing ==
    {"status.write", "status.eof", "page.write", "page.eof", "send.eof", "intr.write",
     "intr.eof", "flush.eof"}

\* proc_some_input(): no flag is set, go on to select().
Check ==
    /\ pc \in Reading /\ ~polling
    /\ ~sig.intr /\ ~sig.alrm
    /\ polling' = TRUE
    /\ UNCHANGED <<line, world, pc, which, v, sig>>

\* proc_some_input(): a flag is set; intr_flag is tested first.
CheckIntr ==
    /\ pc \in Reading /\ ~polling
    /\ sig.intr
    /\ pc' = "intr"
    /\ UNCHANGED <<line, world, polling, which, v, sig>>

CheckAlrm ==
    /\ pc \in Reading /\ ~polling
    /\ sig.alrm /\ ~sig.intr
    /\ Exit(EXIT_REPRINT)
    /\ UNCHANGED sig

\* The condition on which the loop at pc ends.
LoopEnds(u) ==
    CASE pc = "status.read" -> u.status # "INVALID"
      [] pc = "page.read" -> u[which] >= 0
      [] OTHER -> u.eof

\* proc_some_input(): select() and read(), processing what has arrived.
SomeInput ==
    /\ pc \in Reading /\ polling
    /\ fromPrinter # <<>>
    /\ fromPrinter' = <<>>
    /\ polling' = FALSE
    /\ UNCHANGED <<toPrinter, world>>

\* The loop goes on, or a Flushing message has ended it.
ReadOn ==
    /\ SomeInput
    /\ AfterRead.flushing \/ ~LoopEnds(AfterRead)
    /\ pc' = IF AfterRead.flushing THEN "flush" ELSE pc
    /\ v' = [AfterRead EXCEPT !.flushing = FALSE]
    /\ UNCHANGED <<which, sig>>

\* The loop at label has ended.
ReadEnds(label) ==
    /\ pc = label
    /\ SomeInput
    /\ ~AfterRead.flushing /\ LoopEnds(AfterRead)

\* get_status(): the status has come.
StatusRead ==
    /\ ReadEnds("status.read")
    /\ AfterRead.status \in {"IDLE", "WAITING"}
    /\ v' = AfterRead
    /\ IF v'.status = "IDLE"
       THEN pc' = "page" /\ sig' = clear_alrm(sig)
       ELSE pc' = "status.eof" /\ UNCHANGED sig
    /\ UNCHANGED which

\* get_status(): the printer is busy, the job has to be printed later.
StatusBusy ==
    /\ pc = "status.read" /\ polling
    /\ fromPrinter # <<>>
    /\ ~AfterRead.flushing /\ AfterRead.status \in {"BUSY", "UNKNOWN"}
    /\ Exit(EXIT_REPRINT)
    /\ UNCHANGED sig

\* get_page(): the page count has come.
PageRead ==
    /\ ReadEnds("page.read")
    /\ v' = AfterRead
    /\ pc' = "page.eof"
    /\ UNCHANGED <<which, sig>>


\* get_page(): the printer's end of file has come.  After the first count
\* send_file() begins and SIGINT is caught.
PageUpto ==
    /\ ReadEnds("page.upto")
    /\ IF which = "start"
       THEN /\ v' = init_input(AfterRead, TRUE)
            /\ pc' = "send.check"
            /\ sig' = [clear_alrm(sig) EXCEPT !.sigint = "caught"]
       ELSE /\ v' = AfterRead
            /\ pc' = "acct"
            /\ sig' = clear_alrm(sig)
    /\ UNCHANGED which

BUGUptoEof ==
    /\ \E label \in {"send.upto", "intr.upto", "flush.upto"} : ReadEnds(label)
    /\ v' = AfterRead
    /\ pc' = IF pc = "send.upto" THEN "page" ELSE "acct"
    /\ which' = "end"
    /\ sig' = IF pc = "intr.upto" THEN clear_alrm(sig) ELSE sig

\* send_file(), handle_intr(), printer_flushing(): the printer's end of file has
\* come; get_page(&end_page) follows.
UptoEof ==
    /\ \E label \in {"send.upto", "intr.upto", "flush.upto"} : ReadEnds(label)
    /\ v' = AfterRead
    /\ pc' = "page"
    /\ which' = "end"
    /\ sig' = IF pc = "intr.upto" THEN clear_alrm(sig) ELSE sig

\* do_acct() and exit(EXIT_SUCCESS).
DoAcct ==
    /\ Transition("acct", "exited")
    /\ charged' = IF v.end > v.start THEN v.end - v.start ELSE 0
    /\ exit' = EXIT_SUCCESS
    /\ UNCHANGED <<line, printer, polling, which, left, v, sig, ints>>
----------------------------------------------------------------------------
\* A signal that has a handler can come: SIGINT when it is sent, SIGALRM when
\* the timer runs out.  The handler sets its flag.
CanCome(s) == IF s = "intr" THEN sig.sigint = "caught" /\ ints < MaxInts ELSE sig.timer

Caught(s) ==
    /\ pc # "exited"
    /\ CanCome(s)
    /\ sig' = [sig EXCEPT ![s] = TRUE, !.timer = @ /\ s # "alrm"]
    /\ ints' = IF s = "intr" THEN ints + 1 ELSE ints

\* Before the next system call begins, or while it runs and does not wait.
SignalBetween(s) ==
    /\ Caught(s)
    /\ UNCHANGED <<line, printer, pc, polling, which, left, v, exit, charged>>

\* While the daemon waits in select(): EINTR, and alrm_flag is tested first.
SignalInSelect(s) ==
    /\ Caught(s)
    /\ fromPrinter = <<>>
    /\ \/ pc \in Reading /\ polling
       \/ pc = "send.select" /\ Len(toPrinter) = OQ
    /\ polling' = FALSE
    /\ pc' = IF sig'.alrm THEN "exited" ELSE "intr"
    /\ exit' = IF sig'.alrm THEN EXIT_REPRINT ELSE exit
    /\ UNCHANGED <<line, printer, which, left, v, charged>>

\* While the daemon waits in block_write(): EINTR, and log_sys() exits.
SignalInWrite(s) ==
    /\ Caught(s)
    /\ pc \in Writing /\ Len(toPrinter) = OQ
    /\ pc' = "exited"
    /\ exit' = EXIT_THROW_AWAY
    /\ UNCHANGED <<line, printer, polling, which, left, v, charged>>

\* SIGINT before send_file(): the daemon is killed.
Killed ==
    /\ sig.sigint = "default" /\ ints < MaxInts /\ pc # "exited"
    /\ pc' = "exited"
    /\ ints' = ints + 1
    /\ UNCHANGED <<line, printer, polling, which, left, v, sig, exit, charged>>
----------------------------------------------------------------------------
\* The printer sends the next character when the line takes it.
PrinterSends ==
    /\ printer.state # "dead"
    /\ printer.sending # <<>> /\ Len(fromPrinter) < IQ
    /\ fromPrinter' = Append(fromPrinter, Head(printer.sending))
    /\ printer' = [printer EXCEPT !.sending = Tail(@)]
    /\ UNCHANGED <<toPrinter, pc, polling, which, left, v, sig, ints, exit, charged>>

\* The printer becomes state and starts to send chars.
Becomes(state, chars) == printer' = [printer EXCEPT !.state = state, !.sending = chars]

\* The same because of what is in the job.  An end of file among chars is forged:
\* proc_input_char() counts it like any other.
JobMakes(state, chars) ==
    printer' = [printer EXCEPT !.state = state, !.sending = chars,
                               !.forged = @ \/ Contains(chars, EOF)]

StatusPair(val) == CHOOSE pair \in DOMAIN StatusOf : StatusOf[pair] = val
PagePair(n) == CHOOSE pair \in DOMAIN PageNo : PageNo[pair] = n

\* What the printer does with what it is sent.  After an error or Control-C it
\* flushes, that is, ignores the rest of the job up to the end of file.  The job
\* may make it send any of Texts, and send_file() does not keep a Control-D of the
\* job from the line: the printer takes that for the end of file, too.
Handles(item) ==
    \/ /\ item = "^T"
       /\ Becomes(printer.state,
                  Msg(StatusPair(CASE printer.state = "idle" -> "IDLE"
                                   [] printer.state = "waiting" -> "WAITING"
                                   [] OTHER -> "BUSY")))
    \/ item = EOF /\ Becomes("idle", <<EOF>>)
    \/ /\ item = "^C"
       /\ IF printer.state = "idle" THEN UNCHANGED printer
          ELSE Becomes("flushing", Msg("Error") \o Msg("Flushing"))
    \/ item \in {"query", "data"} /\ printer.state = "flushing" /\ UNCHANGED printer
    \/ /\ item = "query" /\ printer.state # "flushing"
       /\ Becomes("waiting", Msg(PagePair(printer.pages)))
    \/ /\ item = "data" /\ printer.state # "flushing"
       /\ \/ printer' = [printer EXCEPT !.state = "waiting", !.pages = @ + 1]
          \/ \E text \in Texts : JobMakes("waiting", text)
          \/ Becomes("flushing", Msg("Error") \o Msg("Flushing"))
    \/ item = "data" /\ JobMakes("idle", <<EOF>>)

PrinterReads ==
    /\ printer.state # "dead"
    /\ printer.sending = <<>> /\ toPrinter # <<>>
    /\ Handles(Head(toPrinter))
    /\ toPrinter' = Tail(toPrinter)
    /\ UNCHANGED <<fromPrinter, pc, polling, which, left, v, sig, ints, exit, charged>>

\* The printer is switched off or stops answering.
PrinterDies ==
    /\ printer.state # "dead"
    /\ Becomes("dead", <<>>)
    /\ UNCHANGED <<line, pc, polling, which, left, v, sig, ints, exit, charged>>
----------------------------------------------------------------------------
Send == SendCheck \/ SendSelect \/ SendEof
HandleIntr == IntrReset \/ IntrClear \/ IntrWrite \/ IntrEof
PrinterFlushing == FlushClear \/ FlushEof
GetStatus == StatusFlush \/ StatusWrite \/ StatusRead \/ StatusBusy \/ StatusEof
GetPage == PageFlush \/ PageWrite \/ PageRead \/ PageEof \/ PageUpto
ProcSomeInput == Check \/ CheckIntr \/ CheckAlrm \/ ReadOn

Daemon ==
    \/ GetStatus \/ GetPage \/ Send \/ HandleIntr \/ PrinterFlushing \/ ProcSomeInput
    \/ UptoEof \/ DoAcct

Printer == PrinterSends \/ PrinterReads

Next ==
    \/ Daemon
    \/ \E s \in {"intr", "alrm"} : SignalBetween(s) \/ SignalInSelect(s) \/ SignalInWrite(s)
    \/ Killed
    \/ Printer
    \/ PrinterDies

\* The scheduler runs the daemon, and the printer works until it dies; nothing
\* sends a signal or makes a timer run out.
Spec == Init /\ [][Next]_vars /\ WF_vars(Daemon) /\ WF_vars(Printer)
----------------------------------------------------------------------------
\* proc_upto_eof() counts every Control-D (input.c:81), also one that the job has
\* made the printer send, and takes it for the answer to the end of file that the
\* daemon has sent.  Until a job does that, the following three hold.

\* A job that ends with EXIT_SUCCESS is charged for the pages it printed: after
\* an error, after an interrupt wherever it came, and whatever else the job has
\* sent, even if it looks like a page count.
PagesCharged ==
    exit = EXIT_SUCCESS /\ printer.state # "dead" /\ ~printer.forged => charged = printer.pages

\* The tty_flush() of get_page() never throws away a part of the job: when it is
\* called the printer has taken everything that was written.
JobDelivered == pc = "page" /\ ~printer.forged => ~Contains(toPrinter, "data")

\* After EXIT_SUCCESS the printer is idle and the line is empty: every end of
\* file that was sent is answered and the answer read, so that the next daemon
\* does not take an answer to this one for its own.
LineInSync ==
    exit = EXIT_SUCCESS /\ printer.state # "dead" /\ ~printer.forged =>
        printer.state = "idle" /\ toPrinter = <<>> /\ fromPrinter = <<>> /\ printer.sending = <<>>

\* The others hold whatever the job sends.

\* "printer not responding" means EXIT_REPRINT (alarm.c:13-16): an alarm never
\* falls into a write that waits, where log_sys() would throw the job away,
\* because whoever sets one flushes the line first.
TimeoutReprints == exit = EXIT_THROW_AWAY => ~sig.alrm

\* Nothing that arrives during a job gets lost or out of order on its way
\* through the automaton, over any number of reads: it is mailed, or part of a
\* message, or still undecided.  (But for what msgbuf has no room for.)
NothingLost == v.in_job => Undecided(v.parser) = v.received

\* "we never block on a write to the printer" (output.c:28): however much the
\* printer sends before it takes more of the job, out_buf() gets the job out.
OutputNeverBlocks ==
    (pc \in {"send.check", "send.select"})
        ~> (pc \notin {"send.check", "send.select"} \/ printer.state = "dead")
=============================================================================
