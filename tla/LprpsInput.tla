----------------------------- MODULE LprpsInput -----------------------------
(***************************************************************************)
(* The automaton of apue/printer/input.c, which separates what a           *)
(* PostScript printer sends: messages "%%[ ... ]%%", whose characters go   *)
(* to msgbuf, and everything else, which is mailed to the user.            *)
(*                                                                         *)
(* A "key: val" pair of a message counts as one character, as do its       *)
(* blanks.  Character 0, which msg_char() drops, is not sent.              *)
(***************************************************************************)
EXTENDS Integers, Sequences

CONSTANTS
    Chars,      \* what the printer may send, but for its end of file
    MBSIZE      \* size of msgbuf, with the 0 at its end

ASSUME InputAssumption ==
    /\ {"%", "[", "]"} \subseteq Chars
    /\ MBSIZE \in Nat \ {0}

\* enum parse_state
ParseStates ==
    {"NORMAL", "HAD_ONE_PERCENT", "HAD_TWO_PERCENT", "IN_MESSAGE",
     "HAD_RIGHT_BRACKET", "HAD_RIGHT_BRACKET_AND_PERCENT"}

\* The automaton: parse_state, msgbuf and, as history, what it is done with, in
\* the order of the input: the characters mailed and the messages that were
\* handed to proc_msg().
Parser == [state : ParseStates, msgbuf : Seq(Chars), taken : Seq(Chars)]

NewParser == [state |-> "NORMAL", msgbuf |-> <<>>, taken |-> <<>>]

MsgStart == <<"%", "%", "[">>
MsgEnd == <<"]", "%", "%">>

\* The parser goes on to a state and keeps the character for later.
to(a, state) == [a EXCEPT !.state = state]

BUGmailed(a, chars) ==
    [a EXCEPT !.state = "NORMAL", !.taken = Append(@, chars[Len(chars)])]

\* mail_char() of characters that turned out not to start a message.
mailed(a, chars) == [a EXCEPT !.state = "NORMAL", !.taken = @ \o chars]

\* msg_char() of characters that turned out not to end the message: those for
\* which msgbuf has no room are dropped.
msg_chars(a, chars) ==
    LET buf == a.msgbuf \o chars
        size == IF Len(buf) < MBSIZE THEN Len(buf) ELSE MBSIZE - 1
    IN  [a EXCEPT !.state = "IN_MESSAGE", !.msgbuf = SubSeq(buf, 1, size)]

\* Character c ends the message in msgbuf.
EndsMessage(a, c) == a.state = "HAD_RIGHT_BRACKET_AND_PERCENT" /\ c = "%"

\* The switch of proc_input_char().
parse(a, c) ==
    CASE a.state = "NORMAL" ->
            IF c = "%" THEN to(a, "HAD_ONE_PERCENT") ELSE mailed(a, <<c>>)
      [] a.state = "HAD_ONE_PERCENT" ->
            IF c = "%" THEN to(a, "HAD_TWO_PERCENT") ELSE mailed(a, <<"%", c>>)
      [] a.state = "HAD_TWO_PERCENT" ->
            IF c = "[" THEN [to(a, "IN_MESSAGE") EXCEPT !.msgbuf = <<>>]
            ELSE mailed(a, <<"%", "%", c>>)
      [] a.state = "IN_MESSAGE" ->
            IF c = "]" THEN to(a, "HAD_RIGHT_BRACKET") ELSE msg_chars(a, <<c>>)
      [] a.state = "HAD_RIGHT_BRACKET" ->
            IF c = "%" THEN to(a, "HAD_RIGHT_BRACKET_AND_PERCENT")
            ELSE msg_chars(a, <<"]", c>>)
      [] a.state = "HAD_RIGHT_BRACKET_AND_PERCENT" ->
            IF c = "%" THEN mailed(a, MsgStart \o a.msgbuf \o MsgEnd)
            ELSE msg_chars(a, <<"]", "%", c>>)

\* The characters that the automaton has read and not yet decided about.
Undecided(a) ==
    CASE a.state = "NORMAL" -> <<>>
      [] a.state = "HAD_ONE_PERCENT" -> <<"%">>
      [] a.state = "HAD_TWO_PERCENT" -> <<"%", "%">>
      [] a.state = "IN_MESSAGE" -> MsgStart \o a.msgbuf
      [] a.state = "HAD_RIGHT_BRACKET" -> MsgStart \o a.msgbuf \o <<"]">>
      [] a.state = "HAD_RIGHT_BRACKET_AND_PERCENT" -> MsgStart \o a.msgbuf \o <<"]", "%">>

\* msgbuf has room for whatever the next character brings.
HasRoom(a) == Len(a.msgbuf) + 3 < MBSIZE

\* Everything the automaton has read, in the order in which it came.
Received(a) == a.taken \o Undecided(a)
=============================================================================
