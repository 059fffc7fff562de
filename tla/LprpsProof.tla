----------------------------- MODULE LprpsProof -----------------------------
(***************************************************************************)
(* Proofs about the printer daemon, for every size of the line's queues    *)
(* and of msgbuf, every length of the job, every text it makes the printer *)
(* send, and any number of interrupts.                                     *)
(*                                                                         *)
(* 1. The automaton of LprpsInput: its types, and that it loses nothing.   *)
(* 2. Reading: FoldLeft of proc_input_char() over what has arrived, one    *)
(*    character at a time and in pieces, for every length.  What a whole   *)
(*    answer of the printer does to the variables does not depend on where *)
(*    read() cuts it.                                                      *)
(* 3. The inductive invariant, in parts: Types, Alarms (where an alarm can *)
(*    go off), Budget, Order and Job (where the job and its end of         *)
(*    file are), Honest (the history), Answers (which answer is under way  *)
(*    at every label, until the printer is switched off).                  *)
(* 4. For every part, one step per action; then the theorems.              *)
(***************************************************************************)
EXTENDS Lprps, TLAPS, FiniteSetTheorems, SequenceTheorems, WellFoundedInduction

\* The size of a message stays below MBSIZE, so that proc_msg() has room for the
\* terminating 0 (message.c:40).
Fits(a) == Len(a.msgbuf) < MBSIZE

\* NewParser is a parser.
LEMMA NewParserType == NewParser \in Parser /\ Fits(NewParser) /\ Received(NewParser) = <<>>
  BY InputAssumption DEF NewParser, Parser, ParseStates, Fits, Received, Undecided

\* A message that grows by some characters keeps its type and its bound, and
\* it gets them all if there is room.
LEMMA MsgChars ==
  ASSUME NEW a \in Parser, NEW chars \in Seq(Chars)
  PROVE  /\ msg_chars(a, chars) \in Parser
         /\ Fits(msg_chars(a, chars))
         /\ Len(a.msgbuf) + Len(chars) < MBSIZE =>
               msg_chars(a, chars) = [a EXCEPT !.state = "IN_MESSAGE", !.msgbuf = @ \o chars]
<1> DEFINE buf == a.msgbuf \o chars
           size == IF Len(buf) < MBSIZE THEN Len(buf) ELSE MBSIZE - 1
<1>1. a.msgbuf \in Seq(Chars)
  BY DEF Parser
<1>2. buf \in Seq(Chars) /\ Len(buf) = Len(a.msgbuf) + Len(chars)
  BY <1>1, ConcatProperties
<1>3. size \in 0..Len(buf) /\ size < MBSIZE
  BY <1>2, LenProperties, InputAssumption
<1>4. SubSeq(buf, 1, size) \in Seq(Chars) /\ Len(SubSeq(buf, 1, size)) = size
  BY <1>2, <1>3, SubSeqProperties
<1>5. Len(buf) < MBSIZE => SubSeq(buf, 1, size) = buf
  BY <1>2, SubSeqProperties
<1>6. msg_chars(a, chars) = [a EXCEPT !.state = "IN_MESSAGE", !.msgbuf = SubSeq(buf, 1, size)]
  BY DEF msg_chars
<1> HIDE DEF buf, size
<1>7. msg_chars(a, chars) \in Parser
  BY <1>4, <1>6 DEF Parser, ParseStates
<1>8. Fits(msg_chars(a, chars))
  BY <1>3, <1>4, <1>6 DEF Parser, Fits
<1>9. ASSUME Len(a.msgbuf) + Len(chars) < MBSIZE
      PROVE  msg_chars(a, chars) = [a EXCEPT !.state = "IN_MESSAGE", !.msgbuf = @ \o chars]
  BY <1>2, <1>5, <1>6, <1>9 DEF buf
<1> QED
  BY <1>7, <1>8, <1>9

\* Concatenation is associative, also with a tuple of one character at the end.
LEMMA Concat3 ==
  ASSUME NEW r \in Seq(Chars), NEW s \in Seq(Chars), NEW t \in Seq(Chars)
  PROVE  r \o (s \o t) = (r \o s) \o t
  BY ConcatAssociative

\* Appending one character, as a concatenation.
LEMMA AppendOne ==
  ASSUME NEW s \in Seq(Chars), NEW c \in Chars
  PROVE  Append(s, c) = s \o <<c>>
  OBVIOUS

\* A pair of values, as a concatenation.
LEMMA PairIsConcat ==
  ASSUME NEW S, NEW c \in S, NEW d \in S
  PROVE  <<c>> \o <<d>> = <<c, d>>
<1>1. <<c>> \in Seq(S) /\ <<d>> \in Seq(S) /\ <<c,d>> \in Seq(S)
  OBVIOUS
<1>2. PICK x \in Seq(S) : x = <<c>>
  BY <1>1, Zenon
<1>3. PICK y \in Seq(S) : y = <<d>>
  BY <1>1, Zenon
<1>4. PICK z \in Seq(S) : z = <<c, d>>
  BY <1>1, Zenon
<1>5. Len(x) = 1 /\ Len(y) = 1 /\ x[1] = c /\ y[1] = d /\ Len(z) = 2 /\ z[1] = c /\ z[2] = d
  BY <1>2, <1>3, <1>4
<1>6. x \o y \in Seq(S) /\ Len(x \o y) = 2 /\ (x \o y)[1] = c /\ (x \o y)[2] = d
  BY <1>5, ConcatProperties
<1>7. x \o y = z
  BY <1>5, <1>6, SeqEqual
<1> QED
  BY <1>2, <1>3, <1>4, <1>7

\* The characters that are not decided about are characters.
LEMMA UndecidedType ==
  ASSUME NEW a \in Parser
  PROVE  Undecided(a) \in Seq(Chars) /\ a.taken \in Seq(Chars) /\ a.msgbuf \in Seq(Chars)
  BY InputAssumption DEF Parser, ParseStates, Undecided, MsgStart

\* parse() keeps the type of the automaton and the bound on the message, whatever
\* the printer sends.
THEOREM ParseType ==
  ASSUME NEW a \in Parser, Fits(a), NEW c \in Chars
  PROVE  parse(a, c) \in Parser /\ Fits(parse(a, c))
<1> DEFINE P(b) == b \in Parser /\ Fits(b)
<1>1. a.msgbuf \in Seq(Chars) /\ a.taken \in Seq(Chars)
  BY DEF Parser
<1>2. ASSUME NEW state \in ParseStates
      PROVE  P(to(a, state))
  BY <1>1 DEF Parser, Fits, to
<1>3. ASSUME NEW chars \in Seq(Chars)
      PROVE  P(mailed(a, chars))
  <2>1. mailed(a, chars) = [a EXCEPT !.state = "NORMAL", !.taken = a.taken \o chars]
    BY DEF mailed
  <2>2. a.taken \o chars \in Seq(Chars)
    BY <1>1, <1>3
  <2> QED
    BY <1>1, <2>1, <2>2 DEF Parser, ParseStates, Fits
<1>4. ASSUME NEW chars \in Seq(Chars)
      PROVE  P(msg_chars(a, chars))
  BY MsgChars
<1>5. P([to(a, "IN_MESSAGE") EXCEPT !.msgbuf = <<>>])
  <2>1. [to(a, "IN_MESSAGE") EXCEPT !.msgbuf = <<>>] =
            [a EXCEPT !.state = "IN_MESSAGE", !.msgbuf = <<>>]
    BY DEF to
  <2>2. [a EXCEPT !.state = "IN_MESSAGE", !.msgbuf = <<>>] \in Parser
    <3>1. <<>> \in Seq(Chars)
      OBVIOUS
    <3> QED
      BY <1>1, <3>1 DEF Parser, ParseStates
  <2>3. [a EXCEPT !.state = "IN_MESSAGE", !.msgbuf = <<>>].msgbuf = <<>>
    BY DEF Parser
  <2>4. Len(<<>>) < MBSIZE
    BY InputAssumption
  <2> QED
    BY <2>1, <2>2, <2>3, <2>4 DEF Fits
<1>6. /\ <<c>> \in Seq(Chars) /\ <<"%", c>> \in Seq(Chars) /\ <<"%", "%", c>> \in Seq(Chars)
      /\ <<"]", c>> \in Seq(Chars) /\ <<"]", "%", c>> \in Seq(Chars)
      /\ MsgStart \in Seq(Chars) /\ MsgEnd \in Seq(Chars)
  BY InputAssumption DEF MsgStart, MsgEnd
<1>7. MsgStart \o a.msgbuf \o MsgEnd \in Seq(Chars)
  BY <1>1, <1>6
<1> HIDE DEF P
<1>8. a.state \in ParseStates
  BY DEF Parser
<1>9. P(parse(a, c))
  BY <1>2, <1>3, <1>4, <1>5, <1>6, <1>7, <1>8 DEF parse, ParseStates
<1> QED
  BY <1>9 DEF P

\* With room in msgbuf no character is lost, doubled or moved: what the automaton
\* has mailed, handed to proc_msg() or still keeps is what it has read.
THEOREM Lossless ==
  ASSUME NEW a \in Parser, HasRoom(a), NEW c \in Chars
  PROVE  Received(parse(a, c)) = Append(Received(a), c)
<1> DEFINE m == a.msgbuf
<1>1. m \in Seq(Chars) /\ a.taken \in Seq(Chars) /\ Undecided(a) \in Seq(Chars)
      /\ a.state \in ParseStates
  BY UndecidedType DEF Parser
<1>2. /\ <<c>> \in Seq(Chars) /\ <<"%">> \in Seq(Chars) /\ <<"]">> \in Seq(Chars)
      /\ <<"]", "%">> \in Seq(Chars) /\ <<"%", "%">> \in Seq(Chars) /\ MsgStart \in Seq(Chars)
      /\ MsgEnd \in Seq(Chars)
  BY InputAssumption DEF MsgStart, MsgEnd
<1>11. Append(Received(a), c) = a.taken \o (Undecided(a) \o <<c>>)
  <2>1. Received(a) \in Seq(Chars) /\ Received(a) = a.taken \o Undecided(a)
    BY <1>1 DEF Received
  <2>2. Append(Received(a), c) = (a.taken \o Undecided(a)) \o <<c>>
    BY <2>1, AppendOne
  <2>3. (a.taken \o Undecided(a)) \o <<c>> = a.taken \o (Undecided(a) \o <<c>>)
    <3>1. a.taken \in Seq(Chars) /\ Undecided(a) \in Seq(Chars) /\ <<c>> \in Seq(Chars)
      BY <1>1, <1>2
    <3> QED
      BY <3>1, Concat3
  <2> QED
    BY <2>2, <2>3
<1> SUFFICES Received(parse(a, c)) = a.taken \o (Undecided(a) \o <<c>>)
  BY <1>11
<1>12. \A x \in Seq(Chars) : MsgStart \o (m \o x) = (MsgStart \o m) \o x
  <2>1. MsgStart \in Seq(Chars) /\ m \in Seq(Chars)
    BY <1>1, <1>2
  <2> QED
    BY <2>1, Concat3
<1>3. ASSUME NEW chars \in Seq(Chars), parse(a, c) = mailed(a, chars),
             chars = Undecided(a) \o <<c>>
      PROVE  Received(parse(a, c)) = a.taken \o (Undecided(a) \o <<c>>)
  <2>1. Received(parse(a, c)) = (a.taken \o chars) \o <<>>
    BY <1>3 DEF Parser, mailed, Received, Undecided
  <2> QED
    BY <2>1, <1>1, <1>3
<1>4. CASE a.state = "NORMAL"
  <2>1. CASE c = "%"
    <3>1. parse(a, c) = [a EXCEPT !.state = "HAD_ONE_PERCENT"]
      BY <1>4, <2>1 DEF parse, to
    <3>2. Undecided(parse(a, c)) = <<"%">> /\ parse(a, c).taken = a.taken
      BY <3>1 DEF Parser, Undecided
    <3>3. Undecided(a) = <<>>
      BY <1>4 DEF Undecided
    <3>4. <<>> \o <<"%">> = <<"%">>
      OBVIOUS
    <3> QED
      BY <2>1, <3>2, <3>3, <3>4 DEF Received
  <2>2. CASE c # "%"
    <3>1. <<c>> = <<>> \o <<c>>
      OBVIOUS
    <3> QED
      BY <1>2, <1>3, <1>4, <2>2, <3>1 DEF parse, Undecided
  <2> QED
    BY <2>1, <2>2
<1>5. CASE a.state = "HAD_ONE_PERCENT"
  <2>1. CASE c = "%"
    <3>1. parse(a, c) = [a EXCEPT !.state = "HAD_TWO_PERCENT"]
      BY <1>5, <2>1 DEF parse, to
    <3>2. Undecided(parse(a, c)) = <<"%", "%">> /\ parse(a, c).taken = a.taken
      BY <3>1 DEF Parser, Undecided
    <3>3. Undecided(a) = <<"%">>
      BY <1>5 DEF Undecided
    <3>4. <<"%">> \o <<"%">> = <<"%", "%">>
      BY <2>1, PairIsConcat
    <3> QED
      BY <2>1, <3>2, <3>3, <3>4 DEF Received
  <2>2. CASE c # "%"
    <3>1. <<"%", c>> \in Seq(Chars) /\ <<"%", c>> = <<"%">> \o <<c>>
      BY PairIsConcat, InputAssumption
    <3>2. parse(a, c) = mailed(a, <<"%", c>>)
      BY <1>5, <2>2 DEF parse
    <3>3. <<"%", c>> = Undecided(a) \o <<c>>
      BY <1>5, <3>1 DEF Undecided
    <3> QED
      BY <1>3, <3>1, <3>2, <3>3
  <2> QED
    BY <2>1, <2>2
<1>6. CASE a.state = "HAD_TWO_PERCENT"
  <2>1. CASE c = "["
    <3>1. parse(a, c) = [a EXCEPT !.state = "IN_MESSAGE", !.msgbuf = <<>>]
      BY <1>6, <2>1 DEF Parser, parse, to
    <3>2. Received(parse(a, c)) = a.taken \o (MsgStart \o <<>>)
      BY <3>1 DEF Parser, Received, Undecided
    <3>3. MsgStart \o <<>> = <<"%", "%">> \o <<c>>
      BY <1>2, <2>1 DEF MsgStart
    <3> QED
      BY <1>6, <3>2, <3>3 DEF Undecided
  <2>2. CASE c # "["
    <3>1. <<"%", "%", c>> \in Seq(Chars) /\ <<"%", "%", c>> = <<"%", "%">> \o <<c>>
      BY <1>2, InputAssumption
    <3> QED
      BY <1>3, <1>6, <2>2, <3>1 DEF parse, Undecided
  <2> QED
    BY <2>1, <2>2
<1>7. ASSUME NEW chars \in Seq(Chars), Len(chars) <= 3, parse(a, c) = msg_chars(a, chars),
             MsgStart \o (m \o chars) = Undecided(a) \o <<c>>
      PROVE  Received(parse(a, c)) = a.taken \o (Undecided(a) \o <<c>>)
  <2>1. Len(m) + Len(chars) < MBSIZE
    BY <1>1, <1>7, InputAssumption DEF HasRoom
  <2>2. parse(a, c) = [a EXCEPT !.state = "IN_MESSAGE", !.msgbuf = @ \o chars]
    BY <1>7, <2>1, MsgChars
  <2>3. Received(parse(a, c)) = a.taken \o (MsgStart \o (m \o chars))
    BY <2>2 DEF Parser, Received, Undecided
  <2> QED
    BY <2>3, <1>7
<1>8. CASE a.state = "IN_MESSAGE"
  <2>1. CASE c = "]"
    BY <1>1, <1>8, <2>1 DEF Parser, parse, to, Received, Undecided
  <2>2. CASE c # "]"
    <3>1. MsgStart \o (m \o <<c>>) = (MsgStart \o m) \o <<c>>
      BY <1>2, <1>12
    <3>2. Len(<<c>>) <= 3
      OBVIOUS
    <3> QED
      BY <1>2, <1>7, <1>8, <2>2, <3>1, <3>2 DEF parse, Undecided
  <2> QED
    BY <2>1, <2>2
<1>9. CASE a.state = "HAD_RIGHT_BRACKET"
  <2>1. CASE c = "%"
    <3>1. Received(parse(a, c)) = a.taken \o (MsgStart \o m \o <<"]", "%">>)
      BY <1>9, <2>1 DEF Parser, parse, to, Received, Undecided
    <3>2. <<"]", "%">> = <<"]">> \o <<c>>
      BY <2>1, PairIsConcat, InputAssumption
    <3>3. MsgStart \o m \in Seq(Chars)
      BY <1>1, <1>2
    <3>4. (MsgStart \o m) \o (<<"]">> \o <<c>>) = ((MsgStart \o m) \o <<"]">>) \o <<c>>
      BY <1>2, <3>3, Concat3
    <3> QED
      BY <1>9, <3>1, <3>2, <3>4 DEF Undecided
  <2>2. CASE c # "%"
    <3>1. <<"]", c>> \in Seq(Chars) /\ <<"]", c>> = <<"]">> \o <<c>> /\ Len(<<"]", c>>) = 2
      BY PairIsConcat, InputAssumption
    <3>2. MsgStart \o m \in Seq(Chars)
      BY <1>1, <1>2
    <3>3. MsgStart \o (m \o <<"]", c>>) = (MsgStart \o m) \o <<"]", c>>
      BY <3>1, <1>12
    <3>4. (MsgStart \o m) \o (<<"]">> \o <<c>>) = ((MsgStart \o m) \o <<"]">>) \o <<c>>
      BY <1>2, <3>2, Concat3
    <3>5. MsgStart \o (m \o <<"]", c>>) = Undecided(a) \o <<c>>
      BY <1>9, <3>1, <3>3, <3>4 DEF Undecided
    <3>6. parse(a, c) = msg_chars(a, <<"]", c>>)
      BY <1>9, <2>2 DEF parse
    <3>7. <<"]", c>> \in Seq(Chars) /\ Len(<<"]", c>>) <= 3
      BY <3>1
    <3> HIDE DEF m
    <3> QED
      BY <1>7, <3>5, <3>6, <3>7
  <2> QED
    BY <2>1, <2>2
<1>10. CASE a.state = "HAD_RIGHT_BRACKET_AND_PERCENT"
  <2>1. MsgStart \o m \in Seq(Chars)
    BY <1>1, <1>2
  <2>2. ((MsgStart \o m) \o <<"]", "%">>) \o <<c>> = (MsgStart \o m) \o (<<"]", "%">> \o <<c>>)
    BY <1>2, <2>1, Concat3
  <2>3. CASE c = "%"
    <3>1. MsgEnd = <<"]", "%">> \o <<c>>
      BY <2>3 DEF MsgEnd
    <3>2. MsgStart \o m \o MsgEnd \in Seq(Chars)
      BY <1>2, <2>1
    <3> QED
      BY <1>3, <1>10, <2>2, <2>3, <3>1, <3>2 DEF parse, Undecided
  <2>4. CASE c # "%"
    <3>1. /\ <<"]", "%", c>> \in Seq(Chars) /\ <<"]", "%", c>> = <<"]", "%">> \o <<c>>
          /\ Len(<<"]", "%", c>>) = 3
      BY InputAssumption
    <3>2. MsgStart \o (m \o <<"]", "%", c>>) = (MsgStart \o m) \o <<"]", "%", c>>
      BY <3>1, <1>12
    <3>3. MsgStart \o (m \o <<"]", "%", c>>) = Undecided(a) \o <<c>>
      BY <1>10, <2>2, <3>1, <3>2 DEF Undecided
    <3>4. parse(a, c) = msg_chars(a, <<"]", "%", c>>)
      BY <1>10, <2>4 DEF parse
    <3>5. <<"]", "%", c>> \in Seq(Chars) /\ Len(<<"]", "%", c>>) <= 3
      BY <3>1
    <3> HIDE DEF m
    <3> QED
      BY <1>7, <3>3, <3>4, <3>5
  <2> QED
    BY <2>3, <2>4
<1> QED
  BY <1>1, <1>4, <1>5, <1>6, <1>8, <1>9, <1>10 DEF ParseStates

\* The variables u after the characters of s.
Read(u, s) == FoldLeft(proc_input_char, u, s)

\* The equation of the function in FoldLeft.
IsIter(iter, u, s) ==
    iter = [S \in SUBSET DOMAIN s |->
               IF S = {} THEN u ELSE proc_input_char(iter[S \ {Max(S)}], s[Max(S)])]

\* A set that has 0 and, with a number, its successor, has every number.
LEMMA Induction ==
  ASSUME NEW T, 0 \in T, \A n \in Nat : n \in T => n + 1 \in T
  PROVE  \A n \in Nat : n \in T
<1> DEFINE R == OpToRel(<, Nat)
<1>1. IsWellFoundedOn(R, Nat)
  BY NatLessThanWellFounded
<1>2. \A x, y \in Nat : y < x => <<y, x>> \in R
  BY DEF OpToRel
<1> HIDE DEF R
<1> SUFFICES ASSUME Nat \ T # {} PROVE FALSE
  BY Zenon
<1>3. PICK n \in Nat \ T : \A m \in Nat \ T : ~(<<m, n>> \in R)
  BY <1>1, WFMin, Zenon
<1>4. n # 0 /\ n - 1 \in Nat /\ n - 1 < n
  BY <1>3
<1>5. n - 1 \in T
  BY <1>2, <1>3, <1>4
<1> QED
  BY <1>3, <1>4, <1>5

\* The greatest of some of the numbers 1..n, when n is one of them.
LEMMA MaxIs ==
  ASSUME NEW n \in Nat, NEW S \in SUBSET (1..n), n \in S
  PROVE  Max(S) = n
<1>1. \A y \in S : n >= y
  OBVIOUS
<1>2. \A x \in S : (\A y \in S : x >= y) => x = n
  OBVIOUS
<1> QED
  BY <1>1, <1>2 DEF Max

\* There is such a function.
LEMMA IterExists ==
  ASSUME NEW u, NEW X, NEW s \in Seq(X)
  PROVE  \E iter : IsIter(iter, u, s)
<1> DEFINE Up(g, m) ==
        g = [S \in SUBSET (1..m) |->
               IF S = {} THEN u ELSE proc_input_char(g[S \ {Max(S)}], s[Max(S)])]
<1> DEFINE T == {m \in Nat : \E g : Up(g, m)}
<1>1. 0 \in T
  <2> DEFINE g == [S \in SUBSET (1..0) |-> u]
  <2>1. \A S \in SUBSET (1..0) : S = {}
    OBVIOUS
  <2>2. Up(g, 0)
    BY <2>1
  <2> QED
    BY <2>2
<1>2. ASSUME NEW m \in Nat, m \in T PROVE m + 1 \in T
  <2>1. PICK g : Up(g, m)
    BY <1>2
  <2> DEFINE h == [S \in SUBSET (1..m + 1) |->
                     IF m + 1 \in S THEN proc_input_char(g[S \ {m + 1}], s[m + 1]) ELSE g[S]]
  <2>2. ASSUME NEW S \in SUBSET (1..m + 1)
        PROVE  h[S] = IF S = {} THEN u ELSE proc_input_char(h[S \ {Max(S)}], s[Max(S)])
    <3>1. CASE m + 1 \in S
      <4>1. Max(S) = m + 1
        BY <3>1, MaxIs
      <4>2. S \ {m + 1} \in SUBSET (1..m + 1) /\ m + 1 \notin S \ {m + 1}
        OBVIOUS
      <4>3. h[S \ {m + 1}] = g[S \ {m + 1}] /\ h[S] = proc_input_char(g[S \ {m + 1}], s[m + 1])
        BY <3>1, <4>2, Zenon
      <4> QED
        BY <3>1, <4>1, <4>3, Zenon
    <3>2. CASE m + 1 \notin S
      <4>1. S \in SUBSET (1..m)
        BY <3>2
      <4>2. g[S] = IF S = {} THEN u ELSE proc_input_char(g[S \ {Max(S)}], s[Max(S)])
        BY <2>1, <4>1, Zenon
      <4>3. h[S] = g[S]
        BY <3>2, Zenon
      <4>4. S \ {Max(S)} \in SUBSET (1..m + 1) /\ m + 1 \notin S \ {Max(S)}
        BY <3>2, Zenon
      <4>5. h[S \ {Max(S)}] = g[S \ {Max(S)}]
        BY <4>4, Zenon
      <4> QED
        BY <4>2, <4>3, <4>5, Zenon
    <3> QED
      BY <3>1, <3>2
  <2>3. h = [S \in SUBSET (1..m + 1) |-> h[S]]
    BY Zenon
  <2> HIDE DEF h
  <2>4. Up(h, m + 1)
    BY <2>2, <2>3
  <2>5. m + 1 \in Nat
    OBVIOUS
  <2> HIDE DEF Up
  <2> QED
    BY <2>4, <2>5
<1> HIDE DEF T
<1>3. Len(s) \in T /\ DOMAIN s = 1..Len(s)
  BY <1>1, <1>2, Induction, LenProperties
<1> QED
  BY <1>3 DEF T, IsIter

\* Read is the value of any of them.
LEMMA ReadIs ==
  ASSUME NEW u, NEW X, NEW s \in Seq(X)
  PROVE  \E iter : IsIter(iter, u, s) /\ Read(u, s) = iter[DOMAIN s]
<1> DEFINE f == CHOOSE iter : IsIter(iter, u, s)
<1>1. IsIter(f, u, s)
  BY IterExists, Zenon
<1>2. Read(u, s) = f[DOMAIN s]
  BY DEF Read, FoldLeft, MapThenFoldSet, IsIter
<1> QED
  BY <1>1, <1>2, Zenon

\* Nothing is read from an empty queue, ...
LEMMA ReadNone ==
  ASSUME NEW u
  PROVE  Read(u, <<>>) = u
<1>1. <<>> \in Seq({}) /\ DOMAIN <<>> = {}
  OBVIOUS
<1>2. PICK f : IsIter(f, u, <<>>) /\ Read(u, <<>>) = f[DOMAIN <<>>]
  BY <1>1, ReadIs
<1>3. f[{}] = u
  BY <1>1, <1>2, Zenon DEF IsIter
<1> QED
  BY <1>1, <1>2, <1>3, Zenon

\* ... and the last character is read after the others.
LEMMA ReadLast ==
  ASSUME NEW u, NEW X, NEW s \in Seq(X), NEW c \in X
  PROVE  Read(u, Append(s, c)) = proc_input_char(Read(u, s), c)
<1> DEFINE r == Append(s, c)
           n == Len(s)
<1>0. /\ n \in Nat /\ r \in Seq(X) /\ DOMAIN s = 1..n /\ DOMAIN r = 1..n + 1
      /\ r[n + 1] = c /\ \A i \in 1..n : r[i] = s[i]
  BY AppendProperties, LenProperties
<1> HIDE DEF r, n
<1>1. PICK f : IsIter(f, u, s) /\ Read(u, s) = f[1..n]
  BY <1>0, ReadIs
<1>2. PICK g : IsIter(g, u, r) /\ Read(u, r) = g[1..n + 1]
  BY <1>0, ReadIs
<1> DEFINE T == {m \in Nat : m <= n => \A S \in SUBSET (1..m) : g[S] = f[S]}
<1>3. ASSUME NEW S \in SUBSET (1..n)
      PROVE  /\ f[S] = IF S = {} THEN u ELSE proc_input_char(f[S \ {Max(S)}], s[Max(S)])
             /\ g[S] = IF S = {} THEN u ELSE proc_input_char(g[S \ {Max(S)}], r[Max(S)])
  <2>1. S \in SUBSET (1..n + 1)
    BY <1>0
  <2> QED
    BY <1>0, <1>1, <1>2, <2>1, Zenon DEF IsIter
<1>4. 0 \in T
  <2>1. \A S \in SUBSET (1..0) : S \in SUBSET (1..n) /\ S = {}
    OBVIOUS
  <2> QED
    BY <1>3, <2>1
<1>5. ASSUME NEW m \in Nat, m \in T PROVE m + 1 \in T
  <2> SUFFICES ASSUME m + 1 <= n, NEW S \in SUBSET (1..m + 1)
               PROVE  g[S] = f[S]
    OBVIOUS
  <2>0. m <= n /\ \A Q \in SUBSET (1..m) : g[Q] = f[Q]
    BY <1>0, <1>5
  <2>1. CASE m + 1 \in S
    <3>1. Max(S) = m + 1 /\ S \ {m + 1} \in SUBSET (1..m) /\ S \in SUBSET (1..n) /\ m + 1 \in 1..n
      BY <1>0, <2>1, MaxIs
    <3>2. g[S \ {m + 1}] = f[S \ {m + 1}] /\ r[m + 1] = s[m + 1]
      BY <1>0, <2>0, <3>1
    <3> QED
      BY <1>3, <2>1, <3>1, <3>2, Zenon
  <2>2. CASE m + 1 \notin S
    <3>1. S \in SUBSET (1..m)
      BY <2>2
    <3> QED
      BY <2>0, <3>1
  <2> QED
    BY <2>1, <2>2
<1> HIDE DEF T
<1>6. n \in T
  BY <1>0, <1>4, <1>5, Induction
<1>7. g[1..n] = f[1..n]
  BY <1>0, <1>6 DEF T
<1>8. Max(1..n + 1) = n + 1 /\ (1..n + 1) \ {n + 1} = 1..n /\ 1..n + 1 # {}
  <2>1. n + 1 \in Nat /\ n + 1 \in 1..n + 1
    BY <1>0
  <2>2. Max(1..n + 1) = n + 1
    BY <2>1, MaxIs
  <2>3. (1..n + 1) \ {n + 1} = 1..n
    BY <1>0
  <2>4. 1..n + 1 # {}
    BY <2>1, Zenon
  <2> QED
    BY <2>2, <2>3, <2>4
<1>9. g[1..n + 1] = proc_input_char(g[1..n], c)
  <2>1. /\ 1..n + 1 \in SUBSET DOMAIN r
        /\ g = [S \in SUBSET DOMAIN r |->
                IF S = {} THEN u ELSE proc_input_char(g[S \ {Max(S)}], r[Max(S)])]
    BY <1>0, <1>2 DEF IsIter
  <2>2. g[1..n + 1] = IF 1..n + 1 = {} THEN u
          ELSE proc_input_char(g[(1..n + 1) \ {Max(1..n + 1)}], r[Max(1..n + 1)])
    BY <2>1, Zenon
  <2>3. g[1..n + 1] = proc_input_char(g[(1..n + 1) \ {Max(1..n + 1)}], r[Max(1..n + 1)])
    BY <1>8, <2>2, Zenon
  <2>4. (1..n + 1) \ {Max(1..n + 1)} = 1..n /\ r[Max(1..n + 1)] = c
    BY <1>0, <1>8
  <2> QED
    BY <2>3, <2>4, Zenon
<1> QED
  BY <1>1, <1>2, <1>7, <1>9 DEF r

\* What the daemon sends.
Items == {"^T", "query", "data", "^C", EOF}

Bytes == Chars \cup {EOF}

Labels ==
    Reading \cup Writing \cup
    {"status", "page", "send.check", "send.select", "intr", "intr.clear", "flush", "acct", "exited"}

Parsers == {a \in Parser : Fits(a)}

Vars ==
    [parser : Parsers, received : Seq(Chars), in_job : BOOLEAN, ignore : BOOLEAN, eof : BOOLEAN,
     flushing : BOOLEAN, status : Statuses \cup {"INVALID"}, start : Int, end : Int]

Signals ==
    [intr : BOOLEAN, alrm : BOOLEAN, timer : BOOLEAN, sigint : {"default", "caught", "ignored"}]

Printers ==
    [state : {"idle", "busy", "waiting", "flushing", "dead"}, pages : Nat, sending : Seq(Bytes),
     forged : BOOLEAN]

Types ==
    /\ toPrinter \in Seq(Items) /\ Len(toPrinter) <= OQ /\ fromPrinter \in Seq(Bytes)
    /\ printer \in Printers
    /\ pc \in Labels /\ polling \in BOOLEAN /\ which \in {"start", "end"}
    /\ left \in Nat
    /\ v \in Vars /\ ~v.flushing
    /\ sig \in Signals
----------------------------------------------------------------------------
Incoming == fromPrinter \o printer.sending

\* The printer answers, and every end of file it sends is an answer.
Alive == printer.state # "dead" /\ ~printer.forged

\* An alarm can go off only where the line has room.
Alarms ==
    /\ pc \in {"send.check", "send.select", "send.eof"} => ~sig.timer /\ ~sig.alrm
    /\ pc \in {"status.write", "page.write", "intr.write", "flush.eof"} => toPrinter = <<>>
    /\ pc \in {"status.read", "status.eof", "page.read", "page.eof", "intr.eof"} =>
          Len(toPrinter) <= 1
    /\ exit = EXIT_THROW_AWAY => pc = "exited" /\ ~sig.alrm

\* The part of the job in toPrinter comes first.
Budget ==
    \E n \in 0..Len(toPrinter) :
        /\ \A i \in 1..Len(toPrinter) : toPrinter[i] = "data" <=> i <= n
        /\ printer.pages + n + left <= JobLen

NoData(q) == \A i \in 1..Len(q) : q[i] # "data"
NoEof(q) == \A i \in 1..Len(q) : q[i] # EOF
OnlyLast(q) == \A i \in 1..Len(q) : q[i] = EOF => i = Len(q)

Sending == {"send.check", "send.select", "send.eof"}

\* Where no end of file is under way, and where one is.
BeforeEof ==
    \/ pc \in Sending \cup {"status", "status.write", "status.read", "status.eof"}
    \/ pc \in {"page", "page.write", "page.read", "page.eof"} /\ which = "start"
AfterEof == pc = "send.upto" \/ (pc = "page.upto" /\ which = "start")

\* Before the job.
Early ==
    \/ pc \in {"status", "status.write", "status.read", "status.eof"}
    \/ pc \in {"page", "page.write", "page.read", "page.eof", "page.upto"} /\ which = "start"

\* Whatever the job makes the printer send: in send_file() nothing but the job is
\* under way, and before it nothing is forged.
Order ==
    /\ pc \in Sending => \A i \in 1..Len(toPrinter) : toPrinter[i] = "data"
    /\ Early => ~printer.forged

\* The job on its way to the printer, and the end of file behind it.
Job ==
    /\ pc \notin Sending \cup {"send.upto", "intr", "intr.clear", "flush", "exited"} =>
          NoData(toPrinter)
    /\ pc \in Sending => \A i \in 1..Len(toPrinter) : toPrinter[i] = "data"
    /\ BeforeEof => NoEof(toPrinter) /\ NoEof(Incoming)
    /\ AfterEof =>
          /\ ~v.eof
          /\ OnlyLast(toPrinter) /\ OnlyLast(Incoming)
          /\ ~NoEof(Incoming) => toPrinter = <<>>
    /\ pc \in {"intr.upto", "flush.upto"} => v.ignore /\ ~v.eof
    /\ pc \in Sending \cup {"status", "status.write", "status.read"} => which = "start"
----------------------------------------------------------------------------
Unset(field) == IF field = "status" THEN "INVALID" ELSE -1

\* Read in whatever pieces, s ends the loop that waits for field with its last
\* character, and the value is val.
Ends(u, s, field, val) ==
    /\ \A n \in 0..Len(s) - 1 : Read(u, SubSeq(s, 1, n))[field] = Unset(field)
    /\ \A n \in 0..Len(s) : ~Read(u, SubSeq(s, 1, n)).flushing
    /\ Read(u, s)[field] = val

\* Read in whatever pieces, s does not end the loop that waits for the last page.
Stuck(u, s) ==
    \A n \in 0..Len(s) :
        Read(u, SubSeq(s, 1, n)).end = -1 /\ ~Read(u, SubSeq(s, 1, n)).flushing

Fresh(u) == u.parser = NewParser /\ ~u.ignore

\* The characters that tell an idle printer, or a number of pages.
Telling == DOMAIN PageNo \cup {c \in DOMAIN StatusOf : StatusOf[c] = "IDLE"}

Mute(q) == \A i \in 1..Len(q) : q[i] \notin Telling

\* SIGINT is not caught yet, or not any more, and none has come.
Undisturbed == ~sig.intr /\ sig.sigint # "caught"

NoStart == v.start = -1 /\ v.end = -1 /\ Undisturbed

AtStatus ==
    /\ pc \in {"status", "status.write"} =>
          /\ toPrinter = <<>>
          /\ printer.state = "idle" => Incoming = <<>>
          /\ v.status = "INVALID"
    /\ pc = "status.read" /\ printer.state = "idle" =>
          \/ toPrinter = <<"^T">> /\ Incoming = <<>> /\ Fresh(v) /\ v.status = "INVALID"
          \/ toPrinter = <<>> /\ Ends(v, Incoming, "status", "IDLE")
    /\ pc \in {"status", "status.write", "status.read"} /\ printer.state # "idle" =>
          Mute(Incoming) /\ Mute(v.parser.msgbuf) /\ v.status # "IDLE" /\ NoStart
    /\ pc \in {"status", "status.write", "status.read"} =>
          printer.pages = 0 /\ Undisturbed /\ toPrinter \in {<<>>, <<"^T">>}

\* The one end of file that was sent is on its way, or its answer is.
OneEof ==
    \/ toPrinter = <<EOF>> /\ Incoming = <<>> /\ printer.state = "waiting"
    \/ toPrinter = <<>> /\ Incoming = <<EOF>> /\ printer.state = "idle"

AtPageStart ==
    pc \in {"page", "page.write", "page.read", "page.eof", "page.upto"} /\ which = "start" =>
    /\ printer.pages = 0 /\ Undisturbed
    /\ pc \in {"page", "page.write"} =>
          toPrinter = <<>> /\ Incoming = <<>> /\ printer.state = "idle"
    /\ pc = "page.read" =>
          \/ /\ printer.state = "idle" /\ toPrinter = <<"query">> /\ Incoming = <<>>
             /\ Fresh(v) /\ v.start = -1
          \/ /\ printer.state = "waiting" /\ toPrinter = <<>>
             /\ Ends(v, Incoming, "start", 0)
    /\ pc = "page.eof" =>
          printer.state = "waiting" /\ toPrinter = <<>> /\ Incoming = <<>> /\ v.start = 0
    /\ pc = "page.upto" => v.start = 0 /\ OneEof

AtSend ==
    /\ pc \in Sending \cup
                {"send.upto", "intr", "intr.clear", "intr.write", "intr.eof", "intr.upto"} =>
          v.start = 0
    /\ pc = "send.upto" =>
          /\ toPrinter # <<>> => toPrinter[Len(toPrinter)] = EOF
          /\ toPrinter = <<>> =>
                Incoming # <<>> /\ Incoming[Len(Incoming)] = EOF /\ printer.state = "idle"

\* An answer that was not wanted any more.
Stale == Incoming = <<EOF>> /\ printer.state = "idle"

AtFlush ==
    /\ pc \in {"flush", "flush.eof", "flush.upto"} => v.start = 0 \/ NoStart
    /\ pc \in {"intr.write", "flush.eof", "intr.eof"} =>
          /\ NoEof(Incoming) \/ Stale
          /\ toPrinter \in {<<>>, <<"^C">>}
    /\ pc \in {"intr.upto", "flush.upto"} =>
          \/ toPrinter \in {<<"^C", EOF>>, <<EOF>>} /\ (NoEof(Incoming) \/ Stale)
          \/ /\ toPrinter = <<>> /\ printer.state = "idle"
             /\ \/ Incoming # <<>> /\ Incoming[Len(Incoming)] = EOF /\ OnlyLast(Incoming)
                \/ Incoming = <<EOF, EOF>>

AtPageEnd ==
    pc \in {"page", "page.write", "page.read", "page.eof", "page.upto"} /\ which = "end" =>
    /\ pc = "page" =>
          /\ printer.state = "idle" /\ (v.start = 0 \/ NoStart)
          /\ \/ toPrinter = <<>> /\ Incoming \in {<<>>, <<EOF>>}
             \/ toPrinter \in {<<"^C", EOF>>, <<EOF>>} /\ Incoming = <<>>
    /\ pc = "page.write" =>
          /\ printer.state = "idle" /\ (v.start = 0 \/ NoStart)
          /\ Incoming \in {<<>>, <<EOF>>}
    /\ pc = "page.read" =>
          \/ /\ printer.state = "idle" /\ toPrinter = <<"query">> /\ Incoming \in {<<>>, <<EOF>>}
             /\ Fresh(v) /\ v.end = -1 /\ (v.start = 0 \/ NoStart)
          \/ /\ printer.state = "waiting" /\ toPrinter = <<>>
             /\ v.start = 0 /\ Ends(v, Incoming, "end", printer.pages)
          \/ toPrinter = <<>> /\ Undisturbed /\ Stuck(v, Incoming)
    /\ pc \in {"page.eof", "page.upto"} => v.start = 0 /\ v.end = printer.pages
    /\ pc = "page.eof" => printer.state = "waiting" /\ toPrinter = <<>> /\ Incoming = <<>>
    /\ pc = "page.upto" => OneEof

AtEnd ==
    /\ pc = "acct" => v.start = 0 /\ v.end = printer.pages
    /\ exit = EXIT_SUCCESS => pc = "exited" /\ charged = printer.pages
    /\ pc = "acct" \/ exit = EXIT_SUCCESS =>
          toPrinter = <<>> /\ Incoming = <<>> /\ printer.state = "idle"

Answers ==
    /\ ~NoEof(printer.sending) => printer.sending = <<EOF>> /\ printer.state = "idle"
    /\ AtStatus /\ AtPageStart /\ AtSend /\ AtFlush /\ AtPageEnd /\ AtEnd

JobInv == Order /\ (~printer.forged => Job)
AnswerInv == Alive => Answers

\* What every character keeps, every sequence of them keeps.
LEMMA ReadStays ==
  ASSUME NEW U, NEW X, \A u \in U : \A c \in X : proc_input_char(u, c) \in U,
         NEW u \in U, NEW s \in Seq(X)
  PROVE  Read(u, s) \in U
<1> DEFINE T == {n \in Nat : \A t \in Seq(X) : Len(t) = n => Read(u, t) \in U}
<1>1. 0 \in T
  <2>1. \A t \in Seq(X) : Len(t) = 0 => t = <<>>
    BY EmptySeq
  <2> QED
    BY <2>1, ReadNone
<1>2. ASSUME NEW n \in Nat, n \in T PROVE n + 1 \in T
  <2> SUFFICES ASSUME NEW t \in Seq(X), Len(t) = n + 1
               PROVE  Read(u, t) \in U
    OBVIOUS
  <2>1. t # <<>>
    BY EmptySeq
  <2>2. PICK r \in Seq(X), c \in X : t = Append(r, c)
    BY <2>1, SequenceEmptyOrAppend
  <2>3. Len(r) = n
    BY <2>2, AppendProperties, LenProperties
  <2>4. Read(u, r) \in U
    BY <1>2, <2>3
  <2> QED
    BY <2>2, <2>4, ReadLast
<1> HIDE DEF T
<1>3. Len(s) \in T
  BY <1>1, <1>2, Induction, LenProperties
<1> QED
  BY <1>3 DEF T

\* Appending to the second of two sequences appends to both.
LEMMA ConcatAppend ==
  ASSUME NEW X, NEW x \in Seq(X), NEW y \in Seq(X), NEW c \in X
  PROVE  x \o y \in Seq(X) /\ x \o Append(y, c) = Append(x \o y, c)
<1>1. <<c>> \in Seq(X) /\ x \o y \in Seq(X)
  BY ConcatProperties
<1>2. PICK d \in Seq(X) : d = <<c>>
  BY <1>1, Zenon
<1>3. PICK z \in Seq(X) : z = x \o y
  BY <1>1, Zenon
<1>4. Append(y, c) = y \o d /\ Append(z, c) = z \o d
  BY <1>2, AppendIsConcat
<1>5. (x \o y) \o d = x \o (y \o d)
  BY ConcatAssociative
<1> QED
  BY <1>1, <1>3, <1>4, <1>5

\* It does not matter in which pieces the characters are read.
LEMMA ReadTwo ==
  ASSUME NEW u, NEW X, NEW s \in Seq(X), NEW t \in Seq(X)
  PROVE  Read(u, s \o t) = Read(Read(u, s), t)
<1> DEFINE T == {n \in Nat : \A r \in Seq(X) : Len(r) = n => Read(u, s \o r) = Read(Read(u, s), r)}
<1>1. 0 \in T
  <2>1. \A r \in Seq(X) : Len(r) = 0 => r = <<>>
    BY EmptySeq
  <2>2. s \o <<>> = s
    BY ConcatEmptySeq
  <2> QED
    BY <2>1, <2>2, ReadNone
<1>2. ASSUME NEW n \in Nat, n \in T PROVE n + 1 \in T
  <2> SUFFICES ASSUME NEW r \in Seq(X), Len(r) = n + 1
               PROVE  Read(u, s \o r) = Read(Read(u, s), r)
    OBVIOUS
  <2>1. r # <<>>
    BY EmptySeq
  <2>2. PICK q \in Seq(X), c \in X : r = Append(q, c)
    BY <2>1, SequenceEmptyOrAppend
  <2>3. Len(q) = n
    BY <2>2, AppendProperties, LenProperties
  <2>4. Read(u, s \o q) = Read(Read(u, s), q)
    BY <1>2, <2>3
  <2>5. s \o r = Append(s \o q, c) /\ s \o q \in Seq(X)
    BY <2>2, ConcatAppend
  <2>8. \A w : \A x \in Seq(X) : Read(w, Append(x, c)) = proc_input_char(Read(w, x), c)
    BY ReadLast
  <2>6. Read(u, Append(s \o q, c)) = proc_input_char(Read(u, s \o q), c)
    BY <2>5, <2>8
  <2>7. Read(Read(u, s), Append(q, c)) = proc_input_char(Read(Read(u, s), q), c)
    BY <2>8
  <2> QED
    BY <2>2, <2>4, <2>5, <2>6, <2>7
<1> HIDE DEF T
<1>3. Len(t) \in T
  BY <1>1, <1>2, Induction, LenProperties
<1> QED
  BY <1>3 DEF T

\* One character.
LEMMA ReadOne ==
  ASSUME NEW u, NEW c
  PROVE  Read(u, <<c>>) = proc_input_char(u, c)
<1>1. <<>> \in Seq({c}) /\ Append(<<>>, c) = <<c>> /\ c \in {c}
  OBVIOUS
<1>2. Read(u, Append(<<>>, c)) = proc_input_char(Read(u, <<>>), c)
  BY <1>1, ReadLast
<1> QED
  BY <1>1, <1>2, ReadNone
----------------------------------------------------------------------------
\* What the parser takes changes its history and nothing else of the variables,
\* and the history is what it has not decided about.
LEMMA ParsedIs ==
  ASSUME NEW u \in Vars, NEW c \in Chars
  PROVE  /\ Parsed(u, c) \in Vars
         /\ \E a \in Parsers, r \in Seq(Chars) :
               /\ a = [parse(u.parser, c) EXCEPT !.taken = <<>>]
               /\ Parsed(u, c) = [u EXCEPT !.parser = a, !.received = r]
<1> DEFINE b == parse(u.parser, c)
           a == [b EXCEPT !.taken = <<>>]
           r == Append(u.received, c)
           rest == IF IsPrefix(b.taken, r) THEN SubSeq(r, Len(b.taken) + 1, Len(r)) ELSE r
           kept == IF HasRoom(u.parser) THEN rest ELSE Undecided(b)
           h == IF u.in_job THEN kept ELSE <<>>
<1>1. b \in Parsers
  BY ParseType DEF Vars, Parsers
<1>2. a \in Parsers
  <2>1. b \in Parser /\ Len(b.msgbuf) < MBSIZE /\ <<>> \in Seq(Chars)
    BY <1>1 DEF Parsers, Fits
  <2> HIDE DEF b
  <2>2. a \in Parser /\ a.msgbuf = b.msgbuf
    BY <2>1 DEF Parser
  <2> QED
    BY <2>1, <2>2 DEF Parsers, Fits
<1>3. r \in Seq(Chars) /\ Undecided(b) \in Seq(Chars) /\ b.taken \in Seq(Chars)
      /\ <<>> \in Seq(Chars)
  BY <1>1, UndecidedType DEF Vars, Parsers
<1>4. SubSeq(r, Len(b.taken) + 1, Len(r)) \in Seq(Chars)
  <2>1. Len(b.taken) + 1 \in Int /\ Len(r) \in Int /\ Len(b.taken) \in Nat
    BY <1>3, LenProperties
  <2> HIDE DEF b, r
  <2>2. \A i \in Len(b.taken) + 1 .. Len(r) : r[i] \in Chars
    BY <1>3, <2>1, ElementOfSeq
  <2> QED
    BY <2>1, <2>2, SubSeqProperties
<1>5. Parsed(u, c) = [u EXCEPT !.parser = a, !.received = h]
  BY DEF Parsed
<1>6. h \in Seq(Chars)
  BY <1>3, <1>4
<1> HIDE DEF a, b, h
<1>7. Parsed(u, c) \in Vars
  BY <1>2, <1>5, <1>6 DEF Vars
<1> QED
  BY <1>2, <1>5, <1>6, <1>7 DEF a, b

\* What a message changes.
LEMMA MsgIs ==
  ASSUME NEW u \in Vars, NEW msg \in Seq(Chars)
  PROVE  /\ proc_msg(u, msg) \in Vars
         /\ LET w == proc_msg(u, msg) IN
               /\ w.parser = u.parser /\ w.received = u.received /\ w.in_job = u.in_job
               /\ w.ignore = u.ignore /\ w.eof = u.eof
               /\ u.start >= 0 => w.start = u.start
               /\ msg # <<"Flushing">> => w.flushing = u.flushing
               /\ (Len(msg) = 1 => msg[1] \notin DOMAIN PageNo) =>
                     w.start = u.start /\ w.end = u.end
               /\ w.status # u.status =>
                     Len(msg) = 1 /\ msg[1] \in DOMAIN StatusOf /\ w.status = StatusOf[msg[1]]
<1>1. \A p \in DOMAIN StatusOf : StatusOf[p] \in Statuses
  BY LprpsAssumption
<1>2. \A p \in DOMAIN PageNo : PageNo[p] \in Int
  BY LprpsAssumption
<1>3. CASE msg = <<"Flushing">>
  BY <1>3, LprpsAssumption DEF proc_msg, Vars
<1>4. CASE msg # <<"Flushing">> /\ Len(msg) = 1 /\ msg[1] \in DOMAIN StatusOf
  BY <1>1, <1>4, LprpsAssumption DEF proc_msg, Vars
<1>5. CASE msg # <<"Flushing">> /\ Len(msg) = 1 /\ msg[1] \notin DOMAIN StatusOf
           /\ msg[1] \in DOMAIN PageNo
  <2>1. PageNo[msg[1]] \in Int
    BY <1>2, <1>5
  <2>2. proc_msg(u, msg) = IF u.start < 0 THEN [u EXCEPT !.start = PageNo[msg[1]]]
                                          ELSE [u EXCEPT !.end = PageNo[msg[1]]]
    BY <1>5 DEF proc_msg
  <2> QED
    BY <1>5, <2>1, <2>2 DEF Vars
<1>6. CASE msg # <<"Flushing">> /\ ~(Len(msg) = 1 /\ msg[1] \in DOMAIN StatusOf \cup DOMAIN PageNo)
  BY <1>6 DEF proc_msg, Vars
<1> QED
  BY <1>3, <1>4, <1>5, <1>6

\* The types of what a character changes.
LEMMA CharType ==
  ASSUME NEW u \in Vars, NEW c \in Bytes
  PROVE  proc_input_char(u, c) \in Vars
<1>1. CASE u.flushing
  BY <1>1 DEF proc_input_char
<1>2. CASE ~u.flushing /\ c = EOF
  BY <1>2 DEF proc_input_char, Vars
<1>3. CASE ~u.flushing /\ c # EOF
  <2>1. c \in Chars /\ Parsed(u, c) \in Vars /\ u.parser.msgbuf \in Seq(Chars)
    BY <1>3, ParsedIs DEF Bytes, Vars, Parsers, Parser
  <2>2. proc_msg(Parsed(u, c), u.parser.msgbuf) \in Vars
    BY <2>1, MsgIs
  <2> QED
    BY <1>3, <2>1, <2>2 DEF proc_input_char
<1> QED
  BY <1>1, <1>2, <1>3

\* What the variables of the input keep.
LEMMA CharKeeps ==
  ASSUME NEW u \in Vars, NEW c \in Bytes
  PROVE  LET w == proc_input_char(u, c) IN
           /\ w.in_job = u.in_job /\ w.ignore = u.ignore
           /\ c # EOF => w.eof = u.eof
           /\ u.start >= 0 => w.start = u.start
<1>1. CASE u.flushing
  BY <1>1 DEF proc_input_char
<1>2. CASE ~u.flushing /\ c = EOF
  BY <1>2 DEF proc_input_char, Vars
<1>3. CASE ~u.flushing /\ c # EOF
  <2>1. c \in Chars /\ Parsed(u, c) \in Vars /\ u.parser.msgbuf \in Seq(Chars)
    BY <1>3, ParsedIs DEF Bytes, Vars, Parsers, Parser
  <2>2. PICK a \in Parsers, r \in Seq(Chars) :
            /\ a = [parse(u.parser, c) EXCEPT !.taken = <<>>]
            /\ Parsed(u, c) = [u EXCEPT !.parser = a, !.received = r]
    BY <2>1, ParsedIs
  <2>3. LET w == Parsed(u, c) IN
          w.in_job = u.in_job /\ w.ignore = u.ignore /\ w.eof = u.eof /\ w.start = u.start
    BY <2>2 DEF Vars
  <2>4. LET w == proc_msg(Parsed(u, c), u.parser.msgbuf) IN
          /\ w.in_job = u.in_job /\ w.ignore = u.ignore /\ w.eof = u.eof
          /\ u.start >= 0 => w.start = u.start
    BY <2>1, <2>3, MsgIs
  <2> QED
    BY <1>3, <2>3, <2>4 DEF proc_input_char
<1> QED
  BY <1>1, <1>2, <1>3

\* The type of what is read, and the number of the first page.
LEMMA ReadType ==
  ASSUME NEW u \in Vars, NEW s \in Seq(Bytes)
  PROVE  Read(u, s) \in Vars
  BY CharType, ReadStays

\* The first page count stays when it has come.
LEMMA ReadStart ==
  ASSUME NEW u \in Vars, NEW s \in Seq(Bytes), u.start >= 0
  PROVE  Read(u, s).start = u.start
<1> DEFINE U == {w \in Vars : w.start = u.start}
<1>1. \A w \in U : \A c \in Bytes : proc_input_char(w, c) \in U
  BY CharType, CharKeeps
<1> HIDE DEF U
<1>2. u \in U
  BY DEF U
<1>3. Read(u, s) \in U
  BY <1>1, <1>2, ReadStays
<1> QED
  BY <1>3 DEF U

\* A sequence without an end of file does not end what waits for one.
LEMMA ReadEof ==
  ASSUME NEW u \in Vars, NEW s \in Seq(Bytes), NoEof(s)
  PROVE  Read(u, s).eof = u.eof
<1> DEFINE U == {w \in Vars : w.eof = u.eof}
<1>1. \A w \in U : \A c \in Chars : proc_input_char(w, c) \in U
  BY CharType, CharKeeps, LprpsAssumption DEF Bytes
<1>2. s \in Seq(Chars)
  BY DEF NoEof, Bytes
<1> HIDE DEF U
<1>3. u \in U
  BY DEF U
<1>4. Read(u, s) \in U
  BY <1>1, <1>2, <1>3, ReadStays
<1> QED
  BY <1>4 DEF U

\* While messages are ignored, an end of file is all that is seen.
LEMMA ReadIgnores ==
  ASSUME NEW u \in Vars, NEW s \in Seq(Bytes), u.ignore, ~u.flushing
  PROVE  Read(u, s) = IF NoEof(s) THEN u ELSE [u EXCEPT !.eof = TRUE]
<1> DEFINE w == [u EXCEPT !.eof = TRUE]
<1>1. w \in Vars /\ w.ignore /\ ~w.flushing
  BY DEF Vars
<1>2. \A c \in Bytes : /\ proc_input_char(w, c) = w
                       /\ proc_input_char(u, c) = IF c = EOF THEN w ELSE u
  BY DEF proc_input_char, Vars
<1> HIDE DEF w
<1>3. \A t \in Seq(Bytes) : Read(w, t) = w
  <2>1. \A x \in {w} : \A c \in Bytes : proc_input_char(x, c) \in {w}
    BY <1>2
  <2>2. \A t \in Seq(Bytes) : Read(w, t) \in {w}
    <3> TAKE t \in Seq(Bytes)
    <3> QED
      BY <2>1, ReadStays
  <2> QED
    BY <2>2
<1>4. CASE NoEof(s)
  <2>1. \A x \in {u} : \A c \in Chars : proc_input_char(x, c) \in {u}
    BY <1>2, LprpsAssumption DEF Bytes
  <2>2. s \in Seq(Chars)
    BY <1>4 DEF NoEof, Bytes
  <2>3. Read(u, s) \in {u}
    BY <2>1, <2>2, ReadStays
  <2>4. Read(u, s) = u
    BY <2>3
  <2> QED
    BY <1>4, <2>4, Zenon
<1>5. CASE ~NoEof(s)
  <2>1. PICK i \in 1..Len(s) : s[i] = EOF
    BY <1>5 DEF NoEof
  <2>2. /\ SubSeq(s, 1, i - 1) \in Seq(Bytes) /\ SubSeq(s, i + 1, Len(s)) \in Seq(Bytes)
        /\ <<EOF>> \in Seq(Bytes) /\ i - 1 \in Nat
    <3>1. \A k \in 1..Len(s) : s[k] \in Bytes
      OBVIOUS
    <3> QED
      BY <3>1, SubSeqProperties DEF Bytes
  <2>3. s = (SubSeq(s, 1, i - 1) \o <<EOF>>) \o SubSeq(s, i + 1, Len(s))
    <3>1. SubSeq(s, 1, i) = SubSeq(s, 1, i - 1) \o <<s[i]>>
      BY SubSeqRecursiveSecond
    <3>2. SubSeq(s, 1, i) \o SubSeq(s, i + 1, Len(s)) = SubSeq(s, 1, Len(s))
      BY ConcatAdjacentSubSeq
    <3> QED
      BY <2>1, <3>1, <3>2, SubSeqFull
  <2>4. PICK p \in Seq(Bytes), q \in Seq(Bytes), e \in Seq(Bytes) :
            e = <<EOF>> /\ s = (p \o e) \o q
    BY <2>2, <2>3
  <2>5. Read(u, p) \in {u, w}
    <3>1. \A x \in {u, w} : \A c \in Bytes : proc_input_char(x, c) \in {u, w}
      BY <1>2
    <3> QED
      BY <3>1, ReadStays
  <2>6. Read(u, p \o e) = w
    <3>1. Read(u, p \o e) = Read(Read(u, p), e)
      BY ReadTwo
    <3>2. Read(Read(u, p), e) = proc_input_char(Read(u, p), EOF)
      BY <2>4, ReadOne
    <3>3. EOF \in Bytes
      BY DEF Bytes
    <3> QED
      BY <1>2, <2>5, <3>1, <3>2, <3>3
  <2>7. Read(u, (p \o e) \o q) = Read(Read(u, p \o e), q)
    <3>1. PICK r \in Seq(Bytes) : r = p \o e
      BY ConcatProperties
    <3>2. Read(u, r \o q) = Read(Read(u, r), q)
      BY ReadTwo
    <3> QED
      BY <3>1, <3>2, Zenon
  <2>8. Read(u, s) = w
    BY <1>3, <2>4, <2>6, <2>7
  <2> QED
    BY <1>5, <2>8 DEF w
<1> QED
  BY <1>4, <1>5
----------------------------------------------------------------------------
\* A message has only characters that the printer sent.
LEMMA ParseMute ==
  ASSUME NEW a \in Parser, Mute(a.msgbuf), NEW c \in Chars, c \notin Telling
  PROVE  Mute(parse(a, c).msgbuf)
<1>1. {"%", "]"} \cap Telling = {} /\ {"%", "]", "["} \subseteq Chars
  BY InputAssumption, LprpsAssumption DEF Telling
<1>2. a.msgbuf \in Seq(Chars) /\ a.taken \in Seq(Chars)
  BY DEF Parser
<1>3. ASSUME NEW chars \in Seq(Chars), Mute(chars)
      PROVE  Mute(msg_chars(a, chars).msgbuf)
  <2> DEFINE buf == a.msgbuf \o chars
             size == IF Len(buf) < MBSIZE THEN Len(buf) ELSE MBSIZE - 1
  <2>1. buf \in Seq(Chars) /\ \A i \in 1..Len(buf) : buf[i] \notin Telling
    BY <1>2, <1>3, ConcatProperties, LenProperties DEF Mute
  <2>2. size \in 0..Len(buf) /\ Len(buf) \in Nat
    BY <2>1, InputAssumption, LenProperties
  <2>3. msg_chars(a, chars).msgbuf = SubSeq(buf, 1, size)
    BY DEF msg_chars, Parser
  <2> HIDE DEF buf, size
  <2>4. Len(SubSeq(buf, 1, size)) = size /\ \A i \in 1..size : SubSeq(buf, 1, size)[i] = buf[i]
    BY <2>1, <2>2, SubSeqProperties
  <2> QED
    BY <2>1, <2>2, <2>3, <2>4 DEF Mute
<1>4. ASSUME NEW chars, NEW state
      PROVE  mailed(a, chars).msgbuf = a.msgbuf /\ to(a, state).msgbuf = a.msgbuf
  BY DEF mailed, to, Parser
<1>5. [to(a, "IN_MESSAGE") EXCEPT !.msgbuf = <<>>].msgbuf = <<>> /\ Mute(<<>>)
  BY DEF to, Parser, Mute
<1>6. /\ <<c>> \in Seq(Chars) /\ Mute(<<c>>)
      /\ <<"]", c>> \in Seq(Chars) /\ Mute(<<"]", c>>)
      /\ <<"]", "%", c>> \in Seq(Chars) /\ Mute(<<"]", "%", c>>)
  BY <1>1 DEF Mute
<1>7. a.state \in ParseStates
  BY DEF Parser
<1> HIDE DEF Mute
<1> QED
  BY <1>3, <1>4, <1>5, <1>6, <1>7 DEF parse, ParseStates

\* Without an answer from an idle printer and without a number of pages nothing is
\* learnt of them.
LEMMA ReadMute ==
  ASSUME NEW u \in Vars, NEW s \in Seq(Bytes), Mute(s), Mute(u.parser.msgbuf),
         u.status # "IDLE"
  PROVE  LET w == Read(u, s) IN
           w.start = u.start /\ w.end = u.end /\ w.status # "IDLE" /\ Mute(w.parser.msgbuf)
<1> DEFINE U == {w \in Vars : w.start = u.start /\ w.end = u.end /\ w.status # "IDLE"
                              /\ Mute(w.parser.msgbuf)}
<1>1. ASSUME NEW w \in U, NEW c \in Bytes \ Telling
      PROVE  proc_input_char(w, c) \in U
  <2>1. CASE w.flushing
    BY <2>1 DEF proc_input_char
  <2>2. CASE ~w.flushing /\ (c = EOF \/ w.ignore)
    BY <2>2 DEF proc_input_char, Vars
  <2>3. CASE ~w.flushing /\ c # EOF /\ ~w.ignore
    <3>1. c \in Chars /\ w.parser.msgbuf \in Seq(Chars) /\ w.parser \in Parser
      BY <2>3 DEF Bytes, Vars, Parsers, Parser
    <3>2. PICK a \in Parsers, r \in Seq(Chars) :
              /\ a = [parse(w.parser, c) EXCEPT !.taken = <<>>]
              /\ Parsed(w, c) = [w EXCEPT !.parser = a, !.received = r]
      BY <3>1, ParsedIs
    <3>3. Mute(a.msgbuf)
      <4>1. parse(w.parser, c) \in Parser
        BY <3>1, ParseType DEF Vars, Parsers
      <4>2. a.msgbuf = parse(w.parser, c).msgbuf
        BY <3>2, <4>1 DEF Parser
      <4> QED
        BY <3>1, <4>2, ParseMute
    <3>4. Parsed(w, c) \in U
      <4>1. Parsed(w, c) \in Vars
        BY <3>1, ParsedIs
      <4> QED
        BY <3>2, <3>3, <4>1 DEF Vars
    <3>5. proc_msg(Parsed(w, c), w.parser.msgbuf) \in U
      <4> DEFINE m == w.parser.msgbuf
                 x == proc_msg(Parsed(w, c), m)
      <4>1. Len(m) = 1 => m[1] \notin Telling
        BY DEF Mute
      <4>2. /\ x \in Vars /\ x.parser = Parsed(w, c).parser
            /\ (Len(m) = 1 => m[1] \notin DOMAIN PageNo) =>
                  x.start = Parsed(w, c).start /\ x.end = Parsed(w, c).end
            /\ x.status # Parsed(w, c).status =>
                  Len(m) = 1 /\ m[1] \in DOMAIN StatusOf /\ x.status = StatusOf[m[1]]
        <5>1. Parsed(w, c) \in Vars
          BY <3>4
        <5> QED
          BY <3>1, <5>1, MsgIs
      <4>3. x.status # "IDLE"
        BY <3>4, <4>1, <4>2 DEF Telling
      <4> HIDE DEF x, m
      <4> QED
        BY <3>4, <4>1, <4>2, <4>3 DEF Telling, x, m
    <3> QED
      BY <2>3, <3>4, <3>5 DEF proc_input_char
  <2> QED
    BY <2>1, <2>2, <2>3
<1>2. s \in Seq(Bytes \ Telling)
  BY DEF Mute
<1> HIDE DEF U
<1>3. u \in U
  BY DEF U
<1>4. Read(u, s) \in U
  BY <1>1, <1>2, <1>3, ReadStays
<1> QED
  BY <1>4 DEF U

\* During a job the history is what the parser has not decided about.
Honest(u) ==
    u.parser.taken = <<>> /\ (u.in_job => Undecided(u.parser) = u.received)

\* What is left of a sequence when its beginning is taken away.
LEMMA PrefixIs ==
  ASSUME NEW s \in Seq(Chars), NEW t \in Seq(Chars), NEW r, r = s \o t
  PROVE  IsPrefix(s, r) /\ SubSeq(r, Len(s) + 1, Len(r)) = t
<1>1. /\ r \in Seq(Chars) /\ Len(r) = Len(s) + Len(t) /\ Len(s) \in Nat /\ Len(t) \in Nat
      /\ \A i \in 1..Len(s) : r[i] = s[i]
      /\ \A i \in 1..Len(t) : r[Len(s) + i] = t[i]
  BY ConcatProperties, LenProperties
<1>2. SubSeq(r, 1, Len(s)) = s
  <2>1. /\ SubSeq(r, 1, Len(s)) \in Seq(Chars) /\ Len(SubSeq(r, 1, Len(s))) = Len(s)
        /\ \A i \in 1..Len(s) : SubSeq(r, 1, Len(s))[i] = r[i]
    BY <1>1, SubSeqProperties, ElementOfSeq
  <2> QED
    BY <1>1, <2>1, SeqEqual
<1>3. SubSeq(r, Len(s) + 1, Len(r)) = t
  <2> DEFINE q == SubSeq(r, Len(s) + 1, Len(r))
  <2>1. \A i \in Len(s) + 1 .. Len(r) : r[i] \in Chars
    BY <1>1, ElementOfSeq
  <2>2. q \in Seq(Chars) /\ Len(q) = Len(t) /\ \A i \in 1..Len(t) : q[i] = r[Len(s) + i]
    BY <1>1, <2>1, SubSeqProperties
  <2> HIDE DEF q
  <2>3. q = t
    BY <1>1, <2>2, SeqEqual
  <2> QED
    BY <2>3 DEF q
<1> QED
  BY <1>1, <1>2, <1>3 DEF IsPrefix

\* The history follows every character.
LEMMA CharHonest ==
  ASSUME NEW u \in Vars, Honest(u), NEW c \in Bytes
  PROVE  Honest(proc_input_char(u, c))
<1>1. CASE u.flushing
  BY <1>1 DEF proc_input_char
<1>2. CASE ~u.flushing /\ (c = EOF \/ u.ignore)
  BY <1>2 DEF proc_input_char, Vars, Honest
<1>3. CASE ~u.flushing /\ c # EOF /\ ~u.ignore
  <2>1. c \in Chars /\ u.parser \in Parsers /\ u.parser \in Parser /\ u.received \in Seq(Chars)
        /\ u.parser.msgbuf \in Seq(Chars)
    BY <1>3 DEF Bytes, Vars, Parsers, Parser
  <2>2. PICK b \in Parser : b = parse(u.parser, c)
    BY <2>1, ParseType DEF Parsers
  <2> DEFINE a == [b EXCEPT !.taken = <<>>]
             r == Append(u.received, c)
  <2>3. a.taken = <<>> /\ Undecided(a) = Undecided(b)
    BY DEF Parser, Undecided
  <2>4. Undecided(b) \in Seq(Chars) /\ b.taken \in Seq(Chars)
    BY UndecidedType
  <2>5. ASSUME u.in_job, HasRoom(u.parser)
        PROVE  IsPrefix(b.taken, r) /\ SubSeq(r, Len(b.taken) + 1, Len(r)) = Undecided(b)
    <3>1. Received(b) = Append(Received(u.parser), c)
      BY <2>1, <2>2, <2>5, Lossless
    <3>2. Received(u.parser) = u.received
      BY <2>1, <2>5 DEF Received, Honest
    <3>3. r = b.taken \o Undecided(b)
      BY <3>1, <3>2 DEF Received
    <3> HIDE DEF r
    <3> QED
      BY <2>4, <3>3, PrefixIs
  <2>6. Parsed(u, c).parser = a /\ Parsed(u, c).in_job = u.in_job
    BY <2>2 DEF Parsed, Vars
  <2>7. u.in_job => Parsed(u, c).received = Undecided(b)
    <3>1. u.in_job => Parsed(u, c).received =
              IF HasRoom(u.parser)
              THEN IF IsPrefix(b.taken, r) THEN SubSeq(r, Len(b.taken) + 1, Len(r)) ELSE r
              ELSE Undecided(b)
      BY <2>2, <2>3 DEF Parsed, Vars
    <3> HIDE DEF r
    <3> QED
      BY <2>5, <3>1
  <2>8. Honest(Parsed(u, c))
    BY <2>3, <2>6, <2>7 DEF Honest
  <2>9. Honest(proc_msg(Parsed(u, c), u.parser.msgbuf))
    <3>1. Parsed(u, c) \in Vars
      BY <2>1, ParsedIs
    <3>2. LET w == proc_msg(Parsed(u, c), u.parser.msgbuf) IN
            /\ w.parser = Parsed(u, c).parser /\ w.received = Parsed(u, c).received
            /\ w.in_job = Parsed(u, c).in_job
      BY <2>1, <3>1, MsgIs
    <3> QED
      BY <2>8, <3>2 DEF Honest
  <2> QED
    BY <1>3, <2>8, <2>9 DEF proc_input_char
<1> QED
  BY <1>1, <1>2, <1>3

\* ... and so every sequence of them.
LEMMA ReadHonest ==
  ASSUME NEW u \in Vars, Honest(u), NEW s \in Seq(Bytes)
  PROVE  Honest(Read(u, s))
<1> DEFINE U == {w \in Vars : Honest(w)}
<1>1. \A w \in U : \A c \in Bytes : proc_input_char(w, c) \in U
  BY CharType, CharHonest
<1> HIDE DEF U
<1>2. u \in U
  BY DEF U
<1>3. Read(u, s) \in U
  BY <1>1, <1>2, ReadStays
<1> QED
  BY <1>3 DEF U

\* The beginnings of two sequences in a row.
LEMMA Beginnings ==
  ASSUME NEW X, NEW s \in Seq(X), NEW t \in Seq(X)
  PROVE  /\ \A n \in 0..Len(s) : SubSeq(s, 1, n) \in Seq(X) /\ Len(SubSeq(s, 1, n)) = n
         /\ \A n \in 0..Len(s) : SubSeq(s \o t, 1, n) = SubSeq(s, 1, n)
         /\ \A n \in 0..Len(t) : SubSeq(s \o t, 1, Len(s) + n) = s \o SubSeq(t, 1, n)
<1>1. /\ s \o t \in Seq(X) /\ Len(s \o t) = Len(s) + Len(t) /\ Len(s) \in Nat /\ Len(t) \in Nat
      /\ \A i \in 1..Len(s) + Len(t) : (s \o t)[i] = IF i <= Len(s) THEN s[i] ELSE t[i - Len(s)]
  BY ConcatProperties, LenProperties
<1>2. \A r \in Seq(X) : \A n \in 0..Len(r) :
          /\ SubSeq(r, 1, n) \in Seq(X) /\ Len(SubSeq(r, 1, n)) = n
          /\ \A i \in 1..n : SubSeq(r, 1, n)[i] = r[i]
  <2> TAKE r \in Seq(X)
  <2> TAKE n \in 0..Len(r)
  <2>1. n \in Int /\ n <= Len(r) /\ \A i \in 1..n : r[i] \in X
    BY ElementOfSeq, LenProperties
  <2> QED
    BY <2>1, SubSeqProperties
<1>3. ASSUME NEW n \in 0..Len(s)
      PROVE  SubSeq(s \o t, 1, n) = SubSeq(s, 1, n)
  <2> DEFINE a == SubSeq(s \o t, 1, n)
             b == SubSeq(s, 1, n)
  <2>1. n \in 0..Len(s \o t)
    BY <1>1
  <2>2. /\ a \in Seq(X) /\ b \in Seq(X) /\ Len(a) = n /\ Len(b) = n
        /\ \A i \in 1..n : a[i] = (s \o t)[i] /\ b[i] = s[i]
    BY <1>1, <1>2, <2>1
  <2>3. \A i \in 1..n : a[i] = b[i]
    BY <1>1, <2>2
  <2> HIDE DEF a, b
  <2>4. a = b
    BY <2>2, <2>3, SeqEqual
  <2> QED
    BY <2>4 DEF a, b
<1>4. ASSUME NEW n \in 0..Len(t)
      PROVE  SubSeq(s \o t, 1, Len(s) + n) = s \o SubSeq(t, 1, n)
  <2> DEFINE c == SubSeq(t, 1, n)
             a == SubSeq(s \o t, 1, Len(s) + n)
             b == s \o c
  <2>1. Len(s) + n \in 0..Len(s \o t)
    BY <1>1
  <2>2. c \in Seq(X) /\ Len(c) = n /\ \A i \in 1..n : c[i] = t[i]
    BY <1>2
  <2>3. a \in Seq(X) /\ Len(a) = Len(s) + n /\ \A i \in 1..Len(s) + n : a[i] = (s \o t)[i]
    BY <1>1, <1>2, <2>1
  <2> HIDE DEF a, c
  <2>4. /\ b \in Seq(X) /\ Len(b) = Len(s) + n
        /\ \A i \in 1..Len(s) + n : b[i] = IF i <= Len(s) THEN s[i] ELSE c[i - Len(s)]
    BY <2>2, ConcatProperties
  <2> HIDE DEF b
  <2>5. \A i \in 1..Len(s) + n : a[i] = b[i]
    <3> TAKE i \in 1..Len(s) + n
    <3>1. CASE i <= Len(s)
      BY <1>1, <2>3, <2>4, <3>1
    <3>2. CASE i > Len(s)
      <4>1. i - Len(s) \in 1..n /\ i \in 1..Len(s) + Len(t) /\ ~(i <= Len(s))
        BY <1>1, <3>2
      <4>2. a[i] = t[i - Len(s)] /\ b[i] = c[i - Len(s)]
        BY <1>1, <2>3, <2>4, <4>1
      <4> QED
        BY <2>2, <4>1, <4>2
    <3> QED
      BY <1>1, <3>1, <3>2
  <2>6. a = b
    BY <2>3, <2>4, <2>5, SeqEqual
  <2> QED
    BY <2>6 DEF a, b, c
<1> QED
  BY <1>2, <1>3, <1>4

\* Reading on by one character.
LEMMA ReadNext ==
  ASSUME NEW u, NEW s \in Seq(Bytes), NEW n \in 0..Len(s) - 1
  PROVE  Read(u, SubSeq(s, 1, n + 1)) = proc_input_char(Read(u, SubSeq(s, 1, n)), s[n + 1])
<1>1. n + 1 \in 1..Len(s) /\ n \in Int /\ \A i \in 1..n : s[i] \in Bytes
  BY ElementOfSeq, LenProperties
<1>2. s[n + 1] \in Bytes /\ SubSeq(s, 1, n) \in Seq(Bytes)
  BY <1>1, SubSeqProperties, ElementOfSeq
<1>3. SubSeq(s, 1, n + 1) = SubSeq(s, 1, (n + 1) - 1) \o <<s[n + 1]>>
  <2>1. 1 \in 1..Len(s) /\ n + 1 \in 1..Len(s)
    BY <1>1
  <2> QED
    BY <2>1, SubSeqRecursiveSecond
<1>4. (n + 1) - 1 = n
  BY <1>1
<1>5. PICK p \in Seq(Bytes), c \in Bytes : p = SubSeq(s, 1, n) /\ c = s[n + 1]
  BY <1>2
<1>6. SubSeq(s, 1, n + 1) = Append(p, c)
  BY <1>3, <1>4, <1>5, AppendIsConcat
<1>7. Read(u, Append(p, c)) = proc_input_char(Read(u, p), c)
  BY ReadLast
<1> QED
  BY <1>5, <1>6, <1>7, Zenon

\* Reading two pieces, and the beginnings of both.
Pieces(u, s, t) ==
    /\ \A n \in 0..Len(s) : Read(u, SubSeq(s \o t, 1, n)) = Read(u, SubSeq(s, 1, n))
    /\ \A n \in 0..Len(t) :
          Read(u, SubSeq(s \o t, 1, Len(s) + n)) = Read(Read(u, s), SubSeq(t, 1, n))
    /\ Read(u, s \o t) = Read(Read(u, s), t)
    /\ Read(u, SubSeq(s, 1, Len(s))) = Read(u, s)

\* What two pieces do when they are read one after the other is what they do
\* when they are read at once.
LEMMA ReadPieces ==
  ASSUME NEW u, NEW s \in Seq(Bytes), NEW t \in Seq(Bytes)
  PROVE  Pieces(u, s, t)
<1>1. \A n \in 0..Len(t) : Read(u, s \o SubSeq(t, 1, n)) = Read(Read(u, s), SubSeq(t, 1, n))
  <2> TAKE n \in 0..Len(t)
  <2>1. PICK r \in Seq(Bytes) : r = SubSeq(t, 1, n)
    BY Beginnings
  <2>2. Read(u, s \o r) = Read(Read(u, s), r)
    BY ReadTwo
  <2> QED
    BY <2>1, <2>2, Zenon
<1>2. \A n \in 0..Len(s) : SubSeq(s \o t, 1, n) = SubSeq(s, 1, n)
  BY Beginnings
<1>3. \A n \in 0..Len(t) : SubSeq(s \o t, 1, Len(s) + n) = s \o SubSeq(t, 1, n)
  BY Beginnings
<1>4. Read(u, s \o t) = Read(Read(u, s), t) /\ SubSeq(s, 1, Len(s)) = s
  BY ReadTwo, SubSeqFull
<1>5. \A n \in 0..Len(s) : Read(u, SubSeq(s \o t, 1, n)) = Read(u, SubSeq(s, 1, n))
  BY <1>2
<1>6. \A n \in 0..Len(t) :
          Read(u, SubSeq(s \o t, 1, Len(s) + n)) = Read(Read(u, s), SubSeq(t, 1, n))
  BY <1>1, <1>3
<1> QED
  BY <1>4, <1>5, <1>6 DEF Pieces
----------------------------------------------------------------------------
\* The same but for parser, history and end of file.
Like(w, u) ==
    /\ w.in_job = u.in_job /\ w.ignore = u.ignore /\ w.flushing = u.flushing
    /\ w.status = u.status /\ w.start = u.start /\ w.end = u.end

\* A character that does not end a message.
LEMMA CharLike ==
  ASSUME NEW u \in Vars, ~u.flushing, ~u.ignore, NEW c \in Chars, ~EndsMessage(u.parser, c)
  PROVE  LET w == proc_input_char(u, c) IN
           w \in Vars /\ Like(w, u) /\ w.parser = [parse(u.parser, c) EXCEPT !.taken = <<>>]
<1>1. c # EOF
  BY LprpsAssumption
<1>2. proc_input_char(u, c) = Parsed(u, c)
  BY <1>1 DEF proc_input_char
<1>3. PICK a \in Parsers, r \in Seq(Chars) :
          /\ a = [parse(u.parser, c) EXCEPT !.taken = <<>>]
          /\ Parsed(u, c) = [u EXCEPT !.parser = a, !.received = r]
  BY ParsedIs
<1>4. Parsed(u, c) \in Vars
  BY ParsedIs
<1> QED
  BY <1>2, <1>3, <1>4 DEF Like, Vars

\* The parser goes on to another state.
LEMMA ToIs ==
  ASSUME NEW a \in Parser, NEW state \in ParseStates
  PROVE  LET b == to(a, state) IN b \in Parser /\ b.state = state /\ b.msgbuf = a.msgbuf
  BY DEF to, Parser

\* A parser whose message is started afresh.
LEMMA EmptyMsg ==
  ASSUME NEW a \in Parser
  PROVE  LET b == [a EXCEPT !.msgbuf = <<>>] IN
           b \in Parser /\ b.state = a.state /\ b.msgbuf = <<>>
<1>1. <<>> \in Seq(Chars)
  OBVIOUS
<1> QED
  BY <1>1 DEF Parser

\* The message with a pair, character by character: nothing happens before its
\* last one.
LEMMA MsgRead ==
  ASSUME NEW u \in Vars, ~u.flushing, Fresh(u), NEW pair \in Chars, pair # "]"
  PROVE  LET m == Msg(pair) IN
           /\ m \in Seq(Chars) /\ Len(m) = 7
           /\ \A n \in 0..6 : Read(u, SubSeq(m, 1, n)) \in Vars /\ Like(Read(u, SubSeq(m, 1, n)), u)
           /\ \E x \in Vars : Like(x, u) /\ Read(u, m) = proc_msg(x, <<pair>>)
<1> DEFINE m == Msg(pair)
           w(n) == Read(u, SubSeq(m, 1, n))
           Now(x, state, buf) ==
               /\ x \in Vars /\ Like(x, u) /\ ~x.flushing /\ ~x.ignore
               /\ x.parser \in Parser /\ x.parser.state = state /\ x.parser.msgbuf = buf
<1>1. /\ m \in Seq(Chars) /\ m \in Seq(Bytes) /\ Len(m) = 7
      /\ m[1] = "%" /\ m[2] = "%" /\ m[3] = "[" /\ m[4] = pair /\ m[5] = "]" /\ m[6] = "%"
         /\ m[7] = "%"
  BY InputAssumption DEF Msg, MsgStart, MsgEnd, Bytes
<1> HIDE DEF m
<1>2. \A n \in 0..6 : w(n + 1) = proc_input_char(w(n), m[n + 1])
  <2> TAKE n \in 0..6
  <2>1. n \in 0..Len(m) - 1
    BY <1>1
  <2> QED
    BY <1>1, <2>1, ReadNext, Zenon
<1>3. w(0) = u
  <2>1. SubSeq(m, 1, 0) = <<>>
    BY SubSeqEmpty
  <2> QED
    BY <2>1, ReadNone
<1>4. {"%", "[", "]"} \subseteq Chars /\ MBSIZE \in Nat /\ MBSIZE > 1
  BY InputAssumption, LprpsAssumption
<1> HIDE DEF w
<1>5. ASSUME NEW n \in 0..6, NEW state, NEW buf, Now(w(n), state, buf), m[n + 1] \in Chars,
             state # "HAD_RIGHT_BRACKET_AND_PERCENT",
             NEW b \in Parser, b = parse(w(n).parser, m[n + 1])
      PROVE  Now(w(n + 1), b.state, b.msgbuf)
  <2>1. LET y == proc_input_char(w(n), m[n + 1]) IN
           y \in Vars /\ Like(y, w(n)) /\ y.parser = [b EXCEPT !.taken = <<>>]
    BY <1>5, CharLike DEF EndsMessage
  <2>2. w(n + 1).parser \in Parser
    BY <1>2, <1>5, <2>1 DEF Vars, Parsers
  <2> QED
    BY <1>2, <1>5, <2>1, <2>2 DEF Like, Parser
<1>6. Now(w(0), "NORMAL", <<>>)
  BY <1>3 DEF Fresh, NewParser, Like, Vars, Parsers
<1>7. Now(w(1), "HAD_ONE_PERCENT", <<>>)
  <2> DEFINE b == parse(w(0).parser, m[0 + 1])
  <2>1. b \in Parser /\ b.state = "HAD_ONE_PERCENT" /\ b.msgbuf = <<>>
    <3>1. PICK a \in Parser : a = w(0).parser /\ a.state = "NORMAL" /\ a.msgbuf = <<>>
      BY <1>6
    <3>2. b = to(a, "HAD_ONE_PERCENT")
      BY <1>1, <3>1 DEF parse
    <3> HIDE DEF b
    <3> QED
      BY <3>1, <3>2, ToIs DEF ParseStates
  <2> HIDE DEF b
  <2>2. Now(w(0 + 1), b.state, b.msgbuf)
    BY <1>1, <1>4, <1>5, <1>6, <2>1 DEF b
  <2> QED
    BY <2>1, <2>2
<1>8. Now(w(2), "HAD_TWO_PERCENT", <<>>)
  <2> DEFINE b == parse(w(1).parser, m[1 + 1])
  <2>1. b \in Parser /\ b.state = "HAD_TWO_PERCENT" /\ b.msgbuf = <<>>
    <3>1. PICK a \in Parser : a = w(1).parser /\ a.state = "HAD_ONE_PERCENT" /\ a.msgbuf = <<>>
      BY <1>7
    <3>2. b = to(a, "HAD_TWO_PERCENT")
      BY <1>1, <3>1 DEF parse
    <3> HIDE DEF b
    <3> QED
      BY <3>1, <3>2, ToIs DEF ParseStates
  <2> HIDE DEF b
  <2>2. Now(w(1 + 1), b.state, b.msgbuf)
    BY <1>1, <1>4, <1>5, <1>7, <2>1 DEF b
  <2> QED
    BY <2>1, <2>2
<1>9. Now(w(3), "IN_MESSAGE", <<>>)
  <2> DEFINE b == parse(w(2).parser, m[2 + 1])
  <2>1. b \in Parser /\ b.state = "IN_MESSAGE" /\ b.msgbuf = <<>>
    <3>1. PICK a \in Parser : a = w(2).parser /\ a.state = "HAD_TWO_PERCENT" /\ a.msgbuf = <<>>
      BY <1>8
    <3>2. b = [to(a, "IN_MESSAGE") EXCEPT !.msgbuf = <<>>]
      BY <1>1, <3>1 DEF parse
    <3>3. PICK x \in Parser : x = to(a, "IN_MESSAGE") /\ x.state = "IN_MESSAGE"
      BY ToIs DEF ParseStates
    <3> HIDE DEF b
    <3> QED
      BY <3>2, <3>3, EmptyMsg
  <2> HIDE DEF b
  <2>2. Now(w(2 + 1), b.state, b.msgbuf)
    BY <1>1, <1>4, <1>5, <1>8, <2>1 DEF b
  <2> QED
    BY <2>1, <2>2
<1>10. Now(w(4), "IN_MESSAGE", <<pair>>)
  <2> DEFINE a == w(3).parser
             b == parse(a, m[3 + 1])
  <2>1. b = msg_chars(a, <<pair>>) /\ a \in Parser /\ a.msgbuf = <<>>
    BY <1>1, <1>9 DEF parse
  <2>2. Len(a.msgbuf) + Len(<<pair>>) < MBSIZE /\ <<pair>> \in Seq(Chars)
    BY <1>4, <2>1
  <2> HIDE DEF a, b
  <2>3. b \in Parser /\ b = [a EXCEPT !.state = "IN_MESSAGE", !.msgbuf = @ \o <<pair>>]
    BY <2>1, <2>2, MsgChars
  <2>4. b.state = "IN_MESSAGE" /\ b.msgbuf = <<pair>>
    <3>1. <<>> \o <<pair>> = <<pair>>
      BY <2>2, ConcatEmptySeq
    <3> QED
      BY <2>1, <2>3, <3>1 DEF Parser
  <2>5. Now(w(3 + 1), b.state, b.msgbuf)
    BY <1>1, <1>5, <1>9, <2>3 DEF a, b
  <2> QED
    BY <2>4, <2>5
<1>11. Now(w(5), "HAD_RIGHT_BRACKET", <<pair>>)
  <2> DEFINE b == parse(w(4).parser, m[4 + 1])
  <2>1. b \in Parser /\ b.state = "HAD_RIGHT_BRACKET" /\ b.msgbuf = <<pair>>
    <3>1. PICK a \in Parser : a = w(4).parser /\ a.state = "IN_MESSAGE" /\ a.msgbuf = <<pair>>
      BY <1>10
    <3>2. b = to(a, "HAD_RIGHT_BRACKET")
      BY <1>1, <3>1 DEF parse
    <3> HIDE DEF b
    <3> QED
      BY <3>1, <3>2, ToIs DEF ParseStates
  <2> HIDE DEF b
  <2>2. Now(w(4 + 1), b.state, b.msgbuf)
    BY <1>1, <1>4, <1>5, <1>10, <2>1 DEF b
  <2> QED
    BY <2>1, <2>2
<1>12. Now(w(6), "HAD_RIGHT_BRACKET_AND_PERCENT", <<pair>>)
  <2> DEFINE b == parse(w(5).parser, m[5 + 1])
  <2>1. b \in Parser /\ b.state = "HAD_RIGHT_BRACKET_AND_PERCENT" /\ b.msgbuf = <<pair>>
    <3>1. PICK a \in Parser : a = w(5).parser /\ a.state = "HAD_RIGHT_BRACKET"
               /\ a.msgbuf = <<pair>>
      BY <1>11
    <3>2. b = to(a, "HAD_RIGHT_BRACKET_AND_PERCENT")
      BY <1>1, <3>1 DEF parse
    <3> HIDE DEF b
    <3> QED
      BY <3>1, <3>2, ToIs DEF ParseStates
  <2> HIDE DEF b
  <2>2. Now(w(5 + 1), b.state, b.msgbuf)
    BY <1>1, <1>4, <1>5, <1>11, <2>1 DEF b
  <2> QED
    BY <2>1, <2>2
<1>13. \A n \in 0..6 : w(n) \in Vars /\ Like(w(n), u)
  <2>1. \A n \in 0..6 : n \in {0, 1, 2, 3, 4, 5, 6}
    OBVIOUS
  <2> QED
    BY <1>6, <1>7, <1>8, <1>9, <1>10, <1>11, <1>12, <2>1
<1>14. \E x \in Vars : Like(x, u) /\ Read(u, m) = proc_msg(x, <<pair>>)
  <2> DEFINE x == Parsed(w(6), "%")
  <2>1. EndsMessage(w(6).parser, "%") /\ w(6).parser.msgbuf = <<pair>> /\ "%" # EOF
    BY <1>4, <1>12, LprpsAssumption DEF EndsMessage
  <2>2. proc_input_char(w(6), "%") = proc_msg(x, <<pair>>)
    BY <1>12, <2>1 DEF proc_input_char
  <2>3. w(7) = proc_input_char(w(6), "%")
    BY <1>1, <1>2
  <2>4. w(7) = Read(u, m)
    BY <1>1, SubSeqFull DEF w
  <2>5. x \in Vars /\ \E a \in Parsers, r \in Seq(Chars) :
               /\ a = [parse(w(6).parser, "%") EXCEPT !.taken = <<>>]
               /\ x = [w(6) EXCEPT !.parser = a, !.received = r]
    BY <1>4, <1>12, ParsedIs
  <2>6. Like(x, w(6))
    BY <1>12, <2>5 DEF Like, Vars
  <2> QED
    BY <1>12, <2>2, <2>3, <2>4, <2>5, <2>6 DEF Like
<1> QED
  BY <1>1, <1>13, <1>14 DEF m, w

\* What has been read of a sequence that ends a loop does not end it before all of
\* it is read.
LEMMA EndsChunk ==
  ASSUME NEW u, NEW field, NEW val, NEW f \in Seq(Bytes), NEW g \in Seq(Bytes),
         Ends(u, f \o g, field, val)
  PROVE  LET w == Read(u, f) IN
           /\ ~w.flushing
           /\ w[field] # Unset(field) => g = <<>> /\ w[field] = val
           /\ w[field] = Unset(field) => Ends(w, g, field, val)
<1> DEFINE w == Read(u, f)
           s == f \o g
<1>1. /\ Len(s) = Len(f) + Len(g) /\ Len(f) \in Nat /\ Len(g) \in Nat
      /\ s \in Seq(Bytes)
  BY ConcatProperties, LenProperties
<1>2. /\ \A n \in 0..Len(g) : Read(u, SubSeq(s, 1, Len(f) + n)) = Read(w, SubSeq(g, 1, n))
      /\ Read(u, s) = Read(w, g)
      /\ Read(u, SubSeq(s, 1, Len(f))) = w
  <2>1. Len(f) \in 0..Len(f)
    BY <1>1
  <2>2. Pieces(u, f, g)
    BY ReadPieces
  <2>3. \A n \in 0..Len(f) : Read(u, SubSeq(s, 1, n)) = Read(u, SubSeq(f, 1, n))
    BY <2>2 DEF Pieces
  <2>4. Read(u, SubSeq(f, 1, Len(f))) = w
    BY <2>2 DEF Pieces
  <2>5. \A n \in 0..Len(g) : Read(u, SubSeq(s, 1, Len(f) + n)) = Read(w, SubSeq(g, 1, n))
    BY <2>2 DEF Pieces
  <2>6. Read(u, s) = Read(w, g)
    BY <2>2 DEF Pieces
  <2> HIDE DEF s, w
  <2> QED
    BY <2>1, <2>3, <2>4, <2>5, <2>6
<1>3. /\ \A n \in 0..Len(s) - 1 : Read(u, SubSeq(s, 1, n))[field] = Unset(field)
      /\ \A n \in 0..Len(s) : ~Read(u, SubSeq(s, 1, n)).flushing
      /\ Read(u, s)[field] = val
  BY DEF Ends
<1> HIDE DEF s, w
<1>4. ~w.flushing
  <2>1. Len(f) \in 0..Len(s)
    BY <1>1
  <2> QED
    BY <1>2, <1>3, <2>1
<1>5. ASSUME w[field] # Unset(field) PROVE g = <<>> /\ w[field] = val
  <2>1. Len(f) \notin 0..Len(s) - 1
    BY <1>2, <1>3, <1>5
  <2>2. g = <<>>
    BY <1>1, <2>1, EmptySeq
  <2>3. Read(w, g) = w
    BY <2>2, ReadNone
  <2> QED
    BY <1>2, <1>3, <2>2, <2>3
<1>6. Ends(w, g, field, val)
  <2>1. ASSUME NEW n \in 0..Len(g) - 1
        PROVE  Read(w, SubSeq(g, 1, n))[field] = Unset(field)
    <3>1. n \in 0..Len(g) /\ Len(f) + n \in 0..Len(s) - 1
      BY <1>1
    <3> QED
      BY <1>2, <1>3, <3>1
  <2>2. ASSUME NEW n \in 0..Len(g)
        PROVE  ~Read(w, SubSeq(g, 1, n)).flushing
    <3>1. Len(f) + n \in 0..Len(s)
      BY <1>1
    <3> QED
      BY <1>2, <1>3, <3>1
  <2> QED
    BY <1>2, <1>3, <2>1, <2>2 DEF Ends
<1> QED
  BY <1>4, <1>5, <1>6 DEF w

\* What does not end it goes on not ending it.
LEMMA StuckChunk ==
  ASSUME NEW u, NEW f \in Seq(Bytes), NEW g \in Seq(Bytes), Stuck(u, f \o g)
  PROVE  LET w == Read(u, f) IN ~w.flushing /\ w.end = -1 /\ Stuck(w, g)
<1> DEFINE w == Read(u, f)
           s == f \o g
<1>1. /\ Len(s) = Len(f) + Len(g) /\ Len(f) \in Nat /\ Len(g) \in Nat
      /\ s \in Seq(Bytes)
  BY ConcatProperties, LenProperties
<1>2. /\ \A n \in 0..Len(g) : Read(u, SubSeq(s, 1, Len(f) + n)) = Read(w, SubSeq(g, 1, n))
      /\ Read(u, SubSeq(s, 1, Len(f))) = w
  <2>1. Len(f) \in 0..Len(f)
    BY <1>1
  <2>2. Pieces(u, f, g)
    BY ReadPieces
  <2>3. \A n \in 0..Len(f) : Read(u, SubSeq(s, 1, n)) = Read(u, SubSeq(f, 1, n))
    BY <2>2 DEF Pieces
  <2>4. Read(u, SubSeq(f, 1, Len(f))) = w
    BY <2>2 DEF Pieces
  <2>5. \A n \in 0..Len(g) : Read(u, SubSeq(s, 1, Len(f) + n)) = Read(w, SubSeq(g, 1, n))
    BY <2>2 DEF Pieces
  <2> HIDE DEF s, w
  <2> QED
    BY <2>1, <2>3, <2>4, <2>5
<1>3. \A n \in 0..Len(s) :
          Read(u, SubSeq(s, 1, n)).end = -1 /\ ~Read(u, SubSeq(s, 1, n)).flushing
  BY DEF Stuck
<1> HIDE DEF s, w
<1>4. ~w.flushing /\ w.end = -1
  <2>1. Len(f) \in 0..Len(s)
    BY <1>1
  <2> QED
    BY <1>2, <1>3, <2>1
<1>5. ASSUME NEW n \in 0..Len(g)
      PROVE  Read(w, SubSeq(g, 1, n)).end = -1 /\ ~Read(w, SubSeq(g, 1, n)).flushing
  <2>1. Len(f) + n \in 0..Len(s)
    BY <1>1
  <2> QED
    BY <1>2, <1>3, <2>1
<1> QED
  BY <1>4, <1>5 DEF w, Stuck

\* Messages are sequences that the printer may send.
LEMMA MsgType ==
  ASSUME NEW pair \in Chars
  PROVE  Msg(pair) \in Seq(Bytes) /\ Len(Msg(pair)) = 7
<1>1. {"%", "[", "]", pair} \subseteq Bytes
  BY InputAssumption DEF Bytes
<1> QED
  BY <1>1 DEF Msg, MsgStart, MsgEnd

\* Pairs and what they are not.
LEMMA PairIs ==
  ASSUME NEW pair \in DOMAIN StatusOf \cup DOMAIN PageNo
  PROVE  /\ pair \in Chars /\ pair # "]" /\ <<pair>> # <<"Flushing">> /\ <<pair>> \in Seq(Chars)
         /\ pair \in DOMAIN StatusOf => pair \notin DOMAIN PageNo
  BY LprpsAssumption

\* An answer, perhaps behind an end of file: nothing happens before its last
\* character.
LEMMA AnswerRead ==
  ASSUME NEW u \in Vars, ~u.flushing, Fresh(u), NEW pair \in DOMAIN StatusOf \cup DOMAIN PageNo,
         NEW p \in {<<>>, <<EOF>>}, NEW s, s = p \o Msg(pair)
  PROVE  /\ s \in Seq(Bytes) /\ s # <<>>
         /\ \A n \in 0..Len(s) - 1 : Like(Read(u, SubSeq(s, 1, n)), u)
         /\ SubSeq(s, 1, Len(s)) = s
         /\ \E x \in Vars : Like(x, u) /\ Read(u, s) = proc_msg(x, <<pair>>)
<1> DEFINE w == Read(u, p)
<1>1. PICK m \in Seq(Bytes) : m = Msg(pair) /\ Len(m) = 7
  BY PairIs, MsgType
<1>2. p \in Seq(Bytes) /\ ((p = <<>> /\ Len(p) = 0) \/ (p = <<EOF>> /\ Len(p) = 1))
  <2>1. <<>> \in Seq(Bytes) /\ <<EOF>> \in Seq(Bytes) /\ Len(<<>>) = 0 /\ Len(<<EOF>>) = 1
    BY DEF Bytes
  <2>2. p = <<>> \/ p = <<EOF>>
    OBVIOUS
  <2> QED
    BY <2>1, <2>2, Zenon
<1>3. s \in Seq(Bytes) /\ Len(s) = Len(p) + 7 /\ s # <<>> /\ s = p \o m
  <2>1. p \in Seq(Bytes) /\ m \in Seq(Bytes) /\ Len(m) = 7
    BY <1>1, <1>2
  <2>2. p \o m \in Seq(Bytes) /\ Len(p \o m) = Len(p) + Len(m)
    <3>1. \A q, r \in Seq(Bytes) : q \o r \in Seq(Bytes) /\ Len(q \o r) = Len(q) + Len(r)
      BY ConcatProperties
    <3> QED
      BY <2>1, <3>1
  <2>3. s = p \o m
    BY <1>1
  <2>4. s \in Seq(Bytes) /\ Len(s) = Len(p) + 7
    BY <2>1, <2>2, <2>3, Zenon
  <2>5. s # <<>>
    BY <1>2, <2>4
  <2> QED
    BY <2>3, <2>4, <2>5
<1>4. w \in Vars /\ Like(w, u) /\ ~w.flushing /\ Fresh(w)
  <2>1. CASE p = <<>>
    BY <2>1, ReadNone DEF Like
  <2>2. CASE p = <<EOF>>
    <3>1. Read(u, <<EOF>>) = proc_input_char(u, EOF)
      BY ReadOne
    <3>2. proc_input_char(u, EOF) = [u EXCEPT !.eof = TRUE]
      BY DEF proc_input_char
    <3>3. w = [u EXCEPT !.eof = TRUE]
      BY <2>2, <3>1, <3>2
    <3> HIDE DEF w
    <3>4. w \in Vars /\ Like(w, u) /\ ~w.flushing
      BY <3>3 DEF Vars, Like
    <3>5. Fresh(w)
      BY <3>3 DEF Vars, Fresh
    <3> QED
      BY <3>4, <3>5
  <2>3. p = <<>> \/ p = <<EOF>>
    BY <1>2
  <2> QED
    BY <2>1, <2>2, <2>3
<1>5. /\ \A n \in 0..Len(p) : Read(u, SubSeq(s, 1, n)) = Read(u, SubSeq(p, 1, n))
      /\ \A n \in 0..Len(m) : Read(u, SubSeq(s, 1, Len(p) + n)) = Read(w, SubSeq(m, 1, n))
      /\ Read(u, s) = Read(w, m)
  <2>0. p \in Seq(Bytes)
    BY <1>2
  <2>1. PICK q \in Seq(Bytes) : q = p
    BY <2>0
  <2>2. Pieces(u, q, m)
    BY ReadPieces
  <2>3. Pieces(u, p, m) /\ s = p \o m
    BY <1>3, <2>1, <2>2
  <2> QED
    BY <2>3 DEF Pieces
<1> HIDE DEF w
<1>6. /\ \A n \in 0..6 : Like(Read(w, SubSeq(m, 1, n)), w)
      /\ \E x \in Vars : Like(x, w) /\ Read(w, m) = proc_msg(x, <<pair>>)
  BY <1>1, <1>4, PairIs, MsgRead, Zenon
<1>7. Read(u, SubSeq(p, 1, 0)) = u
  <2>1. SubSeq(p, 1, 0) = <<>>
    BY SubSeqEmpty
  <2> QED
    BY <2>1, ReadNone
<1>8. ASSUME NEW n \in 0..Len(s) - 1
      PROVE  Like(Read(u, SubSeq(s, 1, n)), u)
  <2>1. CASE n < Len(p)
    <3>1. PICK k \in {0, 1} : k = Len(p)
      BY <1>2
    <3>2. n \in Nat
      BY <1>3
    <3>3. n = 0
      BY <2>1, <3>1, <3>2
    <3>4. 0 \in 0..Len(p)
      BY <3>1
    <3>5. Read(u, SubSeq(s, 1, 0)) = u
      BY <1>5, <1>7, <3>4
    <3>6. Like(u, u)
      BY DEF Like
    <3> QED
      BY <3>3, <3>5, <3>6
  <2>2. CASE n >= Len(p)
    <3>1. n - Len(p) \in 0..6 /\ n - Len(p) \in 0..Len(m) /\ Len(p) + (n - Len(p)) = n
      <4>1. PICK k \in Nat : k = Len(p) /\ Len(m) = 7 /\ Len(s) = k + 7
        BY <1>1, <1>2, <1>3
      <4>2. n \in 0..(k + 7) - 1 /\ n >= k
        BY <2>2, <4>1
      <4>3. n - k \in 0..6 /\ n - k \in 0..7 /\ k + (n - k) = n
        BY <4>2
      <4> QED
        BY <4>1, <4>3
    <3>2. Read(u, SubSeq(s, 1, n)) = Read(w, SubSeq(m, 1, n - Len(p)))
      BY <1>5, <3>1
    <3> QED
      BY <1>4, <1>6, <3>1, <3>2 DEF Like
  <2> QED
    BY <1>2, <2>1, <2>2
<1> QED
  BY <1>3, <1>4, <1>5, <1>6, <1>8, SubSeqFull DEF Like

\* What the answer to a query for the status ends.
LEMMA StatusAnswer ==
  ASSUME NEW u \in Vars, ~u.flushing, Fresh(u), NEW pair \in DOMAIN StatusOf,
         u.status = "INVALID"
  PROVE  Ends(u, Msg(pair), "status", StatusOf[pair])
<1>1. PICK s \in Seq(Bytes), p \in {<<>>, <<EOF>>} :
          s = p \o Msg(pair) /\ p = <<>> /\ s = Msg(pair)
  <2>1. Msg(pair) \in Seq(Bytes)
    BY PairIs, MsgType
  <2> QED
    BY <2>1, ConcatEmptySeq
<1>2. /\ s \in Seq(Bytes) /\ s # <<>>
      /\ \A n \in 0..Len(s) - 1 : Like(Read(u, SubSeq(s, 1, n)), u)
      /\ SubSeq(s, 1, Len(s)) = s
      /\ \E x \in Vars : Like(x, u) /\ Read(u, s) = proc_msg(x, <<pair>>)
  BY <1>1, AnswerRead
<1>3. PICK x \in Vars : Like(x, u) /\ Read(u, s) = proc_msg(x, <<pair>>)
  BY <1>2
<1>4. ~Read(u, s).flushing /\ Read(u, s).status = StatusOf[pair]
  <2>1. proc_msg(x, <<pair>>) = [x EXCEPT !.status = StatusOf[pair]]
    BY PairIs DEF proc_msg
  <2> QED
    BY <1>3, <2>1 DEF Like, Vars
<1>5. \A n \in 0..Len(s) : ~Read(u, SubSeq(s, 1, n)).flushing
  <2> TAKE n \in 0..Len(s)
  <2>0. Len(s) \in Nat
    BY LenProperties
  <2>1. n = Len(s) \/ n \in 0..Len(s) - 1
    BY <2>0
  <2> QED
    BY <1>2, <1>4, <2>1 DEF Like
<1>6. \A n \in 0..Len(s) - 1 : Read(u, SubSeq(s, 1, n)).status = "INVALID"
  BY <1>2 DEF Like
<1> QED
  BY <1>1, <1>4, <1>5, <1>6 DEF Ends, Unset

\* What the answer to a query for the pages ends.
LEMMA PageAnswer ==
  ASSUME NEW u \in Vars, ~u.flushing, Fresh(u), NEW pair \in DOMAIN PageNo,
         NEW p \in {<<>>, <<EOF>>}, NEW s, s = p \o Msg(pair)
  PROVE  /\ u.start = -1 => Ends(u, s, "start", PageNo[pair])
         /\ u.start >= 0 /\ u.end = -1 => Ends(u, s, "end", PageNo[pair])
         /\ u.start = -1 /\ u.end = -1 => Stuck(u, s)
<1>1. /\ s \in Seq(Bytes) /\ s # <<>>
      /\ \A n \in 0..Len(s) - 1 : Like(Read(u, SubSeq(s, 1, n)), u)
      /\ SubSeq(s, 1, Len(s)) = s
      /\ \E x \in Vars : Like(x, u) /\ Read(u, s) = proc_msg(x, <<pair>>)
  BY AnswerRead
<1>2. PICK x \in Vars : Like(x, u) /\ Read(u, s) = proc_msg(x, <<pair>>)
  BY <1>1
<1>3. PICK n \in Nat : n = Len(s)
  BY <1>1, LenProperties
<1>4. /\ ~Read(u, s).flushing
      /\ u.start = -1 => Read(u, s).start = PageNo[pair] /\ Read(u, s).end = u.end
      /\ u.start >= 0 => Read(u, s).end = PageNo[pair]
  <2>1. proc_msg(x, <<pair>>) = IF x.start < 0 THEN [x EXCEPT !.start = PageNo[pair]]
                                               ELSE [x EXCEPT !.end = PageNo[pair]]
    BY PairIs DEF proc_msg
  <2>2. x.start = u.start /\ x.end = u.end /\ ~x.flushing /\ u.start \in Int
    BY <1>2 DEF Like, Vars
  <2>3. PICK val : val = PageNo[pair]
    OBVIOUS
  <2>4. /\ [x EXCEPT !.start = val].start = val /\ [x EXCEPT !.start = val].end = x.end
        /\ ~[x EXCEPT !.start = val].flushing /\ ~[x EXCEPT !.end = val].flushing
        /\ [x EXCEPT !.end = val].end = val
    BY <2>2 DEF Vars
  <2>5. CASE u.start < 0
    <3>1. Read(u, s) = [x EXCEPT !.start = val]
      BY <1>2, <2>1, <2>2, <2>3, <2>5
    <3> QED
      BY <2>2, <2>3, <2>4, <2>5, <3>1
  <2>6. CASE u.start >= 0
    <3>1. Read(u, s) = [x EXCEPT !.end = val]
      BY <1>2, <2>1, <2>2, <2>3, <2>6
    <3> QED
      BY <2>2, <2>3, <2>4, <2>6, <3>1
  <2> QED
    BY <2>2, <2>5, <2>6
<1>5. \A i \in 0..n : i = n \/ i \in 0..n - 1
  OBVIOUS
<1>6. \A i \in 0..n : ~Read(u, SubSeq(s, 1, i)).flushing
  <2> TAKE i \in 0..n
  <2> QED
    BY <1>1, <1>3, <1>4, <1>5 DEF Like
<1>7. \A i \in 0..n - 1 : /\ Read(u, SubSeq(s, 1, i)).start = u.start
                          /\ Read(u, SubSeq(s, 1, i)).end = u.end
  BY <1>1, <1>3 DEF Like
<1>8. ASSUME u.start = -1 PROVE Ends(u, s, "start", PageNo[pair])
  BY <1>3, <1>4, <1>6, <1>7, <1>8 DEF Ends, Unset
<1>9. ASSUME u.start >= 0, u.end = -1 PROVE Ends(u, s, "end", PageNo[pair])
  BY <1>3, <1>4, <1>6, <1>7, <1>9 DEF Ends, Unset
<1>10. ASSUME u.start = -1, u.end = -1 PROVE Stuck(u, s)
  <2>1. \A i \in 0..n : Read(u, SubSeq(s, 1, i)).end = -1
    <3> TAKE i \in 0..n
    <3> QED
      BY <1>1, <1>3, <1>4, <1>5, <1>7, <1>10
  <2> QED
    BY <1>3, <1>6, <2>1 DEF Stuck
<1> QED
  BY <1>8, <1>9, <1>10

\* The printer has the pairs it needs.
LEMMA PairChosen ==
  /\ \A val \in {"IDLE", "BUSY", "WAITING"} :
        StatusPair(val) \in DOMAIN StatusOf /\ StatusOf[StatusPair(val)] = val
  /\ \A n \in 0..JobLen : PagePair(n) \in DOMAIN PageNo /\ PageNo[PagePair(n)] = n
  BY LprpsAssumption DEF StatusPair, PagePair

\* Messages that do not tell of an idle printer or its pages.
LEMMA MuteMsg ==
  ASSUME NEW pair \in Chars, pair \notin Telling
  PROVE  Mute(Msg(pair)) /\ NoEof(Msg(pair)) /\ Msg(pair) # <<>>
<1>1. {"%", "[", "]"} \subseteq Chars /\ {"%", "[", "]"} \cap Telling = {} /\ EOF \notin Chars
  BY InputAssumption, LprpsAssumption DEF Telling
<1> DEFINE m == Msg(pair)
<1>2. /\ m \in Seq(Chars) /\ Len(m) = 7
      /\ m[1] = "%" /\ m[2] = "%" /\ m[3] = "[" /\ m[4] = pair /\ m[5] = "]"
      /\ m[6] = "%" /\ m[7] = "%"
  BY <1>1 DEF Msg, MsgStart, MsgEnd
<1> HIDE DEF m
<1>3. \A i \in 1..7 : m[i] \in {"%", "[", "]", pair}
  <2>1. \A i \in 1..7 : i \in {1, 2, 3, 4, 5, 6, 7}
    OBVIOUS
  <2> QED
    BY <1>2, <2>1
<1>4. Mute(m) /\ NoEof(m)
  BY <1>1, <1>2, <1>3 DEF Mute, NoEof
<1>5. m # <<>>
  BY <1>2, EmptySeq
<1> QED
  BY <1>4, <1>5 DEF m

\* No message has an end of file in it.
LEMMA NoEofMsg ==
  ASSUME NEW pair \in Chars
  PROVE  NoEof(Msg(pair)) /\ Msg(pair) \in Seq(Chars)
<1>1. {"%", "[", "]"} \subseteq Chars /\ EOF \notin Chars
  BY InputAssumption, LprpsAssumption
<1>2. Msg(pair) \in Seq(Chars)
  BY <1>1 DEF Msg, MsgStart, MsgEnd
<1>3. \A q \in Seq(Chars) : NoEof(q)
  BY <1>1 DEF NoEof
<1> QED
  BY <1>2, <1>3

\* What the daemon reads when it reads.
LEMMA ReadNow ==
  ASSUME Types
  PROVE  /\ AfterRead = Read(v, fromPrinter) /\ AfterRead \in Vars
         /\ \E w \in Vars : w = [AfterRead EXCEPT !.flushing = FALSE] /\ ~w.flushing
         /\ v.start >= 0 => AfterRead.start = v.start
<1>1. v \in Vars /\ fromPrinter \in Seq(Bytes)
  BY DEF Types
<1>2. AfterRead = Read(v, fromPrinter)
  BY DEF AfterRead, Read
<1>3. AfterRead \in Vars
  BY <1>1, <1>2, ReadType, Zenon
<1>4. v.start >= 0 => AfterRead.start = v.start
  BY <1>1, <1>2, ReadStart, Zenon
<1> HIDE DEF AfterRead
<1>5. LET w == [AfterRead EXCEPT !.flushing = FALSE] IN w \in Vars /\ ~w.flushing
  BY <1>3 DEF Vars
<1> QED
  BY <1>2, <1>3, <1>4, <1>5

\* init_input() and upto_eof() do not change what they are not about.
LEMMA InitInput ==
  ASSUME NEW u \in Vars, NEW job \in BOOLEAN
  PROVE  LET w == init_input(u, job) IN
           /\ w \in Vars /\ Fresh(w) /\ Honest(w)
           /\ w.eof = u.eof /\ w.flushing = u.flushing /\ w.status = u.status
           /\ w.start = u.start /\ w.end = u.end
<1>1. NewParser \in Parsers /\ <<>> \in Seq(Chars) /\ NewParser.taken = <<>>
      /\ Undecided(NewParser) = <<>>
  BY NewParserType DEF Parsers, NewParser, Undecided
<1> QED
  BY <1>1 DEF init_input, Vars, Fresh, Honest

\* The variables at the beginning of proc_upto_eof().
LEMMA UptoEofIs ==
  ASSUME NEW u \in Vars, NEW ignore \in BOOLEAN
  PROVE  LET w == upto_eof(u, ignore) IN
           /\ w \in Vars /\ w.ignore = ignore /\ ~w.eof
           /\ w.parser = u.parser /\ w.received = u.received /\ w.in_job = u.in_job
           /\ w.flushing = u.flushing /\ w.status = u.status
           /\ w.start = u.start /\ w.end = u.end
  BY DEF upto_eof, Vars

\* The variables when one page count is set.
LEMMA CountIs ==
  ASSUME NEW u \in Vars, NEW n \in Int, NEW field \in {"start", "end"}
  PROVE  LET w == [u EXCEPT ![field] = n] IN
           /\ w \in Vars /\ w[field] = n
           /\ w.parser = u.parser /\ w.received = u.received /\ w.in_job = u.in_job
           /\ w.ignore = u.ignore /\ w.eof = u.eof /\ w.flushing = u.flushing
           /\ w.status = u.status
           /\ field = "end" => w.start = u.start
           /\ field = "start" => w.end = u.end
<1>1. CASE field = "start"
  <2>1. [u EXCEPT ![field] = n] = [u EXCEPT !.start = n]
    BY <1>1
  <2> QED
    BY <1>1, <2>1 DEF Vars
<1>2. CASE field = "end"
  <2>1. [u EXCEPT ![field] = n] = [u EXCEPT !.end = n]
    BY <1>2
  <2> QED
    BY <1>2, <2>1 DEF Vars
<1> QED
  BY <1>1, <1>2

\* The queues stay sequences.
LEMMA Queued ==
  ASSUME NEW X, NEW q \in Seq(X), NEW c \in X
  PROVE  /\ Append(q, c) \in Seq(X) /\ Append(q, c) # <<>>
         /\ Len(Append(q, c)) = Len(q) + 1 /\ Append(q, c)[Len(q) + 1] = c
         /\ \A i \in 1..Len(q) : Append(q, c)[i] = q[i]
         /\ Len(q) \in Nat
         /\ q = <<>> => Append(q, c) = <<c>>
         /\ <<>> \in Seq(X)
<1>1. Append(<<>>, c) = <<c>> /\ <<>> \in Seq(X)
  OBVIOUS
<1>2. /\ Append(q, c) \in Seq(X) /\ Append(q, c) # <<>>
      /\ Len(Append(q, c)) = Len(q) + 1 /\ Append(q, c)[Len(q) + 1] = c
      /\ \A i \in 1..Len(q) : Append(q, c)[i] = q[i]
  BY AppendProperties
<1>3. Len(q) \in Nat
  BY LenProperties
<1>4. q = <<>> => Append(q, c) = <<c>>
  BY <1>1, Zenon
<1> QED
  BY <1>1, <1>2, <1>3, <1>4, Zenon

\* A queue from which the first is taken.
LEMMA Dequeued ==
  ASSUME NEW X, NEW q \in Seq(X), q # <<>>
  PROVE  /\ Head(q) \in X /\ Head(q) = q[1] /\ Tail(q) \in Seq(X)
         /\ Len(q) \in Nat \ {0} /\ Len(Tail(q)) = Len(q) - 1
         /\ \A i \in 1..Len(q) - 1 : Tail(q)[i] = q[i + 1]
         /\ Len(q) = 1 => Tail(q) = <<>> /\ q = <<q[1]>>
<1>1. /\ Head(q) \in X /\ Head(q) = q[1] /\ Tail(q) \in Seq(X)
      /\ Len(q) \in Nat \ {0} /\ Len(Tail(q)) = Len(q) - 1
      /\ \A i \in 1..Len(q) - 1 : Tail(q)[i] = q[i + 1]
  BY HeadTailProperties, LenProperties, EmptySeq
<1>2. Len(q) = 1 => Tail(q) = <<>>
  <2>1. PICK r \in Seq(X) : r = Tail(q) /\ Len(r) = Len(q) - 1
    BY <1>1
  <2> QED
    BY <2>1, EmptySeq
<1>3. Len(q) = 1 => q = <<q[1]>>
  OBVIOUS
<1> QED
  BY <1>1, <1>2, <1>3

\* What the printer tells of its state.
Said(state) ==
    CASE state = "idle" -> "IDLE" [] state = "waiting" -> "WAITING" [] OTHER -> "BUSY"

Complaint == Msg("Error") \o Msg("Flushing")

\* Two messages after another, and no end of file.
LEMMA ComplaintIs == Complaint \in Seq(Bytes) /\ NoEof(Complaint)
<1>1. {"Error", "Flushing"} \subseteq Chars /\ EOF \notin Chars
  BY LprpsAssumption
<1>2. PICK a \in Seq(Chars), b \in Seq(Chars) : a = Msg("Error") /\ b = Msg("Flushing")
  BY <1>1, NoEofMsg
<1>3. a \o b \in Seq(Chars)
  BY ConcatProperties
<1>4. PICK r \in Seq(Chars) : r = Complaint
  BY <1>2, <1>3 DEF Complaint
<1> QED
  BY <1>1, <1>4 DEF Bytes, NoEof

\* What the printer does with an item, and that it does not send an end of file
\* but for one, or because the job makes it.
LEMMA HandlesIs ==
  ASSUME Types, Budget, printer.state # "dead", printer.sending = <<>>, NEW item \in Items,
         Handles(item)
  PROVE  /\ printer' \in Printers /\ printer'.state # "dead"
         /\ item # "data" => printer'.pages = printer.pages /\ printer'.forged = printer.forged
         /\ item = "data" => printer'.pages \in printer.pages..printer.pages + 1
         /\ printer.forged => printer'.forged
         /\ item # EOF /\ ~printer'.forged => NoEof(printer'.sending)
         /\ item = EOF => printer'.state = "idle" /\ printer'.sending = <<EOF>>
         /\ item = "^T" => /\ printer'.state = printer.state
                           /\ printer'.sending = Msg(StatusPair(Said(printer.state)))
         /\ item = "^C" /\ printer.state = "idle" => printer' = printer
         /\ item = "query" =>
               \/ printer' = printer
               \/ printer'.state = "waiting" /\ printer'.sending = Msg(PagePair(printer.pages))
         /\ item = "query" /\ printer.state = "idle" => printer' # printer
<1>1. /\ printer.state \in {"idle", "busy", "waiting", "flushing"} /\ printer.pages \in Nat
      /\ printer.forged \in BOOLEAN /\ printer \in Printers
  BY DEF Types, Printers
<1>2. printer.pages \in 0..JobLen
  BY <1>1, LprpsAssumption, LenProperties DEF Budget, Types
<1>3. /\ NoEof(<<>>) /\ EOF \in Bytes /\ <<>> \in Seq(Bytes) /\ <<EOF>> \in Seq(Bytes)
      /\ "^T" # EOF /\ "^C" # EOF /\ "data" # EOF /\ "query" # EOF
  BY DEF NoEof, Bytes, EOF
<1>0. /\ item = "^T" => Becomes(printer.state, Msg(StatusPair(Said(printer.state))))
      /\ item = EOF => Becomes("idle", <<EOF>>)
      /\ item = "^C" => IF printer.state = "idle" THEN UNCHANGED printer
                        ELSE Becomes("flushing", Complaint)
      /\ item = "query" => IF printer.state = "flushing" THEN UNCHANGED printer
                           ELSE Becomes("waiting", Msg(PagePair(printer.pages)))
      /\ item = "data" => \/ UNCHANGED printer
                          \/ printer' = [printer EXCEPT !.state = "waiting", !.pages = @ + 1]
                          \/ \E text \in Texts : JobMakes("waiting", text)
                          \/ Becomes("flushing", Complaint)
                          \/ JobMakes("idle", <<EOF>>)
  <2>1. CASE item = "^T"
    BY <2>1 DEF Handles, EOF, Said
  <2>2. CASE item = EOF
    BY <2>2 DEF Handles, EOF
  <2>3. CASE item = "^C"
    BY <2>3 DEF Handles, EOF, Complaint
  <2>4. CASE item = "query"
    BY <2>4 DEF Handles, EOF
  <2>5. CASE item = "data"
    BY <2>5 DEF Handles, EOF, Complaint
  <2> QED
    BY <2>1, <2>2, <2>3, <2>4, <2>5 DEF Items
<1>4. ASSUME NEW state \in {"idle", "busy", "waiting", "flushing"}, NEW chars \in Seq(Bytes),
             Becomes(state, chars)
      PROVE  /\ printer' \in Printers /\ printer'.state = state /\ printer'.sending = chars
             /\ printer'.pages = printer.pages /\ printer'.forged = printer.forged
  BY <1>1, <1>4 DEF Becomes, Printers
<1>11. ASSUME NEW state \in {"waiting", "idle"}, NEW chars \in Seq(Bytes), JobMakes(state, chars)
       PROVE  /\ printer' \in Printers /\ printer'.state = state /\ printer'.sending = chars
              /\ printer'.pages = printer.pages
              /\ printer.forged => printer'.forged
              /\ ~printer'.forged => NoEof(chars)
  <2>1. PICK b \in BOOLEAN : b = (printer.forged \/ Contains(chars, EOF))
    BY <1>1
  <2>2. printer' = [printer EXCEPT !.state = state, !.sending = chars, !.forged = b]
    BY <1>11, <2>1 DEF JobMakes
  <2>3. /\ printer' \in Printers /\ printer'.state = state /\ printer'.sending = chars
        /\ printer'.pages = printer.pages /\ printer'.forged = b
    BY <1>1, <2>2 DEF Printers
  <2>4. ~Contains(chars, EOF) => NoEof(chars)
    BY DEF Contains, NoEof
  <2> QED
    BY <2>1, <2>3, <2>4
<1>5. CASE item = "^T"
  <2>1. Becomes(printer.state, Msg(StatusPair(Said(printer.state))))
    BY <1>0, <1>5
  <2>2. Said(printer.state) \in {"IDLE", "BUSY", "WAITING"}
    BY DEF Said
  <2>3. PICK pair \in DOMAIN StatusOf : pair = StatusPair(Said(printer.state))
    BY <2>2, PairChosen
  <2>4. Msg(pair) \in Seq(Bytes) /\ NoEof(Msg(pair))
    BY PairIs, MsgType, NoEofMsg
  <2>5. PICK m \in Seq(Bytes) : m = Msg(StatusPair(Said(printer.state))) /\ NoEof(m)
    BY <2>3, <2>4
  <2> QED
    BY <1>1, <1>3, <1>4, <1>5, <2>1, <2>5
<1>6. CASE item = EOF
  <2>1. Becomes("idle", <<EOF>>)
    BY <1>0, <1>6
  <2> QED
    BY <1>1, <1>3, <1>4, <1>6, <2>1
<1>7. PICK m \in Seq(Bytes) : m = Complaint /\ NoEof(m)
  BY ComplaintIs
<1>8. CASE item = "^C"
  <2>1. IF printer.state = "idle" THEN UNCHANGED printer ELSE Becomes("flushing", m)
    BY <1>0, <1>7, <1>8
  <2> QED
    BY <1>1, <1>3, <1>4, <1>7, <1>8, <2>1
<1>9. CASE item = "query"
  <2>1. IF printer.state = "flushing" THEN UNCHANGED printer
        ELSE Becomes("waiting", Msg(PagePair(printer.pages)))
    BY <1>0, <1>9
  <2>2. PICK pair \in DOMAIN PageNo : pair = PagePair(printer.pages)
    BY <1>2, PairChosen
  <2>3. Msg(pair) \in Seq(Bytes) /\ NoEof(Msg(pair))
    BY PairIs, MsgType, NoEofMsg
  <2>4. PICK q \in Seq(Bytes) : q = Msg(PagePair(printer.pages)) /\ NoEof(q)
    BY <2>2, <2>3
  <2> QED
    BY <1>1, <1>3, <1>4, <1>9, <2>1, <2>4
<1>10. CASE item = "data"
  <2>1. \/ UNCHANGED printer
        \/ printer' = [printer EXCEPT !.state = "waiting", !.pages = @ + 1]
        \/ \E text \in Texts : JobMakes("waiting", text)
        \/ Becomes("flushing", m)
        \/ JobMakes("idle", <<EOF>>)
    BY <1>0, <1>7, <1>10
  <2>2. \A text \in Texts : text \in Seq(Bytes)
    BY LprpsAssumption DEF Bytes
  <2>3. CASE printer' = [printer EXCEPT !.state = "waiting", !.pages = @ + 1]
    <3>1. printer' \in Printers /\ printer'.pages = printer.pages + 1 /\ printer'.state = "waiting"
          /\ printer'.sending = printer.sending /\ printer'.forged = printer.forged
      <4>1. PICK n \in Nat : n = printer.pages + 1
        BY <1>1
      <4>2. printer' = [printer EXCEPT !.state = "waiting", !.pages = n]
        BY <2>3, <4>1
      <4> QED
        BY <1>1, <4>1, <4>2 DEF Printers
    <3> QED
      BY <1>1, <1>3, <1>10, <3>1
  <2> QED
    <3>1. CASE UNCHANGED printer \/ Becomes("flushing", m)
      BY <1>1, <1>3, <1>4, <1>7, <1>10, <3>1
    <3>2. CASE (\E text \in Texts : JobMakes("waiting", text)) \/ JobMakes("idle", <<EOF>>)
      <4>1. PICK state \in {"waiting", "idle"}, chars \in Seq(Bytes) : JobMakes(state, chars)
        BY <1>3, <2>2, <3>2
      <4>2. /\ printer' \in Printers /\ printer'.state = state /\ printer'.sending = chars
            /\ printer'.pages = printer.pages
            /\ printer.forged => printer'.forged
            /\ ~printer'.forged => NoEof(chars)
        BY <1>11, <4>1
      <4>3. printer'.pages \in printer.pages..printer.pages + 1 /\ printer'.state # "dead"
        BY <1>1, <4>1, <4>2
      <4>4. item # "^T" /\ item # "^C" /\ item # "query" /\ item # EOF
        BY <1>3, <1>10
      <4> QED
        BY <1>10, <4>2, <4>3, <4>4
    <3> QED
      BY <2>1, <2>3, <3>1, <3>2
<1> QED
  BY <1>5, <1>6, <1>8, <1>9, <1>10 DEF Items

\* The types hold at first.
LEMMA TypesInit == Init => Types
<1> SUFFICES ASSUME Init PROVE Types
  OBVIOUS
<1>1. toPrinter \in Seq(Items) /\ Len(toPrinter) <= OQ /\ fromPrinter \in Seq(Bytes)
  BY LprpsAssumption DEF Init
<1>2. printer \in Printers
  <2>1. Msg("Flushing") \in Seq(Bytes) /\ <<>> \in Seq(Bytes)
    BY MsgType, LprpsAssumption
  <2>2. PICK state \in {"idle", "busy", "waiting", "flushing"} :
            printer = [state |-> state, pages |-> 0, forged |-> FALSE,
                       sending |-> IF state = "flushing" THEN Msg("Flushing") ELSE <<>>]
    BY DEF Init
  <2>3. printer.state = state /\ printer.pages = 0 /\ ~printer.forged
        /\ printer.sending \in Seq(Bytes)
    BY <2>1, <2>2
  <2> QED
    BY <2>2, <2>3 DEF Printers
<1>3. v \in Vars /\ ~v.flushing
  <2>1. NewParser \in Parsers /\ <<>> \in Seq(Chars)
    BY NewParserType DEF Parsers
  <2> QED
    BY <2>1 DEF Init, Vars
<1> QED
  BY <1>1, <1>2, <1>3, LprpsAssumption DEF Init, Types, Labels, Signals, Reading, Writing

\* As much of the job as n writes take.
Data(n) == [i \in 1..n |-> "data"]

\* What the daemon writes when the line takes what of the job is left.
LEMMA DataIs ==
  ASSUME NEW q \in Seq(Items), NEW n \in Nat
  PROVE  LET r == q \o Data(n) IN
           /\ r \in Seq(Items) /\ Len(r) = Len(q) + n
           /\ \A i \in 1..Len(q) : r[i] = q[i]
           /\ \A i \in Len(q) + 1..Len(q) + n : r[i] = "data"
           /\ n = 0 => r = q
<1> DEFINE d == Data(n)
<1>1. d \in Seq(Items) /\ Len(d) = n /\ \A i \in 1..n : d[i] = "data"
  <2>1. "data" \in Items
    BY DEF Items
  <2>2. \A i \in 1..n : "data" \in Items
    BY <2>1
  <2> QED
    BY <2>2 DEF Data
<1> HIDE DEF d
<1>2. /\ q \o d \in Seq(Items) /\ Len(q \o d) = Len(q) + n /\ Len(q) \in Nat
      /\ \A i \in 1..Len(q) + n : (q \o d)[i] = IF i <= Len(q) THEN q[i] ELSE d[i - Len(q)]
  BY <1>1, ConcatProperties, LenProperties
<1>3. n = 0 => q \o d = q
  <2>1. n = 0 => d = <<>>
    BY <1>1, EmptySeq
  <2> QED
    BY <2>1, ConcatEmptySeq
<1>4. /\ q \o d \in Seq(Items) /\ Len(q \o d) = Len(q) + n
      /\ \A i \in 1..Len(q) : (q \o d)[i] = q[i]
      /\ \A i \in Len(q) + 1..Len(q) + n : (q \o d)[i] = "data"
      /\ n = 0 => q \o d = q
  BY <1>1, <1>2, <1>3
<1> QED
  BY <1>4 DEF d

\* Queue r is the k items of q and n writes of the job behind them.
DataBehind(r, q, k, n) ==
    /\ r \in Seq(Items) /\ Len(r) = k + n
    /\ \A i \in 1..k : r[i] = q[i]
    /\ \A i \in k + 1..k + n : r[i] = "data"

\* That is the queue after they are written.
LEMMA DataQueued ==
  ASSUME NEW q \in Seq(Items), NEW n \in Nat, NEW k, k = Len(q), NEW r, r = q \o Data(n)
  PROVE  DataBehind(r, q, k, n)
<1> DEFINE x == q \o Data(n)
<1>1. /\ x \in Seq(Items) /\ Len(x) = Len(q) + n
      /\ \A i \in 1..Len(q) : x[i] = q[i]
      /\ \A i \in Len(q) + 1..Len(q) + n : x[i] = "data"
  BY DataIs
<1>2. x = r
  OBVIOUS
<1> HIDE DEF x
<1> QED
  BY <1>1, <1>2 DEF DataBehind

\* How much that is.
LEMMA SendIs ==
  ASSUME Types, SendSelect
  PROVE  \E n \in 0..left :
            /\ toPrinter' = toPrinter \o Data(n) /\ left' = left - n
            /\ AfterRead.flushing => n = 0
            /\ Len(toPrinter) + n <= OQ
<1> DEFINE room == OQ - Len(toPrinter)
           n == IF AfterRead.flushing THEN 0 ELSE IF room < left THEN room ELSE left
<1>1. room \in Int /\ left \in Nat
  BY LenProperties, LprpsAssumption DEF Types
<1>2. room >= 0
  BY <1>1, LenProperties, LprpsAssumption DEF Types
<1>3. toPrinter' = toPrinter \o Data(n) /\ left' = left - n
  BY DEF SendSelect, Data
<1>4. n \in 0..left /\ (AfterRead.flushing => n = 0) /\ Len(toPrinter) + n <= OQ
  <2>1. Len(toPrinter) \in Nat /\ OQ \in Nat
    BY LenProperties, LprpsAssumption DEF Types
  <2> QED
    BY <1>1, <1>2, <2>1
<1> QED
  BY <1>3, <1>4, Zenon

\* What block_write() leaves on the line.
LEMMA BlockWrite ==
  ASSUME Types, NEW item \in Items, block_write(item)
  PROVE  /\ toPrinter' = Append(toPrinter, item) /\ toPrinter' \in Seq(Items)
         /\ fromPrinter' = fromPrinter
         /\ Len(toPrinter') = Len(toPrinter) + 1 /\ Len(toPrinter) < OQ
         /\ toPrinter = <<>> => toPrinter' = <<item>>
  BY Queued DEF block_write, Types

\* The types are kept.
LEMMA TypesStep == Types /\ Budget /\ [Next]_vars => Types'
<1> SUFFICES ASSUME Types, Budget, [Next]_vars PROVE Types'
  OBVIOUS
<1>1. /\ toPrinter \in Seq(Items) /\ Len(toPrinter) <= OQ /\ fromPrinter \in Seq(Bytes)
      /\ printer \in Printers /\ pc \in Labels /\ polling \in BOOLEAN /\ which \in {"start", "end"}
      /\ left \in Nat /\ v \in Vars /\ ~v.flushing /\ sig \in Signals
  BY DEF Types
<1>2. /\ <<>> \in Seq(Items) /\ <<>> \in Seq(Bytes) /\ Len(<<>>) <= OQ
      /\ EOF \in Items /\ "^T" \in Items /\ "^C" \in Items /\ "query" \in Items
  BY LprpsAssumption DEF Items
<1>3. AfterRead \in Vars /\ \E w \in Vars : w = [AfterRead EXCEPT !.flushing = FALSE] /\ ~w.flushing
  BY ReadNow
<1>4. /\ \A job \in BOOLEAN : init_input(v, job) \in Vars /\ ~init_input(v, job).flushing
      /\ \A ignore \in BOOLEAN : upto_eof(v, ignore) \in Vars /\ ~upto_eof(v, ignore).flushing
      /\ ~AfterRead.flushing =>
            init_input(AfterRead, TRUE) \in Vars /\ ~init_input(AfterRead, TRUE).flushing
  <2>1. \A u \in Vars : \A job \in BOOLEAN :
            init_input(u, job) \in Vars /\ init_input(u, job).flushing = u.flushing
    BY InitInput
  <2>2. \A ignore \in BOOLEAN :
            upto_eof(v, ignore) \in Vars /\ upto_eof(v, ignore).flushing = v.flushing
    BY <1>1, UptoEofIs
  <2> QED
    BY <1>1, <1>3, <2>1, <2>2
<1>5. /\ set_alrm(sig) \in Signals /\ clear_alrm(sig) \in Signals
      /\ \A x \in Signals : /\ [x EXCEPT !.sigint = "ignored"] \in Signals
                            /\ [x EXCEPT !.sigint = "caught"] \in Signals
                            /\ [x EXCEPT !.intr = FALSE] \in Signals
  BY <1>1 DEF set_alrm, clear_alrm, Signals
<1> DEFINE Line == toPrinter' \in Seq(Items) /\ Len(toPrinter') <= OQ /\ fromPrinter' \in Seq(Bytes)
           Control == pc' \in Labels /\ polling' \in BOOLEAN /\ which' \in {"start", "end"}
           Rest == /\ printer' \in Printers /\ left' \in Nat
                   /\ v' \in Vars /\ ~v'.flushing /\ sig' \in Signals
<1> SUFFICES Line /\ Control /\ Rest
  BY DEF Types
<1>6. ASSUME tty_flush PROVE Line
  BY <1>2, <1>6 DEF tty_flush
<1>7. ASSUME NEW item \in Items, block_write(item) PROVE Line
  <2>1. Len(toPrinter) \in Nat /\ OQ \in Nat
    BY <1>1, LenProperties, LprpsAssumption
  <2>2. PICK n \in Nat : n = Len(toPrinter) /\ OQ \in Nat
    BY <2>1
  <2>3. /\ toPrinter' \in Seq(Items) /\ fromPrinter' = fromPrinter
        /\ Len(toPrinter') = Len(toPrinter) + 1 /\ Len(toPrinter) < OQ
    BY <1>7, BlockWrite, Zenon
  <2> QED
    BY <1>1, <2>2, <2>3
<1>8. ASSUME UNCHANGED line PROVE Line
  BY <1>1, <1>8 DEF line
<1>9. ASSUME fromPrinter' = <<>>, UNCHANGED toPrinter PROVE Line
  BY <1>1, <1>2, <1>9
<1> HIDE DEF Line
<1>10. CASE StatusFlush \/ PageFlush
  BY <1>1, <1>5, <1>6, <1>10 DEF StatusFlush, PageFlush, Transition, world, Labels, Writing
<1>11. CASE StatusWrite
  BY <1>1, <1>2, <1>4, <1>7, <1>11 DEF StatusWrite, Transition, world, Labels, Reading
<1>12. CASE StatusEof
  <2>1. Line
    BY <1>2, <1>7, <1>12 DEF StatusEof, block_write
  <2> QED
    BY <1>1, <1>12, <2>1 DEF StatusEof, Labels
<1>13. CASE PageWrite
  <2>1. Line
    BY <1>2, <1>7, <1>13 DEF PageWrite
  <2>2. PICK u \in Vars : u = init_input(v, FALSE) /\ ~u.flushing
    BY <1>4
  <2>3. [u EXCEPT ![which] = -1] \in Vars /\ ~[u EXCEPT ![which] = -1].flushing
    <3>1. PICK n \in Int : n = -1
      OBVIOUS
    <3>2. [u EXCEPT ![which] = n] \in Vars /\ [u EXCEPT ![which] = n].flushing = u.flushing
      <4>1. PICK f \in {"start", "end"} : f = which
        BY <1>1
      <4>2. [u EXCEPT ![f] = n] \in Vars /\ [u EXCEPT ![f] = n].flushing = u.flushing
        BY CountIs
      <4> QED
        BY <4>1, <4>2
    <3> QED
      BY <2>2, <3>1, <3>2
  <2> QED
    BY <1>1, <1>13, <2>1, <2>2, <2>3 DEF PageWrite, Transition, world, Labels, Reading
<1>14. CASE PageEof \/ SendEof \/ IntrEof \/ FlushEof
  <2>1. Line
    BY <1>2, <1>7, <1>14 DEF PageEof, SendEof, IntrEof, FlushEof
  <2> QED
    BY <1>1, <1>4, <1>14, <2>1
    DEF PageEof, SendEof, IntrEof, FlushEof, Transition, world, Labels, Reading
<1>15. CASE SendCheck \/ IntrReset
  BY <1>1, <1>5, <1>8, <1>15 DEF SendCheck, IntrReset, Transition, world, Labels
<1>16. CASE SendSelect
  <2>1. PICK n \in 0..left :
            /\ toPrinter' = toPrinter \o Data(n) /\ left' = left - n
            /\ Len(toPrinter) + n <= OQ
    BY <1>16, SendIs
  <2>2. toPrinter' \in Seq(Items) /\ Len(toPrinter') <= OQ
    <3>1. n \in Nat
      BY <1>1, <2>1
    <3> QED
      BY <1>1, <2>1, <3>1, DataIs
  <2>3. Line
    BY <1>2, <1>16, <2>2 DEF Line, SendSelect
  <2>4. left' \in Nat
    BY <1>1, <2>1
  <2>5. pc' \in Labels /\ UNCHANGED <<printer, polling, which, sig>>
        /\ v' = [AfterRead EXCEPT !.flushing = FALSE]
    BY <1>16 DEF SendSelect, Labels, Writing
  <2> QED
    BY <1>1, <1>3, <2>3, <2>4, <2>5
<1>17. CASE IntrClear \/ FlushClear
  BY <1>1, <1>5, <1>6, <1>17 DEF IntrClear, FlushClear, Transition, world, Labels, Writing
<1>18. CASE IntrWrite
  BY <1>1, <1>2, <1>7, <1>18 DEF IntrWrite, Transition, world, Labels, Writing
<1>19. CASE Check \/ CheckIntr \/ CheckAlrm
  BY <1>1, <1>8, <1>19 DEF Check, CheckIntr, CheckAlrm, Exit, world, Labels
<1>20. CASE ReadOn \/ StatusRead \/ PageRead \/ PageUpto \/ UptoEof
  <2>1. SomeInput /\ Line /\ polling' \in BOOLEAN
    <3>1. SomeInput
      BY <1>20 DEF ReadOn, StatusRead, PageRead, PageUpto, UptoEof, ReadEnds
    <3> QED
      BY <1>9, <3>1 DEF SomeInput
  <2>2. UNCHANGED <<printer, left>>
    BY <2>1 DEF SomeInput, world
  <2>3. CASE ReadOn
    BY <1>1, <1>3, <2>1, <2>2, <2>3 DEF ReadOn, Labels
  <2>4. CASE StatusRead
    BY <1>1, <1>3, <1>5, <2>1, <2>2, <2>4 DEF StatusRead, ReadEnds, Labels, Writing
  <2>5. CASE PageRead
    BY <1>1, <1>3, <2>1, <2>2, <2>5 DEF PageRead, ReadEnds, Labels, Writing
  <2>6. CASE PageUpto
    <3>1. [clear_alrm(sig) EXCEPT !.sigint = "caught"] \in Signals
      BY <1>5
    <3> QED
      BY <1>1, <1>3, <1>4, <1>5, <2>1, <2>2, <2>6, <3>1 DEF PageUpto, ReadEnds, Labels
  <2>7. CASE UptoEof
    BY <1>1, <1>3, <1>5, <2>1, <2>2, <2>7 DEF UptoEof, ReadEnds, Labels
  <2> QED
    BY <1>20, <2>3, <2>4, <2>5, <2>6, <2>7
<1>21. CASE StatusBusy
  BY <1>1, <1>8, <1>21 DEF StatusBusy, Exit, Labels
<1>22. CASE DoAcct
  BY <1>1, <1>8, <1>22 DEF DoAcct, Transition, Labels
<1>23. ASSUME NEW s \in {"intr", "alrm"}, SignalBetween(s) \/ SignalInSelect(s) \/ SignalInWrite(s)
       PROVE  Line /\ Control /\ Rest
  <2>1. sig' \in Signals
    BY <1>1, <1>23 DEF SignalBetween, SignalInSelect, SignalInWrite, Caught, Signals
  <2> QED
    BY <1>1, <1>8, <1>23, <2>1 DEF SignalBetween, SignalInSelect, SignalInWrite, Labels
<1>24. CASE Killed
  BY <1>1, <1>8, <1>24 DEF Killed, Labels
<1>25. CASE PrinterSends
  <2>1. /\ Head(printer.sending) \in Bytes /\ Tail(printer.sending) \in Seq(Bytes)
    BY <1>1, <1>25, Dequeued DEF PrinterSends, Printers
  <2>2. Append(fromPrinter, Head(printer.sending)) \in Seq(Bytes)
    BY <1>1, <2>1, Queued
  <2>3. [printer EXCEPT !.sending = Tail(@)] \in Printers
    BY <1>1, <2>1 DEF Printers
  <2> QED
    BY <1>1, <1>25, <2>2, <2>3 DEF PrinterSends, Line
<1>26. CASE PrinterReads
  <2>1. PICK item \in Items : item = Head(toPrinter)
    BY <1>1, <1>26, Dequeued DEF PrinterReads
  <2>2. printer' \in Printers
    BY <1>26, <2>1, HandlesIs DEF PrinterReads
  <2>3. Tail(toPrinter) \in Seq(Items) /\ Len(Tail(toPrinter)) <= OQ
    <3>1. PICK n \in Nat : n = Len(toPrinter) /\ Tail(toPrinter) \in Seq(Items)
               /\ Len(Tail(toPrinter)) = n - 1
      BY <1>1, <1>26, Dequeued DEF PrinterReads
    <3>2. OQ \in Nat
      BY LprpsAssumption
    <3> QED
      BY <1>1, <3>1, <3>2
  <2> QED
    BY <1>1, <1>26, <2>2, <2>3 DEF PrinterReads, Line
<1>27. CASE PrinterDies
  <2>1. [printer EXCEPT !.state = "dead", !.sending = <<>>] \in Printers
    BY <1>1, <1>2 DEF Printers
  <2> QED
    BY <1>1, <1>8, <1>27, <2>1 DEF PrinterDies, Becomes
<1>28. CASE UNCHANGED vars
  BY <1>1, <1>8, <1>28 DEF vars, line
<1> QED
  BY <1>10, <1>11, <1>12, <1>13, <1>14, <1>15, <1>16, <1>17, <1>18, <1>19, <1>20, <1>21, <1>22,
     <1>23, <1>24, <1>25, <1>26, <1>27, <1>28
  DEF Next, Daemon, GetStatus, GetPage, Send, HandleIntr, PrinterFlushing, ProcSomeInput, Printer

\* No alarm is set at first.
LEMMA AlarmsInit == Init => Alarms
<1>1. Len(<<>>) = 0 /\ <<>> = <<>>
  OBVIOUS
<1> QED
  BY <1>1 DEF Init, Alarms, EXIT_THROW_AWAY

\* An alarm goes off where the line has room.
LEMMA AlarmsStep == Types /\ Alarms /\ [Next]_vars => Alarms'
<1> SUFFICES ASSUME Types, Alarms, [Next]_vars PROVE Alarms'
  OBVIOUS
<1>1. /\ pc \in Labels /\ sig \in Signals /\ toPrinter \in Seq(Items) /\ Len(toPrinter) \in Nat
      /\ OQ \in Nat /\ OQ > 1
  BY LenProperties, LprpsAssumption DEF Types
<1>2. Len(<<>>) = 0 /\ EXIT_THROW_AWAY # EXIT_REPRINT /\ EXIT_THROW_AWAY # EXIT_SUCCESS
  BY DEF EXIT_THROW_AWAY, EXIT_REPRINT, EXIT_SUCCESS
<1>3. /\ EOF \in Items /\ "^T" \in Items /\ "^C" \in Items /\ "query" \in Items
  BY DEF Items
<1>4. ASSUME NEW item \in Items, block_write(item)
      PROVE  Len(toPrinter') = Len(toPrinter) + 1
  BY <1>4, BlockWrite
<1>5. set_alrm(sig).alrm = FALSE /\ clear_alrm(sig).alrm = FALSE /\ clear_alrm(sig).timer = FALSE
  BY <1>1 DEF set_alrm, clear_alrm, Signals
<1>6. CASE StatusFlush \/ PageFlush \/ IntrClear \/ FlushClear
  BY <1>1, <1>2, <1>5, <1>6
  DEF StatusFlush, PageFlush, IntrClear, FlushClear, tty_flush, Transition, world, Alarms, Signals
<1>7. CASE StatusWrite \/ PageWrite \/ IntrWrite \/ IntrEof \/ SendEof \/ PageEof \/ FlushEof
  <2>1. Len(toPrinter') = Len(toPrinter) + 1
    BY <1>3, <1>4, <1>7 DEF StatusWrite, PageWrite, IntrWrite, IntrEof, SendEof, PageEof, FlushEof
  <2>2. pc \in {"status.write", "page.write", "intr.write"} => Len(toPrinter) = 0
    BY <1>2 DEF Alarms
  <2>3. exit' = exit /\ pc # "exited" /\ pc' \notin {"send.check", "send.select", "send.eof"}
    BY <1>7
    DEF StatusWrite, PageWrite, IntrWrite, IntrEof, SendEof, PageEof, FlushEof, Transition, world
  <2>4. pc' \notin {"status.write", "page.write", "intr.write", "flush.eof"}
    BY <1>7 DEF StatusWrite, PageWrite, IntrWrite, IntrEof, SendEof, PageEof, FlushEof, Transition
  <2>5. pc' \in {"status.read", "status.eof", "page.read", "page.eof", "intr.eof"} =>
            pc \in {"status.write", "page.write", "intr.write"}
    BY <1>7 DEF StatusWrite, PageWrite, IntrWrite, IntrEof, SendEof, PageEof, FlushEof, Transition
  <2>6. Len(toPrinter') <= 1 \/ pc \notin {"status.write", "page.write", "intr.write"}
    BY <2>1, <2>2
  <2> QED
    BY <2>3, <2>4, <2>5, <2>6 DEF Alarms
<1>8. CASE StatusEof
  BY <1>2, <1>8 DEF StatusEof, Alarms
<1>9. CASE SendCheck \/ IntrReset
  BY <1>1, <1>9 DEF SendCheck, IntrReset, Transition, world, line, Alarms, Signals
<1>10. CASE SendSelect
  BY <1>10 DEF SendSelect, Alarms
<1>11. CASE Check \/ CheckIntr \/ CheckAlrm
  BY <1>1, <1>2, <1>11 DEF Check, CheckIntr, CheckAlrm, Exit, Reading, world, line, Alarms
<1>12. CASE ReadOn
  BY <1>1, <1>12 DEF ReadOn, SomeInput, Reading, world, Alarms
<1>13. CASE StatusRead \/ PageRead \/ PageUpto \/ UptoEof
  <2>1. toPrinter' = toPrinter /\ exit' = exit
    BY <1>13 DEF StatusRead, PageRead, PageUpto, UptoEof, ReadEnds, SomeInput, world
  <2>2. pc' # "exited" /\ pc # "exited"
    BY <1>13 DEF StatusRead, PageRead, PageUpto, UptoEof, ReadEnds
  <2>3. CASE StatusRead
    BY <1>1, <1>5, <2>1, <2>2, <2>3 DEF StatusRead, ReadEnds, Alarms
  <2>4. CASE PageRead
    BY <1>1, <1>5, <2>1, <2>2, <2>4 DEF PageRead, ReadEnds, Alarms
  <2>5. CASE PageUpto
    <3>1. LET s == [clear_alrm(sig) EXCEPT !.sigint = "caught"] IN s.alrm = FALSE /\ s.timer = FALSE
      BY <1>1 DEF clear_alrm, Signals
    <3> QED
      BY <1>1, <1>5, <2>1, <2>2, <2>5, <3>1 DEF PageUpto, ReadEnds, Alarms
  <2>6. CASE UptoEof
    BY <1>1, <1>5, <2>1, <2>2, <2>6 DEF UptoEof, ReadEnds, Alarms
  <2> QED
    BY <1>13, <2>3, <2>4, <2>5, <2>6
<1>14. CASE StatusBusy \/ DoAcct
  BY <1>1, <1>2, <1>14 DEF StatusBusy, DoAcct, Transition, Exit, Alarms
<1>15. ASSUME NEW s \in {"intr", "alrm"}, SignalBetween(s)
       PROVE  Alarms'
  BY <1>1, <1>15 DEF SignalBetween, Caught, CanCome, line, Alarms, Signals
<1>16. ASSUME NEW s \in {"intr", "alrm"}, SignalInSelect(s)
       PROVE  Alarms'
  BY <1>1, <1>2, <1>16 DEF SignalInSelect, Caught, CanCome, line, Alarms, Signals, Reading
<1>17. ASSUME NEW s \in {"intr", "alrm"}, SignalInWrite(s)
       PROVE  Alarms'
  <2>1. pc = "send.eof"
    BY <1>1, <1>2, <1>17 DEF SignalInWrite, Alarms, Writing
  <2> QED
    BY <1>1, <1>17, <2>1 DEF SignalInWrite, Caught, CanCome, line, Alarms, Signals
<1>18. CASE Killed
  BY <1>1, <1>18 DEF Killed, Alarms, line
<1>19. CASE PrinterSends \/ PrinterDies
  BY <1>19 DEF PrinterSends, PrinterDies, Alarms, line
<1>20. CASE PrinterReads
  <2>1. Len(toPrinter') = Len(toPrinter) - 1 /\ toPrinter # <<>>
    BY <1>1, <1>20, Dequeued DEF PrinterReads
  <2> QED
    BY <1>1, <1>20, <2>1 DEF PrinterReads, Alarms
<1>21. CASE UNCHANGED vars
  BY <1>21 DEF vars, line, Alarms
<1> QED
  BY <1>6, <1>7, <1>8, <1>9, <1>10, <1>11, <1>12, <1>13, <1>14, <1>15, <1>16, <1>17, <1>18,
     <1>19, <1>20, <1>21
  DEF Next, Daemon, GetStatus, GetPage, Send, HandleIntr, PrinterFlushing, ProcSomeInput, Printer

\* "printer not responding" is never taken for an error that throws the job away.
LEMMA AlarmReprints == Types /\ Alarms => TimeoutReprints
  BY DEF Alarms, TimeoutReprints
----------------------------------------------------------------------------
\* Nothing is written at first.
LEMMA BudgetInit == Init => Budget
<1> SUFFICES ASSUME Init PROVE Budget
  OBVIOUS
<1>1. Len(toPrinter) = 0 /\ printer.pages = 0 /\ left = JobLen /\ JobLen \in Nat
  BY LprpsAssumption DEF Init
<1> QED
  BY <1>1 DEF Budget

\* The printer prints no more pages than the job has writes.
LEMMA BudgetStep == Types /\ Budget /\ Order /\ [Next]_vars => Budget'
<1> SUFFICES ASSUME Types, Budget, Order, [Next]_vars PROVE Budget'
  OBVIOUS
<1>1. PICK n \in 0..Len(toPrinter) :
          /\ \A i \in 1..Len(toPrinter) : toPrinter[i] = "data" <=> i <= n
          /\ printer.pages + n + left <= JobLen
  BY DEF Budget
<1>2. /\ toPrinter \in Seq(Items) /\ Len(toPrinter) \in Nat /\ left \in Nat /\ printer.pages \in Nat
      /\ JobLen \in Nat /\ printer \in Printers
  BY LenProperties, LprpsAssumption DEF Types, Printers
<1>3. ASSUME toPrinter' = toPrinter, printer'.pages = printer.pages, left' = left
      PROVE  Budget'
  BY <1>1, <1>3 DEF Budget
<1>4. ASSUME toPrinter' = <<>>, printer'.pages = printer.pages, left' = left
      PROVE  Budget'
  <2>1. Len(<<>>) = 0
    OBVIOUS
  <2>2. printer.pages + 0 + left <= JobLen
    BY <1>1, <1>2
  <2> QED
    BY <1>4, <2>1, <2>2 DEF Budget
<1>5. ASSUME NEW item \in Items, item # "data", toPrinter' = Append(toPrinter, item),
             printer' = printer, left' = left
      PROVE  Budget'
  <2>1. PICK k \in Nat : k = Len(toPrinter)
    BY <1>2
  <2>2. PICK r \in Seq(Items) :
            /\ r = toPrinter' /\ Len(r) = k + 1 /\ r[k + 1] = item
            /\ \A i \in 1..k : r[i] = toPrinter[i]
    BY <1>2, <1>5, <2>1, Queued
  <2>3. n \in 0..k + 1 /\ n <= k
    BY <1>1, <2>1
  <2>4. \A i \in 1..k + 1 : r[i] = "data" <=> i <= n
    <3> TAKE i \in 1..k + 1
    <3>1. CASE i \in 1..k
      BY <1>1, <2>1, <2>2, <3>1
    <3>2. CASE i = k + 1
      BY <1>5, <2>2, <2>3, <3>2
    <3> QED
      BY <3>1, <3>2
  <2> QED
    BY <1>1, <1>5, <2>2, <2>3, <2>4 DEF Budget
<1>6. CASE SendSelect
  <2>1. PICK m \in 0..left : toPrinter' = toPrinter \o Data(m) /\ left' = left - m
    BY <1>6, SendIs
  <2>2. PICK k \in Nat : k = Len(toPrinter)
    BY <1>2
  <2>3. PICK r \in Seq(Items) :
            /\ r = toPrinter' /\ Len(r) = k + m
            /\ \A i \in 1..k : r[i] = toPrinter[i]
            /\ \A i \in k + 1..k + m : r[i] = "data"
    <3>1. m \in Nat
      BY <1>2, <2>1
    <3>2. PICK r : r = toPrinter'
      OBVIOUS
    <3>3. r = toPrinter \o Data(m)
      BY <2>1, <3>2
    <3>4. /\ r \in Seq(Items) /\ Len(r) = k + m
          /\ \A i \in 1..k : r[i] = toPrinter[i]
          /\ \A i \in k + 1..k + m : r[i] = "data"
      <4>1. PICK q \in Seq(Items) : q = toPrinter
        BY <1>2
      <4>2. k = Len(q) /\ r = q \o Data(m)
        BY <2>2, <3>3, <4>1
      <4>3. DataBehind(r, q, k, m)
        BY <3>1, <4>2, DataQueued
      <4> QED
        BY <4>1, <4>3 DEF DataBehind
    <3> QED
      BY <3>2, <3>4
  <2>4. \A i \in 1..k : toPrinter[i] = "data"
    BY <1>6, <2>2 DEF SendSelect, Order, Sending
  <2>5. n = k
    BY <1>1, <2>2, <2>4
  <2>6. \A i \in 1..k + m : r[i] = "data" <=> i <= k + m
    <3> TAKE i \in 1..k + m
    <3>1. i \in 1..k \/ i \in k + 1..k + m
      BY <2>1, <2>2
    <3> QED
      BY <2>3, <2>4, <3>1
  <2>7. k + m \in 0..k + m /\ printer.pages + (k + m) + (left - m) <= JobLen /\ printer' = printer
    BY <1>1, <1>2, <1>6, <2>1, <2>2, <2>5 DEF SendSelect
  <2> QED
    BY <2>1, <2>3, <2>6, <2>7 DEF Budget
<1>7. CASE PrinterReads
  <2>1. PICK item \in Items : item = Head(toPrinter) /\ item = toPrinter[1]
    BY <1>2, <1>7, Dequeued DEF PrinterReads
  <2>2. /\ item # "data" => printer'.pages = printer.pages
        /\ item = "data" => printer'.pages \in printer.pages..printer.pages + 1
    <3>1. Handles(item) /\ printer.state # "dead" /\ printer.sending = <<>>
      BY <1>7, <2>1 DEF PrinterReads
    <3> QED
      BY <3>1, HandlesIs
  <2>3. PICK k \in Nat : k = Len(toPrinter) /\ k > 0
    BY <1>2, <1>7, Dequeued DEF PrinterReads
  <2>4. PICK r \in Seq(Items) :
            r = toPrinter' /\ Len(r) = k - 1 /\ \A i \in 1..k - 1 : r[i] = toPrinter[i + 1]
    BY <1>2, <1>7, <2>3, Dequeued DEF PrinterReads
  <2>5. PICK m \in Nat : m = IF n = 0 THEN 0 ELSE n - 1
    BY <1>1, <2>3
  <2>6. m \in 0..k - 1 /\ \A i \in 1..k - 1 : i <= m <=> i + 1 <= n
    BY <1>1, <2>3, <2>5
  <2>7. \A i \in 1..k - 1 : r[i] = "data" <=> i <= m
    <3> TAKE i \in 1..k - 1
    <3>1. i + 1 \in 1..k
      BY <2>3
    <3> QED
      BY <1>1, <2>3, <2>4, <2>6, <3>1
  <2>8. item = "data" <=> 1 <= n
    BY <1>1, <2>1, <2>3
  <2>9. printer'.pages + m + left <= JobLen
    BY <1>1, <1>2, <2>2, <2>3, <2>5, <2>8
  <2>10. left' = left
    BY <1>7 DEF PrinterReads
  <2> QED
    BY <2>4, <2>6, <2>7, <2>9, <2>10 DEF Budget
<1>8. CASE StatusFlush \/ PageFlush \/ IntrClear \/ FlushClear
  BY <1>4, <1>8 DEF StatusFlush, PageFlush, IntrClear, FlushClear, tty_flush, world
<1>9. CASE \/ StatusWrite \/ PageWrite \/ IntrWrite \/ IntrEof \/ SendEof \/ PageEof
           \/ FlushEof \/ StatusEof
  <2>1. /\ EOF \in Items \ {"data"} /\ "^T" \in Items \ {"data"} /\ "^C" \in Items \ {"data"}
        /\ "query" \in Items \ {"data"}
    BY DEF Items, EOF
  <2> QED
    BY <1>5, <1>9, <2>1
    DEF StatusWrite, PageWrite, IntrWrite, IntrEof, SendEof, PageEof, FlushEof, StatusEof,
        block_write, world
<1>10. CASE SendCheck \/ IntrReset \/ Check \/ CheckIntr \/ CheckAlrm
  BY <1>3, <1>10 DEF SendCheck, IntrReset, Check, CheckIntr, CheckAlrm, Exit, world, line
<1>11. CASE ReadOn \/ StatusRead \/ PageRead \/ PageUpto \/ UptoEof \/ StatusBusy \/ DoAcct
  BY <1>3, <1>11
  DEF ReadOn, StatusRead, PageRead, PageUpto, UptoEof, StatusBusy, DoAcct, ReadEnds, SomeInput,
      Exit,
      Transition, world, line
<1>12. ASSUME NEW s \in {"intr", "alrm"}, SignalBetween(s) \/ SignalInSelect(s) \/ SignalInWrite(s)
       PROVE  Budget'
  BY <1>3, <1>12 DEF SignalBetween, SignalInSelect, SignalInWrite, line
<1>13. CASE Killed \/ PrinterSends \/ PrinterDies
  BY <1>2, <1>3, <1>13 DEF Killed, PrinterSends, PrinterDies, Becomes, line, Printers
<1>14. CASE UNCHANGED vars
  BY <1>3, <1>14 DEF vars, line
<1> QED
  BY <1>6, <1>7, <1>8, <1>9, <1>10, <1>11, <1>12, <1>13, <1>14
  DEF Next, Daemon, GetStatus, GetPage, Send, HandleIntr, PrinterFlushing, ProcSomeInput, Printer

\* Ends of file in two queues.
LEMMA EofConcat ==
  ASSUME NEW X, NEW f \in Seq(X), NEW g \in Seq(X)
  PROVE  /\ NoEof(f \o g) <=> NoEof(f) /\ NoEof(g)
         /\ OnlyLast(f \o g) => OnlyLast(f) /\ OnlyLast(g) /\ (NoEof(f) \/ g = <<>>)
         /\ NoEof(f) /\ OnlyLast(g) => OnlyLast(f \o g)
         /\ NoEof(f) => OnlyLast(f)
<1>1. PICK r \in Seq(X), m \in Nat, n \in Nat :
          /\ r = f \o g /\ m = Len(f) /\ n = Len(g) /\ Len(r) = m + n
          /\ \A i \in 1..m : r[i] = f[i]
          /\ \A i \in 1..n : r[m + i] = g[i]
          /\ \A i \in 1..m + n : r[i] = IF i <= m THEN f[i] ELSE g[i - m]
  <2>1. /\ f \o g \in Seq(X) /\ Len(f \o g) = Len(f) + Len(g) /\ Len(f) \in Nat /\ Len(g) \in Nat
        /\ \A i \in 1..Len(f) + Len(g) : (f \o g)[i] = IF i <= Len(f) THEN f[i] ELSE g[i - Len(f)]
    BY ConcatProperties, LenProperties
  <2>2. /\ \A i \in 1..Len(f) : (f \o g)[i] = f[i]
        /\ \A i \in 1..Len(g) : (f \o g)[Len(f) + i] = g[i]
    BY <2>1
  <2> QED
    BY <2>1, <2>2
<1>2. \A i \in 1..m + n : (i \in 1..m /\ i <= m) \/ (i > m /\ i - m \in 1..n)
  OBVIOUS
<1>3. ASSUME NoEof(f), NoEof(g) PROVE NoEof(r)
  BY <1>1, <1>2, <1>3 DEF NoEof
<1>4. ASSUME NoEof(r) PROVE NoEof(f) /\ NoEof(g)
  <2>1. \A i \in 1..n : g[i] # EOF
    <3> TAKE i \in 1..n
    <3>1. PICK j \in 1..m + n : j = m + i
      OBVIOUS
    <3>2. r[j] # EOF
      BY <1>1, <1>4 DEF NoEof
    <3> QED
      BY <1>1, <3>1, <3>2
  <2>2. \A i \in 1..m : f[i] # EOF
    <3> TAKE i \in 1..m
    <3>1. i \in 1..m + n
      OBVIOUS
    <3> QED
      BY <1>1, <1>4, <3>1 DEF NoEof
  <2> QED
    BY <1>1, <2>1, <2>2 DEF NoEof
<1>5. ASSUME OnlyLast(r) PROVE OnlyLast(f) /\ OnlyLast(g) /\ (NoEof(f) \/ g = <<>>)
  <2>1. \A i \in 1..m : i \in 1..m + n /\ (f[i] = EOF => i = m + n)
    BY <1>1, <1>5 DEF OnlyLast
  <2>2. \A i \in 1..n : g[i] = EOF => i = n
    <3> TAKE i \in 1..n
    <3>1. m + i \in 1..m + n /\ (m + i = m + n => i = n)
      OBVIOUS
    <3> QED
      BY <1>1, <1>5, <3>1 DEF OnlyLast
  <2>3. \A i \in 1..m : i = m + n => n = 0 /\ i = m
    OBVIOUS
  <2>4. n = 0 => g = <<>>
    BY <1>1, EmptySeq
  <2> QED
    BY <1>1, <2>1, <2>2, <2>3, <2>4 DEF OnlyLast, NoEof
<1>6. ASSUME NoEof(f), OnlyLast(g) PROVE OnlyLast(r)
  <2>1. \A i \in 1..m + n : r[i] = EOF => i > m /\ i - m \in 1..n /\ g[i - m] = EOF
    BY <1>1, <1>2, <1>6 DEF NoEof
  <2>2. \A i \in 1..m + n : r[i] = EOF => i - m = n
    BY <1>1, <1>6, <2>1 DEF OnlyLast
  <2> QED
    BY <1>1, <2>2 DEF OnlyLast
<1>7. NoEof(f) => OnlyLast(f)
  BY DEF NoEof, OnlyLast
<1> QED
  BY <1>1, <1>3, <1>4, <1>5, <1>6, <1>7

\* What is written and taken.
LEMMA QueueWritten ==
  ASSUME NEW X, NEW q \in Seq(X), NEW c \in X
  PROVE  /\ NoData(q) /\ c # "data" => NoData(Append(q, c))
         /\ NoEof(q) /\ c # EOF => NoEof(Append(q, c))
         /\ NoEof(q) => OnlyLast(Append(q, c))
<1>1. PICK r \in Seq(X), n \in Nat :
          /\ r = Append(q, c) /\ n = Len(q) /\ Len(r) = n + 1 /\ r[n + 1] = c
          /\ \A i \in 1..n : r[i] = q[i]
  <2>1. /\ Append(q, c) \in Seq(X) /\ Len(q) \in Nat
        /\ Len(Append(q, c)) = Len(q) + 1 /\ Append(q, c)[Len(q) + 1] = c
        /\ \A i \in 1..Len(q) : Append(q, c)[i] = q[i]
    BY Queued
  <2> QED
    BY <2>1, Zenon
<1>2. \A i \in 1..n + 1 : i \in 1..n \/ i = n + 1
  OBVIOUS
<1> QED
  BY <1>1, <1>2 DEF NoData, NoEof, OnlyLast

\* Taking the first off a queue keeps what is said of all in it.
LEMMA QueueTaken ==
  ASSUME NEW X, NEW q \in Seq(X), q # <<>>
  PROVE  /\ NoData(q) => NoData(Tail(q)) /\ Head(q) # "data"
         /\ NoEof(q) => NoEof(Tail(q)) /\ Head(q) # EOF
         /\ OnlyLast(q) => OnlyLast(Tail(q)) /\ (Head(q) = EOF => Tail(q) = <<>>)
         /\ (\A i \in 1..Len(q) : q[i] = "data") => \A i \in 1..Len(Tail(q)) : Tail(q)[i] = "data"
<1>1. PICK r \in Seq(X), n \in Nat :
          /\ r = Tail(q) /\ Len(q) = n + 1 /\ Len(r) = n /\ Head(q) = q[1]
          /\ \A i \in 1..n : r[i] = q[i + 1]
  <2>1. PICK n \in Nat : Len(q) = n + 1 /\ n = Len(q) - 1
    <3>1. PICK k \in Nat \ {0} : k = Len(q)
      BY Dequeued
    <3>2. k - 1 \in Nat /\ k = (k - 1) + 1
      OBVIOUS
    <3> QED
      BY <3>1, <3>2
  <2>2. /\ Head(q) = q[1] /\ Tail(q) \in Seq(X) /\ Len(Tail(q)) = n
        /\ \A i \in 1..n : Tail(q)[i] = q[i + 1]
    BY <2>1, Dequeued
  <2> QED
    BY <2>1, <2>2, Zenon
<1>2. \A i \in 1..n : i + 1 \in 1..n + 1 /\ (i + 1 = n + 1 => i = n)
  OBVIOUS
<1>3. 1 \in 1..n + 1 /\ (1 = n + 1 => r = <<>>)
  BY <1>1, EmptySeq
<1>4. NoData(q) => NoData(r) /\ q[1] # "data"
  BY <1>1, <1>2, <1>3 DEF NoData
<1>5. NoEof(q) => NoEof(r) /\ q[1] # EOF
  BY <1>1, <1>2, <1>3 DEF NoEof
<1>6. OnlyLast(q) => OnlyLast(r) /\ (q[1] = EOF => r = <<>>)
  BY <1>1, <1>2, <1>3 DEF OnlyLast
<1>7. (\A i \in 1..Len(q) : q[i] = "data") => \A i \in 1..Len(r) : r[i] = "data"
  BY <1>1, <1>2
<1> QED
  BY <1>1, <1>4, <1>5, <1>6, <1>7
----------------------------------------------------------------------------
\* What is under way to the daemon.
LEMMA IncomingType ==
  ASSUME Types
  PROVE  /\ fromPrinter \in Seq(Bytes) /\ printer.sending \in Seq(Bytes) /\ Incoming \in Seq(Bytes)
         /\ Incoming = fromPrinter \o printer.sending
         /\ printer.sending = <<>> => Incoming = fromPrinter
<1>1. fromPrinter \in Seq(Bytes) /\ printer.sending \in Seq(Bytes)
  BY DEF Types, Printers
<1> QED
  BY <1>1, ConcatProperties, ConcatEmptySeq DEF Incoming

\* A character that goes from the printer to the line stays under way.
LEMMA IncomingSent ==
  ASSUME Types, PrinterSends
  PROVE  Incoming' = Incoming
<1>1. /\ fromPrinter \in Seq(Bytes) /\ printer.sending \in Seq(Bytes) /\ printer \in Printers
      /\ printer.sending # <<>>
  BY DEF Types, Printers, PrinterSends
<1>2. PICK c \in Bytes, t \in Seq(Bytes) :
          c = Head(printer.sending) /\ t = Tail(printer.sending) /\ printer.sending = <<c>> \o t
  <2>1. Head(printer.sending) \in Bytes /\ Tail(printer.sending) \in Seq(Bytes)
    BY <1>1, Dequeued
  <2>2. printer.sending = <<Head(printer.sending)>> \o Tail(printer.sending)
    BY <1>1
  <2> QED
    BY <2>1, <2>2
<1>3. fromPrinter' = Append(fromPrinter, c) /\ printer'.sending = t
  BY <1>1, <1>2 DEF PrinterSends, Printers
<1>4. Append(fromPrinter, c) = fromPrinter \o <<c>> /\ <<c>> \in Seq(Bytes)
  BY <1>1, AppendIsConcat
<1>5. (fromPrinter \o <<c>>) \o t = fromPrinter \o (<<c>> \o t)
  BY <1>1, <1>4, ConcatAssociative
<1> QED
  BY <1>2, <1>3, <1>4, <1>5 DEF Incoming

\* After a read or a flush only what the printer has not sent yet is under way.
LEMMA IncomingRead ==
  ASSUME Types, fromPrinter' = <<>>, printer' = printer
  PROVE  Incoming' = printer.sending
<1>1. printer.sending \in Seq(Bytes)
  BY DEF Types, Printers
<1>2. <<>> \o printer.sending = printer.sending
  BY <1>1, ConcatEmptySeq
<1> QED
  BY <1>2 DEF Incoming

\* Reading keeps what the input does not act on.
LEMMA ReadKeeps ==
  ASSUME NEW u \in Vars, NEW s \in Seq(Bytes)
  PROVE  Read(u, s).ignore = u.ignore /\ Read(u, s).in_job = u.in_job
<1> DEFINE U == {w \in Vars : w.ignore = u.ignore /\ w.in_job = u.in_job}
<1>1. \A w \in U : \A c \in Bytes : proc_input_char(w, c) \in U
  BY CharType, CharKeeps
<1> HIDE DEF U
<1>2. u \in U
  BY DEF U
<1>3. Read(u, s) \in U
  BY <1>1, <1>2, ReadStays
<1> QED
  BY <1>3 DEF U

\* When the loop that waits for an end of file ends, it has been read.
LEMMA EofRead ==
  ASSUME Types, ~v.eof, AfterRead.eof
  PROVE  ~NoEof(fromPrinter) /\ ~NoEof(Incoming)
<1>1. ~NoEof(fromPrinter)
  BY ReadNow, ReadEof DEF Types
<1> QED
  BY <1>1, IncomingType, EofConcat

\* No part of the job and no end of file is under way at first.
LEMMA JobInit == Init => Job
<1> SUFFICES ASSUME Init PROVE Job
  OBVIOUS
<1>1. NoData(<<>>) /\ NoEof(<<>>)
  BY DEF NoData, NoEof
<1>2. NoEof(Incoming)
  <2>1. NoEof(Msg("Flushing")) /\ Msg("Flushing") \in Seq(Chars)
    BY NoEofMsg, LprpsAssumption
  <2>2. <<>> \o Msg("Flushing") = Msg("Flushing") /\ <<>> \o <<>> = <<>>
    BY <2>1, ConcatEmptySeq
  <2> QED
    BY <1>1, <2>1, <2>2 DEF Init, Incoming
<1> QED
  BY <1>1, <1>2 DEF Init, Job, BeforeEof, AfterEof, Sending

\* The job goes to the printer before its end of file, and what comes back after
\* that ends with the answer to it.
LEMMA JobStep == Types /\ Budget /\ Job /\ [Next]_vars /\ ~printer'.forged => Job'
<1> SUFFICES ASSUME Types, Budget, Job, [Next]_vars, ~printer'.forged PROVE Job'
  OBVIOUS
<1>1. /\ toPrinter \in Seq(Items) /\ fromPrinter \in Seq(Bytes) /\ printer.sending \in Seq(Bytes)
      /\ v \in Vars /\ ~v.flushing /\ which \in {"start", "end"} /\ pc \in Labels
  BY DEF Types, Printers
<1>2. /\ NoData(<<>>) /\ NoEof(<<>>) /\ EOF \in Items /\ "^T" \in Items /\ "^C" \in Items
      /\ "query" \in Items /\ "data" # EOF /\ "^T" # EOF /\ "^C" # EOF /\ "query" # EOF
  BY DEF NoData, NoEof, Items, EOF
<1>3. Incoming \in Seq(Bytes) /\ Incoming = fromPrinter \o printer.sending
  BY IncomingType
<1>4. /\ NoEof(Incoming) => NoEof(printer.sending)
      /\ OnlyLast(Incoming) => OnlyLast(printer.sending)
      /\ OnlyLast(Incoming) /\ ~NoEof(fromPrinter) => printer.sending = <<>>
  BY <1>1, <1>3, EofConcat
<1>5. ASSUME fromPrinter' = <<>>, printer' = printer
      PROVE  Incoming' = printer.sending
  BY <1>5, IncomingRead
<1>6. ASSUME UNCHANGED <<fromPrinter, printer>>
      PROVE  Incoming' = Incoming
  BY <1>6 DEF Incoming
<1>7. ASSUME NEW item \in Items, block_write(item)
      PROVE  /\ NoData(toPrinter) /\ item # "data" => NoData(toPrinter')
             /\ NoEof(toPrinter) /\ item # EOF => NoEof(toPrinter')
             /\ NoEof(toPrinter) => OnlyLast(toPrinter')
             /\ fromPrinter' = fromPrinter
  BY <1>1, <1>7, QueueWritten DEF block_write
<1>8. AfterRead \in Vars /\ AfterRead.ignore = v.ignore
  BY <1>1, ReadNow, ReadKeeps
<1>9. ASSUME UNCHANGED <<toPrinter, fromPrinter, printer, v, which>>,
             pc' = pc \/ pc' \in {"exited", "intr"}
      PROVE  Job'
  BY <1>6, <1>9 DEF Job, BeforeEof, AfterEof, Sending
<1>10. CASE StatusFlush \/ PageFlush
  <2>1. /\ toPrinter' = <<>> /\ Incoming' = printer.sending /\ UNCHANGED <<which, v>>
        /\ \/ pc = "status" /\ pc' = "status.write"
           \/ pc = "page" /\ pc' = "page.write"
    BY <1>5, <1>10 DEF StatusFlush, PageFlush, Transition, tty_flush, world
  <2> QED
    BY <1>2, <1>4, <2>1 DEF Job, BeforeEof, AfterEof, Sending
<1>11. CASE StatusWrite \/ PageWrite
  <2>1. /\ NoData(toPrinter) => NoData(toPrinter')
        /\ NoEof(toPrinter) => NoEof(toPrinter')
        /\ Incoming' = Incoming /\ UNCHANGED which
        /\ \/ pc = "status.write" /\ pc' = "status.read"
           \/ pc = "page.write" /\ pc' = "page.read"
    BY <1>2, <1>6, <1>7, <1>11 DEF StatusWrite, PageWrite, Transition, world
  <2> QED
    BY <2>1 DEF Job, BeforeEof, AfterEof, Sending
<1>12. CASE PageEof \/ SendEof
  <2>1. /\ NoData(toPrinter) => NoData(toPrinter')
        /\ NoEof(toPrinter) => OnlyLast(toPrinter')
        /\ Incoming' = Incoming /\ UNCHANGED which
        /\ ~v'.eof
        /\ \/ pc = "page.eof" /\ pc' = "page.upto"
           \/ pc = "send.eof" /\ pc' = "send.upto"
    BY <1>1, <1>2, <1>6, <1>7, <1>12, UptoEofIs DEF PageEof, SendEof, Transition, world
  <2>2. NoEof(Incoming) => OnlyLast(Incoming)
    BY <1>3, EofConcat DEF NoEof, OnlyLast
  <2> QED
    BY <1>1, <2>1, <2>2 DEF Job, BeforeEof, AfterEof, Sending
<1>13. CASE IntrWrite
  <2>1. (NoData(toPrinter) => NoData(toPrinter')) /\ pc = "intr.write" /\ pc' = "intr.eof"
    BY <1>2, <1>7, <1>13 DEF IntrWrite, Transition
  <2> QED
    BY <2>1 DEF Job, BeforeEof, AfterEof, Sending
<1>14. CASE IntrEof \/ FlushEof
  <2>1. /\ NoData(toPrinter) => NoData(toPrinter')
        /\ \/ pc = "intr.eof" /\ pc' = "intr.upto"
           \/ pc = "flush.eof" /\ pc' = "flush.upto"
        /\ v'.ignore /\ ~v'.eof
    BY <1>1, <1>2, <1>7, <1>14, UptoEofIs DEF IntrEof, FlushEof, Transition
  <2> QED
    BY <2>1 DEF Job, BeforeEof, AfterEof, Sending
<1>15. CASE IntrClear \/ FlushClear
  <2>1. toPrinter' = <<>> /\ pc' \in {"intr.write", "flush.eof"}
    BY <1>15 DEF IntrClear, FlushClear, Transition, tty_flush
  <2> QED
    BY <1>2, <2>1 DEF Job, BeforeEof, AfterEof, Sending
<1>16. CASE StatusEof \/ StatusBusy \/ DoAcct \/ CheckAlrm \/ Killed \/ IntrReset
  <2>1. pc' \in {"exited", "intr.clear"}
    BY <1>16 DEF StatusEof, StatusBusy, DoAcct, CheckAlrm, Killed, IntrReset, Exit, Transition
  <2> QED
    BY <2>1 DEF Job, BeforeEof, AfterEof, Sending
<1>17. CASE SendCheck
  <2>1. pc = "send.check" /\ pc' \in {"intr", "send.select"} /\ UNCHANGED <<toPrinter, which>>
        /\ Incoming' = Incoming
    BY <1>6, <1>17 DEF SendCheck, Transition, line, world
  <2> QED
    BY <2>1 DEF Job, BeforeEof, AfterEof, Sending
<1>18. CASE SendSelect
  <2>1. pc = "send.select" /\ pc' \in {"flush", "send.eof", "send.check"} /\ UNCHANGED which
        /\ Incoming' = printer.sending
    BY <1>5, <1>18 DEF SendSelect
  <2>2. \A i \in 1..Len(toPrinter) : toPrinter[i] = "data"
    BY <2>1 DEF Job, Sending
  <2>3. PICK r \in Seq(Items) : r = toPrinter' /\ \A i \in 1..Len(r) : r[i] = "data"
    <3>1. PICK m \in Nat : toPrinter' = toPrinter \o Data(m)
      <4>1. \A m \in 0..left : m \in Nat
        BY DEF Types
      <4> QED
        BY <1>18, <4>1, SendIs
    <3>2. PICK k \in Nat : k = Len(toPrinter)
      BY <1>1, LenProperties
    <3>3. PICK r : r = toPrinter' /\ r = toPrinter \o Data(m)
      BY <3>1
    <3>5. /\ r \in Seq(Items) /\ Len(r) = k + m
          /\ \A i \in 1..k : r[i] = toPrinter[i]
          /\ \A i \in k + 1..k + m : r[i] = "data"
      <4>1. PICK q \in Seq(Items) : q = toPrinter
        BY <1>1
      <4>2. k = Len(q) /\ r = q \o Data(m)
        BY <3>2, <3>3, <4>1
      <4>3. DataBehind(r, q, k, m)
        BY <4>2, DataQueued
      <4> QED
        BY <4>1, <4>3 DEF DataBehind
    <3>4. \A i \in 1..k + m : i \in 1..k \/ i \in k + 1..k + m
      OBVIOUS
    <3>6. \A i \in 1..k + m : r[i] = "data"
      BY <2>2, <3>2, <3>4, <3>5
    <3> QED
      BY <3>3, <3>5, <3>6
  <2>4. NoEof(r)
    BY <1>2, <2>3 DEF NoEof
  <2>5. NoEof(printer.sending) /\ which = "start"
    BY <1>4, <2>1 DEF Job, BeforeEof, Sending
  <2> QED
    BY <2>1, <2>3, <2>4, <2>5 DEF Job, BeforeEof, AfterEof, Sending
<1>19. CASE Check \/ CheckIntr
  BY <1>9, <1>19 DEF Check, CheckIntr, line, world
<1>20. CASE ReadOn
  <2>1. /\ UNCHANGED <<toPrinter, which>> /\ Incoming' = printer.sending
        /\ pc \in Reading
        /\ pc' = IF AfterRead.flushing THEN "flush" ELSE pc
        /\ AfterRead.flushing \/ ~LoopEnds(AfterRead)
        /\ v'.ignore = v.ignore /\ v'.eof = AfterRead.eof
    BY <1>5, <1>8, <1>20 DEF ReadOn, SomeInput, world, Vars
  <2>2. CASE pc' = "flush"
    BY <2>2 DEF Job, BeforeEof, AfterEof, Sending
  <2>3. CASE pc' = pc
    <3>1. pc \in {"send.upto", "page.upto", "intr.upto", "flush.upto"} => ~v'.eof
      BY <2>1, <2>3 DEF LoopEnds, Reading
    <3> QED
      BY <1>2, <1>4, <2>1, <2>3, <3>1 DEF Job, BeforeEof, AfterEof, Sending
  <2> QED
    BY <2>1, <2>2, <2>3
<1>21. CASE StatusRead \/ PageRead
  <2>1. UNCHANGED <<toPrinter, which>> /\ Incoming' = printer.sending
        /\ \/ pc = "status.read" /\ pc' \in {"page", "status.eof"}
           \/ pc = "page.read" /\ pc' = "page.eof"
    BY <1>5, <1>21 DEF StatusRead, PageRead, ReadEnds, SomeInput, world
  <2> QED
    BY <1>4, <2>1 DEF Job, BeforeEof, AfterEof, Sending
<1>22. CASE PageUpto \/ UptoEof
  <2>1. UNCHANGED toPrinter /\ Incoming' = printer.sending
        /\ AfterRead.eof
        /\ \/ pc = "page.upto" /\ which = "start" /\ pc' = "send.check" /\ UNCHANGED which
           \/ pc = "page.upto" /\ which # "start" /\ pc' = "acct"
           \/ pc \in {"send.upto", "intr.upto", "flush.upto"} /\ pc' = "page" /\ which' = "end"
    BY <1>5, <1>22 DEF PageUpto, UptoEof, ReadEnds, SomeInput, LoopEnds, world
  <2>2. AfterEof => toPrinter = <<>> /\ printer.sending = <<>>
    <3>1. SUFFICES ASSUME AfterEof PROVE toPrinter = <<>> /\ printer.sending = <<>>
      OBVIOUS
    <3>2. ~v.eof /\ OnlyLast(Incoming) /\ (~NoEof(Incoming) => toPrinter = <<>>)
      BY <3>1 DEF Job
    <3> QED
      BY <1>4, <2>1, <3>2, EofRead
  <2>3. AfterEof => \A i \in 1..Len(toPrinter) : toPrinter[i] = "data"
    BY <2>2
  <2> QED
    BY <1>2, <2>1, <2>2, <2>3 DEF Job, BeforeEof, AfterEof, Sending
<1>23. ASSUME NEW s \in {"intr", "alrm"}, SignalBetween(s) \/ SignalInSelect(s) \/ SignalInWrite(s)
       PROVE  Job'
  BY <1>9, <1>23 DEF SignalBetween, SignalInSelect, SignalInWrite, line
<1>24. CASE PrinterSends
  <2>1. Incoming' = Incoming /\ UNCHANGED <<toPrinter, pc, v, which>>
    BY <1>24, IncomingSent DEF PrinterSends
  <2> QED
    BY <2>1 DEF Job, BeforeEof, AfterEof, Sending
<1>25. CASE PrinterReads
  <2>1. PICK q \in Seq(Items) :
            /\ q = toPrinter'
            /\ NoData(toPrinter) => NoData(q)
            /\ NoEof(toPrinter) => NoEof(q) /\ Head(toPrinter) # EOF
            /\ OnlyLast(toPrinter) => OnlyLast(q) /\ (Head(toPrinter) = EOF => q = <<>>)
            /\ (\A i \in 1..Len(toPrinter) : toPrinter[i] = "data") =>
                  \A i \in 1..Len(q) : q[i] = "data"
    <3>1. toPrinter # <<>> /\ toPrinter' = Tail(toPrinter) /\ Tail(toPrinter) \in Seq(Items)
      BY <1>1, <1>25, Dequeued DEF PrinterReads
    <3> QED
      BY <1>1, <3>1, QueueTaken, Zenon
  <2>2. PICK item \in Items : item = Head(toPrinter)
    BY <1>1, <1>25, Dequeued DEF PrinterReads
  <2>3. /\ item # EOF => NoEof(printer'.sending)
        /\ item = EOF => printer'.sending = <<EOF>>
        /\ printer' \in Printers
    BY <1>25, <2>2, HandlesIs DEF PrinterReads
  <2>4. PICK t \in Seq(Bytes) : t = printer'.sending
    BY <2>3 DEF Printers
  <2>5. Incoming' = fromPrinter \o t /\ Incoming = fromPrinter /\ UNCHANGED <<pc, v, which>>
        /\ toPrinter # <<>>
    <3>1. Incoming = fromPrinter
      BY <1>25, IncomingType DEF PrinterReads
    <3> QED
      BY <1>25, <2>4, <3>1 DEF PrinterReads, Incoming
  <2>6. PICK x : x = Incoming' /\ x = fromPrinter \o t
    BY <2>5
  <2>7. OnlyLast(t) /\ (item # EOF => NoEof(t))
    <3>1. OnlyLast(<<EOF>>)
      BY DEF OnlyLast
    <3>2. NoEof(t) => OnlyLast(t)
      BY DEF NoEof, OnlyLast
    <3> QED
      BY <2>3, <2>4, <3>1, <3>2
  <2>8. /\ NoEof(fromPrinter) => OnlyLast(x)
        /\ NoEof(fromPrinter) /\ item # EOF => NoEof(x)
    BY <1>1, <2>6, <2>7, EofConcat
  <2>9. BeforeEof => NoEof(q) /\ NoEof(x)
    BY <2>1, <2>2, <2>5, <2>8 DEF Job
  <2>10. AfterEof => /\ ~v.eof /\ OnlyLast(q) /\ OnlyLast(x)
                     /\ ~NoEof(x) => q = <<>>
    BY <2>1, <2>2, <2>5, <2>8 DEF Job
  <2> QED
    BY <2>1, <2>5, <2>6, <2>9, <2>10 DEF Job, BeforeEof, AfterEof, Sending
<1>26. CASE PrinterDies
  <2>1. UNCHANGED <<toPrinter, pc, v, which>> /\ Incoming' = fromPrinter \o <<>>
    BY <1>26 DEF PrinterDies, Becomes, line, Incoming, Types, Printers
  <2>2. Incoming' = fromPrinter
    BY <1>1, <2>1, ConcatEmptySeq
  <2>3. /\ NoEof(Incoming) => NoEof(fromPrinter)
        /\ OnlyLast(Incoming) => OnlyLast(fromPrinter)
    BY <1>1, <1>3, EofConcat
  <2> QED
    BY <2>1, <2>2, <2>3 DEF Job, BeforeEof, AfterEof, Sending
<1>27. CASE UNCHANGED vars
  BY <1>9, <1>27 DEF vars, line
<1> QED
  BY <1>10, <1>11, <1>12, <1>13, <1>14, <1>15, <1>16, <1>17, <1>18, <1>19, <1>20, <1>21, <1>22,
     <1>23, <1>24, <1>25, <1>26, <1>27
  DEF Next, Daemon, GetStatus, GetPage, Send, HandleIntr, PrinterFlushing, ProcSomeInput, Printer

\* What is forged stays so.
LEMMA ForgedStays ==
  ASSUME Types, Budget, [Next]_vars
  PROVE  /\ printer.forged => printer'.forged
         /\ printer'.forged /\ ~printer.forged => PrinterReads /\ Head(toPrinter) = "data"
<1>1. CASE PrinterReads
  <2>1. PICK item \in Items : item = Head(toPrinter)
    BY <1>1, Dequeued DEF PrinterReads, Types
  <2> QED
    BY <1>1, <2>1, HandlesIs DEF PrinterReads
<1>2. CASE PrinterSends \/ PrinterDies
  BY <1>2 DEF PrinterSends, PrinterDies, Becomes, Types, Printers
<1>3. CASE UNCHANGED printer
  BY <1>3
<1> QED
  BY <1>1, <1>2, <1>3
  DEF Next, Daemon, GetStatus, StatusFlush, StatusWrite, StatusRead, StatusBusy,
      StatusEof, GetPage, PageFlush, PageWrite, PageRead, PageEof, PageUpto, Send, SendCheck,
      SendSelect, SendEof, HandleIntr, IntrReset, IntrClear, IntrWrite, IntrEof,
      PrinterFlushing, FlushClear, FlushEof, ProcSomeInput, Check, CheckIntr, CheckAlrm,
      ReadOn, SomeInput, UptoEof, DoAcct, Exit, SignalBetween, SignalInSelect,
      SignalInWrite, Killed, Printer, ReadEnds, vars, world

LEMMA OrderInit == Init => Order
  BY DEF Init, Order, Sending

\* What is before the job and in send_file() is so whatever the job does.
LEMMA OrderStep == Types /\ Budget /\ JobInv /\ [Next]_vars => JobInv'
<1> SUFFICES ASSUME Types, Budget, JobInv, [Next]_vars PROVE JobInv'
  OBVIOUS
<1>1. ASSUME ~printer'.forged PROVE Job' /\ Order'
  <2>1. Job'
    BY <1>1, ForgedStays, JobStep DEF JobInv
  <2> QED
    BY <1>1, <2>1 DEF Job, Order
<1>2. ASSUME printer'.forged PROVE Order'
  <2>1. Early' => Early
    BY DEF Early, Types, Next, Daemon, GetStatus, StatusFlush, StatusWrite, StatusRead, StatusBusy,
         StatusEof, GetPage, PageFlush, PageWrite, PageRead, PageEof, PageUpto, Send, SendCheck,
         SendSelect, SendEof, HandleIntr, IntrReset, IntrClear, IntrWrite, IntrEof,
         PrinterFlushing, FlushClear, FlushEof, ProcSomeInput, Check, CheckIntr, CheckAlrm,
         ReadOn, SomeInput, UptoEof, DoAcct, Exit, SignalBetween, SignalInSelect,
         SignalInWrite, Killed, Printer, PrinterSends, PrinterReads, PrinterDies, ReadEnds,
         Transition, Reading, Writing, vars, world
  <2>2. Early => ~printer'.forged
    <3>1. Early => ~printer.forged /\ NoData(toPrinter)
      BY DEF JobInv, Order, Early, Job, Sending
    <3>2. NoData(toPrinter) /\ PrinterReads => Head(toPrinter) # "data"
      BY Dequeued DEF NoData, PrinterReads, Types
    <3> QED
      BY <3>1, <3>2, ForgedStays
  <2>3. ~Early
    BY <1>2, <2>2
  <2>4. ASSUME pc' \in Sending PROVE \A i \in 1..Len(toPrinter') : toPrinter'[i] = "data"
    <3>1. toPrinter \in Seq(Items)
      BY DEF Types
    <3>2. CASE PrinterReads
      <4>1. toPrinter # <<>> /\ toPrinter' = Tail(toPrinter) /\ pc \in Sending
        BY <2>4, <3>2 DEF PrinterReads
      <4> QED
        BY <3>1, <4>1, QueueTaken DEF JobInv, Order
    <3>3. CASE SendSelect
      <4>1. PICK m \in Nat : toPrinter' = toPrinter \o Data(m)
        <5>1. left \in Nat
          BY DEF Types
        <5> QED
          BY <3>3, <5>1, SendIs
      <4>2. PICK q \in Seq(Items), k \in Nat : q = toPrinter /\ k = Len(q)
        BY <3>1, LenProperties
      <4>3. PICK x : x = toPrinter'
        OBVIOUS
      <4>4. DataBehind(x, q, k, m)
        BY <4>1, <4>2, <4>3, DataQueued
      <4>5. \A i \in 1..k : q[i] = "data"
        BY <3>3, <4>2 DEF JobInv, Order, SendSelect, Sending
      <4>6. \A i \in 1..k + m : i \in 1..k \/ i \in k + 1..k + m
        BY <4>1, <4>2
      <4> QED
        BY <4>3, <4>4, <4>5, <4>6 DEF DataBehind
    <3>4. CASE PageUpto
      BY <2>3, <2>4, <3>4 DEF PageUpto, ReadEnds, Early, Sending
    <3>5. CASE UNCHANGED toPrinter /\ pc \in Sending
      BY <3>5 DEF JobInv, Order
    <3> QED
      BY <2>4, <3>2, <3>3, <3>4, <3>5
      DEF Next, Daemon, GetStatus, StatusFlush, StatusWrite, StatusRead, StatusBusy,
          StatusEof, GetPage, PageFlush, PageWrite, PageRead, PageEof, Send, SendCheck,
          SendEof, HandleIntr, IntrReset, IntrClear, IntrWrite, IntrEof,
          PrinterFlushing, FlushClear, FlushEof, ProcSomeInput, Check, CheckIntr, CheckAlrm,
          ReadOn, SomeInput, UptoEof, DoAcct, Exit, SignalBetween, SignalInSelect,
          SignalInWrite, Killed, Printer, PrinterSends, PrinterDies, ReadEnds,
          Transition, Reading, Sending, vars, world, line
  <2> QED
    BY <2>1, <2>3, <2>4 DEF Order
<1> QED
  BY <1>1, <1>2 DEF JobInv

\* The history agrees with the parser at first.
LEMMA HonestInit == Init => Honest(v)
  BY DEF Init, Honest, NewParser

\* The history of v follows what is read.
LEMMA HonestStep == Types /\ Honest(v) /\ [Next]_vars => Honest(v)'
<1> SUFFICES ASSUME Types, Honest(v), [Next]_vars PROVE Honest(v')
  OBVIOUS
<1>1. v \in Vars /\ fromPrinter \in Seq(Bytes) /\ which \in {"start", "end"}
  BY DEF Types
<1>2. Honest(AfterRead) /\ AfterRead \in Vars
  BY <1>1, ReadNow, ReadHonest
<1>3. ASSUME NEW u \in Vars, Honest(u)
      PROVE  Honest([u EXCEPT !.flushing = FALSE])
  BY <1>3 DEF Honest, Vars
<1>4. ASSUME NEW u \in Vars, NEW job \in BOOLEAN
      PROVE  Honest(init_input(u, job)) /\ Honest([init_input(u, job) EXCEPT ![which] = -1])
  <2>1. PICK w \in Vars : w = init_input(u, job) /\ Honest(w)
    BY InitInput
  <2>2. PICK n \in Int : n = -1
    OBVIOUS
  <2>3. Honest([w EXCEPT ![which] = n])
    BY <1>1, <2>1, CountIs DEF Honest
  <2> QED
    BY <2>1, <2>2, <2>3
<1>5. ASSUME NEW ignore \in BOOLEAN
      PROVE  Honest(upto_eof(v, ignore))
  BY <1>1, UptoEofIs DEF Honest
<1>6. ASSUME UNCHANGED v PROVE Honest(v')
  BY <1>6
<1>7. CASE GetStatus
  BY <1>1, <1>2, <1>4, <1>6, <1>7
  DEF GetStatus, StatusFlush, StatusWrite, StatusRead, StatusBusy, StatusEof, Exit
<1>8. CASE GetPage
  <2>1. CASE PageFlush
    BY <2>1 DEF PageFlush
  <2>2. CASE PageWrite
    BY <1>1, <1>4, <2>2 DEF PageWrite
  <2>3. CASE PageRead \/ PageUpto
    BY <1>2, <1>4, <2>3 DEF PageRead, PageUpto
  <2>4. CASE PageEof
    BY <1>5, <2>4 DEF PageEof
  <2> QED
    BY <1>8, <2>1, <2>2, <2>3, <2>4 DEF GetPage
<1>9. CASE Send
  BY <1>2, <1>3, <1>5, <1>9 DEF Send, SendCheck, SendSelect, SendEof
<1>10. CASE HandleIntr \/ PrinterFlushing
  BY <1>5, <1>10
  DEF HandleIntr, IntrReset, IntrClear, IntrWrite, IntrEof, PrinterFlushing, FlushClear, FlushEof
<1>11. CASE ProcSomeInput \/ UptoEof \/ DoAcct
  BY <1>2, <1>3, <1>11 DEF ProcSomeInput, Check, CheckIntr, CheckAlrm, Exit, ReadOn, UptoEof, DoAcct
<1>12. ASSUME NEW s \in {"intr", "alrm"}, SignalBetween(s) \/ SignalInSelect(s) \/ SignalInWrite(s)
       PROVE  Honest(v')
  BY <1>12 DEF SignalBetween, SignalInSelect, SignalInWrite
<1>13. CASE Killed \/ Printer \/ PrinterDies
  BY <1>13 DEF Killed, Printer, PrinterSends, PrinterReads, PrinterDies
<1>14. CASE UNCHANGED vars
  BY <1>14 DEF vars
<1> QED
  BY <1>7, <1>8, <1>9, <1>10, <1>11, <1>12, <1>13, <1>14 DEF Next, Daemon

\* A queue of one.
LEMMA Single ==
  ASSUME NEW X, NEW q \in Seq(X), Len(q) = 1
  PROVE  q = <<q[1]>>
  OBVIOUS

\* Beginnings and ends of short queues.
LEMMA Short ==
  ASSUME NEW f \in Seq(Bytes), NEW g \in Seq(Bytes)
  PROVE  /\ f \o g = <<>> => f = <<>> /\ g = <<>>
         /\ f \o g = <<EOF>> => g \in {<<>>, <<EOF>>} /\ (f # <<>> => f = <<EOF>> /\ g = <<>>)
         /\ f \o g = <<EOF, EOF>> /\ f # <<>> => g \in {<<>>, <<EOF>>} /\ ~NoEof(f)
<1>1. PICK r \in Seq(Bytes), m \in Nat, n \in Nat :
          /\ r = f \o g /\ m = Len(f) /\ n = Len(g) /\ Len(r) = m + n
          /\ \A i \in 1..m + n : r[i] = IF i <= m THEN f[i] ELSE g[i - m]
  <2>1. /\ f \o g \in Seq(Bytes) /\ Len(f \o g) = Len(f) + Len(g) /\ Len(f) \in Nat
           /\ Len(g) \in Nat
        /\ \A i \in 1..Len(f) + Len(g) : (f \o g)[i] = IF i <= Len(f) THEN f[i] ELSE g[i - Len(f)]
    BY ConcatProperties, LenProperties
  <2> QED
    BY <2>1, Zenon
<1>2. (m = 0 => f = <<>>) /\ (n = 0 => g = <<>>) /\ (f # <<>> => m > 0)
  BY <1>1, EmptySeq
<1>3. ASSUME r = <<>> PROVE f = <<>> /\ g = <<>>
  <2>1. m = 0 /\ n = 0
    BY <1>1, <1>3
  <2> QED
    BY <1>2, <2>1
<1>4. ASSUME r = <<EOF>>
      PROVE  g \in {<<>>, <<EOF>>} /\ (f # <<>> => f = <<EOF>> /\ g = <<>>)
  <2>1. m + n = 1 /\ r[1] = EOF /\ 1 \in 1..m + n
    BY <1>1, <1>4
  <2>2. CASE m = 0
    <3>1. n = 1 /\ g[1] = EOF
      <4>1. n = 1 /\ ~(1 <= m) /\ 1 - m = 1
        BY <2>1, <2>2
      <4> QED
        BY <1>1, <2>1, <4>1
    <3>2. g = <<EOF>>
      BY <1>1, <3>1, Single
    <3> QED
      BY <1>2, <2>2, <3>2
  <2>3. CASE m = 1
    <3>1. n = 0 /\ f[1] = EOF
      BY <1>1, <2>1, <2>3
    <3>2. f = <<EOF>>
      BY <1>1, <2>3, <3>1, Single
    <3> QED
      BY <1>2, <3>1, <3>2
  <2> QED
    BY <2>1, <2>2, <2>3
<1>5. ASSUME r = <<EOF, EOF>>, f # <<>>
      PROVE  g \in {<<>>, <<EOF>>} /\ ~NoEof(f)
  <2>1. m + n = 2 /\ r[1] = EOF /\ r[2] = EOF /\ 1 \in 1..m + n /\ 2 \in 1..m + n
    BY <1>1, <1>5
  <2>2. m > 0
    BY <1>2, <1>5
  <2>3. f[1] = EOF /\ 1 \in 1..m
    BY <1>1, <2>1, <2>2
  <2>4. ~NoEof(f)
    BY <1>1, <2>3 DEF NoEof
  <2>5. CASE m = 1
    <3>1. n = 1 /\ g[1] = EOF
      BY <1>1, <2>1, <2>5
    <3>2. g = <<EOF>>
      BY <1>1, <3>1, Single
    <3> QED
      BY <2>4, <3>2
  <2>6. CASE m = 2
    BY <1>2, <2>1, <2>4, <2>6
  <2> QED
    BY <2>1, <2>2, <2>5, <2>6
<1> QED
  BY <1>1, <1>3, <1>4, <1>5

\* The end of a queue, and what is not in it.
LEMMA LastConcat ==
  ASSUME NEW f \in Seq(Bytes), NEW g \in Seq(Bytes)
  PROVE  /\ f \o g \in Seq(Bytes)
         /\ g # <<>> => f \o g # <<>> /\ (f \o g)[Len(f \o g)] = g[Len(g)]
         /\ g = <<>> => f \o g = f
         /\ f = <<>> => f \o g = g
         /\ Mute(f \o g) <=> Mute(f) /\ Mute(g)
<1>1. PICK r \in Seq(Bytes), m \in Nat, n \in Nat :
          /\ r = f \o g /\ m = Len(f) /\ n = Len(g) /\ Len(r) = m + n
          /\ \A i \in 1..m + n : r[i] = IF i <= m THEN f[i] ELSE g[i - m]
  <2>1. /\ f \o g \in Seq(Bytes) /\ Len(f \o g) = Len(f) + Len(g) /\ Len(f) \in Nat
           /\ Len(g) \in Nat
        /\ \A i \in 1..Len(f) + Len(g) : (f \o g)[i] = IF i <= Len(f) THEN f[i] ELSE g[i - Len(f)]
    BY ConcatProperties, LenProperties
  <2> QED
    BY <2>1, Zenon
<1>2. ASSUME g # <<>> PROVE r # <<>> /\ r[Len(r)] = g[n]
  <2>1. n > 0
    BY <1>1, <1>2, EmptySeq
  <2>2. m + n \in 1..m + n /\ ~(m + n <= m) /\ (m + n) - m = n
    BY <2>1
  <2>3. r[m + n] = g[n]
    BY <1>1, <2>2
  <2>4. r # <<>>
    <3>1. Len(r) # 0
      BY <1>1, <2>1
    <3> QED
      BY <3>1, EmptySeq
  <2> QED
    BY <1>1, <2>3, <2>4
<1>3. ASSUME Mute(r) PROVE Mute(f) /\ Mute(g)
  <2>1. \A i \in 1..n : g[i] \notin Telling
    <3> TAKE i \in 1..n
    <3>1. PICK j \in 1..m + n : j = m + i /\ ~(j <= m) /\ j - m = i
      OBVIOUS
    <3>2. r[j] \notin Telling /\ r[j] = g[i]
      BY <1>1, <1>3, <3>1 DEF Mute
    <3> QED
      BY <3>2
  <2>2. \A i \in 1..m : f[i] \notin Telling
    <3> TAKE i \in 1..m
    <3>1. i \in 1..m + n /\ i <= m
      OBVIOUS
    <3> QED
      BY <1>1, <1>3, <3>1 DEF Mute
  <2> QED
    BY <1>1, <2>1, <2>2 DEF Mute
<1>4. ASSUME Mute(f), Mute(g) PROVE Mute(r)
  <2>1. \A i \in 1..m + n : r[i] \notin Telling
    <3> TAKE i \in 1..m + n
    <3>1. (i <= m /\ i \in 1..m) \/ (~(i <= m) /\ i - m \in 1..n)
      OBVIOUS
    <3> QED
      BY <1>1, <1>4, <3>1 DEF Mute
  <2> QED
    BY <1>1, <2>1 DEF Mute
<1>5. (g = <<>> => f \o g = f) /\ (f = <<>> => f \o g = g)
  BY ConcatEmptySeq
<1> QED
  BY <1>1, <1>2, <1>3, <1>4, <1>5

\* An end of file that has been read.
LEMMA EofIsRead ==
  ASSUME NEW u \in Vars, ~u.flushing
  PROVE  LET w == Read(u, <<EOF>>) IN
           /\ w \in Vars /\ w.eof /\ ~w.flushing
           /\ w.parser = u.parser /\ w.ignore = u.ignore
           /\ w.status = u.status /\ w.start = u.start /\ w.end = u.end
<1>1. Read(u, <<EOF>>) = [u EXCEPT !.eof = TRUE]
  <2>1. Read(u, <<EOF>>) = proc_input_char(u, EOF)
    BY ReadOne
  <2> QED
    BY <2>1 DEF proc_input_char
<1> QED
  BY <1>1 DEF Vars

\* An end of file that comes last is seen, whatever came before it.
LEMMA LastEofIsRead ==
  ASSUME NEW u \in Vars, NEW s \in Seq(Bytes), s # <<>>, s[Len(s)] = EOF, ~Read(u, s).flushing
  PROVE  Read(u, s).eof
<1>1. PICK r \in Seq(Bytes), c \in Bytes : s = Append(r, c)
  BY SequenceEmptyOrAppend
<1>2. c = EOF
  <2>1. PICK n \in Nat : n = Len(r)
    BY LenProperties
  <2>2. Len(s) = n + 1 /\ s[n + 1] = c
    BY <1>1, <2>1, AppendProperties
  <2> QED
    BY <2>2
<1>3. PICK w \in Vars : w = Read(u, r)
  BY ReadType
<1>4. Read(u, s) = proc_input_char(w, EOF)
  BY <1>1, <1>2, <1>3, ReadLast
<1> QED
  BY <1>4 DEF proc_input_char, Vars

\* Everything the steps below start from.
Before == Types /\ Alarms /\ Budget /\ Job /\ Alive /\ Answers

\* The types of what the steps below read, by name.
LEMMA BeforeIs ==
  ASSUME Before
  PROVE  /\ fromPrinter \in Seq(Bytes) /\ printer.sending \in Seq(Bytes) /\ Incoming \in Seq(Bytes)
         /\ Incoming = fromPrinter \o printer.sending
         /\ v \in Vars /\ ~v.flushing /\ v.start \in Int /\ v.end \in Int
         /\ sig \in Signals /\ printer \in Printers /\ toPrinter \in Seq(Items)
         /\ printer.pages \in 0..JobLen
         /\ AfterRead \in Vars /\ AfterRead = Read(v, fromPrinter)
         /\ v.start >= 0 => AfterRead.start = v.start
<1>1. v \in Vars => v.start \in Int /\ v.end \in Int
  BY DEF Vars
<1>2. printer.pages \in 0..JobLen
  BY LprpsAssumption, LenProperties DEF Before, Budget, Types, Printers
<1> QED
  BY <1>1, <1>2, IncomingType, ReadNow DEF Before, Types

\* What is read is a beginning of what is under way, and the rest goes on.
LEMMA RestIs ==
  ASSUME Before
  PROVE  /\ Incoming = <<>> => fromPrinter = <<>> /\ printer.sending = <<>>
         /\ Incoming = <<EOF>> /\ fromPrinter # <<>> =>
               fromPrinter = <<EOF>> /\ printer.sending = <<>>
         /\ Incoming = <<EOF>> => printer.sending \in {<<>>, <<EOF>>}
         /\ Incoming = <<EOF, EOF>> /\ fromPrinter # <<>> =>
               printer.sending \in {<<>>, <<EOF>>} /\ ~NoEof(fromPrinter)
         /\ printer.sending = <<>> => Incoming = fromPrinter
         /\ printer.sending # <<>> => Incoming[Len(Incoming)] = printer.sending[Len(printer.sending)]
         /\ fromPrinter = <<>> => Incoming = printer.sending
         /\ Mute(Incoming) <=> Mute(fromPrinter) /\ Mute(printer.sending)
         /\ NoEof(Incoming) <=> NoEof(fromPrinter) /\ NoEof(printer.sending)
         /\ OnlyLast(Incoming) => OnlyLast(printer.sending)
         /\ OnlyLast(Incoming) /\ printer.sending # <<>> => NoEof(fromPrinter)
<1>1. PICK f \in Seq(Bytes), g \in Seq(Bytes) : f = fromPrinter /\ g = printer.sending
  BY BeforeIs
<1>2. Incoming = f \o g
  BY <1>1, BeforeIs
<1>3. /\ f \o g = <<>> => f = <<>> /\ g = <<>>
      /\ f \o g = <<EOF>> => g \in {<<>>, <<EOF>>} /\ (f # <<>> => f = <<EOF>> /\ g = <<>>)
      /\ f \o g = <<EOF, EOF>> /\ f # <<>> => g \in {<<>>, <<EOF>>} /\ ~NoEof(f)
  BY <1>1, Short, Zenon
<1>4. /\ g # <<>> => f \o g # <<>> /\ (f \o g)[Len(f \o g)] = g[Len(g)]
      /\ g = <<>> => f \o g = f
      /\ f = <<>> => f \o g = g
      /\ Mute(f \o g) <=> Mute(f) /\ Mute(g)
  BY <1>1, LastConcat, Zenon
<1>5. /\ NoEof(f \o g) <=> NoEof(f) /\ NoEof(g)
      /\ OnlyLast(f \o g) => OnlyLast(f) /\ OnlyLast(g) /\ (NoEof(f) \/ g = <<>>)
  BY <1>1, EofConcat, Zenon
<1> QED
  BY <1>1, <1>2, <1>3, <1>4, <1>5

\* The same for an answer that ends a loop, part of which is read now.
LEMMA EndsNow ==
  ASSUME Before, NEW field, NEW val, Ends(v, Incoming, field, val)
  PROVE  /\ ~AfterRead.flushing
         /\ AfterRead[field] # Unset(field) => printer.sending = <<>> /\ AfterRead[field] = val
         /\ AfterRead[field] = Unset(field) => Ends(AfterRead, printer.sending, field, val)
<1>1. PICK f \in Seq(Bytes), g \in Seq(Bytes) : f = fromPrinter /\ g = printer.sending
  BY BeforeIs
<1>2. Ends(v, f \o g, field, val) /\ AfterRead = Read(v, f)
  BY <1>1, BeforeIs
<1> QED
  BY <1>1, <1>2, EndsChunk, Zenon

\* The same for input that does not end the loop for the last page.
LEMMA StuckNow ==
  ASSUME Before, Stuck(v, Incoming)
  PROVE  ~AfterRead.flushing /\ AfterRead.end = -1 /\ Stuck(AfterRead, printer.sending)
<1>1. PICK f \in Seq(Bytes), g \in Seq(Bytes) : f = fromPrinter /\ g = printer.sending
  BY BeforeIs
<1>2. Stuck(v, f \o g) /\ AfterRead = Read(v, f)
  BY <1>1, BeforeIs
<1>3. LET w == Read(v, f) IN ~w.flushing /\ w.end = -1 /\ Stuck(w, g)
  BY <1>2, StuckChunk
<1> QED
  BY <1>1, <1>2, <1>3

\* set_alrm() and clear_alrm() do not touch what SIGINT does.
LEMMA AlrmIs ==
  ASSUME NEW s \in Signals
  PROVE  /\ set_alrm(s).intr = s.intr /\ set_alrm(s).sigint = s.sigint
         /\ clear_alrm(s).intr = s.intr /\ clear_alrm(s).sigint = s.sigint
  BY DEF set_alrm, clear_alrm, Signals

----------------------------------------------------------------------------
\* get_status(): the answer is an answer to the query.
LEMMA AnswersStatus ==
  ASSUME Before, StatusFlush \/ StatusWrite \/ StatusRead
  PROVE  Answers'
<1> USE BeforeIs
<1>1. CASE StatusFlush
  <2>1. /\ pc = "status" /\ pc' = "status.write" /\ toPrinter' = <<>> /\ Incoming' = printer.sending
        /\ UNCHANGED <<printer, v, exit>> /\ sig' = set_alrm(sig)
    BY <1>1, IncomingRead DEF StatusFlush, Transition, tty_flush, world, Before
  <2>2. AtStatus /\ (~NoEof(printer.sending) => printer.sending = <<EOF>> /\ printer.state = "idle")
        /\ (exit = EXIT_SUCCESS => pc = "exited")
    BY DEF Before, Answers, AtEnd
  <2>3. Incoming = <<>> => printer.sending = <<>>
    BY RestIs
  <2>4. Mute(Incoming) => Mute(printer.sending)
    BY RestIs
  <2>5. Undisturbed' = Undisturbed /\ NoStart' = NoStart
    BY <2>1, AlrmIs DEF Undisturbed, NoStart
  <2> QED
    BY <2>1, <2>2, <2>3, <2>4, <2>5
    DEF Answers, AtStatus, AtPageStart, AtSend, AtFlush, AtPageEnd, AtEnd, Sending
<1>2. CASE StatusWrite
  <2>1. /\ pc = "status.write" /\ pc' = "status.read" /\ Incoming' = Incoming
        /\ UNCHANGED <<printer, exit, sig>> /\ block_write("^T")
        /\ v' = init_input(v, FALSE)
    BY <1>2 DEF StatusWrite, Transition, block_write, world, Incoming
  <2>2. AtStatus /\ (~NoEof(printer.sending) => printer.sending = <<EOF>> /\ printer.state = "idle")
        /\ (exit = EXIT_SUCCESS => pc = "exited")
    BY DEF Before, Answers, AtEnd
  <2>3. toPrinter' = <<"^T">>
    BY <2>1, <2>2, BlockWrite DEF AtStatus, Before, Items
  <2>4. Fresh(v') /\ v'.status = v.status /\ v'.start = v.start /\ v'.end = v.end
    BY <2>1, InitInput
  <2>5. v'.parser.msgbuf = <<>> /\ Mute(<<>>)
    BY <2>4 DEF Fresh, NewParser, Mute
  <2> QED
    BY <2>1, <2>2, <2>3, <2>4, <2>5
    DEF Answers, AtStatus, AtPageStart, AtSend, AtFlush, AtPageEnd, AtEnd, Sending, Undisturbed,
        NoStart
<1>3. CASE StatusRead
  <2>1. /\ pc = "status.read" /\ Incoming' = printer.sending /\ fromPrinter # <<>>
        /\ UNCHANGED <<printer, exit, toPrinter, which>> /\ v' = AfterRead
        /\ AfterRead.status \in {"IDLE", "WAITING"}
        /\ \/ AfterRead.status = "IDLE" /\ pc' = "page" /\ sig' = clear_alrm(sig)
           \/ AfterRead.status # "IDLE" /\ pc' = "status.eof"
    BY <1>3, IncomingRead DEF StatusRead, ReadEnds, SomeInput, world, Before
  <2>2. AtStatus /\ (~NoEof(printer.sending) => printer.sending = <<EOF>> /\ printer.state = "idle")
        /\ (exit = EXIT_SUCCESS => pc = "exited") /\ which = "start"
    BY <2>1 DEF Before, Answers, AtEnd, Job
  <2>3. CASE pc' = "status.eof"
    BY <2>1, <2>2, <2>3
    DEF Answers, AtStatus, AtPageStart, AtSend, AtFlush, AtPageEnd, AtEnd, Sending
  <2>4. CASE pc' = "page"
    <3>1. printer.state = "idle"
      <4>1. SUFFICES ASSUME printer.state # "idle" PROVE FALSE
        OBVIOUS
      <4>2. Mute(Incoming) /\ Mute(v.parser.msgbuf) /\ v.status # "IDLE"
        BY <2>1, <2>2, <4>1 DEF AtStatus
      <4>3. Mute(fromPrinter)
        BY <4>2, RestIs
      <4>4. AfterRead.status # "IDLE"
        BY <4>2, <4>3, ReadMute
      <4> QED
        BY <2>1, <2>4, <4>4
    <3>2. toPrinter = <<>> /\ Ends(v, Incoming, "status", "IDLE")
      <4>1. Incoming # <<>>
        BY <2>1, RestIs
      <4> QED
        BY <2>1, <2>2, <3>1, <4>1 DEF AtStatus
    <3>3. printer.sending = <<>>
      <4>1. AfterRead.status # Unset("status")
        BY <2>1, <2>4 DEF Unset
      <4>2. AfterRead["status"] = AfterRead.status
        OBVIOUS
      <4> QED
        BY <3>2, <4>1, <4>2, EndsNow
    <3>4. Undisturbed' /\ printer.pages = 0
      BY <2>1, <2>2, <2>4, AlrmIs DEF Undisturbed, AtStatus
    <3> QED
      BY <2>1, <2>2, <2>4, <3>1, <3>2, <3>3, <3>4
      DEF Answers, AtStatus, AtPageStart, AtSend, AtFlush, AtPageEnd, AtEnd, Sending
  <2> QED
    BY <2>1, <2>3, <2>4
<1> QED
  BY <1>1, <1>2, <1>3

\* What a step that leaves the printer and the exit code alone keeps.
LEMMA Still ==
  ASSUME Before, printer' = printer, exit' = exit, pc # "exited"
  PROVE  /\ ~NoEof(printer'.sending) => printer'.sending = <<EOF>> /\ printer'.state = "idle"
         /\ exit' # EXIT_SUCCESS
         /\ AtStatus /\ AtPageStart /\ AtSend /\ AtFlush /\ AtPageEnd /\ AtEnd
  BY DEF Before, Answers, AtEnd

\* get_page(): the answers are the ones to its query and to its end of file.
LEMMA AnswersPage ==
  ASSUME Before, GetPage
  PROVE  Answers'
<1> USE BeforeIs
<1>0. which \in {"start", "end"} /\ ("start" # "end")
  BY DEF Before, Types
<1>1. CASE PageFlush
  <2>1. /\ pc = "page" /\ pc' = "page.write" /\ toPrinter' = <<>> /\ Incoming' = printer.sending
        /\ UNCHANGED <<printer, v, exit, which>> /\ sig' = set_alrm(sig)
    BY <1>1, IncomingRead DEF PageFlush, Transition, tty_flush, world, Before
  <2>2. Undisturbed' = Undisturbed /\ NoStart' = NoStart
    BY <2>1, AlrmIs DEF Undisturbed, NoStart
  <2> QED
    BY <1>0, <2>1, <2>2, Still, RestIs
    DEF Answers, AtStatus, AtPageStart, AtSend, AtFlush, AtPageEnd, AtEnd, Sending
<1>2. CASE PageWrite
  <2>1. /\ pc = "page.write" /\ pc' = "page.read" /\ Incoming' = Incoming
        /\ UNCHANGED <<printer, exit, sig, which>> /\ block_write("query")
        /\ v' = [init_input(v, FALSE) EXCEPT ![which] = -1]
    BY <1>2 DEF PageWrite, Transition, block_write, world, Incoming
  <2>2. toPrinter = <<>>
    BY <2>1 DEF Before, Alarms
  <2>3. toPrinter' = <<"query">>
    BY <2>1, <2>2, BlockWrite DEF Before, Items
  <2>4. PICK w \in Vars :
          /\ w = init_input(v, FALSE) /\ Fresh(w)
          /\ w.status = v.status /\ w.start = v.start /\ w.end = v.end
    BY InitInput
  <2>5. PICK n \in Int : n = -1
    OBVIOUS
  <2>6. v' = [w EXCEPT ![which] = n]
    BY <2>1, <2>4, <2>5
  <2>7. /\ Fresh(v')
        /\ which = "start" => v'.start = -1
        /\ which = "end" => v'.end = -1 /\ v'.start = v.start
    <3>1. CASE which = "start"
      <4>1. v' = [w EXCEPT !.start = n]
        BY <2>6, <3>1
      <4> QED
        BY <2>4, <2>5, <3>1, <4>1 DEF Fresh, Vars
    <3>2. CASE which = "end"
      <4>1. v' = [w EXCEPT !.end = n]
        BY <2>6, <3>2
      <4> QED
        BY <2>4, <2>5, <3>2, <4>1 DEF Fresh, Vars
    <3> QED
      BY <1>0, <3>1, <3>2
  <2>8. Undisturbed' = Undisturbed
    BY <2>1 DEF Undisturbed
  <2> QED
    BY <1>0, <2>1, <2>3, <2>7, <2>8, Still
    DEF Answers, AtStatus, AtPageStart, AtSend, AtFlush, AtPageEnd, AtEnd, Sending, NoStart
<1>3. CASE PageRead
  <2>1. /\ pc = "page.read" /\ pc' = "page.eof" /\ Incoming' = printer.sending /\ fromPrinter # <<>>
        /\ UNCHANGED <<printer, exit, toPrinter, which, sig>> /\ v' = AfterRead
        /\ AfterRead[which] >= 0
    BY <1>3, IncomingRead DEF PageRead, ReadEnds, SomeInput, LoopEnds, world, Before
  <2>2. Incoming # <<>> /\ Undisturbed' = Undisturbed
    BY <2>1, RestIs DEF Undisturbed
  <2>3. AfterRead.start \in Int /\ AfterRead.end \in Int
    BY DEF Vars
  <2>4. CASE which = "start"
    <3>1. /\ printer.state = "waiting" /\ toPrinter = <<>> /\ Ends(v, Incoming, "start", 0)
          /\ printer.pages = 0 /\ Undisturbed
      BY <2>1, <2>2, <2>4, Still DEF AtPageStart
    <3>2. AfterRead["start"] # Unset("start")
      BY <2>1, <2>3, <2>4 DEF Unset
    <3>3. printer.sending = <<>> /\ AfterRead.start = 0
      BY <3>1, <3>2, EndsNow
    <3> QED
      BY <1>0, <2>1, <2>2, <2>4, <3>1, <3>3, Still
      DEF Answers, AtStatus, AtPageStart, AtSend, AtFlush, AtPageEnd, AtEnd, Sending
  <2>5. CASE which = "end"
    <3>1. AfterRead["end"] # Unset("end") /\ AfterRead.end >= 0
      BY <2>1, <2>3, <2>5 DEF Unset
    <3>2. ~Stuck(v, Incoming)
      BY <3>1, StuckNow
    <3>3. ~(Incoming = <<EOF>> /\ v.end = -1)
      <4>1. SUFFICES ASSUME Incoming = <<EOF>>, v.end = -1 PROVE FALSE
        OBVIOUS
      <4>2. AfterRead = Read(v, <<EOF>>)
        BY <2>1, <4>1, RestIs
      <4>3. AfterRead.end = -1
        BY <4>1, <4>2, EofIsRead
      <4> QED
        BY <3>1, <4>3
    <3>4. /\ printer.state = "waiting" /\ toPrinter = <<>>
          /\ v.start = 0 /\ Ends(v, Incoming, "end", printer.pages)
      BY <1>0, <2>1, <2>2, <2>5, <3>2, <3>3, Still DEF AtPageEnd
    <3>5. printer.sending = <<>> /\ AfterRead.end = printer.pages
      BY <3>1, <3>4, EndsNow
    <3>6. AfterRead.start = 0
      BY <3>4
    <3> QED
      BY <1>0, <2>1, <2>2, <2>5, <3>4, <3>5, <3>6, Still
      DEF Answers, AtStatus, AtPageStart, AtSend, AtFlush, AtPageEnd, AtEnd, Sending
  <2> QED
    BY <1>0, <2>4, <2>5
<1>4. CASE PageEof
  <2>1. /\ pc = "page.eof" /\ pc' = "page.upto" /\ Incoming' = Incoming
        /\ UNCHANGED <<printer, exit, sig, which>> /\ block_write(EOF)
        /\ v' = upto_eof(v, FALSE)
    BY <1>4 DEF PageEof, Transition, block_write, world, Incoming
  <2>2. /\ toPrinter = <<>> /\ Incoming = <<>> /\ printer.state = "waiting" /\ v.start = 0
        /\ which = "start" => printer.pages = 0 /\ Undisturbed
        /\ which = "end" => v.end = printer.pages
    BY <1>0, <2>1, Still DEF AtPageStart, AtPageEnd
  <2>3. toPrinter' = <<EOF>>
    BY <2>1, <2>2, BlockWrite DEF Before, Items
  <2>4. v'.start = v.start /\ v'.end = v.end
    BY <2>1, UptoEofIs
  <2>5. Undisturbed' = Undisturbed
    BY <2>1 DEF Undisturbed
  <2> QED
    BY <1>0, <2>1, <2>2, <2>3, <2>4, <2>5, Still
    DEF Answers, AtStatus, AtPageStart, AtSend, AtFlush, AtPageEnd, AtEnd, Sending, OneEof
<1>5. CASE PageUpto
  <2>1. /\ pc = "page.upto" /\ Incoming' = printer.sending /\ fromPrinter # <<>>
        /\ UNCHANGED <<printer, exit, toPrinter, which>>
        /\ IF which = "start" THEN v' = init_input(AfterRead, TRUE) /\ pc' = "send.check"
                              ELSE v' = AfterRead /\ pc' = "acct"
    BY <1>5, IncomingRead DEF PageUpto, ReadEnds, SomeInput, LoopEnds, world, Before
  <2>2. /\ OneEof /\ v.start = 0
        /\ which = "start" => printer.pages = 0
        /\ which = "end" => v.end = printer.pages
    BY <1>0, <2>1, Still DEF AtPageStart, AtPageEnd
  <2>3. toPrinter = <<>> /\ Incoming = <<EOF>> /\ printer.state = "idle"
    BY <2>1, <2>2, RestIs DEF OneEof
  <2>4. fromPrinter = <<EOF>> /\ printer.sending = <<>>
    BY <2>1, <2>3, RestIs
  <2>5. AfterRead.start = 0 /\ AfterRead.end = v.end
    <3>1. AfterRead = Read(v, <<EOF>>)
      BY <2>4
    <3> QED
      BY <2>2, <3>1, EofIsRead
  <2>6. CASE which = "start"
    <3>1. v'.start = 0 /\ pc' = "send.check"
      BY <2>1, <2>5, <2>6, InitInput
    <3> QED
      BY <1>0, <2>1, <2>6, <3>1, Still
      DEF Answers, AtStatus, AtPageStart, AtSend, AtFlush, AtPageEnd, AtEnd, Sending
  <2>7. CASE which = "end"
    BY <1>0, <2>1, <2>2, <2>3, <2>4, <2>5, <2>7, Still
    DEF Answers, AtStatus, AtPageStart, AtSend, AtFlush, AtPageEnd, AtEnd, Sending
  <2> QED
    BY <1>0, <2>6, <2>7
<1> QED
  BY <1>1, <1>2, <1>3, <1>4, <1>5 DEF GetPage

\* The queue of handle_intr().
LEMMA TwoIs ==
  ASSUME NEW a, NEW b
  PROVE  Append(<<>>, b) = <<b>> /\ Append(<<a>>, b) = <<a, b>> /\ Tail(<<a, b>>) = <<b>>
<1>1. <<a>> \in Seq({a, b}) /\ <<a, b>> \in Seq({a, b}) /\ b \in {a, b}
      /\ Len(<<a, b>>) = 2 /\ Len(<<a>>) = 1
  OBVIOUS
<1>2. /\ Append(<<a>>, b) \in Seq({a, b}) /\ Len(Append(<<a>>, b)) = 2
      /\ Append(<<a>>, b)[1] = a /\ Append(<<a>>, b)[2] = b
  BY <1>1, AppendProperties
<1>3. Append(<<a>>, b) = <<a, b>>
  <2>1. \A i \in 1..2 : Append(<<a>>, b)[i] = <<a, b>>[i]
    BY <1>2
  <2> QED
    BY <1>1, <1>2, <2>1, SeqEqual
<1> QED
  BY <1>3

\* out_buf() and send_file(): the first page count is kept.
LEMMA AnswersSend ==
  ASSUME Before, Send
  PROVE  Answers'
<1> USE BeforeIs
<1>1. CASE SendCheck
  <2>1. /\ pc = "send.check" /\ pc' \in {"intr", "send.select"}
        /\ UNCHANGED <<printer, v, exit, which>>
    BY <1>1 DEF SendCheck, Transition, world
  <2> QED
    BY <2>1, Still DEF Answers, AtStatus, AtPageStart, AtSend, AtFlush, AtPageEnd, AtEnd, Sending
<1>2. CASE SendSelect
  <2>1. /\ pc = "send.select" /\ pc' \in {"flush", "send.eof", "send.check"}
        /\ UNCHANGED <<printer, exit, which>> /\ v' = [AfterRead EXCEPT !.flushing = FALSE]
    BY <1>2 DEF SendSelect
  <2>2. v.start = 0
    BY <2>1, Still DEF AtSend, Sending
  <2>3. v'.start = 0
    BY <2>1, <2>2 DEF Vars
  <2> QED
    BY <2>1, <2>3, Still
    DEF Answers, AtStatus, AtPageStart, AtSend, AtFlush, AtPageEnd, AtEnd, Sending
<1>3. CASE SendEof
  <2>1. /\ pc = "send.eof" /\ pc' = "send.upto"
        /\ UNCHANGED <<printer, exit, which>> /\ v' = upto_eof(v, FALSE)
        /\ block_write(EOF)
    BY <1>3 DEF SendEof, Transition, world
  <2>2. v.start = 0
    BY <2>1, Still DEF AtSend, Sending
  <2>3. v'.start = 0
    BY <2>1, <2>2, UptoEofIs
  <2>4. toPrinter' # <<>> /\ toPrinter'[Len(toPrinter')] = EOF
    <3>1. PICK q \in Seq(Items), c \in Items : q = toPrinter /\ c = EOF /\ toPrinter' = Append(q, c)
      BY <2>1 DEF block_write, Items
    <3> QED
      BY <3>1, Queued
  <2> QED
    BY <2>1, <2>3, <2>4, Still
    DEF Answers, AtStatus, AtPageStart, AtSend, AtFlush, AtPageEnd, AtEnd, Sending
<1> QED
  BY <1>1, <1>2, <1>3 DEF Send

\* handle_intr(): what is under way is forgotten, and one end of file is sent.
LEMMA AnswersIntr ==
  ASSUME Before, HandleIntr
  PROVE  Answers'
<1> USE BeforeIs
<1>1. CASE IntrReset
  <2>1. /\ pc = "intr" /\ pc' = "intr.clear" /\ UNCHANGED <<printer, v, exit, which>>
    BY <1>1 DEF IntrReset, Transition, world
  <2> QED
    BY <2>1, Still DEF Answers, AtStatus, AtPageStart, AtSend, AtFlush, AtPageEnd, AtEnd, Sending
<1>2. CASE IntrClear
  <2>1. /\ pc = "intr.clear" /\ pc' = "intr.write" /\ UNCHANGED <<printer, v, exit, which>>
        /\ toPrinter' = <<>> /\ Incoming' = printer.sending
    BY <1>2, IncomingRead DEF IntrClear, Transition, tty_flush, world, Before
  <2>2. NoEof(Incoming') \/ Stale'
    BY <2>1, Still DEF Stale
  <2> QED
    BY <2>1, <2>2, Still DEF Answers, AtStatus, AtPageStart, AtSend, AtFlush, AtPageEnd, AtEnd,
       Sending
<1>3. CASE IntrWrite
  <2>1. /\ pc = "intr.write" /\ pc' = "intr.eof" /\ UNCHANGED <<printer, v, exit, which>>
        /\ Incoming' = Incoming /\ block_write("^C")
    BY <1>3 DEF IntrWrite, Transition, block_write, world, Incoming
  <2>2. toPrinter = <<>>
    BY <2>1 DEF Before, Alarms
  <2>3. toPrinter' = <<"^C">>
    BY <2>1, <2>2, BlockWrite DEF Before, Items
  <2>4. NoEof(Incoming') \/ Stale'
    BY <2>1, Still DEF AtFlush, Stale
  <2> QED
    BY <2>1, <2>3, <2>4, Still
    DEF Answers, AtStatus, AtPageStart, AtSend, AtFlush, AtPageEnd, AtEnd, Sending
<1>4. CASE IntrEof
  <2>1. /\ pc = "intr.eof" /\ pc' = "intr.upto" /\ UNCHANGED <<printer, exit, which>>
        /\ v' = upto_eof(v, TRUE) /\ Incoming' = Incoming /\ toPrinter' = Append(toPrinter, EOF)
    BY <1>4 DEF IntrEof, Transition, block_write, world, Incoming
  <2>2. v.start = 0 /\ toPrinter \in {<<>>, <<"^C">>} /\ (NoEof(Incoming) \/ Stale)
    BY <2>1, Still DEF AtFlush, AtSend
  <2>3. Append(<<>>, EOF) = <<EOF>> /\ Append(<<"^C">>, EOF) = <<"^C", EOF>>
    BY TwoIs
  <2>4. toPrinter' \in {<<"^C", EOF>>, <<EOF>>}
    BY <2>1, <2>2, <2>3
  <2>5. v'.start = 0
    BY <2>1, <2>2, UptoEofIs
  <2>6. NoEof(Incoming') \/ Stale'
    BY <2>1, <2>2 DEF Stale
  <2> QED
    BY <2>1, <2>4, <2>5, <2>6, Still
    DEF Answers, AtStatus, AtPageStart, AtSend, AtFlush, AtPageEnd, AtEnd, Sending
<1> QED
  BY <1>1, <1>2, <1>3, <1>4 DEF HandleIntr

\* printer_flushing(): likewise.
LEMMA AnswersFlush ==
  ASSUME Before, PrinterFlushing
  PROVE  Answers'
<1> USE BeforeIs
<1>1. CASE FlushClear
  <2>1. /\ pc = "flush" /\ pc' = "flush.eof" /\ UNCHANGED <<printer, v, exit, which>>
        /\ toPrinter' = <<>> /\ Incoming' = printer.sending
        /\ sig' = [sig EXCEPT !.sigint = "ignored"]
    BY <1>1, IncomingRead DEF FlushClear, Transition, tty_flush, world, Before
  <2>2. NoEof(Incoming') \/ Stale'
    BY <2>1, Still DEF Stale
  <2>3. v'.start = 0 \/ NoStart'
    <3>1. Undisturbed => Undisturbed'
      BY <2>1 DEF Undisturbed, Signals
    <3> QED
      BY <2>1, <3>1, Still DEF AtFlush, NoStart
  <2> QED
    BY <2>1, <2>2, <2>3, Still
    DEF Answers, AtStatus, AtPageStart, AtSend, AtFlush, AtPageEnd, AtEnd, Sending
<1>2. CASE FlushEof
  <2>1. /\ pc = "flush.eof" /\ pc' = "flush.upto" /\ UNCHANGED <<printer, exit, which, sig>>
        /\ v' = upto_eof(v, TRUE) /\ Incoming' = Incoming /\ block_write(EOF)
    BY <1>2 DEF FlushEof, Transition, block_write, world, Incoming
  <2>2. toPrinter = <<>>
    BY <2>1 DEF Before, Alarms
  <2>3. toPrinter' = <<EOF>>
    BY <2>1, <2>2, BlockWrite DEF Before, Items
  <2>4. NoEof(Incoming') \/ Stale'
    BY <2>1, Still DEF AtFlush, Stale
  <2>5. v'.start = v.start /\ v'.end = v.end
    BY <2>1, UptoEofIs
  <2>6. v'.start = 0 \/ NoStart'
    BY <2>1, <2>5, Still DEF AtFlush, NoStart, Undisturbed
  <2> QED
    BY <2>1, <2>3, <2>4, <2>6, Still
    DEF Answers, AtStatus, AtPageStart, AtSend, AtFlush, AtPageEnd, AtEnd, Sending
<1> QED
  BY <1>1, <1>2 DEF PrinterFlushing

\* When SIGINT has come the first page count is known.
LEMMA CaughtStart ==
  ASSUME Before, ~Undisturbed, pc \in Reading \cup {"send.select"}
  PROVE  v.start = 0
<1>1. AtStatus /\ AtPageStart /\ AtSend /\ AtFlush /\ AtPageEnd
  BY DEF Before, Answers
<1>2. which \in {"start", "end"}
  BY DEF Before, Types
<1> QED
  BY <1>1, <1>2
  DEF AtStatus, AtPageStart, AtSend, AtFlush, AtPageEnd, NoStart, Reading, Sending

\* SIGINT takes the daemon to handle_intr().
LEMMA AnswersIntrComes ==
  ASSUME Before, ~Undisturbed, pc \in Reading \cup {"send.select"}, pc' = "intr",
         UNCHANGED <<printer, v, exit>>
  PROVE  Answers'
<1>1. v.start = 0 /\ pc # "exited"
  BY CaughtStart DEF Reading
<1> QED
  BY <1>1, Still DEF Answers, AtStatus, AtPageStart, AtSend, AtFlush, AtPageEnd, AtEnd, Sending

\* The daemon exits, but not with EXIT_SUCCESS.
LEMMA AnswersExit ==
  ASSUME Before, pc # "exited", pc' = "exited", UNCHANGED printer,
         exit' = exit \/ exit' # EXIT_SUCCESS
  PROVE  Answers'
<1>1. /\ ~NoEof(printer.sending) => printer.sending = <<EOF>> /\ printer.state = "idle"
      /\ exit' # EXIT_SUCCESS
  BY DEF Before, Answers, AtEnd
<1> QED
  BY <1>1 DEF Answers, AtStatus, AtPageStart, AtSend, AtFlush, AtPageEnd, AtEnd, Sending

\* The daemon exits after do_acct().
LEMMA AnswersAcct ==
  ASSUME Before, DoAcct
  PROVE  Answers'
<1> USE BeforeIs
<1>1. /\ pc = "acct" /\ pc' = "exited" /\ UNCHANGED <<printer, toPrinter>> /\ Incoming' = Incoming
      /\ charged' = IF v.end > v.start THEN v.end - v.start ELSE 0
  BY DEF DoAcct, Transition, line, Incoming
<1>2. /\ ~NoEof(printer.sending) => printer.sending = <<EOF>> /\ printer.state = "idle"
      /\ v.start = 0 /\ v.end = printer.pages
      /\ toPrinter = <<>> /\ Incoming = <<>> /\ printer.state = "idle"
  BY <1>1 DEF Before, Answers, AtEnd
<1>3. charged' = printer.pages
  BY <1>1, <1>2
<1> QED
  BY <1>1, <1>2, <1>3 DEF Answers, AtStatus, AtPageStart, AtSend, AtFlush, AtPageEnd, AtEnd, Sending

\* Steps that change nothing of what is said here.
LEMMA AnswersQuiet ==
  ASSUME Before, UNCHANGED <<Incoming, toPrinter, pc, which, v, exit, charged>>,
         printer'.state = printer.state, printer'.pages = printer.pages,
         NoEof(printer'.sending) \/ printer'.sending = printer.sending,
         Undisturbed => Undisturbed'
  PROVE  Answers'
<1>1. /\ ~NoEof(printer.sending) => printer.sending = <<EOF>> /\ printer.state = "idle"
      /\ AtStatus /\ AtPageStart /\ AtSend /\ AtFlush /\ AtPageEnd /\ AtEnd
  BY DEF Before, Answers
<1>2. NoStart => NoStart'
  BY DEF NoStart
<1>3. OneEof => OneEof'
  BY DEF OneEof
<1>4. Stale => Stale'
  BY DEF Stale
<1>5. AtStatus'
  BY <1>1, <1>2 DEF AtStatus
<1>6. AtPageStart'
  BY <1>1, <1>3 DEF AtPageStart
<1>7. AtSend'
  BY <1>1 DEF AtSend, Sending
<1>8. AtFlush'
  BY <1>1, <1>2, <1>4 DEF AtFlush
<1>9. AtPageEnd'
  BY <1>1, <1>2, <1>3 DEF AtPageEnd
<1>10. AtEnd'
  BY <1>1 DEF AtEnd
<1> QED
  BY <1>1, <1>5, <1>6, <1>7, <1>8, <1>9, <1>10 DEF Answers

\* proc_upto_eof() in send_file(), handle_intr() and printer_flushing(): its end of
\* file is the answer to the last one that was sent, or to the one before it.
LEMMA AnswersUptoEof ==
  ASSUME Before, UptoEof
  PROVE  Answers'
<1> USE BeforeIs
<1>1. /\ pc \in {"send.upto", "intr.upto", "flush.upto"} /\ pc' = "page" /\ which' = "end"
      /\ UNCHANGED <<printer, exit, toPrinter>> /\ v' = AfterRead /\ Incoming' = printer.sending
      /\ fromPrinter # <<>> /\ AfterRead.eof
      /\ sig' = IF pc = "intr.upto" THEN clear_alrm(sig) ELSE sig
  BY IncomingRead DEF UptoEof, ReadEnds, SomeInput, LoopEnds, world, Before
<1>2. Undisturbed' = Undisturbed
  BY <1>1, AlrmIs DEF Undisturbed
<1>3. CASE pc = "send.upto"
  <2>1. ~v.eof /\ OnlyLast(Incoming) /\ (~NoEof(Incoming) => toPrinter = <<>>)
    BY <1>3 DEF Before, Job, AfterEof
  <2>2. ~NoEof(fromPrinter) /\ ~NoEof(Incoming)
    BY <1>1, <2>1, EofRead DEF Before
  <2>3. printer.sending = <<>>
    BY <2>1, <2>2, RestIs
  <2>4. toPrinter = <<>> /\ printer.state = "idle" /\ v.start = 0
    BY <1>1, <1>3, <2>1, <2>2, Still DEF AtSend
  <2>5. AfterRead.start = 0
    BY <2>4
  <2> QED
    BY <1>1, <2>3, <2>4, <2>5, Still
    DEF Answers, AtStatus, AtPageStart, AtSend, AtFlush, AtPageEnd, AtEnd, Sending
<1>4. CASE pc \in {"intr.upto", "flush.upto"}
  <2>1. v.ignore /\ ~v.eof
    BY <1>4 DEF Before, Job
  <2>2. ~NoEof(fromPrinter) /\ ~NoEof(Incoming)
    BY <1>1, <2>1, EofRead DEF Before
  <2>3. AfterRead.start = v.start /\ AfterRead.end = v.end
    <3>1. AfterRead = IF NoEof(fromPrinter) THEN v ELSE [v EXCEPT !.eof = TRUE]
      BY <2>1, ReadIgnores
    <3> QED
      BY <2>2, <3>1 DEF Vars
  <2>4. v.start = 0 \/ NoStart
    BY <1>1, <1>4, Still DEF AtFlush, AtSend
  <2>5. v'.start = 0 \/ NoStart'
    BY <1>1, <1>2, <2>3, <2>4 DEF NoStart
  <2>6. /\ printer.state = "idle"
        /\ \/ toPrinter = <<>> /\ printer.sending \in {<<>>, <<EOF>>}
           \/ toPrinter \in {<<"^C", EOF>>, <<EOF>>} /\ printer.sending = <<>>
    <3>1. CASE toPrinter \in {<<"^C", EOF>>, <<EOF>>} /\ (NoEof(Incoming) \/ Stale)
      BY <1>1, <2>2, <3>1, RestIs DEF Stale
    <3>2. CASE /\ toPrinter = <<>> /\ printer.state = "idle"
               /\ \/ Incoming # <<>> /\ Incoming[Len(Incoming)] = EOF /\ OnlyLast(Incoming)
                  \/ Incoming = <<EOF, EOF>>
      BY <1>1, <2>2, <3>2, RestIs
    <3> QED
      BY <1>1, <1>4, <3>1, <3>2, Still DEF AtFlush
  <2> QED
    BY <1>1, <2>5, <2>6, Still
    DEF Answers, AtStatus, AtPageStart, AtSend, AtFlush, AtPageEnd, AtEnd, Sending
<1> QED
  BY <1>1, <1>3, <1>4

\* The answer does not end the loop yet.
LEMMA AnswersReadOn ==
  ASSUME Before, ReadOn
  PROVE  Answers'
<1> USE BeforeIs
<1>1. /\ pc \in Reading /\ fromPrinter # <<>> /\ Incoming' = printer.sending
      /\ UNCHANGED <<printer, exit, toPrinter, which, sig>>
      /\ AfterRead.flushing \/ ~LoopEnds(AfterRead)
      /\ pc' = IF AfterRead.flushing THEN "flush" ELSE pc
      /\ v' = [AfterRead EXCEPT !.flushing = FALSE]
  BY IncomingRead DEF ReadOn, SomeInput, world, Before
<1>2. /\ v'.start = AfterRead.start /\ v'.end = AfterRead.end
      /\ ~AfterRead.flushing => v' = AfterRead
  BY <1>1 DEF Vars
<1>3. Incoming # <<>> /\ Undisturbed' = Undisturbed
  BY <1>1, RestIs DEF Undisturbed
<1>4. which \in {"start", "end"} /\ AfterRead.start \in Int /\ AfterRead.end \in Int
  BY DEF Before, Types, Vars
<1>5. Incoming = <<EOF>> =>
        /\ printer.sending = <<>> /\ AfterRead.eof /\ ~AfterRead.flushing
        /\ AfterRead.start = v.start /\ AfterRead.end = v.end
        /\ Fresh(v) => Fresh(AfterRead)
  <2>1. SUFFICES ASSUME Incoming = <<EOF>>
                 PROVE  /\ printer.sending = <<>> /\ AfterRead.eof /\ ~AfterRead.flushing
                        /\ AfterRead.start = v.start /\ AfterRead.end = v.end
                        /\ Fresh(v) => Fresh(AfterRead)
    OBVIOUS
  <2>2. fromPrinter = <<EOF>> /\ printer.sending = <<>>
    BY <1>1, <2>1, RestIs
  <2>3. AfterRead = Read(v, <<EOF>>)
    BY <2>2
  <2> QED
    BY <2>2, <2>3, EofIsRead DEF Fresh
<1>6. CASE pc = "status.read"
  <2>1. CASE printer.state = "idle"
    <3>1. toPrinter = <<>> /\ Ends(v, Incoming, "status", "IDLE")
      BY <1>1, <1>3, <1>6, <2>1, Still DEF AtStatus
    <3>2. /\ ~AfterRead.flushing
          /\ AfterRead["status"] = Unset("status") =>
                Ends(AfterRead, printer.sending, "status", "IDLE")
      BY <3>1, EndsNow
    <3>3. AfterRead["status"] = Unset("status")
      BY <1>1, <1>6, <3>2 DEF LoopEnds, Unset
    <3>4. printer.pages = 0 /\ Undisturbed /\ toPrinter \in {<<>>, <<"^T">>}
      BY <1>1, <1>6, Still DEF AtStatus
    <3> QED
      BY <1>1, <1>2, <1>3, <1>6, <2>1, <3>1, <3>2, <3>3, <3>4, Still
      DEF Answers, AtStatus, AtPageStart, AtSend, AtFlush, AtPageEnd, AtEnd, Sending
  <2>2. CASE printer.state # "idle"
    <3>1. /\ Mute(Incoming) /\ Mute(v.parser.msgbuf) /\ v.status # "IDLE" /\ NoStart
          /\ printer.pages = 0 /\ Undisturbed /\ toPrinter \in {<<>>, <<"^T">>}
      BY <1>1, <1>6, <2>2, Still DEF AtStatus
    <3>2. Mute(fromPrinter) /\ Mute(printer.sending)
      BY <3>1, RestIs
    <3>3. /\ AfterRead.start = v.start /\ AfterRead.end = v.end
          /\ AfterRead.status # "IDLE" /\ Mute(AfterRead.parser.msgbuf)
      BY <3>1, <3>2, ReadMute
    <3>4. NoStart'
      BY <1>2, <1>3, <3>1, <3>3 DEF NoStart
    <3> QED
      BY <1>1, <1>2, <1>3, <1>6, <2>2, <3>1, <3>2, <3>3, <3>4, Still
      DEF Answers, AtStatus, AtPageStart, AtSend, AtFlush, AtPageEnd, AtEnd, Sending
  <2> QED
    BY <2>1, <2>2
<1>7. CASE pc = "page.read" /\ which = "start"
  <2>1. /\ printer.state = "waiting" /\ toPrinter = <<>> /\ Ends(v, Incoming, "start", 0)
        /\ printer.pages = 0 /\ Undisturbed
    BY <1>1, <1>3, <1>7, Still DEF AtPageStart
  <2>2. /\ ~AfterRead.flushing
        /\ AfterRead["start"] # Unset("start") => AfterRead["start"] = 0
        /\ AfterRead["start"] = Unset("start") => Ends(AfterRead, printer.sending, "start", 0)
    BY <2>1, EndsNow
  <2>3. AfterRead["start"] = Unset("start")
    BY <1>1, <1>4, <1>7, <2>2 DEF LoopEnds
  <2> QED
    BY <1>1, <1>2, <1>3, <1>7, <2>1, <2>2, <2>3, Still
    DEF Answers, AtStatus, AtPageStart, AtSend, AtFlush, AtPageEnd, AtEnd, Sending
<1>8. CASE pc = "page.read" /\ which = "end"
  <2>1. CASE /\ printer.state = "idle" /\ toPrinter = <<"query">> /\ Incoming \in {<<>>, <<EOF>>}
             /\ Fresh(v) /\ v.end = -1 /\ (v.start = 0 \/ NoStart)
    <3>1. Incoming = <<EOF>>
      BY <1>3, <2>1
    <3>2. v'.start = 0 \/ NoStart'
      BY <1>2, <1>3, <1>5, <2>1, <3>1 DEF NoStart
    <3> QED
      BY <1>1, <1>2, <1>3, <1>5, <1>8, <2>1, <3>1, <3>2, Still
      DEF Answers, AtStatus, AtPageStart, AtSend, AtFlush, AtPageEnd, AtEnd, Sending
  <2>2. CASE /\ printer.state = "waiting" /\ toPrinter = <<>>
             /\ v.start = 0 /\ Ends(v, Incoming, "end", printer.pages)
    <3>1. /\ ~AfterRead.flushing
          /\ AfterRead["end"] # Unset("end") => AfterRead["end"] = printer.pages
          /\ AfterRead["end"] = Unset("end") =>
                Ends(AfterRead, printer.sending, "end", printer.pages)
      BY <2>2, EndsNow
    <3>2. AfterRead["end"] = Unset("end")
      BY <1>1, <1>4, <1>8, <3>1 DEF LoopEnds
    <3>3. AfterRead.start = 0
      BY <2>2
    <3> QED
      BY <1>1, <1>2, <1>3, <1>8, <2>2, <3>1, <3>2, <3>3, Still
      DEF Answers, AtStatus, AtPageStart, AtSend, AtFlush, AtPageEnd, AtEnd, Sending
  <2>3. CASE toPrinter = <<>> /\ Undisturbed /\ Stuck(v, Incoming)
    <3>1. ~AfterRead.flushing /\ Stuck(AfterRead, printer.sending)
      BY <2>3, StuckNow
    <3> QED
      BY <1>1, <1>2, <1>3, <1>8, <2>3, <3>1, Still
      DEF Answers, AtStatus, AtPageStart, AtSend, AtFlush, AtPageEnd, AtEnd, Sending
  <2> QED
    BY <1>1, <1>8, <2>1, <2>2, <2>3, Still DEF AtPageEnd
<1>9. CASE pc = "page.upto"
  <2>1. OneEof
    BY <1>1, <1>4, <1>9, Still DEF AtPageStart, AtPageEnd
  <2>2. Incoming = <<EOF>>
    BY <1>3, <2>1 DEF OneEof
  <2> QED
    BY <1>1, <1>5, <1>9, <2>2 DEF LoopEnds
<1>10. CASE pc = "send.upto"
  <2>1. /\ v.start = 0
        /\ toPrinter # <<>> => toPrinter[Len(toPrinter)] = EOF
        /\ toPrinter = <<>> => Incoming[Len(Incoming)] = EOF /\ printer.state = "idle"
    BY <1>1, <1>10, Still DEF AtSend
  <2>2. AfterRead.start = 0
    BY <2>1
  <2>3. CASE AfterRead.flushing
    BY <1>1, <1>2, <1>10, <2>2, <2>3, Still
    DEF Answers, AtStatus, AtPageStart, AtSend, AtFlush, AtPageEnd, AtEnd, Sending
  <2>4. CASE ~AfterRead.flushing
    <3>1. ~AfterRead.eof
      BY <1>1, <1>10, <2>4 DEF LoopEnds
    <3>2. toPrinter = <<>> => printer.sending # <<>> /\ printer.sending[Len(printer.sending)] = EOF
      BY <1>1, <2>1, <2>4, <3>1, RestIs, LastEofIsRead
    <3> QED
      BY <1>1, <1>2, <1>10, <2>1, <2>2, <2>4, <3>2, Still
      DEF Answers, AtStatus, AtPageStart, AtSend, AtFlush, AtPageEnd, AtEnd, Sending
  <2> QED
    BY <2>3, <2>4
<1>11. CASE pc \in {"intr.upto", "flush.upto"}
  <2>1. v.ignore /\ ~v.eof
    BY <1>11 DEF Before, Job
  <2>2. AfterRead = IF NoEof(fromPrinter) THEN v ELSE [v EXCEPT !.eof = TRUE]
    BY <2>1, ReadIgnores
  <2>3. NoEof(fromPrinter) /\ AfterRead = v
    <3>1. CASE ~NoEof(fromPrinter)
      <4>1. AfterRead.eof /\ ~AfterRead.flushing
        BY <2>2, <3>1 DEF Vars
      <4> QED
        BY <1>1, <1>11, <4>1 DEF LoopEnds
    <3> QED
      BY <2>2, <3>1
  <2>4. v' = v /\ pc' = pc
    BY <1>1, <1>2, <2>3
  <2>5. CASE toPrinter \in {<<"^C", EOF>>, <<EOF>>} /\ (NoEof(Incoming) \/ Stale)
    <3>1. ~NoEof(<<EOF>>)
      BY DEF NoEof
    <3>2. NoEof(Incoming')
      BY <1>1, <2>3, <2>5, <3>1, RestIs DEF Stale
    <3>3. NoStart => NoStart'
      BY <1>3, <2>4 DEF NoStart
    <3> QED
      BY <1>1, <1>11, <2>4, <2>5, <3>2, <3>3, Still
      DEF Answers, AtStatus, AtPageStart, AtSend, AtFlush, AtPageEnd, AtEnd, Sending
  <2>6. CASE /\ toPrinter = <<>> /\ printer.state = "idle"
             /\ \/ Incoming # <<>> /\ Incoming[Len(Incoming)] = EOF /\ OnlyLast(Incoming)
                \/ Incoming = <<EOF, EOF>>
    <3>1. Incoming # <<EOF, EOF>>
      BY <1>1, <2>3, RestIs
    <3>2. ~NoEof(Incoming)
      <4>1. PICK n \in Nat : n = Len(Incoming) /\ n > 0
        BY <1>3, LenProperties, EmptySeq
      <4> QED
        BY <2>6, <3>1, <4>1 DEF NoEof
    <3>3. printer.sending # <<>> /\ OnlyLast(printer.sending)
          /\ printer.sending[Len(printer.sending)] = EOF
      BY <2>3, <2>6, <3>1, <3>2, RestIs
    <3>4. NoStart => NoStart'
      BY <1>3, <2>4 DEF NoStart
    <3> QED
      BY <1>1, <1>11, <2>4, <2>6, <3>3, <3>4, Still
      DEF Answers, AtStatus, AtPageStart, AtSend, AtFlush, AtPageEnd, AtEnd, Sending
  <2> QED
    BY <1>1, <1>11, <2>5, <2>6, Still DEF AtFlush
<1> QED
  BY <1>1, <1>4, <1>6, <1>7, <1>8, <1>9, <1>10, <1>11 DEF Reading

\* What is under way after the printer has taken item and begun to answer.
LEMMA Answered ==
  ASSUME Before, PrinterReads
  PROVE  \E item \in Items, f \in Seq(Bytes), g \in Seq(Bytes) :
           /\ toPrinter # <<>> /\ item = Head(toPrinter) /\ toPrinter' = Tail(toPrinter)
           /\ printer.sending = <<>> /\ Handles(item)
           /\ f = Incoming /\ g = printer'.sending /\ Incoming' = f \o g
           /\ f = <<>> => Incoming' = g
           /\ g = <<>> => Incoming' = f
           /\ g # <<>> => Incoming' # <<>> /\ Incoming'[Len(Incoming')] = g[Len(g)]
           /\ Mute(f) /\ Mute(g) => Mute(Incoming')
           /\ NoEof(f) /\ NoEof(g) => NoEof(Incoming')
           /\ NoEof(f) /\ OnlyLast(g) => OnlyLast(Incoming')
<1> USE BeforeIs
<1>1. /\ toPrinter # <<>> /\ toPrinter' = Tail(toPrinter) /\ printer.sending = <<>>
      /\ Handles(Head(toPrinter)) /\ fromPrinter' = fromPrinter
  BY DEF PrinterReads
<1>2. Head(toPrinter) \in Items
  BY <1>1, Dequeued
<1>3. printer' \in Printers
  BY <1>1, <1>2, HandlesIs DEF Before, Alive
<1>4. printer'.sending \in Seq(Bytes)
  BY <1>3 DEF Printers
<1>5. PICK item \in Items, f \in Seq(Bytes), g \in Seq(Bytes) :
          item = Head(toPrinter) /\ f = Incoming /\ g = printer'.sending
  BY <1>2, <1>4
<1>6. Incoming' = f \o g
  <2>1. fromPrinter = f
    BY <1>1, <1>5, RestIs
  <2> QED
    BY <1>1, <1>5, <2>1 DEF Incoming
<1>7. /\ g # <<>> => f \o g # <<>> /\ (f \o g)[Len(f \o g)] = g[Len(g)]
      /\ g = <<>> => f \o g = f
      /\ f = <<>> => f \o g = g
      /\ Mute(f \o g) <=> Mute(f) /\ Mute(g)
  BY LastConcat, Zenon
<1>8. /\ NoEof(f \o g) <=> NoEof(f) /\ NoEof(g)
      /\ NoEof(f) /\ OnlyLast(g) => OnlyLast(f \o g)
  BY EofConcat, Zenon
<1> QED
  BY <1>1, <1>5, <1>6, <1>7, <1>8, Zenon

\* The printer answers what it was sent last.
LEMMA AnswersPrinterReads ==
  ASSUME Before, PrinterReads, ~printer'.forged
  PROVE  Answers'
<1> USE BeforeIs
<1>1. PICK item \in Items, f \in Seq(Bytes), g \in Seq(Bytes) :
        /\ toPrinter # <<>> /\ item = Head(toPrinter) /\ toPrinter' = Tail(toPrinter)
        /\ printer.sending = <<>> /\ Handles(item)
        /\ f = Incoming /\ g = printer'.sending /\ Incoming' = f \o g
        /\ f = <<>> => Incoming' = g
        /\ g = <<>> => Incoming' = f
        /\ g # <<>> => Incoming' # <<>> /\ Incoming'[Len(Incoming')] = g[Len(g)]
        /\ Mute(f) /\ Mute(g) => Mute(Incoming')
        /\ NoEof(f) /\ NoEof(g) => NoEof(Incoming')
        /\ NoEof(f) /\ OnlyLast(g) => OnlyLast(Incoming')
  BY Answered
<1>2. /\ item # "data" => printer'.pages = printer.pages
      /\ item # EOF => NoEof(printer'.sending)
      /\ item = EOF => printer'.state = "idle" /\ printer'.sending = <<EOF>>
      /\ item = "^T" => /\ printer'.state = printer.state
                        /\ printer'.sending = Msg(StatusPair(Said(printer.state)))
      /\ item = "^C" /\ printer.state = "idle" => printer' = printer
      /\ item = "query" => printer' = printer \/
               (printer'.state = "waiting" /\ printer'.sending = Msg(PagePair(printer.pages)))
      /\ item = "query" /\ printer.state = "idle" => printer' # printer
  BY <1>1, HandlesIs DEF Before, Alive
<1>3. UNCHANGED <<pc, which, v, sig, exit, charged>>
  BY DEF PrinterReads
<1>4. /\ ~NoEof(printer'.sending) => printer'.sending = <<EOF>> /\ printer'.state = "idle"
  BY <1>2
<1>5. /\ AtStatus /\ AtPageStart /\ AtSend /\ AtFlush /\ AtPageEnd /\ AtEnd
      /\ exit = EXIT_SUCCESS => pc = "exited"
  BY DEF Before, Answers, AtEnd
<1>6. Undisturbed' = Undisturbed /\ NoStart' = NoStart
  BY <1>3 DEF Undisturbed, NoStart
<1>7. /\ toPrinter = <<"^T">> => item = "^T" /\ toPrinter' = <<>>
      /\ toPrinter = <<"query">> => item = "query" /\ toPrinter' = <<>>
      /\ toPrinter = <<"^C">> => item = "^C" /\ toPrinter' = <<>>
      /\ toPrinter = <<EOF>> => item = EOF /\ toPrinter' = <<>>
      /\ toPrinter = <<"^C", EOF>> => item = "^C" /\ toPrinter' = <<EOF>>
  <2>1. ASSUME NEW x, toPrinter = <<x>> PROVE item = x /\ toPrinter' = <<>>
    BY <1>1, <2>1
  <2>2. Tail(<<"^C", EOF>>) = <<EOF>> /\ Head(<<"^C", EOF>>) = "^C"
    BY TwoIs
  <2>3. toPrinter = <<"^C", EOF>> => item = "^C" /\ toPrinter' = <<EOF>>
    BY <1>1, <2>2, Zenon
  <2> QED
    BY <2>1, <2>3, Zenon
<1>8. "^T" # EOF /\ "^C" # EOF /\ "query" # EOF /\ "data" # EOF
  BY DEF EOF
<1>9. AtStatus'
  <2>1. CASE pc \notin {"status", "status.write", "status.read"}
    BY <1>3, <2>1 DEF AtStatus
  <2>2. CASE pc \in {"status", "status.write", "status.read"}
    <3>1. toPrinter = <<"^T">> /\ pc = "status.read" /\ printer.pages = 0 /\ Undisturbed
      BY <1>1, <1>5, <2>2 DEF AtStatus
    <3>2. /\ item = "^T" /\ toPrinter' = <<>> /\ printer'.state = printer.state
          /\ g = Msg(StatusPair(Said(printer.state))) /\ printer'.pages = 0
      BY <1>1, <1>2, <1>7, <3>1
    <3>3. CASE printer.state = "idle"
      <4>1. Incoming = <<>> /\ Fresh(v) /\ v.status = "INVALID"
        BY <1>1, <1>5, <3>1, <3>3 DEF AtStatus
      <4>2. PICK pair \in DOMAIN StatusOf : pair = StatusPair("IDLE") /\ StatusOf[pair] = "IDLE"
        BY PairChosen
      <4>3. Incoming' = Msg(pair)
        BY <1>1, <3>2, <3>3, <4>1, <4>2 DEF Said
      <4>4. Ends(v, Msg(pair), "status", StatusOf[pair])
        BY <4>1, StatusAnswer
      <4> QED
        BY <1>3, <1>6, <3>1, <3>2, <3>3, <4>2, <4>3, <4>4 DEF AtStatus
    <3>4. CASE printer.state # "idle"
      <4>1. Mute(Incoming) /\ Mute(v.parser.msgbuf) /\ v.status # "IDLE" /\ NoStart
        BY <1>5, <3>1, <3>4 DEF AtStatus
      <4>2. PICK pair \in DOMAIN StatusOf :
                pair = StatusPair(Said(printer.state)) /\ StatusOf[pair] # "IDLE"
        BY <3>4, PairChosen DEF Said
      <4>3. pair \in Chars /\ pair \notin Telling
        BY <4>2, LprpsAssumption DEF Telling
      <4>4. Mute(g)
        BY <3>2, <4>2, <4>3, MuteMsg
      <4>5. Mute(Incoming')
        BY <1>1, <4>1, <4>4
      <4> QED
        BY <1>3, <1>6, <3>1, <3>2, <3>4, <4>1, <4>5 DEF AtStatus
    <3> QED
      BY <3>3, <3>4
  <2> QED
    BY <2>1, <2>2
<1>10. OneEof => OneEof'
  BY <1>1, <1>2, <1>7 DEF OneEof
<1>11. AtPageStart'
  <2>1. CASE ~(pc \in {"page", "page.write", "page.read", "page.eof", "page.upto"} /\ which = "start")
    BY <1>3, <2>1 DEF AtPageStart
  <2>2. CASE pc \in {"page", "page.write", "page.eof"} /\ which = "start"
    BY <1>1, <1>5, <2>2 DEF AtPageStart
  <2>3. CASE pc = "page.read" /\ which = "start"
    <3>1. /\ printer.state = "idle" /\ toPrinter = <<"query">> /\ Incoming = <<>>
          /\ Fresh(v) /\ v.start = -1 /\ printer.pages = 0 /\ Undisturbed
      BY <1>1, <1>5, <2>3 DEF AtPageStart
    <3>2. /\ printer'.state = "waiting" /\ g = Msg(PagePair(0)) /\ toPrinter' = <<>>
          /\ printer'.pages = 0
      BY <1>1, <1>2, <1>7, <3>1
    <3>3. PICK pair \in DOMAIN PageNo, p \in {<<>>, <<EOF>>} :
              pair = PagePair(0) /\ PageNo[pair] = 0 /\ p = <<>>
      <4>1. 0 \in 0..JobLen
        BY LprpsAssumption
      <4> QED
        BY <4>1, PairChosen
    <3>4. g = p \o Msg(pair)
      BY <3>2, <3>3, PairIs, MsgType, ConcatEmptySeq
    <3>5. Ends(v, g, "start", PageNo[pair])
      BY <3>1, <3>4, PageAnswer
    <3> QED
      BY <1>1, <1>3, <1>6, <2>3, <3>1, <3>2, <3>3, <3>5 DEF AtPageStart
  <2>4. CASE pc = "page.upto" /\ which = "start"
    <3>1. printer.pages = 0 /\ Undisturbed /\ v.start = 0 /\ OneEof
      BY <1>5, <2>4 DEF AtPageStart
    <3>2. printer'.pages = 0
      BY <1>1, <1>2, <1>7, <1>8, <3>1 DEF OneEof
    <3> QED
      BY <1>3, <1>6, <1>10, <2>4, <3>1, <3>2 DEF AtPageStart
  <2> QED
    BY <2>1, <2>2, <2>3, <2>4

<1>12. AtSend'
  <2>1. CASE pc # "send.upto"
    BY <1>3, <1>5, <2>1 DEF AtSend, Sending
  <2>2. CASE pc = "send.upto"
    <3>1. v.start = 0 /\ toPrinter[Len(toPrinter)] = EOF
      BY <1>1, <1>5, <2>2 DEF AtSend
    <3>2. PICK q \in Seq(Items), m \in Nat :
              /\ q = Tail(toPrinter) /\ Len(toPrinter) = m + 1 /\ Len(q) = m
              /\ \A i \in 1..m : q[i] = toPrinter[i + 1]
              /\ item = toPrinter[1]
      <4>1. PICK m \in Nat : m = Len(toPrinter) - 1 /\ Len(toPrinter) = m + 1
        BY <1>1, Dequeued
      <4> QED
        BY <1>1, <4>1, Dequeued
    <3>3. CASE m = 0
      <4>1. item = EOF /\ q = <<>>
        <5>1. Len(toPrinter) = 1 /\ Len(q) = 0
          BY <3>2, <3>3
        <5> QED
          BY <3>1, <3>2, <5>1, EmptySeq
      <4>2. g = <<EOF>> /\ printer'.state = "idle"
        BY <1>1, <1>2, <4>1
      <4> QED
        BY <1>1, <1>3, <2>2, <3>1, <3>2, <4>1, <4>2 DEF AtSend
    <3>4. CASE m > 0
      <4>1. q # <<>> /\ q[Len(q)] = EOF
        <5>1. m \in 1..m /\ Len(q) # 0
          <6>1. m \in Nat /\ Len(q) = m
            BY <3>2
          <6>2. m \in 1..m /\ m # 0
            BY <3>4, <6>1
          <6> QED
            BY <6>1, <6>2
        <5>2. q[m] = EOF
          BY <3>1, <3>2, <5>1
        <5> QED
          BY <3>2, <5>1, <5>2, EmptySeq
      <4> QED
        BY <1>1, <1>3, <2>2, <3>1, <3>2, <4>1 DEF AtSend
    <3> QED
      BY <3>2, <3>3, <3>4
  <2> QED
    BY <2>1, <2>2
<1>13. item = "^C" /\ (NoEof(Incoming) \/ Stale) => NoEof(Incoming') \/ Stale'
  <2>1. SUFFICES ASSUME item = "^C", NoEof(Incoming) \/ Stale PROVE NoEof(Incoming') \/ Stale'
    OBVIOUS
  <2>2. CASE printer.state = "idle"
    BY <1>1, <1>2, <2>1, <2>2 DEF Stale
  <2>3. CASE printer.state # "idle"
    BY <1>1, <1>2, <1>8, <2>1, <2>3 DEF Stale
  <2> QED
    BY <2>2, <2>3
<1>14. AtFlush'
  <2>1. CASE pc \notin {"intr.write", "flush.eof", "intr.eof", "intr.upto", "flush.upto"}
    BY <1>3, <1>5, <1>6, <2>1 DEF AtFlush
  <2>2. CASE pc \in {"intr.write", "flush.eof"}
    BY <1>1, <2>2 DEF Before, Alarms
  <2>3. CASE pc = "intr.eof"
    BY <1>1, <1>3, <1>5, <1>7, <1>13, <2>3 DEF AtFlush
  <2>4. CASE pc \in {"intr.upto", "flush.upto"}
    <3>1. pc = "flush.upto" => v'.start = 0 \/ NoStart'
      BY <1>3, <1>5, <1>6, <2>4 DEF AtFlush
    <3>2. toPrinter \in {<<"^C", EOF>>, <<EOF>>} /\ (NoEof(Incoming) \/ Stale)
      BY <1>1, <1>5, <2>4 DEF AtFlush
    <3>3. CASE toPrinter = <<"^C", EOF>>
      BY <1>3, <1>7, <1>13, <2>4, <3>1, <3>2, <3>3 DEF AtFlush
    <3>4. CASE toPrinter = <<EOF>>
      <4>1. toPrinter' = <<>> /\ printer'.state = "idle" /\ g = <<EOF>>
        BY <1>1, <1>2, <1>7, <3>4
      <4>2. g # <<>> /\ g[Len(g)] = EOF /\ OnlyLast(g)
        BY <4>1 DEF OnlyLast
      <4>3. Incoming' # <<>> /\ Incoming'[Len(Incoming')] = EOF
        BY <1>1, <4>2
      <4>4. NoEof(Incoming) => OnlyLast(Incoming')
        BY <1>1, <4>2
      <4>5. Stale => Incoming' = <<EOF, EOF>>
        <5>1. <<EOF>> \o <<EOF>> = <<EOF, EOF>>
          <6>1. <<EOF>> \in Seq({EOF}) /\ EOF \in {EOF}
            OBVIOUS
          <6>2. Append(<<EOF>>, EOF) = <<EOF>> \o <<EOF>>
            BY <6>1, AppendIsConcat
          <6> QED
            BY <6>2, TwoIs
        <5> QED
          BY <1>1, <4>1, <5>1 DEF Stale
      <4> QED
        BY <1>3, <2>4, <3>1, <3>2, <4>1, <4>3, <4>4, <4>5 DEF AtFlush
    <3> QED
      BY <3>2, <3>3, <3>4
  <2> QED
    BY <2>1, <2>2, <2>3, <2>4
<1>15. AtPageEnd'
  <2>1. CASE ~(pc \in {"page", "page.write", "page.read", "page.eof", "page.upto"} /\ which = "end")
    BY <1>3, <2>1 DEF AtPageEnd
  <2>2. CASE pc = "page" /\ which = "end"
    <3>1. /\ printer.state = "idle" /\ (v.start = 0 \/ NoStart)
          /\ toPrinter \in {<<"^C", EOF>>, <<EOF>>} /\ Incoming = <<>>
      BY <1>1, <1>5, <2>2 DEF AtPageEnd
    <3>2. v'.start = 0 \/ NoStart'
      BY <1>3, <1>6, <3>1
    <3>3. CASE toPrinter = <<"^C", EOF>>
      <4>1. item = "^C" /\ toPrinter' = <<EOF>> /\ printer' = printer /\ Incoming' = <<>>
        BY <1>1, <1>2, <1>7, <3>1, <3>3
      <4> QED
        BY <1>3, <2>2, <3>1, <3>2, <4>1 DEF AtPageEnd
    <3>4. CASE toPrinter = <<EOF>>
      <4>1. toPrinter' = <<>> /\ printer'.state = "idle" /\ Incoming' = <<EOF>>
        BY <1>1, <1>2, <1>7, <3>1, <3>4
      <4> QED
        BY <1>3, <2>2, <3>2, <4>1 DEF AtPageEnd
    <3> QED
      BY <3>1, <3>3, <3>4
  <2>3. CASE pc = "page.write" /\ which = "end"
    BY <1>1, <2>3 DEF Before, Alarms
  <2>4. CASE pc = "page.read" /\ which = "end"
    <3>1. /\ printer.state = "idle" /\ toPrinter = <<"query">> /\ Incoming \in {<<>>, <<EOF>>}
          /\ Fresh(v) /\ v.end = -1 /\ (v.start = 0 \/ NoStart)
      BY <1>1, <1>5, <2>4 DEF AtPageEnd
    <3>2. /\ printer'.state = "waiting" /\ g = Msg(PagePair(printer.pages)) /\ toPrinter' = <<>>
          /\ printer'.pages = printer.pages
      BY <1>1, <1>2, <1>7, <3>1
    <3>3. PICK pair \in DOMAIN PageNo, p \in {<<>>, <<EOF>>} :
              pair = PagePair(printer.pages) /\ PageNo[pair] = printer.pages /\ p = Incoming
      BY <3>1, PairChosen
    <3>4. Incoming' = p \o Msg(pair)
      BY <1>1, <3>2, <3>3
    <3>5. /\ v.start = -1 => Ends(v, Incoming', "start", PageNo[pair])
          /\ v.start >= 0 /\ v.end = -1 => Ends(v, Incoming', "end", PageNo[pair])
          /\ v.start = -1 /\ v.end = -1 => Stuck(v, Incoming')
      <4>1. PICK s : s = Incoming'
        OBVIOUS
      <4> QED
        BY <3>1, <3>4, <4>1, PageAnswer
    <3>6. CASE v.start = 0
      BY <1>3, <2>4, <3>1, <3>2, <3>3, <3>5, <3>6 DEF AtPageEnd
    <3>7. CASE NoStart
      <4>1. v.start = -1 /\ Undisturbed
        BY <3>7 DEF NoStart
      <4> QED
        BY <1>3, <1>6, <2>4, <3>1, <3>2, <3>5, <4>1 DEF AtPageEnd
    <3> QED
      BY <3>1, <3>6, <3>7
  <2>5. CASE pc = "page.eof" /\ which = "end"
    BY <1>1, <1>5, <2>5 DEF AtPageEnd
  <2>6. CASE pc = "page.upto" /\ which = "end"
    <3>1. v.start = 0 /\ v.end = printer.pages /\ OneEof
      BY <1>5, <2>6 DEF AtPageEnd
    <3>2. printer'.pages = printer.pages
      BY <1>1, <1>2, <1>7, <1>8, <3>1 DEF OneEof
    <3> QED
      BY <1>3, <1>10, <2>6, <3>1, <3>2 DEF AtPageEnd
  <2> QED
    BY <2>1, <2>2, <2>3, <2>4, <2>5, <2>6
<1>16. AtEnd'
  BY <1>1, <1>3, <1>5 DEF AtEnd
<1> QED
  BY <1>4, <1>9, <1>11, <1>12, <1>14, <1>15, <1>16 DEF Answers

----------------------------------------------------------------------------
\* At first nothing is under way, or that the printer is flushing.
LEMMA AnswersInit == Init => Answers
<1> SUFFICES ASSUME Init PROVE Answers
  OBVIOUS
<1> USE DEF Init
<1>1. "Flushing" \in Chars /\ "Flushing" \notin Telling
  BY LprpsAssumption DEF Telling
<1>2. Mute(Msg("Flushing")) /\ NoEof(Msg("Flushing")) /\ Mute(<<>>) /\ NoEof(<<>>)
  BY <1>1, MuteMsg DEF Mute, NoEof
<1>3. /\ printer.state \in {"idle", "busy", "waiting", "flushing"} /\ printer.pages = 0
      /\ Mute(printer.sending) /\ NoEof(printer.sending)
      /\ printer.state = "idle" => printer.sending = <<>>
  <2>1. PICK state \in {"idle", "busy", "waiting", "flushing"} :
            printer = [state |-> state, pages |-> 0, forged |-> FALSE,
                       sending |-> IF state = "flushing" THEN Msg("Flushing") ELSE <<>>]
    OBVIOUS
  <2> QED
    BY <1>2, <2>1
<1>4. Incoming = printer.sending
  <2>1. PICK g \in Seq(Bytes) : g = printer.sending
    BY IncomingType, TypesInit
  <2>2. <<>> \o g = g
    BY <2>1, ConcatEmptySeq
  <2> QED
    BY <2>1, <2>2 DEF Incoming
<1>5. Mute(v.parser.msgbuf) /\ v.status = "INVALID" /\ v.start = -1 /\ v.end = -1
  BY <1>2 DEF NewParser
<1>6. AtStatus
  BY <1>3, <1>4, <1>5 DEF AtStatus, NoStart, Undisturbed
<1> QED
  BY <1>3, <1>6
  DEF Answers, AtPageStart, AtSend, AtFlush, AtPageEnd, AtEnd, Sending, EXIT_SUCCESS

\* As long as the printer is not switched off, what it sends is the answer to what
\* the daemon waits for.
LEMMA AnswersStep ==
  Types /\ Alarms /\ Budget /\ JobInv /\ AnswerInv /\ [Next]_vars => AnswerInv'
<1> SUFFICES ASSUME Types, Alarms, Budget, JobInv, AnswerInv, [Next]_vars, Alive'
             PROVE  Answers'
  BY DEF AnswerInv
<1> USE DEF line, world
<1>0. pc = "exited" /\ Next => UNCHANGED <<pc, polling, which, left, v, sig, exit, charged>>
  BY DEF Next, Daemon, GetStatus, StatusFlush, StatusWrite, StatusRead, StatusBusy, StatusEof,
         GetPage, PageFlush, PageWrite, PageRead, PageEof, PageUpto, Send, SendCheck, SendSelect,
         SendEof, HandleIntr, IntrReset, IntrClear, IntrWrite, IntrEof, PrinterFlushing,
         FlushClear, FlushEof, ProcSomeInput, Check, CheckIntr, CheckAlrm, ReadOn, ReadEnds,
         SomeInput, UptoEof, DoAcct, Transition, Reading, Caught, SignalBetween, SignalInSelect,
         SignalInWrite, Killed, Printer, PrinterSends, PrinterReads, PrinterDies
<1>1. Alive /\ Before
  <2>1. printer.state = "dead" => UNCHANGED printer
    BY DEF Next, Daemon, GetStatus, StatusFlush, StatusWrite, StatusRead, StatusBusy,
           StatusEof, GetPage, PageFlush, PageWrite, PageRead, PageEof, PageUpto, Send, SendCheck,
           SendSelect, SendEof, HandleIntr, IntrReset, IntrClear, IntrWrite, IntrEof,
           PrinterFlushing, FlushClear, FlushEof, ProcSomeInput, Check, CheckIntr, CheckAlrm,
           ReadOn, ReadEnds, SomeInput, UptoEof, DoAcct, Exit, SignalBetween, SignalInSelect,
           SignalInWrite, Killed, Printer, PrinterSends, PrinterReads, PrinterDies, vars
  <2>2. Alive
    BY <2>1, ForgedStays DEF Alive
  <2> QED
    BY <2>2 DEF Before, AnswerInv, JobInv, Alive
<1> USE BeforeIs
<1>2. CASE UNCHANGED vars
  <2>1. UNCHANGED <<Incoming, toPrinter, pc, which, v, exit, charged, printer, sig>>
    BY <1>2 DEF vars, Incoming
  <2> QED
    BY <1>1, <2>1, AnswersQuiet DEF Undisturbed
<1>3. CASE GetStatus
  <2>1. CASE StatusFlush \/ StatusWrite \/ StatusRead
    BY <1>1, <2>1, AnswersStatus
  <2>2. CASE StatusBusy \/ StatusEof
    BY <1>1, <2>2, AnswersExit DEF StatusBusy, StatusEof, Exit, EXIT_REPRINT, EXIT_SUCCESS
  <2> QED
    BY <1>3, <2>1, <2>2 DEF GetStatus
<1>4. CASE GetPage
  BY <1>1, <1>4, AnswersPage
<1>5. CASE Send
  BY <1>1, <1>5, AnswersSend
<1>6. CASE HandleIntr
  BY <1>1, <1>6, AnswersIntr
<1>7. CASE PrinterFlushing
  BY <1>1, <1>7, AnswersFlush
<1>8. CASE ProcSomeInput
  <2>1. CASE Check
    <3>1. UNCHANGED <<Incoming, toPrinter, pc, which, v, exit, charged, printer, sig>>
      BY <2>1 DEF Check, Incoming
    <3> QED
      BY <1>1, <3>1, AnswersQuiet DEF Undisturbed
  <2>2. CASE CheckIntr
    BY <1>1, <2>2, AnswersIntrComes DEF CheckIntr, Undisturbed
  <2>3. CASE CheckAlrm
    BY <1>1, <2>3, AnswersExit DEF CheckAlrm, Exit, Reading, EXIT_REPRINT, EXIT_SUCCESS
  <2>4. CASE ReadOn
    BY <1>1, <2>4, AnswersReadOn
  <2> QED
    BY <1>8, <2>1, <2>2, <2>3, <2>4 DEF ProcSomeInput
<1>9. CASE UptoEof
  BY <1>1, <1>9, AnswersUptoEof
<1>10. CASE DoAcct
  BY <1>1, <1>10, AnswersAcct
<1>11. ASSUME NEW s \in {"intr", "alrm"}, SignalBetween(s)
       PROVE  Answers'
  <2>1. UNCHANGED <<Incoming, toPrinter, pc, which, v, exit, charged, printer>>
    BY <1>11 DEF SignalBetween, Incoming
  <2>2. Undisturbed => Undisturbed'
    <3>1. SUFFICES ASSUME Undisturbed PROVE Undisturbed'
      OBVIOUS
    <3>2. s = "alrm" /\ sig' = [sig EXCEPT !["alrm"] = TRUE, !.timer = @ /\ s # "alrm"]
      BY <1>11, <3>1 DEF SignalBetween, Caught, CanCome, Undisturbed
    <3> QED
      BY <1>1, <3>1, <3>2 DEF Undisturbed, Signals
  <2> QED
    BY <1>1, <2>1, <2>2, AnswersQuiet
<1>12. ASSUME NEW s \in {"intr", "alrm"}, SignalInSelect(s)
       PROVE  Answers'
  <2>1. CASE pc' = "exited"
    <3>1. pc # "exited" /\ UNCHANGED printer /\ (exit' = exit \/ exit' = EXIT_REPRINT)
      BY <1>12 DEF SignalInSelect, Caught
    <3> QED
      BY <1>1, <2>1, <3>1, AnswersExit DEF EXIT_REPRINT, EXIT_SUCCESS
  <2>2. CASE pc' # "exited"
    <3>1. pc' = "intr" /\ ~sig'.alrm /\ UNCHANGED <<printer, v, exit>>
          /\ pc \in Reading \cup {"send.select"}
      BY <1>12, <2>2 DEF SignalInSelect
    <3>2. s = "intr"
      <4>1. CASE s = "alrm"
        <5>1. sig' = [sig EXCEPT !["alrm"] = TRUE, !.timer = @ /\ s # "alrm"]
          BY <1>12, <4>1 DEF SignalInSelect, Caught
        <5>2. sig'.alrm
          BY <1>1, <5>1 DEF Signals
        <5> QED
          BY <3>1, <5>2
      <4> QED
        BY <4>1
    <3>3. ~Undisturbed
      BY <1>12, <3>2 DEF SignalInSelect, Caught, CanCome, Undisturbed
    <3> QED
      BY <1>1, <3>1, <3>3, AnswersIntrComes
  <2> QED
    BY <2>1, <2>2
<1>13. ASSUME NEW s \in {"intr", "alrm"}, SignalInWrite(s)
       PROVE  Answers'
  <2>1. pc # "exited" /\ pc' = "exited" /\ UNCHANGED printer /\ exit' = EXIT_THROW_AWAY
    BY <1>13 DEF SignalInWrite, Caught
  <2> QED
    BY <1>1, <2>1, AnswersExit DEF EXIT_THROW_AWAY, EXIT_SUCCESS
<1>14. CASE Killed
  BY <1>1, <1>14, AnswersExit DEF Killed
<1>15. CASE PrinterSends
  <2>1. Incoming' = Incoming
    BY <1>15, IncomingSent
  <2>2. /\ UNCHANGED <<toPrinter, pc, which, v, sig, exit, charged>>
        /\ printer' = [printer EXCEPT !.sending = Tail(@)] /\ printer.sending # <<>>
    BY <1>15 DEF PrinterSends
  <2>3. printer'.state = printer.state /\ printer'.pages = printer.pages
        /\ printer'.sending = Tail(printer.sending)
    BY <1>1, <2>2 DEF Printers
  <2>4. NoEof(printer'.sending)
    <3>1. CASE NoEof(printer.sending)
      <4>1. PICK q \in Seq(Bytes) : q = printer.sending
        BY <1>1
      <4>2. NoEof(Tail(q))
        BY <2>2, <3>1, <4>1, QueueTaken
      <4> QED
        BY <2>3, <4>1, <4>2
    <3>2. CASE ~NoEof(printer.sending)
      <4>1. printer.sending = <<EOF>>
        BY <1>1, <3>2 DEF Before, Answers
      <4>2. printer'.sending = <<>>
        BY <2>3, <4>1
      <4> QED
        BY <4>2 DEF NoEof
    <3> QED
      BY <3>1, <3>2
  <2> QED
    BY <1>1, <2>1, <2>2, <2>3, <2>4, AnswersQuiet DEF Undisturbed
<1>16. CASE PrinterReads
  BY <1>1, <1>16, AnswersPrinterReads DEF Alive
<1>17. CASE PrinterDies
  BY <1>1, <1>17 DEF PrinterDies, Becomes, Alive, Printers
<1> QED
  BY <1>2, <1>3, <1>4, <1>5, <1>6, <1>7, <1>8, <1>9, <1>10, <1>11, <1>12, <1>13, <1>14, <1>15,
     <1>16, <1>17
  DEF Next, Daemon, Printer
----------------------------------------------------------------------------
Inv == Types /\ Alarms /\ Budget /\ JobInv /\ Honest(v) /\ AnswerInv

\* The inductive invariant.
LEMMA Inductive == Spec => []Inv
<1>1. Init => Inv
  BY TypesInit, AlarmsInit, BudgetInit, OrderInit, JobInit, HonestInit, AnswersInit
  DEF Inv, AnswerInv, JobInv
<1>2. Inv /\ [Next]_vars => Inv'
  <2> SUFFICES ASSUME Inv, [Next]_vars PROVE Inv'
    OBVIOUS
  <2>1. Types /\ Alarms /\ Budget /\ JobInv /\ Honest(v) /\ AnswerInv
    BY DEF Inv
  <2>2. Types'
    BY <2>1, TypesStep
  <2>3. Alarms' /\ Budget' /\ JobInv' /\ Honest(v)' /\ AnswerInv'
    BY <2>1, AlarmsStep, BudgetStep, OrderStep, HonestStep, AnswersStep DEF JobInv
  <2> QED
    BY <2>2, <2>3 DEF Inv
<1> QED
  BY <1>1, <1>2, PTL DEF Spec

\* "printer not responding" means EXIT_REPRINT (alarm.c:13-16): whoever sets an
\* alarm has flushed the line, so that no write waits while it can go off.
THEOREM TimeoutMeansReprint == Spec => []TimeoutReprints
<1>1. Inv => TimeoutReprints
  BY AlarmReprints DEF Inv
<1> QED
  BY <1>1, Inductive, PTL

\* get_page() flushes nothing of the job: the end of file that comes before it is
\* answered only after the printer has taken all that was written, unless the job
\* has made the printer send a Control-D.
THEOREM TheJobIsDelivered == Spec => []JobDelivered
<1>1. Inv => JobDelivered
  BY DEF Inv, JobInv, Job, NoData, JobDelivered, Contains, Sending
<1> QED
  BY <1>1, Inductive, PTL

\* Every character that arrives during the job is mailed, or part of a message, or
\* still in the automaton, however read() cuts the input.
THEOREM NothingIsLost == Spec => []NothingLost
<1>1. Inv => NothingLost
  BY DEF Inv, Honest, NothingLost
<1> QED
  BY <1>1, Inductive, PTL

\* do_acct() charges the pages that were printed, whatever the job has made the
\* printer send, but for a Control-D: with one, followed by the message of a page
\* count and another one, it is the number in the message that is charged.
THEOREM PagesAreCharged == Spec => []PagesCharged
<1>1. Inv => PagesCharged
  BY DEF Inv, AnswerInv, Alive, Answers, AtEnd, PagesCharged
<1> QED
  BY <1>1, Inductive, PTL

\* The next daemon finds the line empty and the printer idle, unless the job has
\* made the printer send a Control-D.
THEOREM LineStaysInSync == Spec => []LineInSync
<1>1. Inv => LineInSync
  <2> SUFFICES ASSUME Inv, exit = EXIT_SUCCESS, Alive
               PROVE  /\ printer.state = "idle" /\ toPrinter = <<>>
                      /\ fromPrinter = <<>> /\ printer.sending = <<>>
    BY DEF LineInSync, Alive
  <2>1. Before
    BY DEF Inv, AnswerInv, JobInv, Alive, Before
  <2>2. toPrinter = <<>> /\ Incoming = <<>> /\ printer.state = "idle"
    BY <2>1 DEF Before, Answers, AtEnd
  <2> QED
    BY <2>1, <2>2, RestIs
<1> QED
  BY <1>1, Inductive, PTL
=============================================================================
