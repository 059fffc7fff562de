-------------------------- MODULE PollServerProof ---------------------------
(***************************************************************************)
(* Proofs about the echo server on poll(), for every number of connections *)
(* and whatever the clients do: the table of descriptors is sound, and it  *)
(* stays bounded although the compression leaves entries -1 behind.        *)
(***************************************************************************)
EXTENDS PollServer, FiniteSetTheorems, SequenceTheorems, WellFoundedInduction, TLAPS
Entries == -1..N
Peers == {"free", "open", "closed", "reset"}
Working == {"scan", "accept", "recv", "send"}

\* Every variable has its type, and a connection that is not there has no data.
Types ==
    /\ fds \in Seq(Entries)
    /\ revents \in Seq({"none", "IN", "HUP", "NVAL"})
    /\ i \in Nat \ {0}
    /\ pc \in Working \cup {"poll", "compress", "cleanup", "ended", "killed"}
    /\ compress_array \in BOOLEAN /\ end_server \in BOOLEAN
    /\ sock \in [Fds -> [peer : Peers, unread : Nat, quota : Nat]]
    /\ \A f \in Fds : sock[f].peer = "free" => ~Open(f)
    /\ queue \in Seq({"open", "reset"})

\* The listening socket is in the first entry of s, and nothing is in two entries.
Distinct(s) ==
    /\ s # <<>> /\ s[1] = listenfd
    /\ \A j, k \in 1..Len(s) : s[j] = s[k] /\ s[j] # -1 => j = k

\* The descriptors in the table s are those of the connections c.
Listed(s, c) ==
    /\ \A k \in 1..Len(s) : s[k] \in Fds => c[s[k]] # Free
    /\ \A f \in Fds : c[f] # Free => \E k \in 1..Len(s) : s[k] = f

Table == ~Over => Listed(fds, sock)

\* What poll() has reported and the scan has still to look at is about descriptors
\* that are still in the table, and only the first entry is the listening socket.
Scan ==
    pc \in Working =>
        /\ Len(revents) <= Len(fds)
        /\ \A k \in i..Len(revents) :
              /\ revents[k] # "NVAL"
              /\ revents[k] # "none" => fds[k] # -1
              /\ revents[k] = "HUP" => fds[k] # listenfd
        /\ pc # "scan" => i <= Len(revents)
        /\ pc = "accept" => i = 1
        /\ pc \in {"recv", "send"} => fds[i] \in Fds

\* The entries without a descriptor.
Dead(s) == {k \in 1..Len(s) : s[k] = -1}

\* An entry is removed after the last accept() of a scan, so that the table does
\* not grow any more; it grows only while fewer than N entries are -1.
Bound ==
    /\ Len(fds) <= 2 * N
    /\ ~compress_array => Cardinality(Dead(fds)) <= N - 1
    /\ compress_array => i > 1 /\ pc # "poll"

IInv == Types /\ Distinct(fds) /\ Table /\ Scan /\ Bound
----------------------------------------------------------------------------
\* The entries without a descriptor are finitely many.
LEMMA DeadFinite ==
  ASSUME NEW X, NEW s \in Seq(X)
  PROVE  IsFiniteSet(Dead(s)) /\ Cardinality(Dead(s)) \in Nat /\ Cardinality(Dead(s)) <= Len(s)
<1>1. Len(s) \in Nat /\ IsFiniteSet(1..Len(s)) /\ Cardinality(1..Len(s)) = Len(s)
  <2>1. PICK n \in Nat : n = Len(s)
    BY LenProperties
  <2>2. IsFiniteSet(1..n) /\ Cardinality(1..n) = n
    BY FS_Interval
  <2> QED
    BY <2>1, <2>2
<1>2. Dead(s) \in SUBSET (1..Len(s))
  BY DEF Dead
<1>3. IsFiniteSet(Dead(s)) /\ Cardinality(Dead(s)) <= Cardinality(1..Len(s))
  BY <1>1, <1>2, FS_Subset
<1> QED
  BY <1>1, <1>3, FS_CardinalityType

\* One more entry.
LEMMA DeadAppend ==
  ASSUME NEW X, NEW s \in Seq(X), NEW x \in X
  PROVE  Cardinality(Dead(Append(s, x))) = Cardinality(Dead(s)) + (IF x = -1 THEN 1 ELSE 0)
<1>1. PICK n \in Nat : n = Len(s)
  BY LenProperties
<1> DEFINE r == Append(s, x)
<1>2. r \in Seq(X) /\ Len(r) = n + 1 /\ r[n + 1] = x /\ \A k \in 1..n : r[k] = s[k]
  BY <1>1, AppendProperties
<1> HIDE DEF r
<1>3. CASE x = -1
  <2>1. Dead(r) = Dead(s) \cup {n + 1} /\ n + 1 \notin Dead(s)
    BY <1>1, <1>2, <1>3 DEF Dead
  <2> QED
    BY <1>3, <2>1, DeadFinite, FS_AddElement DEF r
<1>4. CASE x # -1
  <2>1. Dead(r) = Dead(s)
    BY <1>1, <1>2, <1>4 DEF Dead
  <2> QED
    BY <1>4, <2>1, DeadFinite DEF r
<1> QED
  BY <1>3, <1>4

\* An entry is made -1.
LEMMA DeadAfterClose ==
  ASSUME NEW s \in Seq(Entries), NEW j \in 1..Len(s)
  PROVE  /\ [s EXCEPT ![j] = -1] \in Seq(Entries) /\ Len([s EXCEPT ![j] = -1]) = Len(s)
         /\ [s EXCEPT ![j] = -1][j] = -1
         /\ \A k \in 1..Len(s) : k # j => [s EXCEPT ![j] = -1][k] = s[k]
<1>1. -1 \in Entries
  BY PollAssumption DEF Entries
<1> QED
  BY <1>1

\* The table is no longer than the listening socket, N connections and the
\* entries without a descriptor need.
LEMMA TableLen ==
  ASSUME NEW s \in Seq(Entries), Distinct(s)
  PROVE  Len(s) <= Cardinality(Dead(s)) + N + 1
<1>1. PICK n \in Nat : n = Len(s) /\ IsFiniteSet(1..n) /\ Cardinality(1..n) = n
  BY LenProperties, FS_Interval
<1> DEFINE L == {k \in 1..n : s[k] # -1}
           f == [k \in L |-> s[k]]
<1>2. N \in Nat /\ IsFiniteSet(0..N) /\ Cardinality(0..N) = N + 1
  <2>1. N \in Nat
    BY PollAssumption
  <2> QED
    BY <2>1, FS_Interval
<1>3. f \in Injection(L, 0..N)
  <2>1. \A k \in L : s[k] \in 0..N
    BY <1>1, <1>2, ElementOfSeq DEF Entries
  <2>2. \A j, k \in L : s[j] = s[k] => j = k
    BY <1>1 DEF Distinct
  <2> QED
    BY <2>1, <2>2 DEF Injection, IsInjective
<1>4. IsFiniteSet(L) /\ Cardinality(L) <= N + 1
  <2> HIDE DEF f, L
  <2> QED
    BY <1>2, <1>3, FS_Injection
<1>5. 1..n = Dead(s) \cup L /\ Dead(s) \cap L = {}
  BY <1>1 DEF Dead
<1>6. IsFiniteSet(Dead(s)) /\ Cardinality(Dead(s)) \in Nat
  BY DeadFinite
<1> HIDE DEF L
<1>7. Cardinality(1..n) = Cardinality(Dead(s)) + Cardinality(L)
  <2>1. Cardinality(Dead(s) \cup L)
            = Cardinality(Dead(s)) + Cardinality(L) - Cardinality(Dead(s) \cap L)
    BY <1>4, <1>6, FS_Union
  <2>2. Cardinality(Dead(s) \cap L) = 0
    BY <1>5, FS_EmptySet
  <2>3. Cardinality(L) \in Nat
    BY <1>4, FS_CardinalityType
  <2>4. Cardinality(1..n) = Cardinality(Dead(s) \cup L)
    BY <1>5, Zenon
  <2> QED
    BY <1>6, <2>1, <2>2, <2>3, <2>4
<1> QED
  BY <1>1, <1>2, <1>4, <1>6, <1>7, FS_CardinalityType

\* The first entry has the listening socket.
LEMMA DeadLess ==
  ASSUME NEW s \in Seq(Entries), Distinct(s)
  PROVE  Cardinality(Dead(s)) <= Len(s) - 1
<1>1. PICK n \in Nat : n = Len(s) /\ n # 0
  BY LenProperties, EmptySeq DEF Distinct
<1>2. IsFiniteSet(2..n) /\ Cardinality(2..n) = n - 1
  <2>1. 2 \in Int /\ n \in Int
    OBVIOUS
  <2>2. IsFiniteSet(2..n) /\ Cardinality(2..n) = IF 2 > n THEN 0 ELSE n - 2 + 1
    BY <2>1, FS_Interval, Zenon
  <2> QED
    BY <1>1, <2>2
<1>3. Dead(s) \in SUBSET (2..n)
  <2>1. 1 \notin Dead(s)
    BY DEF Dead, Distinct, listenfd
  <2> QED
    BY <1>1, <2>1 DEF Dead
<1>4. Cardinality(Dead(s)) <= Cardinality(2..n)
  BY <1>2, <1>3, FS_Subset
<1> QED
  BY <1>1, <1>2, <1>4
----------------------------------------------------------------------------
\* A set that has 0 and, with a number, its successor, has every number.
LEMMA Induction ==
  ASSUME NEW T, 0 \in T, \A n \in Nat : n \in T => n + 1 \in T
  PROVE  \A n \in Nat : n \in T
<1> DEFINE R == OpToRel(<, Nat)
<1>1. IsWellFoundedOn(R, Nat)
  BY NatLessThanWellFounded
<1>2. \A x, y \in Nat : y < x => <<y, x>> \in R
  BY DEF OpToRel
<1> HIDE DEF R
<1> SUFFICES ASSUME Nat \ T # {} PROVE FALSE
  BY Zenon
<1>3. PICK n \in Nat \ T : \A m \in Nat \ T : ~(<<m, n>> \in R)
  BY <1>1, WFMin, Zenon
<1>4. n # 0 /\ n - 1 \in Nat /\ n - 1 < n
  BY <1>3
<1>5. n - 1 \in T
  BY <1>2, <1>3, <1>4
<1> QED
  BY <1>3, <1>4, <1>5

\* The function in Squeeze, for the first n entries of s.
Start == [kept |-> <<>>, moved |-> FALSE]
Upto(g, n, s) == g = [k \in 0..n |-> IF k = 0 THEN Start ELSE Look(g[k - 1], s[k])]

\* There is such a function.
LEMMA UptoExists ==
  ASSUME NEW s, NEW n \in Nat
  PROVE  \E g : Upto(g, n, s)
<1> DEFINE T == {m \in Nat : \E g : Upto(g, m, s)}
<1>1. 0 \in T
  <2> DEFINE g == [k \in 0..0 |-> Start]
  <2>1. Upto(g, 0, s)
    BY DEF Upto
  <2> QED
    BY <2>1
<1>2. ASSUME NEW m \in Nat, m \in T PROVE m + 1 \in T
  <2>1. PICK g : Upto(g, m, s)
    BY <1>2
  <2> DEFINE h == [k \in 0..m + 1 |-> IF k = m + 1 THEN Look(g[m], s[m + 1]) ELSE g[k]]
  <2>2. ASSUME NEW k \in 0..m + 1
        PROVE  h[k] = IF k = 0 THEN Start ELSE Look(h[k - 1], s[k])
    <3>1. CASE k = m + 1
      <4>1. h[k - 1] = g[m] /\ h[k] = Look(g[m], s[m + 1]) /\ k # 0
        BY <3>1
      <4> QED
        BY <3>1, <4>1
    <3>2. CASE k # m + 1
      <4>1. k \in 0..m /\ h[k] = g[k] /\ (k # 0 => k - 1 \in 0..m + 1 /\ k - 1 # m + 1)
        BY <3>2
      <4>2. k # 0 => h[k - 1] = g[k - 1]
        BY <4>1, Zenon
      <4>3. g[k] = IF k = 0 THEN Start ELSE Look(g[k - 1], s[k])
        BY <2>1, <4>1, Zenon DEF Upto
      <4> QED
        BY <4>1, <4>2, <4>3
    <3> QED
      BY <3>1, <3>2
  <2>3. h = [k \in 0..m + 1 |-> h[k]]
    BY Zenon
  <2> HIDE DEF h
  <2>4. Upto(h, m + 1, s)
    BY <2>2, <2>3 DEF Upto
  <2> QED
    BY <2>4
<1> HIDE DEF T
<1>3. n \in T
  BY <1>1, <1>2, Induction
<1> QED
  BY <1>3 DEF T

\* What the compression has kept of the first n entries of s: every descriptor
\* once, and of the entries without one no more than half.
Kept(acc, n, s) ==
    /\ acc \in [kept : Seq(Entries), moved : BOOLEAN]
    /\ Len(acc.kept) <= n
    /\ n > 0 => acc.kept # <<>> /\ acc.kept[1] = listenfd
    /\ \A j, k \in 1..Len(acc.kept) : acc.kept[j] = acc.kept[k] /\ acc.kept[j] # -1 => j = k
    /\ \A j \in 1..Len(acc.kept) : acc.kept[j] # -1 => \E k \in 1..n : s[k] = acc.kept[j]
    /\ \A k \in 1..n : s[k] # -1 => \E j \in 1..Len(acc.kept) : acc.kept[j] = s[k]
    /\ 2 * Cardinality(Dead(acc.kept)) + (IF acc.moved THEN 1 ELSE 0)
          <= Cardinality({k \in 1..n : s[k] = -1})

\* One entry more.
LEMMA LookKeeps ==
  ASSUME NEW s \in Seq(Entries), Distinct(s), NEW n \in 0..Len(s) - 1, NEW acc, Kept(acc, n, s)
  PROVE  Kept(Look(acc, s[n + 1]), n + 1, s)
<1> DEFINE x == s[n + 1]
           b == Look(acc, x)
           D(m) == {k \in 1..m : s[k] = -1}
<1>1. PICK q \in Seq(Entries), moved \in BOOLEAN : acc = [kept |-> q, moved |-> moved]
  BY DEF Kept
<1>2. n \in Nat /\ x \in Entries /\ Len(s) \in Nat /\ n + 1 \in 1..Len(s) /\ Len(q) \in Nat
  BY LenProperties, ElementOfSeq
<1>3. Kept([kept |-> q, moved |-> moved], n, s)
  BY <1>1
<1>4. /\ Len(q) <= n /\ (n > 0 => q # <<>> /\ q[1] = listenfd)
      /\ \A j, k \in 1..Len(q) : q[j] = q[k] /\ q[j] # -1 => j = k
      /\ \A j \in 1..Len(q) : q[j] # -1 => \E k \in 1..n : s[k] = q[j]
      /\ \A k \in 1..n : s[k] # -1 => \E j \in 1..Len(q) : q[j] = s[k]
      /\ 2 * Cardinality(Dead(q)) + (IF moved THEN 1 ELSE 0) <= Cardinality(D(n))
  BY <1>3 DEF Kept
<1>5. /\ IsFiniteSet(D(n)) /\ Cardinality(D(n)) \in Nat
      /\ Cardinality(D(n + 1)) = Cardinality(D(n)) + (IF x = -1 THEN 1 ELSE 0)
  <2>1. IsFiniteSet(1..n) /\ D(n) \in SUBSET (1..n)
    BY <1>2, FS_Interval
  <2>2. IsFiniteSet(D(n)) /\ Cardinality(D(n)) \in Nat
    BY <2>1, FS_Subset, FS_CardinalityType
  <2>3. IF x = -1 THEN D(n + 1) = D(n) \cup {n + 1} /\ n + 1 \notin D(n) ELSE D(n + 1) = D(n)
    BY <1>2
  <2> HIDE DEF D
  <2> QED
    BY <2>2, <2>3, FS_AddElement
<1>6. Cardinality(Dead(q)) \in Nat
  BY DeadFinite
<1>7. n = 0 => x # -1
  BY DEF Distinct, listenfd
<1>8. CASE x = -1 /\ ~moved
  <2>1. b = [kept |-> q, moved |-> TRUE]
    BY <1>1, <1>8 DEF Look
  <2>2. 2 * Cardinality(Dead(q)) + 1 <= Cardinality(D(n + 1))
    BY <1>4, <1>5, <1>6, <1>8
  <2>3. \A k \in 1..n + 1 : s[k] # -1 => k \in 1..n
    BY <1>2, <1>8
  <2>4. /\ \A j \in 1..Len(q) : q[j] # -1 => \E k \in 1..n + 1 : s[k] = q[j]
        /\ \A k \in 1..n + 1 : s[k] # -1 => \E j \in 1..Len(q) : q[j] = s[k]
    BY <1>2, <1>4, <2>3
  <2>5. Len(q) <= n + 1 /\ n > 0
    BY <1>2, <1>4, <1>7, <1>8
  <2> HIDE DEF b, x
  <2>6. Kept(b, n + 1, s)
    BY <1>1, <1>4, <2>1, <2>2, <2>4, <2>5 DEF Kept
  <2> QED
    BY <2>6 DEF b, x
<1>9. CASE x # -1 \/ moved
  <2>1. b = [kept |-> Append(q, x), moved |-> FALSE]
    BY <1>1, <1>9 DEF Look
  <2> DEFINE r == Append(q, x)
             m == Len(q)
  <2>2. /\ r \in Seq(Entries) /\ Len(r) = m + 1 /\ r[m + 1] = x
        /\ \A k \in 1..m : r[k] = q[k]
    BY <1>2, AppendProperties
  <2>3. Cardinality(Dead(r)) = Cardinality(Dead(q)) + (IF x = -1 THEN 1 ELSE 0)
    BY <1>2, DeadAppend
  <2> HIDE DEF r
  <2>4. 2 * Cardinality(Dead(r)) <= Cardinality(D(n + 1))
    BY <1>4, <1>5, <1>6, <1>9, <2>3
  <2>5. x # -1 => \A j \in 1..m : q[j] # x
    <3> SUFFICES ASSUME x # -1, NEW j \in 1..m, q[j] = x PROVE FALSE
      OBVIOUS
    <3>1. PICK k \in 1..n : s[k] = x
      BY <1>4
    <3>2. k = n + 1
      BY <1>2, <3>1 DEF Distinct
    <3> QED
      BY <1>2, <3>1, <3>2
  <2>6. \A j, k \in 1..m + 1 : r[j] = r[k] /\ r[j] # -1 => j = k
    <3> SUFFICES ASSUME NEW j \in 1..m + 1, NEW k \in 1..m + 1, r[j] = r[k], r[j] # -1
                 PROVE  j = k
      OBVIOUS
    <3>1. (j \in 1..m \/ j = m + 1) /\ (k \in 1..m \/ k = m + 1)
      BY <1>2
    <3>2. CASE j \in 1..m /\ k \in 1..m
      BY <1>4, <2>2, <3>2
    <3>3. CASE j \in 1..m /\ k = m + 1
      BY <2>2, <2>5, <3>3
    <3>4. CASE j = m + 1 /\ k \in 1..m
      BY <2>2, <2>5, <3>4
    <3> QED
      BY <3>1, <3>2, <3>3, <3>4
  <2>7. \A j \in 1..m + 1 : r[j] # -1 => \E k \in 1..n + 1 : s[k] = r[j]
    <3> SUFFICES ASSUME NEW j \in 1..m + 1, r[j] # -1
                 PROVE  \E k \in 1..n + 1 : s[k] = r[j]
      OBVIOUS
    <3>1. CASE j \in 1..m
      <4>1. PICK k \in 1..n : s[k] = r[j]
        BY <1>4, <2>2, <3>1
      <4> QED
        BY <1>2, <4>1
    <3>2. CASE j = m + 1
      BY <1>2, <2>2, <3>2
    <3> QED
      BY <1>2, <3>1, <3>2
  <2>8. \A k \in 1..n + 1 : s[k] # -1 => \E j \in 1..m + 1 : r[j] = s[k]
    <3> SUFFICES ASSUME NEW k \in 1..n + 1, s[k] # -1
                 PROVE  \E j \in 1..m + 1 : r[j] = s[k]
      OBVIOUS
    <3>1. CASE k \in 1..n
      <4>1. PICK j \in 1..m : q[j] = s[k]
        BY <1>4, <3>1
      <4> QED
        BY <1>2, <2>2, <4>1
    <3>2. CASE k = n + 1
      BY <1>2, <2>2, <3>2
    <3> QED
      BY <1>2, <3>1, <3>2
  <2>9. r # <<>> /\ r[1] = listenfd
    <3>1. CASE n = 0
      <4>1. m = 0 /\ x = listenfd
        BY <1>2, <1>4, <3>1 DEF Distinct
      <4>2. Len(r) = 1 /\ r[1] = x
        BY <2>2, <4>1
      <4>3. r # <<>>
        BY <2>2, <4>2, EmptySeq
      <4> HIDE DEF x
      <4> QED
        BY <4>1, <4>2, <4>3
    <3>2. CASE n # 0
      <4>1. m >= 1 /\ q[1] = listenfd
        BY <1>2, <1>4, <3>2, EmptySeq
      <4> QED
        BY <1>2, <2>2, <4>1, EmptySeq
    <3> QED
      BY <3>1, <3>2
  <2>10. Len(r) <= n + 1 /\ n + 1 > 0
    BY <1>2, <1>4, <2>2
  <2>11. b = [kept |-> r, moved |-> FALSE]
    BY <2>1 DEF r
  <2> HIDE DEF b, x, m
  <2>12. /\ \A j, k \in 1..Len(r) : r[j] = r[k] /\ r[j] # -1 => j = k
         /\ \A j \in 1..Len(r) : r[j] # -1 => \E k \in 1..n + 1 : s[k] = r[j]
         /\ \A k \in 1..n + 1 : s[k] # -1 => \E j \in 1..Len(r) : r[j] = s[k]
    BY <2>2, <2>6, <2>7, <2>8
  <2>13. b \in [kept : Seq(Entries), moved : BOOLEAN] /\ b.kept = r /\ b.moved = FALSE
    BY <2>2, <2>11
  <2>14. 2 * Cardinality(Dead(r)) + 0 <= Cardinality(D(n + 1))
    BY <1>5, <1>6, <2>3, <2>4
  <2>15. Kept(b, n + 1, s)
    BY <2>9, <2>10, <2>12, <2>13, <2>14 DEF Kept
  <2> QED
    BY <2>15 DEF b, x
<1> QED
  BY <1>1, <1>8, <1>9

\* The compressed table.
LEMMA SqueezeIs ==
  ASSUME NEW s \in Seq(Entries), Distinct(s)
  PROVE  /\ Squeeze(s) \in Seq(Entries) /\ Distinct(Squeeze(s)) /\ Len(Squeeze(s)) <= Len(s)
         /\ \A j \in 1..Len(Squeeze(s)) :
               Squeeze(s)[j] # -1 => \E k \in 1..Len(s) : s[k] = Squeeze(s)[j]
         /\ \A k \in 1..Len(s) : s[k] # -1 => \E j \in 1..Len(Squeeze(s)) : Squeeze(s)[j] = s[k]
         /\ 2 * Cardinality(Dead(Squeeze(s))) <= Cardinality(Dead(s))
<1> DEFINE n == Len(s)
           f == CHOOSE g : Upto(g, n, s)
<1>1. n \in Nat /\ n > 0
  BY LenProperties, EmptySeq DEF Distinct
<1>2. Upto(f, n, s)
  <2>1. \E g : Upto(g, n, s)
    BY <1>1, UptoExists
  <2> QED
    BY <2>1, Zenon
<1>3. Squeeze(s) = f[n].kept
  BY DEF Squeeze, Upto, Start
<1> HIDE DEF f
<1>4. f[0] = Start /\ \A k \in 1..n : f[k] = Look(f[k - 1], s[k])
  BY <1>1, <1>2 DEF Upto
<1> DEFINE T == {k \in Nat : k <= n => Kept(f[k], k, s)}
<1>5. 0 \in T
  <2>1. Dead(<<>>) = {} /\ {k \in 1..0 : s[k] = -1} = {} /\ <<>> \in Seq(Entries) /\ Len(<<>>) = 0
    BY DEF Dead
  <2>2. Kept(Start, 0, s)
    BY <2>1, FS_EmptySet DEF Kept, Start
  <2> QED
    BY <1>4, <2>2
<1>6. ASSUME NEW k \in Nat, k \in T PROVE k + 1 \in T
  <2> SUFFICES ASSUME k + 1 <= n PROVE Kept(f[k + 1], k + 1, s)
    OBVIOUS
  <2>1. Kept(f[k], k, s) /\ k \in 0..n - 1
    BY <1>1, <1>6
  <2>2. Kept(Look(f[k], s[k + 1]), k + 1, s)
    BY <2>1, LookKeeps
  <2>3. f[k + 1] = Look(f[k], s[k + 1])
    BY <1>1, <1>4, <2>1
  <2> QED
    BY <2>2, <2>3
<1> HIDE DEF T
<1>7. n \in T
  BY <1>1, <1>5, <1>6, Induction
<1>8. Kept(f[n], n, s)
  BY <1>1, <1>7 DEF T
<1>9. PICK r \in Seq(Entries), moved \in BOOLEAN : f[n] = [kept |-> r, moved |-> moved]
  BY <1>8 DEF Kept
<1>10. Squeeze(s) = r
  BY <1>3, <1>9
<1>11. Kept([kept |-> r, moved |-> moved], n, s)
  BY <1>8, <1>9
<1>12. /\ Len(r) <= n /\ r # <<>> /\ r[1] = listenfd
       /\ \A j, k \in 1..Len(r) : r[j] = r[k] /\ r[j] # -1 => j = k
       /\ \A j \in 1..Len(r) : r[j] # -1 => \E k \in 1..n : s[k] = r[j]
       /\ \A k \in 1..n : s[k] # -1 => \E j \in 1..Len(r) : r[j] = s[k]
       /\ 2 * Cardinality(Dead(r)) + (IF moved THEN 1 ELSE 0) <= Cardinality(Dead(s))
  BY <1>1, <1>11 DEF Kept, Dead
<1>13. Cardinality(Dead(r)) \in Nat /\ Cardinality(Dead(s)) \in Nat
  BY DeadFinite
<1>14. 2 * Cardinality(Dead(r)) <= Cardinality(Dead(s))
  BY <1>12, <1>13
<1> QED
  BY <1>10, <1>12, <1>14 DEF Distinct
----------------------------------------------------------------------------
\* What the invariant says of the entry at which the server is.
LEMMA Here ==
  ASSUME IInv
  PROVE  /\ Len(fds) \in Nat /\ Len(fds) >= 1 /\ Len(revents) \in Nat /\ N \in Nat /\ N >= 1
         /\ \A k \in 1..Len(fds) : fds[k] \in Entries
         /\ \A k \in 1..Len(fds) : fds[k] = listenfd => k = 1
         /\ pc = "scan" /\ i <= Len(revents) =>
               /\ i \in 1..Len(fds) /\ revents[i] \in {"none", "IN", "HUP"}
               /\ revents[i] # "none" => fds[i] \in 0..N
               /\ revents[i] = "HUP" => fds[i] \in Fds
         /\ pc = "accept" => i = 1 /\ ~compress_array /\ Len(revents) >= 1
         /\ pc \in {"recv", "send"} =>
               i \in 1..Len(fds) /\ i <= Len(revents) /\ fds[i] \in Fds /\ Open(fds[i])
         /\ \A f \in Fds : Open(f) <=> sock[f].peer # "free"
<1>1. Len(fds) \in Nat /\ Len(revents) \in Nat /\ N \in Nat /\ N >= 1 /\ i \in Nat /\ i >= 1
  BY LenProperties, PollAssumption DEF IInv, Types
<1>2. Len(fds) >= 1
  BY <1>1, EmptySeq DEF IInv, Types, Distinct
<1>3. \A k \in 1..Len(fds) : fds[k] \in Entries
  BY <1>1, ElementOfSeq DEF IInv, Types
<1>4. \A k \in 1..Len(fds) : fds[k] = listenfd => k = 1
  BY <1>1, <1>2 DEF IInv, Distinct, listenfd
<1>5. ASSUME pc = "scan", i <= Len(revents)
      PROVE  /\ i \in 1..Len(fds) /\ revents[i] \in {"none", "IN", "HUP"}
             /\ revents[i] # "none" => fds[i] \in 0..N
             /\ revents[i] = "HUP" => fds[i] \in Fds
  <2>1. Len(revents) <= Len(fds) /\ i \in i..Len(revents)
    BY <1>1, <1>5 DEF IInv, Scan, Working
  <2>2. /\ revents[i] # "NVAL"
        /\ revents[i] # "none" => fds[i] # -1
        /\ revents[i] = "HUP" => fds[i] # listenfd
    BY <1>5, <2>1 DEF IInv, Scan, Working
  <2>3. i \in 1..Len(fds) /\ i \in 1..Len(revents)
    BY <1>1, <1>5, <2>1
  <2>4. revents[i] \in {"none", "IN", "HUP", "NVAL"}
    BY <2>3, ElementOfSeq DEF IInv, Types
  <2>5. fds[i] \in Entries
    BY <1>3, <2>3
  <2> QED
    BY <1>1, <2>2, <2>3, <2>4, <2>5 DEF Entries, Fds, listenfd
<1>6. pc = "accept" => i = 1 /\ ~compress_array /\ Len(revents) >= 1
  BY <1>1 DEF IInv, Scan, Working, Bound
<1>7. ASSUME pc \in {"recv", "send"}
      PROVE  i \in 1..Len(fds) /\ i <= Len(revents) /\ fds[i] \in Fds /\ Open(fds[i])
  <2>1. Len(revents) <= Len(fds) /\ i <= Len(revents) /\ fds[i] \in Fds
    BY <1>7 DEF IInv, Scan, Working
  <2>2. i \in 1..Len(fds)
    BY <1>1, <2>1
  <2> QED
    BY <1>7, <2>1, <2>2 DEF IInv, Table, Listed, Open, Over
<1>8. \A f \in Fds : Open(f) <=> sock[f].peer # "free"
  BY DEF IInv, Types, Open, Free
<1> QED
  BY <1>1, <1>2, <1>3, <1>4, <1>5, <1>6, <1>7, <1>8

\* accept() finds the lowest descriptor that is free.
LEMMA NewSdIs ==
  ASSUME NEW f \in Fds, ~Open(f)
  PROVE  NewSd \in Fds /\ ~Open(NewSd)
<1> DEFINE T == {k \in Nat : \A g \in Fds : g <= k => Open(g)}
<1>1. N \in Nat
  BY PollAssumption
<1>2. \E g \in Fds : ~Open(g) /\ \A h \in 1..(g - 1) : Open(h)
  <2> SUFFICES ASSUME ~\E g \in Fds : ~Open(g) /\ \A h \in 1..(g - 1) : Open(h)
               PROVE  FALSE
    OBVIOUS
  <2>1. 0 \in T
    BY <1>1 DEF Fds
  <2>2. ASSUME NEW k \in Nat, k \in T PROVE k + 1 \in T
    <3> SUFFICES ASSUME NEW g \in Fds, g <= k + 1 PROVE Open(g)
      OBVIOUS
    <3>1. \A h \in 1..(g - 1) : h \in Fds /\ h <= k
      BY <1>1 DEF Fds
    <3>2. \A h \in 1..(g - 1) : Open(h)
      BY <2>2, <3>1
    <3> QED
      BY <3>2
  <2> HIDE DEF T
  <2>3. f \in T
    BY <1>1, <2>1, <2>2, Induction DEF Fds
  <2> QED
    BY <1>1, <2>3 DEF T, Fds
<1> QED
  BY <1>2, Zenon DEF NewSd

\* What poll() reports.
LEMMA PolledIs ==
  ASSUME IInv, ~Over, NEW k \in 1..Len(fds)
  PROVE  /\ Polled(fds[k]) \in {"none", "IN", "HUP"}
         /\ Polled(fds[k]) # "none" => fds[k] # -1
         /\ Polled(fds[k]) = "HUP" => fds[k] # listenfd
<1>1. fds[k] \in Entries /\ N \in Nat
  BY Here
<1>2. fds[k] = -1 \/ fds[k] = listenfd \/ fds[k] \in Fds
  BY <1>1 DEF Entries, listenfd, Fds
<1>3. CASE fds[k] = -1
  <2>1. fds[k] # listenfd /\ fds[k] \notin Fds
    BY <1>1, <1>3 DEF listenfd, Fds
  <2> QED
    BY <1>3, <2>1 DEF Polled
<1>4. CASE fds[k] = listenfd
  <2>1. fds[k] # -1 /\ Polled(fds[k]) = IF queue = <<>> THEN "none" ELSE "IN"
    <3>1. fds[k] # -1 /\ fds[k] \notin Fds
      BY <1>1, <1>4 DEF listenfd, Fds
    <3> QED
      BY <1>4, <3>1 DEF Polled
  <2> QED
    BY <2>1
<1>5. CASE fds[k] \in Fds
  <2>1. fds[k] # -1 /\ fds[k] # listenfd /\ Open(fds[k])
    BY <1>1, <1>5 DEF Fds, listenfd, IInv, Table, Listed, Open
  <2> DEFINE f == fds[k]
  <2>2. CASE sock[f].peer = "reset"
    BY <1>5, <2>1, <2>2 DEF Polled
  <2>3. CASE sock[f].peer # "reset"
    <3>1. Polled(f) = IF sock[f].unread > 0 \/ sock[f].peer = "closed" THEN "IN" ELSE "none"
      BY <1>5, <2>1, <2>3 DEF Polled
    <3> QED
      BY <2>1, <3>1
  <2> QED
    BY <2>2, <2>3
<1> QED
  BY <1>2, <1>3, <1>4, <1>5
----------------------------------------------------------------------------
\* Every step keeps the types.
LEMMA TypesStep == IInv /\ [Next]_vars => Types'
<1> SUFFICES ASSUME IInv, [Next]_vars PROVE Types'
  OBVIOUS
<1> DEFINE Events == {"none", "IN", "HUP", "NVAL"}
           Labels == Working \cup {"poll", "compress", "cleanup", "ended", "killed"}
           Sock == [peer : Peers, unread : Nat, quota : Nat]
           Socks == {s \in [Fds -> Sock] : \A f \in Fds : s[f].peer = "free" => s[f] = Free}
           Waiting == Seq({"open", "reset"})
<1>1. /\ fds \in Seq(Entries) /\ revents \in Seq(Events) /\ i \in Nat \ {0} /\ i + 1 \in Nat \ {0}
      /\ pc \in Labels /\ compress_array \in BOOLEAN /\ end_server \in BOOLEAN
      /\ sock \in Socks /\ queue \in Waiting
  BY DEF IInv, Types, Open
<1> SUFFICES /\ fds' \in Seq(Entries) /\ revents' \in Seq(Events) /\ i' \in Nat \ {0}
             /\ pc' \in Labels /\ compress_array' \in BOOLEAN /\ end_server' \in BOOLEAN
             /\ sock' \in Socks /\ queue' \in Waiting
  BY DEF Types, Open
<1>2. Free \in Sock /\ MaxMsgs \in Nat
  BY PollAssumption DEF Free, Peers
<1>3. \A f \in Fds, c \in Sock : (c.peer = "free" => c = Free) => [sock EXCEPT ![f] = c] \in Socks
  BY <1>1
<1>4. \A f \in Fds : sock[f] \in Sock
  BY <1>1
<1>5. ASSUME Close, fds[i] \in Fds, i \in 1..Len(fds)
      PROVE  /\ fds' \in Seq(Entries) /\ sock' \in Socks /\ i' = i + 1
             /\ compress_array' \in BOOLEAN
  <2>1. fds' \in Seq(Entries)
    BY <1>1, <1>5, DeadAfterClose DEF Close
  <2>2. sock' \in Socks
    BY <1>2, <1>3, <1>5 DEF Close
  <2> QED
    BY <1>5, <2>1, <2>2 DEF Close
<1>6. queue # <<>> => Head(queue) \in {"open", "reset"} /\ Tail(queue) \in Waiting
  BY <1>1, HeadTailProperties
<1> HIDE DEF Socks, Waiting, Sock, Events
<1>7. CASE Poll
  <2>1. Len(fds) \in Nat /\ \A k \in 1..Len(fds) : Polled(fds[k]) \in Events
    BY <1>7, Here, PolledIs DEF Poll, Over, Events
  <2>2. revents' \in Seq(Events)
    BY <1>7, <2>1 DEF Poll
  <2> QED
    BY <1>1, <1>7, <2>2 DEF Poll, Working
<1>8. CASE ScanNext
  BY <1>1, <1>8 DEF ScanNext
<1>9. CASE PollHup
  <2>1. fds[i] \in Fds /\ i \in 1..Len(fds)
    BY <1>9, Here DEF PollHup, At
  <2> QED
    BY <1>1, <1>5, <1>9, <2>1 DEF PollHup
<1>10. CASE PollIn
  BY <1>1, <1>10 DEF PollIn, Working
<1>11. CASE Accept
  <2>1. NewSd \in Fds /\ NewSd \in Entries
    <3>1. NewSd \in Fds
      BY <1>11, NewSdIs DEF Accept
    <3> QED
      BY <3>1, Here DEF Fds, Entries
  <2>2. fds' \in Seq(Entries)
    BY <1>1, <1>11, <2>1, AppendProperties DEF Accept
  <2>3. Connection(Head(queue)) \in Sock /\ Connection(Head(queue)).peer # "free"
    BY <1>2, <1>6, <1>11 DEF Accept, Connection, Sock, Peers
  <2>4. sock' \in Socks
    BY <1>3, <1>11, <2>1, <2>3 DEF Accept
  <2> QED
    BY <1>1, <1>6, <1>11, <2>2, <2>4 DEF Accept
<1>12. CASE AcceptFails
  BY <1>1, <1>6, <1>12 DEF AcceptFails, Working
<1>13. CASE Recv
  <2>1. PICK f \in Fds : f = fds[i]
    BY <1>13, Here DEF Recv
  <2>2. sock[f] \in Sock /\ sock[f].peer # "free" /\ sock[f].unread > 0
    <3>1. Open(f)
      BY <1>13, <2>1, Here DEF Recv
    <3>2. sock[f].peer # "free"
      BY <3>1, Here
    <3>3. sock[f].unread > 0
      BY <1>13, <2>1 DEF Recv
    <3> QED
      BY <1>4, <3>2, <3>3
  <2>3. [sock[f] EXCEPT !.unread = @ - 1] \in Sock
        /\ [sock[f] EXCEPT !.unread = @ - 1].peer = sock[f].peer
    BY <2>2 DEF Sock
  <2>4. sock' = [sock EXCEPT ![f] = [sock[f] EXCEPT !.unread = @ - 1]]
    BY <1>1, <1>13, <2>1 DEF Recv, Socks
  <2>5. sock' \in Socks
    BY <1>3, <2>2, <2>3, <2>4
  <2> QED
    BY <1>1, <1>13, <2>5 DEF Recv, Working
<1>14. CASE RecvNone
  BY <1>1, <1>14 DEF RecvNone, Working
<1>15. CASE RecvEnd
  <2>1. fds[i] \in Fds /\ i \in 1..Len(fds)
    BY <1>15, Here DEF RecvEnd
  <2> QED
    BY <1>1, <1>5, <1>15, <2>1 DEF RecvEnd, Working
<1>16. ASSUME NEW f \in Fds, NEW peer \in Peers \ {"free"}, sock[f].peer # "free",
              sock' = [sock EXCEPT ![f].peer = peer]
       PROVE  sock' \in Socks
  <2>1. [sock[f] EXCEPT !.peer = peer] \in Sock /\ [sock[f] EXCEPT !.peer = peer].peer = peer
    BY <1>4 DEF Sock
  <2>2. sock' = [sock EXCEPT ![f] = [sock[f] EXCEPT !.peer = peer]]
    BY <1>1, <1>16 DEF Socks
  <2> QED
    BY <1>3, <2>1, <2>2
<1>17. CASE Send
  <2>1. fds[i] \in Fds
    BY <1>17, Here DEF Send
  <2>2. sock' \in Socks
    <3>1. CASE UNCHANGED sock
      BY <1>1, <3>1
    <3>2. CASE sock[fds[i]].peer = "closed" /\ sock' = [sock EXCEPT ![fds[i]].peer = "reset"]
      <4>1. PICK f \in Fds : f = fds[i]
        BY <2>1
      <4>2. "reset" \in Peers \ {"free"} /\ sock[f].peer # "free"
            /\ sock' = [sock EXCEPT ![f].peer = "reset"]
        BY <3>2, <4>1 DEF Peers
      <4> QED
        BY <1>16, <4>2
    <3> QED
      BY <1>17, <3>1, <3>2 DEF Send
  <2> QED
    BY <1>1, <1>17, <2>2 DEF Send, Working
<1>18. CASE SendKills
  BY <1>1, <1>18 DEF SendKills
<1>19. CASE ScanEnds
  BY <1>1, <1>19 DEF ScanEnds
<1>20. CASE Compress
  <2>1. Squeeze(fds) \in Seq(Entries)
    BY <1>1, SqueezeIs DEF IInv
  <2>2. revents' = <<>> /\ <<>> \in Seq(Events) /\ i' = 1
    BY <1>20 DEF Compress
  <2>3. fds' \in Seq(Entries)
    BY <1>1, <1>20, <2>1 DEF Compress
  <2>4. pc' \in Labels /\ compress_array' \in BOOLEAN /\ end_server' \in BOOLEAN
    BY <1>1, <1>20 DEF Compress
  <2>5. sock' \in Socks /\ queue' \in Waiting
    BY <1>1, <1>20 DEF Compress
  <2> QED
    BY <2>2, <2>3, <2>4, <2>5
<1>21. CASE Cleanup
  <2>1. sock' \in Socks
    BY <1>1, <1>2, <1>21 DEF Cleanup, Socks
  <2> QED
    BY <1>1, <1>21, <2>1 DEF Cleanup
<1>22. CASE PollEnds
  BY <1>1, <1>22 DEF PollEnds
<1>23. CASE Clients
  <2>1. CASE Connect
    <3>1. queue' \in Waiting
      BY <1>1, <2>1, AppendProperties DEF Connect, Waiting
    <3> QED
      BY <1>1, <2>1, <3>1 DEF Connect
  <2>2. CASE Abort
    <3>1. PICK k \in 1..Len(queue) : queue' = [queue EXCEPT ![k] = "reset"]
      BY <2>2 DEF Abort
    <3>2. queue' \in Waiting
      BY <1>1, <3>1, ExceptSeq DEF Waiting
    <3> QED
      BY <1>1, <2>2, <3>2 DEF Abort
  <2>3. ASSUME NEW f \in Fds, ClientSends(f) PROVE sock' \in Socks
    <3>1. sock[f] \in Sock /\ sock[f].peer = "open" /\ sock[f].quota > 0
      BY <1>4, <2>3 DEF ClientSends
    <3>2. PICK c : c = [sock[f] EXCEPT !.unread = @ + 1, !.quota = @ - 1]
      OBVIOUS
    <3>3. c \in Sock /\ c.peer = "open"
      <4>1. PICK d \in Sock : d = sock[f]
        BY <3>1
      <4>2. PICK e : e = [d EXCEPT !.unread = d.unread + 1]
        OBVIOUS
      <4>3. e \in Sock /\ e.peer = "open" /\ e.quota \in Nat /\ e.quota > 0
        BY <3>1, <4>1, <4>2 DEF Sock
      <4>4. [e EXCEPT !.quota = e.quota - 1] \in Sock
            /\ [e EXCEPT !.quota = e.quota - 1].peer = "open"
        BY <4>3 DEF Sock
      <4>5. c = [e EXCEPT !.quota = e.quota - 1]
        BY <3>2, <4>1, <4>2, Zenon
      <4> QED
        BY <4>4, <4>5
    <3>4. sock' = [sock EXCEPT ![f] = c]
      BY <1>1, <2>3, <3>2 DEF ClientSends, Socks
    <3> QED
      BY <1>3, <3>3, <3>4
  <2>4. ASSUME NEW f \in Fds, ClientEnds(f) PROVE sock' \in Socks
    BY <1>16, <2>4 DEF ClientEnds, Peers
  <2> QED
    BY <1>1, <1>23, <2>1, <2>2, <2>3, <2>4 DEF Clients, ClientSends, ClientEnds
<1>24. CASE UNCHANGED vars
  BY <1>1, <1>24 DEF vars
<1> QED
  BY <1>7, <1>8, <1>9, <1>10, <1>11, <1>12, <1>13, <1>14, <1>15, <1>17, <1>18, <1>19, <1>20,
     <1>21, <1>22, <1>23, <1>24 DEF Next, Server
----------------------------------------------------------------------------
\* Only a server that goes on takes a step.
LEMMA NotOver == [Next]_vars /\ Over => UNCHANGED vars
BY DEF Next, Server, Over, Poll, ScanNext, PollHup, PollIn, Accept, AcceptFails, Recv, RecvNone,
       RecvEnd, Send, SendKills, ScanEnds, Compress, Cleanup, PollEnds, At

\* close() takes one descriptor out of the table, and its connection is gone.
LEMMA CloseKeeps ==
  ASSUME IInv, ~Over, Close, i \in 1..Len(fds), fds[i] \in Fds
  PROVE  Distinct(fds') /\ Listed(fds', sock')
<1>1. PICK n \in Nat : n = Len(fds)
  BY Here
<1>2. PICK j \in 1..n, g \in Fds : j = i /\ g = fds[i]
  BY <1>1
<1>3. fds \in Seq(Entries) /\ j \in 1..Len(fds)
  BY <1>1, <1>2 DEF IInv, Types
<1>4. fds' = [fds EXCEPT ![j] = -1] /\ sock' = [sock EXCEPT ![g] = Free]
  BY <1>2 DEF Close
<1>5. fds' \in Seq(Entries) /\ Len(fds') = n /\ fds'[j] = -1
      /\ \A k \in 1..n : k # j => fds'[k] = fds[k]
  <2>1. PICK t : t = [fds EXCEPT ![j] = -1]
    OBVIOUS
  <2>2. t \in Seq(Entries) /\ Len(t) = n /\ t[j] = -1 /\ \A k \in 1..n : k # j => t[k] = fds[k]
    BY <1>1, <1>3, <2>1, DeadAfterClose
  <2> QED
    BY <1>4, <2>1, <2>2
<1>6. \A k, l \in 1..n : fds[k] = fds[l] /\ fds[k] # -1 => k = l
  BY <1>1 DEF IInv, Distinct
<1>7. g # -1 /\ -1 \notin Fds /\ listenfd \notin Fds /\ fds[j] = g
  BY <1>2, PollAssumption DEF Fds, listenfd
<1>8. 1 \in 1..n /\ fds[1] = listenfd
  BY <1>1, Here DEF IInv, Distinct
<1>9. Distinct(fds')
  <2>1. fds'[1] = listenfd
    BY <1>5, <1>7, <1>8
  <2>2. fds' # <<>>
    BY <1>5, <1>8, EmptySeq
  <2>3. \A k, l \in 1..n : fds'[k] = fds'[l] /\ fds'[k] # -1 => k = l
    BY <1>5, <1>6
  <2> QED
    BY <1>5, <2>1, <2>2, <2>3 DEF Distinct
<1>10. \A f \in Fds : sock'[f] # Free <=> sock[f] # Free /\ f # g
  <2>1. sock \in [Fds -> [peer : Peers, unread : Nat, quota : Nat]]
    BY DEF IInv, Types
  <2> QED
    BY <1>4, <2>1
<1>11. /\ \A k \in 1..n : fds[k] \in Fds => sock[fds[k]] # Free
       /\ \A f \in Fds : sock[f] # Free => \E k \in 1..n : fds[k] = f
  BY <1>1 DEF IInv, Table, Listed
<1>12. ASSUME NEW k \in 1..n, fds'[k] \in Fds PROVE sock'[fds'[k]] # Free
  <2>1. k # j /\ fds'[k] = fds[k]
    BY <1>5, <1>7, <1>12
  <2>2. fds[k] # g
    BY <1>2, <1>6, <1>7, <2>1
  <2> QED
    BY <1>10, <1>11, <1>12, <2>1, <2>2
<1>13. ASSUME NEW f \in Fds, sock'[f] # Free PROVE \E k \in 1..n : fds'[k] = f
  <2>1. sock[f] # Free /\ f # g
    BY <1>10, <1>13
  <2>2. PICK k \in 1..n : fds[k] = f
    BY <1>11, <2>1
  <2>3. k # j
    BY <1>7, <2>1, <2>2
  <2> QED
    BY <1>5, <2>2, <2>3
<1> QED
  BY <1>5, <1>9, <1>12, <1>13 DEF Listed

\* accept() puts a descriptor at the end that was not there.
LEMMA AcceptKeeps ==
  ASSUME IInv, Accept
  PROVE  /\ Distinct(fds') /\ Listed(fds', sock')
         /\ fds' \in Seq(Entries) /\ Len(fds') = Len(fds) + 1
         /\ \A k \in 1..Len(fds) : fds'[k] = fds[k]
         /\ Cardinality(Dead(fds')) = Cardinality(Dead(fds))
<1>1. PICK n \in Nat : n = Len(fds)
  BY Here
<1>2. PICK g \in Fds : g = NewSd /\ ~Open(g)
  <2>1. NewSd \in Fds /\ ~Open(NewSd)
    BY NewSdIs DEF Accept
  <2> QED
    BY <2>1
<1>3. PICK c : c = Connection(Head(queue))
  OBVIOUS
<1>4. g \in Entries /\ g # -1 /\ g # listenfd
  BY PollAssumption DEF Fds, Entries, listenfd
<1>5. PICK s \in Seq(Entries) : s = fds
  BY DEF IInv, Types
<1>6. PICK t : t = Append(s, g)
  OBVIOUS
<1>7. t \in Seq(Entries) /\ Len(t) = n + 1 /\ t[n + 1] = g /\ \A k \in 1..n : t[k] = s[k]
  BY <1>1, <1>4, <1>5, <1>6, AppendProperties
<1>8. Cardinality(Dead(t)) = Cardinality(Dead(s))
  <2>1. Cardinality(Dead(t)) = Cardinality(Dead(s)) + 0
    BY <1>4, <1>6, DeadAppend
  <2> QED
    BY <2>1, DeadFinite
<1>9. fds' = t /\ sock' = [sock EXCEPT ![g] = c]
  BY <1>2, <1>3, <1>5, <1>6 DEF Accept
<1>10. c # Free
  <2>1. Head(queue) \in {"open", "reset"}
    BY HeadTailProperties DEF Accept, IInv, Types
  <2>2. c.peer = Head(queue)
    BY <1>3 DEF Connection
  <2>3. Free.peer = "free"
    BY DEF Free
  <2> QED
    BY <2>1, <2>2, <2>3
<1>11. ~Over /\ sock[g] = Free
  BY <1>2 DEF Open, Over, Accept
<1>12. /\ \A k \in 1..n : s[k] \in Fds => sock[s[k]] # Free
       /\ \A f \in Fds : sock[f] # Free => \E k \in 1..n : s[k] = f
  BY <1>1, <1>5, <1>11 DEF IInv, Table, Listed
<1>13. n >= 1 /\ s[1] = listenfd /\ \A k, l \in 1..n : s[k] = s[l] /\ s[k] # -1 => k = l
  BY <1>1, <1>5, Here DEF IInv, Distinct
<1>14. \A k \in 1..n : s[k] # g
  BY <1>11, <1>12
<1>15. Distinct(t)
  <2>1. t # <<>> /\ t[1] = listenfd
    BY <1>7, <1>13, EmptySeq
  <2>2. ASSUME NEW k \in 1..n + 1, NEW l \in 1..n + 1, t[k] = t[l], t[k] # -1 PROVE k = l
    <3>1. CASE k \in 1..n /\ l \in 1..n
      BY <1>7, <1>13, <2>2, <3>1
    <3>2. CASE k = n + 1 /\ l \in 1..n
      BY <1>7, <1>14, <2>2, <3>2
    <3>3. CASE k \in 1..n /\ l = n + 1
      BY <1>7, <1>14, <2>2, <3>3
    <3> QED
      BY <3>1, <3>2, <3>3
  <2> QED
    BY <1>7, <2>1, <2>2 DEF Distinct
<1>16. \A f \in Fds : sock'[f] = IF f = g THEN c ELSE sock[f]
  <2>1. sock \in [Fds -> [peer : Peers, unread : Nat, quota : Nat]]
    BY DEF IInv, Types
  <2> QED
    BY <1>9, <2>1
<1>17. ASSUME NEW k \in 1..n + 1, t[k] \in Fds PROVE sock'[t[k]] # Free
  <2>1. CASE k \in 1..n
    BY <1>7, <1>12, <1>14, <1>16, <1>17, <2>1
  <2>2. CASE k = n + 1
    BY <1>7, <1>10, <1>16, <2>2
  <2> QED
    BY <2>1, <2>2
<1>18. ASSUME NEW f \in Fds, sock'[f] # Free PROVE \E k \in 1..n + 1 : t[k] = f
  <2>1. CASE f = g
    BY <1>7, <2>1
  <2>2. CASE f # g
    <3>1. PICK k \in 1..n : s[k] = f
      BY <1>12, <1>16, <1>18, <2>2
    <3> QED
      BY <1>7, <3>1
  <2> QED
    BY <2>1, <2>2
<1>19. Listed(t, sock')
  BY <1>7, <1>17, <1>18 DEF Listed
<1> QED
  BY <1>1, <1>5, <1>7, <1>8, <1>9, <1>15, <1>19

\* Every step keeps the table sound.
LEMMA TableStep == IInv /\ [Next]_vars => Distinct(fds') /\ Table'
<1> SUFFICES ASSUME IInv, [Next]_vars PROVE Distinct(fds') /\ Table'
  OBVIOUS
<1>1. Distinct(fds) /\ Table /\ fds \in Seq(Entries)
  BY DEF IInv, Types
<1>2. CASE Over
  <2>1. UNCHANGED vars
    BY <1>2, NotOver
  <2> QED
    BY <1>1, <2>1 DEF vars, Table, Over
<1>3. CASE ~Over
  <2>1. Listed(fds, sock)
    BY <1>1, <1>3 DEF Table
  <2>2. CASE UNCHANGED <<fds, sock>>
    BY <1>1, <2>1, <2>2 DEF Table
  <2>3. CASE PollHup \/ RecvEnd
    <3>1. i \in 1..Len(fds) /\ fds[i] \in Fds /\ Close
      BY <2>3, Here DEF PollHup, RecvEnd, At
    <3> QED
      BY <1>3, <3>1, CloseKeeps DEF Table
  <2>4. CASE Accept
    BY <2>4, AcceptKeeps DEF Table
  <2>5. CASE UNCHANGED fds /\ \A f \in Fds : sock'[f] # Free <=> sock[f] # Free
    <3>1. PICK n \in Nat : n = Len(fds)
      BY Here
    <3>2. Listed(fds', sock')
      BY <2>1, <2>5 DEF Listed
    <3> QED
      BY <1>1, <2>5, <3>2 DEF Table
  <2>6. Types'
    BY TypesStep
  <2>7. /\ \A f \in Fds : sock'[f] # Free <=> sock'[f].peer # "free"
        /\ \A f \in Fds : sock[f] # Free <=> sock[f].peer # "free"
        /\ sock \in [Fds -> [peer : Peers, unread : Nat, quota : Nat]]
    BY <2>6 DEF IInv, Types, Open, Free
  <2>8. ASSUME NEW f \in Fds, sock[f].peer # "free", sock'[f].peer # "free",
               \A g \in Fds : g # f => sock'[g] = sock[g]
        PROVE  \A g \in Fds : sock'[g] # Free <=> sock[g] # Free
    BY <2>7, <2>8
  <2>9. CASE Recv \/ Send
    <3>1. PICK f \in Fds : f = fds[i] /\ sock[f].peer # "free"
      <4>1. fds[i] \in Fds /\ Open(fds[i])
        BY <2>9, Here DEF Recv, Send
      <4> QED
        BY <2>7, <4>1 DEF Open
    <3>2. sock'[f].peer # "free" /\ \A g \in Fds : g # f => sock'[g] = sock[g]
      <4>1. CASE sock' = [sock EXCEPT ![f].unread = @ - 1]
        BY <2>7, <3>1, <4>1
      <4>2. CASE UNCHANGED sock
        BY <3>1, <4>2
      <4>3. CASE sock' = [sock EXCEPT ![f].peer = "reset"]
        BY <2>7, <3>1, <4>3
      <4> QED
        BY <2>9, <3>1, <4>1, <4>2, <4>3 DEF Recv, Send
    <3>3. \A g \in Fds : sock'[g] # Free <=> sock[g] # Free
      BY <2>8, <3>1, <3>2
    <3> QED
      BY <2>5, <2>9, <3>3 DEF Recv, Send
  <2>10. ASSUME NEW f \in Fds, ClientSends(f) \/ ClientEnds(f)
         PROVE  Distinct(fds') /\ Table'
    <3>1. sock[f].peer # "free"
      BY <2>10 DEF ClientSends, ClientEnds
    <3>2. sock'[f].peer # "free" /\ \A g \in Fds : g # f => sock'[g] = sock[g]
      <4>1. CASE sock' = [sock EXCEPT ![f].unread = @ + 1, ![f].quota = @ - 1]
        BY <2>7, <3>1, <4>1
      <4>2. CASE \E peer \in {"closed", "reset"} : sock' = [sock EXCEPT ![f].peer = peer]
        BY <2>7, <4>2
      <4> QED
        BY <2>10, <4>1, <4>2 DEF ClientSends, ClientEnds
    <3>3. \A g \in Fds : sock'[g] # Free <=> sock[g] # Free
      BY <2>8, <3>1, <3>2
    <3> QED
      BY <2>5, <2>10, <3>3 DEF ClientSends, ClientEnds
  <2>11. CASE Compress
    <3>1. CASE ~compress_array
      BY <2>2, <2>11, <3>1 DEF Compress
    <3>2. CASE compress_array
      <4>1. PICK s \in Seq(Entries) : s = fds /\ Distinct(s)
        BY <1>1
      <4>2. PICK r : r = Squeeze(s)
        OBVIOUS
      <4>3. /\ Distinct(r)
            /\ \A j \in 1..Len(r) : r[j] # -1 => \E k \in 1..Len(s) : s[k] = r[j]
            /\ \A k \in 1..Len(s) : s[k] # -1 => \E j \in 1..Len(r) : r[j] = s[k]
        BY <4>1, <4>2, SqueezeIs
      <4>4. fds' = r /\ sock' = sock
        BY <2>11, <3>2, <4>1, <4>2 DEF Compress
      <4>5. -1 \notin Fds
        BY PollAssumption DEF Fds
      <4>6. /\ \A k \in 1..Len(s) : s[k] \in Fds => sock[s[k]] # Free
            /\ \A f \in Fds : sock[f] # Free => \E k \in 1..Len(s) : s[k] = f
        BY <2>1, <4>1 DEF Listed
      <4>7. ASSUME NEW j \in 1..Len(r), r[j] \in Fds PROVE sock[r[j]] # Free
        <5>1. PICK k \in 1..Len(s) : s[k] = r[j]
          BY <4>3, <4>5, <4>7
        <5> QED
          BY <4>6, <4>7, <5>1
      <4>8. ASSUME NEW f \in Fds, sock[f] # Free PROVE \E j \in 1..Len(r) : r[j] = f
        <5>1. PICK k \in 1..Len(s) : s[k] = f
          BY <4>6, <4>8
        <5> QED
          BY <4>3, <4>5, <5>1
      <4>9. Listed(r, sock)
        BY <4>7, <4>8 DEF Listed
      <4> QED
        BY <4>3, <4>4, <4>9 DEF Table
    <3> QED
      BY <3>1, <3>2
  <2>12. CASE Cleanup
    BY <1>1, <2>12 DEF Cleanup, Table, Over
  <2> QED
    BY <2>2, <2>3, <2>4, <2>9, <2>10, <2>11, <2>12
       DEF Next, Server, Clients, Poll, ScanNext, PollIn, AcceptFails, RecvNone, SendKills,
           ScanEnds, PollEnds, Connect, Abort, vars
<1> QED
  BY <1>2, <1>3
----------------------------------------------------------------------------
\* What is left of a scan after entry i, with the table t.
LEMMA RestOfScan ==
  ASSUME IInv, pc \in Working, NEW t, NEW n \in Nat, n >= Len(fds),
         \A k \in 1..Len(fds) : k # i => t[k] = fds[k]
  PROVE  /\ Len(revents) <= n
         /\ \A k \in i + 1..Len(revents) :
               /\ revents[k] # "NVAL"
               /\ revents[k] # "none" => t[k] # -1
               /\ revents[k] = "HUP" => t[k] # listenfd
<1>1. Len(revents) <= Len(fds) /\ Len(revents) \in Nat /\ Len(fds) \in Nat /\ i \in Nat /\ i >= 1
  BY Here DEF IInv, Types, Scan
<1>2. ASSUME NEW k \in i + 1..Len(revents)
      PROVE  k \in i..Len(revents) /\ t[k] = fds[k]
  BY <1>1, <1>2
<1> QED
  BY <1>1, <1>2 DEF IInv, Scan

\* Every step keeps what the scan relies on.
LEMMA ScanStep == IInv /\ [Next]_vars => Scan'
<1> SUFFICES ASSUME IInv, [Next]_vars, pc' \in Working PROVE Scan'
  BY DEF Scan
<1>1. Len(fds) \in Nat /\ Len(revents) \in Nat /\ i \in Nat /\ i >= 1
  BY Here DEF IInv, Types
<1>2. CASE UNCHANGED <<pc, revents, i, fds>>
  BY <1>2 DEF IInv, Scan
<1>3. CASE Poll
  <2>1. ~Over
    BY <1>3 DEF Poll, Over
  <2>2. PICK n \in Nat : n = Len(fds)
    BY <1>1
  <2>3. revents' = [k \in 1..n |-> Polled(fds[k])]
    BY <1>3, <2>2 DEF Poll
  <2>4. Len(revents') = n /\ \A k \in 1..n : revents'[k] = Polled(fds[k])
    BY <2>3
  <2>5. \A k \in 1..n : /\ revents'[k] # "NVAL"
                        /\ revents'[k] # "none" => fds[k] # -1
                        /\ revents'[k] = "HUP" => fds[k] # listenfd
    BY <2>1, <2>2, <2>4, PolledIs
  <2>6. pc' = "scan" /\ i' = 1 /\ fds' = fds
    BY <1>3 DEF Poll
  <2> QED
    BY <2>2, <2>4, <2>5, <2>6 DEF Scan
<1>4. ASSUME pc \in Working, pc' = "scan", i' = i + 1, revents' = revents, Len(fds') = Len(fds),
             \A k \in 1..Len(fds) : k # i => fds'[k] = fds[k]
      PROVE  Scan'
  <2>1. PICK t : t = fds'
    OBVIOUS
  <2>2. /\ Len(revents) <= Len(fds)
        /\ \A k \in i + 1..Len(revents) :
              /\ revents[k] # "NVAL"
              /\ revents[k] # "none" => t[k] # -1
              /\ revents[k] = "HUP" => t[k] # listenfd
    BY <1>1, <1>4, <2>1, RestOfScan
  <2> QED
    BY <1>4, <2>1, <2>2 DEF Scan
<1>5. CASE ScanNext
  <2>1. pc' = "scan" /\ i' = i + 1 /\ fds' = fds /\ revents' = revents /\ pc \in Working
    <3>1. pc' = "scan" \/ pc' = "compress"
      BY <1>5 DEF ScanNext
    <3>2. pc' = "scan"
      BY <3>1 DEF Working
    <3> QED
      BY <1>5, <3>2 DEF ScanNext, Working
  <2> QED
    BY <1>4, <2>1
<1>6. CASE PollHup \/ RecvEnd
  <2>1. i \in 1..Len(fds) /\ fds' = [fds EXCEPT ![i] = -1] /\ i' = i + 1 /\ pc \in Working
        /\ pc' = "scan" /\ revents' = revents
    BY <1>6, Here DEF PollHup, RecvEnd, At, Close, Working
  <2>2. PICK s \in Seq(Entries) : s = fds
    BY DEF IInv, Types
  <2>3. PICK j \in 1..Len(s) : j = i
    BY <2>1, <2>2
  <2>4. Len([s EXCEPT ![j] = -1]) = Len(s)
        /\ \A k \in 1..Len(s) : k # j => [s EXCEPT ![j] = -1][k] = s[k]
    BY DeadAfterClose
  <2> QED
    BY <1>4, <2>1, <2>2, <2>3, <2>4
<1>7. CASE PollIn
  <2>1. pc = "scan" /\ i <= Len(revents) /\ revents[i] = "IN"
    BY <1>7 DEF PollIn, At
  <2>2. i \in 1..Len(fds) /\ fds[i] \in 0..N /\ (fds[i] = listenfd => i = 1)
    BY <2>1, Here
  <2>3. pc' = (IF fds[i] = listenfd THEN "accept" ELSE "recv") /\ UNCHANGED <<fds, revents, i>>
    BY <1>7 DEF PollIn
  <2>4. pc' = "accept" => i = 1
    BY <2>2, <2>3
  <2>5. pc' \in {"recv", "send"} => fds[i] \in Fds
    BY <2>2, <2>3, PollAssumption DEF Fds, listenfd
  <2>6. Len(revents) <= Len(fds)
        /\ \A k \in i..Len(revents) :
              /\ revents[k] # "NVAL"
              /\ revents[k] # "none" => fds[k] # -1
              /\ revents[k] = "HUP" => fds[k] # listenfd
    BY <2>1 DEF IInv, Scan, Working
  <2> QED
    BY <2>1, <2>3, <2>4, <2>5, <2>6 DEF Scan
<1>8. CASE Accept
  <2>1. pc = "accept" /\ UNCHANGED <<revents, i, pc>>
    BY <1>8 DEF Accept
  <2>2. Len(fds') = Len(fds) + 1 /\ \A k \in 1..Len(fds) : fds'[k] = fds[k]
    BY <1>8, AcceptKeeps
  <2>3. i = 1 /\ i <= Len(revents) /\ Len(revents) <= Len(fds)
        /\ \A k \in i..Len(revents) :
              /\ revents[k] # "NVAL"
              /\ revents[k] # "none" => fds[k] # -1
              /\ revents[k] = "HUP" => fds[k] # listenfd
    BY <2>1 DEF IInv, Scan, Working
  <2>4. \A k \in i..Len(revents) : fds'[k] = fds[k]
    BY <1>1, <2>2, <2>3
  <2>5. Len(revents) <= Len(fds')
    BY <1>1, <2>2, <2>3
  <2> QED
    BY <2>1, <2>3, <2>4, <2>5 DEF Scan
<1>9. CASE AcceptFails \/ RecvNone
  BY <1>4, <1>9 DEF AcceptFails, RecvNone, Working
<1>10. CASE Recv \/ Send
  <2>1. pc \in {"recv", "send"} /\ pc' \in {"recv", "send"} /\ UNCHANGED <<fds, revents, i>>
    BY <1>10 DEF Recv, Send
  <2> QED
    BY <2>1 DEF IInv, Scan, Working
<1>11. CASE SendKills \/ ScanEnds \/ Compress \/ Cleanup \/ PollEnds
  <2>1. pc' \in {"killed", "compress", "cleanup", "poll", "ended"}
    BY <1>11 DEF SendKills, ScanEnds, Compress, Cleanup, PollEnds
  <2> QED
    BY <2>1 DEF Working
<1>12. CASE Clients
  BY <1>2, <1>12 DEF Clients, Connect, Abort, ClientSends, ClientEnds
<1> QED
  BY <1>2, <1>3, <1>5, <1>6, <1>7, <1>8, <1>9, <1>10, <1>11, <1>12 DEF Next, Server, vars

\* Every step keeps the table within its bound: it grows only by accept(), before an
\* entry is removed in the same scan, and a compression leaves at most half of the
\* entries without a descriptor.
LEMMA BoundStep == IInv /\ [Next]_vars => Bound'
<1> SUFFICES ASSUME IInv, [Next]_vars PROVE Bound'
  OBVIOUS
<1>1. Len(fds) \in Nat /\ N \in Nat /\ N >= 1 /\ i \in Nat /\ i >= 1
  BY Here DEF IInv, Types
<1>2. fds \in Seq(Entries) /\ Distinct(fds)
  BY DEF IInv, Types
<1>3. /\ Len(fds) <= 2 * N
      /\ ~compress_array => Cardinality(Dead(fds)) <= N - 1
      /\ compress_array => i > 1 /\ pc # "poll"
  BY DEF IInv, Bound
<1>4. ASSUME UNCHANGED <<fds, compress_array>>, i' >= i, i' \in Nat, pc' # "poll" \/ pc' = pc
      PROVE  Bound'
  BY <1>1, <1>3, <1>4 DEF Bound
<1>5. CASE Poll
  <2>1. ~compress_array /\ UNCHANGED <<fds, compress_array>>
    BY <1>3, <1>5 DEF Poll
  <2> QED
    BY <1>3, <2>1 DEF Bound
<1>6. CASE PollHup \/ RecvEnd
  <2>1. /\ i \in 1..Len(fds) /\ fds' = [fds EXCEPT ![i] = -1] /\ i' = i + 1
        /\ pc' = "scan" /\ compress_array'
    BY <1>6, Here DEF PollHup, RecvEnd, At, Close
  <2>2. PICK s \in Seq(Entries) : s = fds
    BY <1>2
  <2>3. PICK j \in 1..Len(s) : j = i
    BY <2>1, <2>2
  <2>4. Len([s EXCEPT ![j] = -1]) = Len(s)
    BY DeadAfterClose
  <2>5. Len(fds') <= 2 * N /\ i' > 1 /\ pc' # "poll"
    BY <1>1, <1>3, <2>1, <2>2, <2>3, <2>4
  <2> QED
    BY <2>1, <2>5 DEF Bound
<1>7. CASE Accept
  <2>1. pc = "accept" /\ UNCHANGED <<i, pc, compress_array>>
    BY <1>7 DEF Accept
  <2>2. ~compress_array
    BY <2>1, Here
  <2>3. PICK t : t = fds'
    OBVIOUS
  <2>4. t \in Seq(Entries) /\ Distinct(t) /\ Cardinality(Dead(t)) = Cardinality(Dead(fds))
    BY <1>7, <2>3, AcceptKeeps
  <2>5. Len(t) <= Cardinality(Dead(t)) + N + 1
    BY <2>4, TableLen
  <2>6. Len(t) \in Nat /\ Cardinality(Dead(t)) \in Nat
    BY <2>4, LenProperties, DeadFinite
  <2>7. Cardinality(Dead(t)) <= N - 1 /\ Len(t) <= 2 * N
    BY <1>1, <1>3, <2>2, <2>4, <2>5, <2>6
  <2> QED
    BY <2>1, <2>2, <2>3, <2>7 DEF Bound
<1>8. CASE Compress
  <2>1. CASE ~compress_array
    BY <1>3, <1>8, <2>1 DEF Bound, Compress
  <2>2. CASE compress_array
    <3>1. PICK s \in Seq(Entries) : s = fds /\ Distinct(s)
      BY <1>2
    <3>2. PICK r : r = Squeeze(s)
      OBVIOUS
    <3>3. /\ r \in Seq(Entries) /\ Len(r) <= Len(s)
          /\ 2 * Cardinality(Dead(r)) <= Cardinality(Dead(s))
      BY <3>1, <3>2, SqueezeIs
    <3>4. Cardinality(Dead(s)) <= Len(s) - 1
      BY <3>1, DeadLess
    <3>5. Len(s) \in Nat /\ Len(r) \in Nat /\ Cardinality(Dead(s)) \in Nat
          /\ Cardinality(Dead(r)) \in Nat
      BY <3>3, LenProperties, DeadFinite
    <3>6. Len(r) <= 2 * N /\ Cardinality(Dead(r)) <= N - 1
      BY <1>1, <1>3, <3>1, <3>3, <3>4, <3>5
    <3>7. fds' = r /\ ~compress_array'
      BY <1>8, <2>2, <3>1, <3>2 DEF Compress
    <3> QED
      BY <3>6, <3>7 DEF Bound
  <2> QED
    BY <2>1, <2>2
<1>9. CASE ScanNext \/ PollIn \/ AcceptFails \/ Recv \/ RecvNone \/ Send \/ SendKills \/ ScanEnds
           \/ Cleanup \/ PollEnds
  <2>1. UNCHANGED <<fds, compress_array>> /\ i' \in {i, i + 1} /\ pc' # "poll"
    BY <1>9 DEF ScanNext, PollIn, AcceptFails, Recv, RecvNone, Send, SendKills, ScanEnds, Cleanup,
                PollEnds
  <2> QED
    BY <1>1, <1>4, <2>1
<1>10. CASE Clients
  <2>1. UNCHANGED <<fds, compress_array, i, pc>>
    BY <1>10 DEF Clients, Connect, Abort, ClientSends, ClientEnds
  <2> QED
    BY <1>1, <1>4, <2>1
<1>11. CASE UNCHANGED vars
  BY <1>1, <1>4, <1>11 DEF vars
<1> QED
  BY <1>5, <1>6, <1>7, <1>8, <1>9, <1>10, <1>11 DEF Next, Server
----------------------------------------------------------------------------
\* The server starts with the listening socket and no connection.
LEMMA InitInv == Init => IInv
<1> SUFFICES ASSUME Init PROVE IInv
  OBVIOUS
<1>1. N \in Nat /\ N >= 1
  BY PollAssumption
<1>2. fds = <<0>> /\ Len(fds) = 1 /\ fds[1] = 0 /\ 0 \in Entries
  BY <1>1 DEF Init, listenfd, Entries
<1>3. Types
  <2>1. fds \in Seq(Entries) /\ revents \in Seq({"none", "IN", "HUP", "NVAL"})
        /\ queue \in Seq({"open", "reset"})
    BY <1>2 DEF Init
  <2>2. PICK e \in [peer : Peers, unread : Nat, quota : Nat] : e = Free
    BY DEF Free, Peers
  <2>3. sock \in [Fds -> [peer : Peers, unread : Nat, quota : Nat]] /\ \A f \in Fds : sock[f] = Free
    BY <2>2 DEF Init
  <2>4. \A f \in Fds : ~Open(f)
    BY <2>3 DEF Open
  <2>5. /\ i \in Nat \ {0} /\ pc \in Working \cup {"poll", "compress", "cleanup", "ended", "killed"}
    BY DEF Init
  <2>6. compress_array \in BOOLEAN /\ end_server \in BOOLEAN
    BY Zenon DEF Init
  <2> QED
    BY <2>1, <2>3, <2>4, <2>5, <2>6 DEF Types
<1>4. Distinct(fds)
  <2>1. fds # <<>>
    BY <1>2
  <2> QED
    BY <1>2, <2>1 DEF Distinct, listenfd
<1>5. Table
  BY <1>2 DEF Table, Listed, Init, Fds
<1>6. Scan
  BY DEF Scan, Working, Init
<1>7. Dead(fds) = {} /\ Cardinality(Dead(fds)) = 0
  <2>1. Dead(fds) = {}
    BY <1>2 DEF Dead
  <2> QED
    BY <2>1, FS_EmptySet
<1>8. Bound
  BY <1>1, <1>2, <1>7 DEF Bound, Init
<1> QED
  BY <1>3, <1>4, <1>5, <1>6, <1>8 DEF IInv

\* The invariant is inductive.
LEMMA Invariance == Spec => []IInv
<1>1. IInv /\ [Next]_vars => IInv'
  <2> SUFFICES ASSUME IInv, [Next]_vars PROVE IInv'
    OBVIOUS
  <2>1. Types' /\ Distinct(fds') /\ Table' /\ Scan' /\ Bound'
    BY TypesStep, TableStep, ScanStep, BoundStep
  <2> QED
    BY <2>1 DEF IInv, Distinct
<1> QED
  BY InitInv, <1>1, PTL DEF Spec

\* The table holds the listening socket first, every open connection exactly once and
\* no descriptor that is closed, whatever the clients do and however often numbers are
\* used again: poll() in main() never reports POLLNVAL, and no connection is forgotten.
THEOREM TableIsSound == Spec => []TableSound
<1>1. IInv => TableSound
  <2> SUFFICES ASSUME IInv, ~Over
               PROVE  /\ fds[1] = listenfd
                      /\ \A f \in Fds : Cardinality({k \in 1..Len(fds) : fds[k] = f})
                                            = IF Open(f) THEN 1 ELSE 0
    BY DEF TableSound
  <2>1. fds[1] = listenfd
    BY DEF IInv, Distinct
  <2>2. ASSUME NEW f \in Fds
        PROVE  Cardinality({k \in 1..Len(fds) : fds[k] = f}) = IF Open(f) THEN 1 ELSE 0
    <3> DEFINE W == {k \in 1..Len(fds) : fds[k] = f}
    <3>1. CASE Open(f)
      <4>1. PICK j \in 1..Len(fds) : fds[j] = f
        BY <3>1 DEF IInv, Table, Listed, Open
      <4>2. f # -1
        BY PollAssumption DEF Fds
      <4>3. W = {j}
        BY <4>1, <4>2 DEF IInv, Distinct
      <4> QED
        BY <3>1, <4>3, FS_Singleton
    <3>2. CASE ~Open(f)
      <4>1. W = {}
        BY <3>2 DEF IInv, Table, Listed, Open
      <4> QED
        BY <3>2, <4>1, FS_EmptySet
    <3> QED
      BY <3>1, <3>2
  <2> QED
    BY <2>1, <2>2
<1> QED
  BY Invariance, <1>1, PTL

\* The table of main() never has more than 2 * N entries with N connections at a time,
\* for every N and every history, although each compression leaves entries -1 behind.
THEOREM TableIsBounded == Spec => []TableBound
<1>1. IInv => TableBound
  BY DEF IInv, Bound, TableBound
<1> QED
  BY Invariance, <1>1, PTL
=============================================================================
