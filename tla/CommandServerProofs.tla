------------------------- MODULE CommandServerProofs -------------------------
(***************************************************************************)
(* Proofs about CommandServer, for any number of clients, any table, pipe  *)
(* and buffer.                                                             *)
(***************************************************************************)
EXTENDS CommandServer, SequenceTheorems, FiniteSetTheorems, BoundedSets, TLAPS

-----------------------------------------------------------------------------
(* The inductive invariant.                                                *)

\* What client c sends.
PiecesOf(c) == [num : Nat \ {0}, from : {c}]

\* server_thread's index is in the table while it is at an entry, and that of
\* memmove behind it.
PositionInv ==
  /\ thread \in {"read", "write", "newline", "shift"} => i <= Len(tab)
  /\ thread = "shift" => i <= j /\ j <= Len(tab)

\* The buffer is empty but between read and write, and then holds what one
\* client sent; so does each socket.
BufferInv ==
  /\ thread # "write" => buf = << >>
  /\ thread = "write" => buf \in Seq(PiecesOf(tab[i]))
  /\ \A c \in Clients : inq[c] \in Seq(PiecesOf(c))

\* The pipe ends in a newline but between the two writes.
LineInv ==
  /\ LinesIntact
  /\ thread # "newline" /\ pipe # << >> => pipe[Len(pipe)] = NewLine

\* The entries of the table that are in use: while memmove is at j, all but j.
Used == (1 .. Len(tab)) \ (IF thread = "shift" THEN {j} ELSE {})

\* The entries in use are the open connections, each once; who has not connected
\* has no connection.
SocketInv ==
  /\ \A k \in Used : sock[tab[k]] = "open"
  /\ \A c \in Clients : sock[c] = "open" => \E k \in Used : tab[k] = c
  /\ \A k, l \in Used : tab[k] = tab[l] => k = l
  /\ \A c \in Clients : peer[c] = "none" => sock[c] = "none"

\* The broadcast has been written to entry k of the table, unless a write has
\* failed, if k is before b, and not if it is not.
WrittenTo(k) ==
  IF k < b
  THEN heard[tab[k]] <= 1 /\ (success => heard[tab[k]] = 1)
  ELSE heard[tab[k]] = 0

\* A broadcast that nothing disturbs has been written to what is before b and not
\* to what is not, of those that were present.
BroadcastInv ==
  /\ app = "idle" => b = 1 /\ heard = [c \in Clients |-> 0]
  /\ app = "broadcast" /\ ~disturbed =>
       /\ thread # "shift"
       /\ \A c \in present : \E k \in 1 .. Len(tab) : tab[k] = c
       /\ \A k \in 1 .. Len(tab) : tab[k] \in present => WrittenTo(k)

Inv ==
  /\ TypeOK /\ PositionInv /\ BufferInv /\ LineInv /\ SocketInv /\ CommandsInOrder
  /\ BroadcastInv

-----------------------------------------------------------------------------
(* What keeps the pieces of a client in order.                             *)

\* InOrder, place by place.
InOrderParts(c, s, m, n) ==
  /\ m <= n
  /\ \A k \in PlacesOf(c, s) : s[k].num \in m + 1 .. n
  /\ \A x \in m + 1 .. n : \E k \in PlacesOf(c, s) : s[k].num = x
  /\ \A k, l \in PlacesOf(c, s) : k < l => s[k].num < s[l].num

LEMMA InOrderByParts ==
  ASSUME NEW c, NEW s, NEW m \in Nat, NEW n \in Nat
  PROVE  InOrder(c, s, m, n) <=> InOrderParts(c, s, m, n)
<1>1. InOrder(c, s, m, n) => InOrderParts(c, s, m, n)
  BY DEF InOrder, InOrderParts
<1>2. ASSUME InOrderParts(c, s, m, n) PROVE InOrder(c, s, m, n)
  <2>1. {s[k].num : k \in PlacesOf(c, s)} = m + 1 .. n
    BY <1>2 DEF InOrderParts
  <2> QED BY <1>2, <2>1 DEF InOrder, InOrderParts
<1> QED BY <1>1, <1>2

\* t is s with q elements behind its first p, none of them a piece of c.
Inserts(c, s, t, p, q) ==
  /\ p <= Len(s) /\ Len(t) = Len(s) + q
  /\ \A k \in 1 .. p : t[k] = s[k]
  /\ \A k \in p + 1 .. Len(s) : t[k + q] = s[k]
  /\ \A k \in p + 1 .. p + q : k \notin PlacesOf(c, t)

\* The order does not see what others write in between.
LEMMA InsertInOrder ==
  ASSUME NEW c, NEW s, NEW t, NEW m \in Nat, NEW n \in Nat, NEW p \in Nat, NEW q \in Nat,
         Len(s) \in Nat, Inserts(c, s, t, p, q), InOrderParts(c, s, m, n)
  PROVE  InOrderParts(c, t, m, n)
<1> USE DEF Inserts
<1> DEFINE at(k) == IF k <= p THEN k ELSE k - q
           to(k) == IF k <= p THEN k ELSE k + q
<1>1. ASSUME NEW k \in PlacesOf(c, t)
      PROVE  /\ k \in Nat /\ (k <= p \/ p + q < k)
             /\ at(k) \in PlacesOf(c, s) /\ s[at(k)] = t[k]
  <2>1. k \in 1 .. Len(t) /\ (k <= p \/ p + q < k) /\ t[k].num # 0 /\ t[k].from = c
    BY <1>1 DEF PlacesOf
  <2>2. at(k) \in 1 .. Len(s) /\ s[at(k)] = t[k]
    <3>1. CASE k <= p
      BY <2>1, <3>1
    <3>2. CASE p + q < k
      <4>1. k - q \in p + 1 .. Len(s)
        BY <2>1, <3>2
      <4>2. t[(k - q) + q] = s[k - q]
        BY <4>1
      <4> QED BY <2>1, <3>2, <4>1, <4>2, SMTT(30)
    <3> QED BY <2>1, <3>1, <3>2
  <2> QED BY <2>1, <2>2 DEF PlacesOf
<1>2. ASSUME NEW k \in PlacesOf(c, s)
      PROVE  to(k) \in PlacesOf(c, t) /\ t[to(k)] = s[k]
  <2>1. k \in 1 .. Len(s) /\ s[k].num # 0 /\ s[k].from = c
    BY DEF PlacesOf
  <2>2. to(k) \in 1 .. Len(t) /\ t[to(k)] = s[k]
    BY <2>1
  <2> QED BY <2>1, <2>2 DEF PlacesOf
<1>3. \A k \in PlacesOf(c, t) : t[k].num \in m + 1 .. n
  BY <1>1 DEF InOrderParts
<1>4. ASSUME NEW x \in m + 1 .. n PROVE \E k \in PlacesOf(c, t) : t[k].num = x
  <2>1. PICK k \in PlacesOf(c, s) : s[k].num = x
    BY DEF InOrderParts
  <2> QED BY <1>2, <2>1
<1>5. ASSUME NEW k \in PlacesOf(c, t), NEW l \in PlacesOf(c, t), k < l
      PROVE  t[k].num < t[l].num
  <2>1. at(k) < at(l)
    BY <1>1, <1>5
  <2> QED BY <1>1, <2>1 DEF InOrderParts
<1>6. m <= n
  BY DEF InOrderParts
<1> QED BY <1>3, <1>4, <1>5, <1>6 DEF InOrderParts

\* t is s with e behind it.
Extends(s, t, e) ==
  /\ Len(t) = Len(s) + 1
  /\ \A k \in 1 .. Len(s) : t[k] = s[k]
  /\ t[Len(t)] = e

\* Another piece is put behind all others.
LEMMA AppendInOrder ==
  ASSUME NEW c, NEW s, NEW t, NEW m \in Nat, NEW n \in Nat,
         Len(s) \in Nat, Extends(s, t, Piece(c, n + 1)), InOrderParts(c, s, m, n)
  PROVE  InOrderParts(c, t, m, n + 1)
<1> USE DEF Extends
<1>1. PlacesOf(c, t) = PlacesOf(c, s) \union {Len(t)}
  <2>1. t[Len(t)].num # 0 /\ t[Len(t)].from = c
    BY DEF Piece
  <2> QED BY <2>1 DEF PlacesOf
<1>2. \A k \in PlacesOf(c, s) : k \in 1 .. Len(s) /\ t[k] = s[k] /\ t[k].num \in m + 1 .. n
  BY DEF PlacesOf, InOrderParts
<1>3. t[Len(t)].num = n + 1
  BY DEF Piece
<1>4. ASSUME NEW k \in PlacesOf(c, t) PROVE t[k].num \in m + 1 .. n + 1
  <2>1. CASE k \in PlacesOf(c, s)
    BY <2>1, <1>2
  <2>2. CASE k = Len(t)
    BY <2>2, <1>3 DEF InOrderParts
  <2> QED BY <1>1, <2>1, <2>2
<1>5. \A x \in m + 1 .. n + 1 : \E k \in PlacesOf(c, t) : t[k].num = x
  <2> SUFFICES ASSUME NEW x \in m + 1 .. n + 1 PROVE \E k \in PlacesOf(c, t) : t[k].num = x
    OBVIOUS
  <2>1. CASE x = n + 1
    BY <2>1, <1>1, <1>3
  <2>2. CASE x \in m + 1 .. n
    <3>1. \E k \in PlacesOf(c, s) : s[k].num = x
      BY <2>2 DEF InOrderParts
    <3> QED BY <3>1, <1>1, <1>2
  <2> QED BY <2>1, <2>2
<1>6. \A k, l \in PlacesOf(c, s) : k < l => t[k].num < t[l].num
  BY <1>2 DEF InOrderParts
<1>7. \A k, l \in PlacesOf(c, t) : k < l => t[k].num < t[l].num
  BY <1>1, <1>2, <1>3, <1>6
<1>8. n + 1 \in Nat /\ m <= n + 1
  BY DEF InOrderParts
<1> QED BY <1>4, <1>5, <1>7, <1>8 DEF InOrderParts

\* t is s without its first p elements.
Drops(s, t, p) ==
  /\ p <= Len(s) /\ Len(t) = Len(s) - p
  /\ \A k \in 1 .. Len(t) : t[k] = s[k + p]

\* The pieces of c among the first p cells of s.
FirstOf(c, s, p) == {s[k].num : k \in {l \in 1 .. p : s[l].num # 0 /\ s[l].from = c}}

\* What is taken from the front are the pieces that come next: they are as many
\* as the last of them is further than the last one before.
LEMMA DropInOrder ==
  ASSUME NEW c, NEW s, NEW t, NEW m \in Nat, NEW n \in Nat, NEW p \in Nat,
         Len(s) \in Nat, Drops(s, t, p), InOrderParts(c, s, m, n)
  PROVE  /\ m + Cardinality(FirstOf(c, s, p)) \in Nat
         /\ InOrderParts(c, t, m + Cardinality(FirstOf(c, s, p)), n)
<1> USE DEF Drops
<1> DEFINE front == {l \in 1 .. p : s[l].num # 0 /\ s[l].from = c}
           taken == {s[k].num : k \in front}
<1>1. \A k \in front : k \in PlacesOf(c, s) /\ s[k].num \in m + 1 .. n
  BY DEF PlacesOf, InOrderParts
<1>2. ASSUME NEW k \in PlacesOf(c, t)
      PROVE  k \in Nat /\ k > 0 /\ k + p \in PlacesOf(c, s) /\ t[k] = s[k + p]
  BY SMTT(30) DEF PlacesOf
<1>3. ASSUME NEW k \in PlacesOf(c, s)
      PROVE  k \in front \/ (k > p /\ k - p \in PlacesOf(c, t) /\ t[k - p] = s[k])
  <2>1. k \in 1 .. Len(s) /\ s[k].num # 0 /\ s[k].from = c
    BY DEF PlacesOf
  <2>2. CASE k <= p
    BY <2>1, <2>2
  <2>3. CASE k > p
    <3>1. k - p \in 1 .. Len(t)
      BY <2>1, <2>3
    <3>2. t[k - p] = s[(k - p) + p]
      BY <3>1
    <3>3. (k - p) + p = k
      BY <2>1
    <3> QED BY <2>1, <2>3, <3>1, <3>2, <3>3 DEF PlacesOf
  <2> QED BY <2>1, <2>2, <2>3
<1>t. /\ \A k \in front : s[k].num \in taken
      /\ \A y \in taken : \E k \in front : s[k].num = y
      /\ \A k \in front : k \in Nat /\ k <= p
  OBVIOUS
<1> HIDE DEF taken, front
<1>4. PICK x \in Nat :
        /\ m <= x /\ x <= n
        /\ taken = m + 1 .. x
        /\ \A k \in PlacesOf(c, s) : k \notin front => s[k].num > x
  <2> m <= n
    BY DEF InOrderParts
  <2>1. CASE taken = {}
    <3>1. m + 1 .. m = {}
      OBVIOUS
    <3>2. \A k \in PlacesOf(c, s) : s[k].num > m
      BY DEF InOrderParts
    <3>3. taken = m + 1 .. m /\ m <= m
      BY <2>1, <3>1
    <3> QED BY <3>2, <3>3
  <2>2. CASE taken # {}
    <3>1. \A y \in taken : y \in m + 1 .. n
      BY <1>1, <1>t
    <3>2. taken \in SUBSET Nat /\ \A y \in taken : y <= n
      BY <3>1
    <3>3. PICK x \in taken : \A y \in taken : y <= x
      BY <2>2, <3>2, GreatestElement
    <3>4. x \in m + 1 .. n /\ x \in Nat
      BY <3>1, <3>2
    <3>5. PICK l \in front : s[l].num = x
      BY <1>t
    <3>6. ASSUME NEW k \in PlacesOf(c, s), k \notin front PROVE s[k].num > x
      <4>1. k > p /\ k \in Nat
        BY <1>3, <3>6 DEF PlacesOf
      <4>2. l < k /\ l \in PlacesOf(c, s)
        BY <4>1, <1>1, <1>t, <3>5
      <4>3. s[l].num < s[k].num
        BY <4>2 DEF InOrderParts
      <4>4. s[k].num \in Nat
        BY DEF InOrderParts
      <4> QED BY <4>3, <4>4, <3>4, <3>5
    <3>7. ASSUME NEW y \in m + 1 .. x PROVE y \in taken
      <4>1. y \in m + 1 .. n /\ y <= x /\ y \in Nat
        BY <3>4
      <4>2. PICK k \in PlacesOf(c, s) : s[k].num = y
        BY <4>1 DEF InOrderParts
      <4>3. ~ (s[k].num > x)
        BY <4>1, <4>2, <3>4
      <4>4. k \in front
        BY <4>3, <3>6
      <4> QED BY <4>2, <4>4, <1>t
    <3>8. ASSUME NEW y \in taken PROVE y \in m + 1 .. x
      <4>1. y \in m + 1 .. n /\ y <= x
        BY <3>1, <3>3
      <4> QED BY <3>4, <4>1
    <3>9. taken = m + 1 .. x
      BY <3>7, <3>8
    <3> QED BY <3>4, <3>6, <3>9
  <2> QED BY <2>1, <2>2
<1>5. Cardinality(taken) = x - m
  <2>1. m + 1 \in Int /\ x \in Int
    BY <1>4
  <2>2. Cardinality(m + 1 .. x) = IF m + 1 > x THEN 0 ELSE x - (m + 1) + 1
    BY <2>1, FS_Interval
  <2>3. Cardinality(m + 1 .. x) = x - m
    BY <1>4, <2>2
  <2> QED BY <1>4, <2>3
<1>6. InOrderParts(c, t, x, n)
  <2>1. \A k \in PlacesOf(c, t) : t[k].num \in x + 1 .. n
    <3> SUFFICES ASSUME NEW k \in PlacesOf(c, t) PROVE t[k].num \in x + 1 .. n
      OBVIOUS
    <3>1. k + p \in PlacesOf(c, s) /\ t[k] = s[k + p] /\ k + p > p
      BY <1>2
    <3>3. k + p \notin front
      BY <3>1, <1>t
    <3>2. s[k + p].num \in m + 1 .. n /\ s[k + p].num > x
      BY <3>1, <3>3, <1>4 DEF InOrderParts
    <3> QED BY <3>1, <3>2, <1>4
  <2>2. \A y \in x + 1 .. n : \E k \in PlacesOf(c, t) : t[k].num = y
    <3> SUFFICES ASSUME NEW y \in x + 1 .. n PROVE \E k \in PlacesOf(c, t) : t[k].num = y
      OBVIOUS
    <3>1. y \in m + 1 .. n /\ y \notin m + 1 .. x
      BY <1>4
    <3>2. PICK k \in PlacesOf(c, s) : s[k].num = y
      BY <3>1 DEF InOrderParts
    <3>3. k \notin front
      BY <3>1, <3>2, <1>4, <1>t
    <3> QED BY <1>3, <3>2, <3>3
  <2>3. ASSUME NEW k \in PlacesOf(c, t), NEW l \in PlacesOf(c, t), k < l
        PROVE  t[k].num < t[l].num
    <3>1. k + p < l + p
      BY <1>2, <2>3
    <3> QED BY <1>2, <3>1 DEF InOrderParts
  <2> QED BY <1>4, <2>1, <2>2, <2>3 DEF InOrderParts
<1>7. m + Cardinality(taken) = x
  BY <1>4, <1>5
<1>8. taken = FirstOf(c, s, p)
  BY DEF taken, front, FirstOf
<1> QED BY <1>4, <1>6, <1>7, <1>8

-----------------------------------------------------------------------------
(* Types and positions.                                                    *)

\* GoOn ends the turn, or takes a place from k on that is in the table.
LEMMA GoOnFacts ==
  ASSUME NEW k \in Nat, NEW n \in Nat, n <= MaxConnections, NEW r, GoOn(k, n, r)
  PROVE  /\ i' \in Slots
         /\ thread' \in {"top", "read"}
         /\ thread' = "read" => k <= i' /\ i' <= n
<1> DEFINE ready == {s \in Slots : k <= s /\ s <= n /\ r[s]}
<1>1. CASE ready = {}
  BY <1>1, ConstantsAssumption DEF GoOn, Slots
<1>2. CASE ready # {}
  <2>1. ready \in SUBSET Nat
    BY ConstantsAssumption DEF Slots
  <2>2. \E s \in ready : \A t \in ready : s <= t
    BY <2>1, <1>2, LeastElement
  <2>3. i' \in ready /\ thread' = "read"
    BY <2>2, <1>2 DEF GoOn
  <2> QED BY <2>3
<1> QED BY <1>1, <1>2

\* What SubSeq is, for a sequence of S.
LEMMA SubSeqFacts ==
  ASSUME NEW S, NEW s \in Seq(S), NEW m \in Nat \ {0}, NEW n \in Nat, n <= Len(s)
  PROVE  /\ SubSeq(s, m, n) \in Seq(S)
         /\ Len(SubSeq(s, m, n)) = IF m <= n THEN n - m + 1 ELSE 0
         /\ \A k \in 1 .. n - m + 1 : SubSeq(s, m, n)[k] = s[m + k - 1]
<1>1. \A k \in m .. n : s[k] \in S
  OBVIOUS
<1>2. m \in Int /\ n \in Int
  OBVIOUS
<1> QED BY <1>1, <1>2, SubSeqProperties

\* A sequence is what its first k elements and the others are.
LEMMA SplitSeq ==
  ASSUME NEW S, NEW s \in Seq(S), NEW k \in Nat, k <= Len(s)
  PROVE  /\ SubSeq(s, 1, k) \in Seq(S)
         /\ SubSeq(s, k + 1, Len(s)) \in Seq(S)
         /\ Len(SubSeq(s, 1, k)) = k
         /\ Len(SubSeq(s, k + 1, Len(s))) = Len(s) - k
         /\ \A l \in 1 .. Len(s) - k : SubSeq(s, k + 1, Len(s))[l] = s[k + l]
         /\ SubSeq(s, 1, k) \o SubSeq(s, k + 1, Len(s)) = s
<1>1. Len(s) \in Nat /\ 1 \in Nat \ {0} /\ k + 1 \in Nat \ {0}
  OBVIOUS
<1> DEFINE h == SubSeq(s, 1, k)
           t == SubSeq(s, k + 1, Len(s))
<1>2. h \in Seq(S) /\ Len(h) = k /\ \A l \in 1 .. k : h[l] = s[l]
  BY <1>1, SubSeqFacts
<1>3. t \in Seq(S) /\ Len(t) = Len(s) - k /\ \A l \in 1 .. Len(s) - k : t[l] = s[k + l]
  BY <1>1, SubSeqFacts
<1> HIDE DEF h, t
<1>c. /\ h \o t \in Seq(S) /\ Len(h \o t) = Len(h) + Len(t)
      /\ \A l \in 1 .. Len(h) + Len(t) :
           (h \o t)[l] = IF l <= Len(h) THEN h[l] ELSE t[l - Len(h)]
  <2>1. h \in Seq(S) /\ t \in Seq(S)
    BY <1>2, <1>3
  <2> QED BY ONLY <2>1, ConcatProperties
<1>n. Len(h) + Len(t) = Len(s)
  BY ONLY <1>1, <1>2, <1>3, k \in Nat
<1>4. h \o t \in Seq(S) /\ Len(h \o t) = Len(s)
  BY <1>c, <1>n
<1>5. ASSUME NEW l \in 1 .. Len(s) PROVE (h \o t)[l] = s[l]
  <2>1. (h \o t)[l] = IF l <= Len(h) THEN h[l] ELSE t[l - Len(h)]
    BY ONLY <1>c, <1>n, <1>5
  <2>2. CASE l <= k
    <3>1. l \in 1 .. k
      BY <2>2
    <3> QED BY <2>1, <3>1, <1>2
  <2>3. CASE l > k
    <3>1. l - k \in 1 .. Len(s) - k /\ k + (l - k) = l
      BY <2>3, <1>1
    <3>2. t[l - k] = s[k + (l - k)]
      BY <3>1, <1>3
    <3>3. (h \o t)[l] = t[l - k]
      BY <2>1, <2>3, <1>2
    <3> QED BY <3>1, <3>2, <3>3
  <2>4. l <= k \/ l > k
    BY <1>1
  <2> QED BY <2>2, <2>3, <2>4, Zenon
<1>6. h \o t = s
  BY <1>4, <1>5, SeqEqual
<1> QED BY <1>2, <1>3, <1>6 DEF h, t

\* What is on the way from a client: in the pipe, in the buffer, in its socket.
Way(p, q, r) == p \o q \o r

\* Where the elements of the three are in it.
LEMMA WayFacts ==
  ASSUME NEW p \in Seq(Cells), NEW q \in Seq(Cells), NEW r \in Seq(Cells)
  PROVE  /\ Len(Way(p, q, r)) = Len(p) + Len(q) + Len(r)
         /\ \A k \in 1 .. Len(p) : Way(p, q, r)[k] = p[k]
         /\ \A k \in 1 .. Len(q) : Way(p, q, r)[Len(p) + k] = q[k]
         /\ \A k \in 1 .. Len(r) : Way(p, q, r)[Len(p) + Len(q) + k] = r[k]
BY ConcatProperties DEF Way

\* The first of the three loses its first n elements.
LEMMA WayDrop ==
  ASSUME NEW p \in Seq(Cells), NEW q \in Seq(Cells), NEW r \in Seq(Cells),
         NEW u \in Seq(Cells), NEW n \in Nat, Drops(p, u, n)
  PROVE  Drops(Way(p, q, r), Way(u, q, r), n)
<1> USE DEF Drops
<1> DEFINE s == Way(p, q, r)
           t == Way(u, q, r)
<1>1. /\ Len(s) = Len(p) + Len(q) + Len(r)
      /\ \A k \in 1 .. Len(p) : s[k] = p[k]
      /\ \A k \in 1 .. Len(q) : s[Len(p) + k] = q[k]
      /\ \A k \in 1 .. Len(r) : s[Len(p) + Len(q) + k] = r[k]
  BY WayFacts, ZenonT(30)
<1>2. /\ Len(t) = Len(u) + Len(q) + Len(r)
      /\ \A k \in 1 .. Len(u) : t[k] = u[k]
      /\ \A k \in 1 .. Len(q) : t[Len(u) + k] = q[k]
      /\ \A k \in 1 .. Len(r) : t[Len(u) + Len(q) + k] = r[k]
  BY WayFacts
<1> HIDE DEF s, t
<1>3. Len(p) \in Nat /\ Len(q) \in Nat /\ Len(r) \in Nat
  OBVIOUS
<1>4. ASSUME NEW k \in 1 .. Len(t) PROVE t[k] = s[k + n]
  <2>1. CASE k <= Len(u)
    <3>1. k \in 1 .. Len(u) /\ k + n \in 1 .. Len(p)
      BY <2>1, <1>3
    <3> QED BY <3>1, <1>1, <1>2
  <2>2. CASE Len(u) < k /\ k <= Len(u) + Len(q)
    <3> DEFINE l == k - Len(u)
    <3>1. l \in 1 .. Len(q) /\ Len(u) + l = k /\ Len(p) + l = k + n
      BY <2>2, <1>3
    <3> HIDE DEF l
    <3>2. t[Len(u) + l] = s[Len(p) + l]
      BY <3>1, <1>1, <1>2
    <3> QED BY <3>1, <3>2
  <2>3. CASE Len(u) + Len(q) < k
    <3> DEFINE l == k - Len(u) - Len(q)
    <3>1. l \in 1 .. Len(r) /\ Len(u) + Len(q) + l = k /\ Len(p) + Len(q) + l = k + n
      BY <2>3, <1>2, <1>3
    <3> HIDE DEF l
    <3>2. t[Len(u) + Len(q) + l] = s[Len(p) + Len(q) + l]
      BY <3>1, <1>1, <1>2
    <3> QED BY <3>1, <3>2
  <2> QED BY <2>1, <2>2, <2>3, <1>3
<1> QED BY <1>1, <1>2, <1>3, <1>4 DEF s, t

\* A step of memmove copies an entry over the one before it; the last one
\* forgets the last entry.
LEMMA ShiftFacts ==
  ASSUME TypeOK, PositionInv, Shift
  PROVE  /\ thread = "shift" /\ j \in 1 .. Len(tab) /\ i <= j
         /\ tab' \in Seq(Clients) /\ Len(tab') <= MaxConnections
         /\ i' \in Slots /\ j' \in Slots
         /\ \/ /\ j < Len(tab) /\ Len(tab') = Len(tab)
               /\ j' = j + 1 /\ thread' = "shift" /\ i' = i
               /\ \A k \in 1 .. Len(tab) : tab'[k] = IF k = j THEN tab[j + 1] ELSE tab[k]
            \/ /\ j = Len(tab) /\ Len(tab') = Len(tab) - 1
               /\ thread' \in {"top", "read"}
               /\ thread' = "read" => i' <= Len(tab')
               /\ \A k \in 1 .. Len(tab) - 1 : tab'[k] = tab[k]
<1>1. thread = "shift" /\ j \in 1 .. Len(tab) /\ i \in Nat /\ i <= j
  BY ConstantsAssumption DEF Shift, At, TypeOK, PositionInv, Slots
<1>2. tab \in Seq(Clients) /\ Len(tab) \in Nat /\ Len(tab) <= MaxConnections
  BY DEF TypeOK
<1>3. MaxConnections \in Nat /\ 1 \in Slots
  BY ConstantsAssumption DEF Slots
<1>4. CASE j < Len(tab) /\ tab' = [tab EXCEPT ![j] = tab[j + 1]] /\ j' = j + 1 /\ UNCHANGED <<thread, i>>
  <2>1. tab[j + 1] \in Clients
    BY <1>1, <1>2, <1>4
  <2>2. /\ tab' \in Seq(Clients) /\ Len(tab') = Len(tab)
        /\ \A k \in 1 .. Len(tab) : tab'[k] = IF k = j THEN tab[j + 1] ELSE tab[k]
    BY <1>1, <1>2, <1>4, <2>1, ExceptSeq
  <2>3. j' \in Slots
    BY <1>1, <1>2, <1>3, <1>4 DEF Slots
  <2>4. i' \in Slots
    BY <1>4 DEF TypeOK
  <2> QED BY <1>1, <1>2, <1>4, <2>2, <2>3, <2>4
<1>5. CASE j = Len(tab) /\ tab' = SubSeq(tab, 1, j - 1) /\ GoOn(i, j - 1, rev) /\ j' = 1
  <2>1. j - 1 \in Nat /\ j - 1 <= Len(tab) /\ j - 1 <= MaxConnections
    BY <1>1, <1>2, <1>3
  <2>2. /\ tab' \in Seq(Clients) /\ Len(tab') = j - 1
        /\ \A k \in 1 .. j - 1 : tab'[k] = tab[k]
    BY <1>2, <1>5, <2>1, SubSeqFacts
  <2>3. i' \in Slots /\ thread' \in {"top", "read"} /\ (thread' = "read" => i' <= j - 1)
    BY <1>1, <1>5, <2>1, GoOnFacts
  <2> QED BY <1>1, <1>3, <1>5, <2>1, <2>2, <2>3
<1> QED BY <1>4, <1>5 DEF Shift

\* The buffer gets what is no piece of c.
LEMMA WayInsert ==
  ASSUME NEW c, NEW p \in Seq(Cells), NEW f \in Seq(Cells), NEW r \in Seq(Cells),
         PlacesOf(c, f) = {}, NEW m \in Nat, NEW n \in Nat,
         InOrder(c, Way(p, << >>, r), m, n)
  PROVE  InOrder(c, Way(p, f, r), m, n)
<1> DEFINE s == Way(p, << >>, r)
           t == Way(p, f, r)
<1>1. << >> \in Seq(Cells) /\ Len(<< >>) = 0
  OBVIOUS
<1>2. /\ Len(s) = Len(p) + 0 + Len(r)
      /\ \A k \in 1 .. Len(p) : s[k] = p[k]
      /\ \A k \in 1 .. Len(r) : s[Len(p) + 0 + k] = r[k]
  <2>1. p \o << >> = p
    BY ConcatEmptySeq
  <2>2. s = p \o r
    BY <2>1 DEF Way
  <2> QED BY ONLY p \in Seq(Cells), r \in Seq(Cells), <2>2, ConcatProperties
<1>3. /\ Len(t) = Len(p) + Len(f) + Len(r)
      /\ \A k \in 1 .. Len(p) : t[k] = p[k]
      /\ \A k \in 1 .. Len(f) : t[Len(p) + k] = f[k]
      /\ \A k \in 1 .. Len(r) : t[Len(p) + Len(f) + k] = r[k]
  BY ONLY p \in Seq(Cells), f \in Seq(Cells), r \in Seq(Cells), WayFacts
<1>4. InOrderParts(c, s, m, n)
  BY InOrderByParts
<1> HIDE DEF s, t
<1>5. Len(p) \in Nat /\ Len(f) \in Nat /\ Len(r) \in Nat
  OBVIOUS
<1>6. ASSUME NEW k \in Len(p) + 1 .. Len(s) PROVE t[k + Len(f)] = s[k]
  <2> DEFINE l == k - Len(p)
  <2>1. l \in 1 .. Len(r) /\ Len(p) + 0 + l = k /\ Len(p) + Len(f) + l = k + Len(f)
    BY <1>2, <1>5
  <2> HIDE DEF l
  <2>2. t[Len(p) + Len(f) + l] = s[Len(p) + 0 + l]
    BY <2>1, <1>2, <1>3
  <2> QED BY <2>1, <2>2
<1>7. ASSUME NEW k \in Len(p) + 1 .. Len(p) + Len(f) PROVE k \notin PlacesOf(c, t)
  <2> DEFINE l == k - Len(p)
  <2>1. l \in 1 .. Len(f) /\ Len(p) + l = k
    BY <1>5
  <2> HIDE DEF l
  <2>2. t[k] = f[l] /\ l \notin PlacesOf(c, f)
    BY <2>1, <1>3
  <2> QED BY <2>1, <2>2 DEF PlacesOf
<1>8. Len(s) \in Nat /\ Inserts(c, s, t, Len(p), Len(f))
  BY <1>2, <1>3, <1>5, <1>6, <1>7 DEF Inserts
<1>9. InOrderParts(c, t, m, n)
  BY <1>4, <1>5, <1>8, InsertInOrder
<1> QED BY <1>9, InOrderByParts DEF t

\* What is in the buffer is written to the pipe.
LEMMA WayMove ==
  ASSUME NEW p \in Seq(Cells), NEW q \in Seq(Cells), NEW r \in Seq(Cells)
  PROVE  Way(p \o q, << >>, r) = Way(p, q, r)
<1>1. p \o q \in Seq(Cells)
  OBVIOUS
<1>2. (p \o q) \o << >> = p \o q
  BY <1>1, ConcatEmptySeq
<1> QED BY <1>2 DEF Way

\* What a socket holds is read to the empty buffer.
LEMMA WayJoin ==
  ASSUME NEW p \in Seq(Cells), NEW h \in Seq(Cells), NEW t \in Seq(Cells)
  PROVE  Way(p, h, t) = Way(p, << >>, h \o t)
<1>1. (p \o h) \o t = p \o (h \o t)
  BY ConcatAssociative
<1>2. p \o << >> = p
  BY ConcatEmptySeq
<1> QED BY <1>1, <1>2 DEF Way

LEMMA WayRead ==
  ASSUME NEW p \in Seq(Cells), NEW r \in Seq(Cells), NEW k \in Nat, k <= Len(r)
  PROVE  Way(p, SubSeq(r, 1, k), SubSeq(r, k + 1, Len(r))) = Way(p, << >>, r)
<1>1. /\ SubSeq(r, 1, k) \in Seq(Cells) /\ SubSeq(r, k + 1, Len(r)) \in Seq(Cells)
      /\ SubSeq(r, 1, k) \o SubSeq(r, k + 1, Len(r)) = r
  BY SplitSeq
<1>2. Way(p, SubSeq(r, 1, k), SubSeq(r, k + 1, Len(r)))
        = Way(p, << >>, SubSeq(r, 1, k) \o SubSeq(r, k + 1, Len(r)))
  BY <1>1, WayJoin, Zenon
<1> QED BY <1>1, <1>2, Zenon

\* Client c sends another piece.
LEMMA WaySend ==
  ASSUME NEW c \in Clients, NEW p \in Seq(Cells), NEW q \in Seq(Cells), NEW r \in Seq(Cells),
         NEW m \in Nat, NEW n \in Nat, InOrder(c, Way(p, q, r), m, n)
  PROVE  InOrder(c, Way(p, q, Append(r, Piece(c, n + 1))), m, n + 1)
<1> DEFINE e == Piece(c, n + 1)
           u == Append(r, e)
           s == Way(p, q, r)
           t == Way(p, q, u)
<1>1. e \in Cells
  BY DEF Piece, Cells
<1> HIDE DEF e
<1>2. u \in Seq(Cells) /\ Len(u) = Len(r) + 1 /\ (\A k \in 1 .. Len(r) : u[k] = r[k]) /\ u[Len(r) + 1] = e
  BY <1>1, AppendProperties
<1> HIDE DEF u
<1>3. /\ Len(s) = Len(p) + Len(q) + Len(r)
      /\ \A k \in 1 .. Len(p) : s[k] = p[k]
      /\ \A k \in 1 .. Len(q) : s[Len(p) + k] = q[k]
      /\ \A k \in 1 .. Len(r) : s[Len(p) + Len(q) + k] = r[k]
  BY ONLY p \in Seq(Cells), q \in Seq(Cells), r \in Seq(Cells), WayFacts
<1>4. /\ Len(t) = Len(p) + Len(q) + Len(u)
      /\ \A k \in 1 .. Len(p) : t[k] = p[k]
      /\ \A k \in 1 .. Len(q) : t[Len(p) + k] = q[k]
      /\ \A k \in 1 .. Len(u) : t[Len(p) + Len(q) + k] = u[k]
  BY ONLY p \in Seq(Cells), q \in Seq(Cells), <1>2, WayFacts, ZenonT(30)
<1>5. InOrderParts(c, s, m, n)
  BY InOrderByParts
<1> HIDE DEF s, t
<1>6. Len(p) \in Nat /\ Len(q) \in Nat /\ Len(r) \in Nat
  OBVIOUS
<1>7. ASSUME NEW k \in 1 .. Len(s) PROVE t[k] = s[k]
  <2>1. CASE k <= Len(p)
    <3>1. k \in 1 .. Len(p)
      BY <2>1, <1>6
    <3> QED BY <3>1, <1>3, <1>4
  <2>2. CASE Len(p) < k /\ k <= Len(p) + Len(q)
    <3> DEFINE l == k - Len(p)
    <3>1. l \in 1 .. Len(q) /\ Len(p) + l = k
      BY <2>2, <1>6
    <3> HIDE DEF l
    <3>2. t[Len(p) + l] = s[Len(p) + l]
      BY <3>1, <1>3, <1>4
    <3> QED BY <3>1, <3>2
  <2>3. CASE Len(p) + Len(q) < k
    <3> DEFINE l == k - Len(p) - Len(q)
    <3>1. l \in 1 .. Len(r) /\ Len(p) + Len(q) + l = k /\ l \in 1 .. Len(u)
      BY <2>3, <1>2, <1>3, <1>6
    <3> HIDE DEF l
    <3>2. t[Len(p) + Len(q) + l] = s[Len(p) + Len(q) + l]
      BY <3>1, <1>2, <1>3, <1>4
    <3> QED BY <3>1, <3>2
  <2> QED BY <2>1, <2>2, <2>3, <1>6
<1>8. Len(t) = Len(s) + 1 /\ t[Len(t)] = e
  <2>1. Len(u) \in 1 .. Len(u) /\ Len(t) = Len(p) + Len(q) + Len(u)
    BY <1>2, <1>4, <1>6
  <2>2. t[Len(t)] = u[Len(u)]
    BY <2>1, <1>4
  <2> QED BY <2>2, <1>2, <1>3, <1>4, <1>6
<1>9. Len(s) \in Nat /\ Extends(s, t, Piece(c, n + 1))
  BY <1>3, <1>6, <1>7, <1>8 DEF Extends, e
<1>10. InOrderParts(c, t, m, n + 1) /\ n + 1 \in Nat
  BY <1>5, <1>9, AppendInOrder
<1> QED BY <1>10, InOrderByParts DEF t, u, e

\* n cells are taken from the pipe p.
LEMMA TakeInOrder ==
  ASSUME NEW c, NEW p \in Seq(Cells), NEW q \in Seq(Cells), NEW r \in Seq(Cells),
         NEW u \in Seq(Cells), NEW n \in Nat, Drops(p, u, n),
         NEW m \in Nat, NEW h \in Nat, InOrder(c, Way(p, q, r), m, h)
  PROVE  /\ m + Cardinality(FirstOf(c, p, n)) \in Nat
         /\ InOrder(c, Way(u, q, r), m + Cardinality(FirstOf(c, p, n)), h)
<1> DEFINE s == Way(p, q, r)
           t == Way(u, q, r)
<1>1. /\ Len(s) = Len(p) + Len(q) + Len(r)
      /\ \A k \in 1 .. Len(p) : s[k] = p[k]
  BY ONLY p \in Seq(Cells), q \in Seq(Cells), r \in Seq(Cells), WayFacts, ZenonT(30)
<1>2. Drops(s, t, n)
  BY WayDrop
<1>3. InOrderParts(c, s, m, h)
  BY InOrderByParts
<1> HIDE DEF s, t
<1>4. Len(p) \in Nat /\ Len(q) \in Nat /\ Len(r) \in Nat /\ n <= Len(p)
  BY DEF Drops
<1>5. Len(s) \in Nat /\ \A k \in 1 .. n : s[k] = p[k]
  BY <1>1, <1>4
<1>6. FirstOf(c, s, n) = FirstOf(c, p, n)
  BY <1>5 DEF FirstOf
<1>7. /\ m + Cardinality(FirstOf(c, s, n)) \in Nat
      /\ InOrderParts(c, t, m + Cardinality(FirstOf(c, s, n)), h)
  BY <1>2, <1>3, <1>5, DropInOrder
<1>8. InOrder(c, t, m + Cardinality(FirstOf(c, s, n)), h)
  BY <1>7, InOrderByParts
<1> QED BY <1>6, <1>7, <1>8 DEF t

\* command_server_recv takes some cells from the front of the pipe.
LEMMA RecvFacts ==
  ASSUME TypeOK, CommandsInOrder, Recv
  PROVE  /\ got' \in [Clients -> Nat] /\ pipe' \in Seq(Cells)
         /\ \E n \in 1 .. Len(pipe) : Drops(pipe, pipe', n)
         /\ CommandsInOrder'
<1>1. PICK n \in 1 .. Len(pipe) :
        /\ pipe' = SubSeq(pipe, n + 1, Len(pipe))
        /\ got' = [c \in Clients |-> got[c] + Cardinality(FirstOf(c, pipe, n))]
  <2> DEFINE n == IF Len(pipe) <= BufferSize THEN Len(pipe) ELSE BufferSize
  <2>1. pipe \in Seq(Cells) /\ pipe # << >>
    BY DEF TypeOK, Recv
  <2>2. Len(pipe) \in Nat /\ Len(pipe) # 0
    BY <2>1
  <2>3. n \in 1 .. Len(pipe)
    BY <2>2, ConstantsAssumption
  <2> QED BY <2>3 DEF Recv, FirstOf
<1>2. UNCHANGED <<buf, inq, sent>>
  BY DEF Recv, threadVars, clientVars
<1>3. pipe \in Seq(Cells) /\ Len(pipe) \in Nat /\ buf \in Seq(Cells)
  BY DEF TypeOK
<1>4. n \in Nat /\ n <= Len(pipe)
  BY <1>3
<1>5. pipe' \in Seq(Cells) /\ Drops(pipe, pipe', n)
  BY <1>1, <1>3, <1>4, SplitSeq DEF Drops
<1>6. ASSUME NEW c \in Clients
      PROVE  got'[c] \in Nat /\ InOrder(c, Way(pipe', buf, inq[c]), got'[c], sent[c])
  <2>1. inq[c] \in Seq(Cells) /\ got[c] \in Nat /\ sent[c] \in Nat
    BY DEF TypeOK
  <2>2. InOrder(c, Way(pipe, buf, inq[c]), got[c], sent[c])
    BY DEF CommandsInOrder, Way
  <2>3. /\ got[c] + Cardinality(FirstOf(c, pipe, n)) \in Nat
        /\ InOrder(c, Way(pipe', buf, inq[c]), got[c] + Cardinality(FirstOf(c, pipe, n)), sent[c])
    BY <1>3, <1>4, <1>5, <2>1, <2>2, TakeInOrder
  <2>4. got'[c] = got[c] + Cardinality(FirstOf(c, pipe, n))
    BY <1>1
  <2> QED BY <2>3, <2>4
<1>7. got' \in [Clients -> Nat]
  BY <1>1, <1>6
<1>8. CommandsInOrder'
  BY <1>2, <1>6 DEF CommandsInOrder, Way
<1> QED BY <1>5, <1>7, <1>8

\* The initial states.
LEMMA InitInv == Init => Inv
<1> SUFFICES ASSUME Init PROVE Inv
  OBVIOUS
<1>1. TypeOK
  <2>1. i \in Slots /\ j \in Slots /\ b \in 1 .. MaxConnections + 1
    BY ConstantsAssumption DEF Init, Slots
  <2>2. Len(tab) <= MaxConnections
    BY ConstantsAssumption DEF Init
  <2>3. << >> \in Seq(Cells) /\ << >> \in Seq(Clients)
    OBVIOUS
  <2>4. /\ buf \in Seq(Cells) /\ pipe \in Seq(Cells) /\ tab \in Seq(Clients)
        /\ inq \in [Clients -> Seq(Cells)]
    BY <2>3 DEF Init
  <2> QED BY <2>1, <2>2, <2>4 DEF Init, TypeOK
<1>2. PositionInv /\ BufferInv /\ LineInv
  BY DEF Init, PositionInv, BufferInv, LineInv, LinesIntact
<1>3. SocketInv
  BY DEF Init, SocketInv, Used
<1>4. BroadcastInv
  BY DEF Init, BroadcastInv
<1>5. CommandsInOrder
  <2> SUFFICES ASSUME NEW c \in Clients PROVE InOrder(c, pipe \o buf \o inq[c], got[c], sent[c])
    BY DEF CommandsInOrder
  <2>1. pipe \o buf \o inq[c] = << >> /\ got[c] = 0 /\ sent[c] = 0
    BY DEF Init
  <2>2. PlacesOf(c, << >>) = {}
    BY DEF PlacesOf
  <2>3. 0 + 1 .. 0 = {}
    OBVIOUS
  <2>4. InOrder(c, << >>, 0, 0)
    BY <2>2, <2>3 DEF InOrder
  <2> QED BY <2>1, <2>4
<1> QED BY <1>1, <1>2, <1>3, <1>4, <1>5 DEF Inv

\* Types are kept by a step of server_thread,
LEMMA ThreadTypes ==
  ASSUME Inv, Thread \/ PollFails
  PROVE  TypeOK'
<1> USE ConstantsAssumption DEF Inv, TypeOK, threadVars, appVars, clientVars
<1>1. CASE Loop \/ PollFails
  BY <1>1 DEF Loop, PollFails
<1>2. CASE PollReturns
  <2>1. rev' \in [Slots -> BOOLEAN]
    BY <1>2 DEF PollReturns, Polled, Readable
  <2>2. i' \in Slots /\ thread' \in {"accept", "top", "read"}
    BY <1>2, GoOnFacts DEF PollReturns
  <2> QED BY <1>2, <2>1, <2>2 DEF PollReturns
<1>3. CASE Accept
  <2>1. tab' \in Seq(Clients) /\ Len(tab') <= MaxConnections
    <3>1. CASE UNCHANGED tab
      BY <3>1
    <3>2. CASE Len(tab) < MaxConnections /\ \E c \in Clients : tab' = Append(tab, c)
      BY <3>2
    <3> QED BY <1>3, <3>1, <3>2 DEF Accept, Accepted, Waiting
  <2>2. sock' \in [Clients -> {"none", "backlog", "open", "closed"}]
    BY <1>3 DEF Accept, Accepted, Waiting
  <2>3. Len(tab') \in Nat
    BY <2>1
  <2>4. i' \in Slots /\ thread' \in {"top", "read"}
    BY <1>3, <2>1, <2>3, GoOnFacts DEF Accept
  <2> QED BY <1>3, <2>1, <2>2, <2>4 DEF Accept
<1>4. CASE ReadEnds
  <2>1. tab[i] \in Clients
    BY <1>4 DEF ReadEnds, At, PositionInv, Slots
  <2> QED BY <1>4, <2>1 DEF ReadEnds
<1>5. CASE Shift
  <2>1. (tab' \in Seq(Clients) /\ Len(tab') <= MaxConnections) /\ i' \in Slots /\ j' \in Slots
    BY <1>5, ShiftFacts
  <2>2. thread' \in {"shift", "top", "read"}
    BY <1>5, ShiftFacts
  <2> QED BY <1>5, <2>1, <2>2 DEF Shift
<1>6. CASE WriteData
  BY <1>6, ConcatProperties DEF WriteData
<1>7. CASE WriteNewLine
  <2>1. i + 1 \in Nat /\ Len(tab) \in Nat
    BY DEF Slots
  <2>2. i' \in Slots /\ thread' \in {"top", "read"}
    BY <1>7, <2>1, GoOnFacts DEF WriteNewLine
  <2>3. pipe' \in Seq(Cells)
    BY <1>7 DEF WriteNewLine, Cells
  <2> QED BY <1>7, <2>2, <2>3 DEF WriteNewLine
<1>8. ASSUME NEW k \in 1 .. BufferSize, ReadData(k) PROVE TypeOK'
  <2>1. tab[i] \in Clients
    BY <1>8 DEF ReadData, At, PositionInv, Slots
  <2>2. inq[tab[i]] \in Seq(Cells)
    BY <2>1
  <2>3. k \in Nat \ {0} /\ k <= Len(inq[tab[i]])
    BY <1>8 DEF ReadData
  <2>4. /\ SubSeq(inq[tab[i]], 1, k) \in Seq(Cells)
        /\ SubSeq(inq[tab[i]], k + 1, Len(inq[tab[i]])) \in Seq(Cells)
    BY <2>2, <2>3, SplitSeq
  <2> QED BY <1>8, <2>1, <2>4 DEF ReadData
<1> QED BY <1>1, <1>2, <1>3, <1>4, <1>5, <1>6, <1>7, <1>8 DEF Thread

\* A write of the broadcast succeeds, fails or kills the process.
LEMMA WriteFacts ==
  ASSUME TypeOK, BroadcastWrite
  PROVE  /\ b \in 1 .. Len(tab) /\ app = "broadcast"
         /\ \/ /\ app' = "broadcast" /\ b' = b + 1
               /\ \/ heard' = [heard EXCEPT ![tab[b]] = @ + 1] /\ success' = success
                  \/ heard' = heard /\ success' = FALSE
            \/ app' = "killed" /\ UNCHANGED <<b, heard, success>>
         /\ heard' \in [Clients -> Nat] /\ peer' \in [Clients -> {"none", "open"} \union Gone]
         /\ success' \in BOOLEAN /\ app' \in {"broadcast", "killed"}
         /\ b' \in 1 .. MaxConnections + 1
         /\ \A c \in Clients : peer'[c] = "none" => peer[c] = "none"
<1> DEFINE c == tab[b]
<1>1. b \in 1 .. Len(tab) /\ Len(tab) \in Nat /\ Len(tab) <= MaxConnections /\ app = "broadcast"
  BY ConstantsAssumption DEF BroadcastWrite, TypeOK
<1>2. /\ c \in Clients /\ heard \in [Clients -> Nat] /\ success \in BOOLEAN
      /\ peer \in [Clients -> {"none", "open"} \union Gone]
  BY <1>1, SMTT(30) DEF TypeOK
<1>3. b + 1 \in 1 .. MaxConnections + 1 /\ b \in 1 .. MaxConnections + 1
  BY <1>1, ConstantsAssumption
<1>4. WriteSucceeds(c) \/ WriteFails(c) \/ WriteKills(c)
  BY DEF BroadcastWrite
<1> HIDE DEF c
<1>5. CASE WriteSucceeds(c)
  <2>1. /\ heard' = [heard EXCEPT ![c] = @ + 1] /\ UNCHANGED <<app, success>> /\ b' = b + 1
        /\ peer[c] \in {"open", "closed"}
        /\ peer' = [peer EXCEPT ![c] = IF @ = "closed" THEN "reset" ELSE @]
    BY <1>5 DEF WriteSucceeds
  <2>2. heard' \in [Clients -> Nat]
    BY <1>2, <2>1
  <2>3. /\ peer' \in [Clients -> {"none", "open"} \union Gone]
        /\ \A d \in Clients : peer'[d] = "none" => peer[d] = "none"
    BY <1>2, <2>1 DEF Gone
  <2> QED BY <1>1, <1>2, <1>3, <2>1, <2>2, <2>3 DEF c
<1>6. CASE WriteFails(c)
  <2>1. /\ success' = FALSE /\ UNCHANGED <<app, heard>> /\ b' = b + 1
        /\ peer' = [peer EXCEPT ![c] = IF sock[c] = "open" THEN "reset" ELSE @]
    BY <1>6 DEF WriteFails
  <2>2. /\ peer' \in [Clients -> {"none", "open"} \union Gone]
        /\ \A d \in Clients : peer'[d] = "none" => peer[d] = "none"
    BY <1>2, <2>1 DEF Gone
  <2> QED BY <1>1, <1>2, <1>3, <2>1, <2>2
<1>7. CASE WriteKills(c)
  BY <1>1, <1>2, <1>3, <1>7 DEF WriteKills
<1> QED BY <1>4, <1>5, <1>6, <1>7

\* ... of the application,
LEMMA AppTypes ==
  ASSUME Inv, Recv \/ Broadcast \/ BroadcastWrite \/ BroadcastEnds \/ Destroy \/ Joined
  PROVE  TypeOK'
<1> USE ConstantsAssumption DEF Inv, TypeOK, threadVars, appVars, clientVars
<1>1. CASE Recv
  <2>1. pipe' \in Seq(Cells) /\ got' \in [Clients -> Nat]
    BY <1>1, RecvFacts
  <2> QED BY <1>1, <2>1 DEF Recv
<1>2. CASE Broadcast
  <2>1. present' \in SUBSET Clients
    <3>1. \A k \in 1 .. Len(tab) : tab[k] \in Clients
      OBVIOUS
    <3>2. present' = {tab[k] : k \in 1 .. Len(tab)}
      BY <1>2 DEF Broadcast
    <3> QED BY ONLY <3>1, <3>2
  <2>2. disturbed' \in BOOLEAN
    BY <1>2 DEF Broadcast
  <2> QED BY <1>2, <2>1, <2>2 DEF Broadcast
<1>3. CASE BroadcastWrite
  <2>1. /\ heard' \in [Clients -> Nat] /\ peer' \in [Clients -> {"none", "open"} \union Gone]
        /\ success' \in BOOLEAN /\ app' \in {"broadcast", "killed"}
        /\ b' \in 1 .. MaxConnections + 1
    BY <1>3, WriteFacts
  <2>2. UNCHANGED <<threadVars, tab, running, present, disturbed, got, sent, pipe, sock, inq>>
    BY <1>3 DEF BroadcastWrite
  <2>3. UNCHANGED <<thread, i, j, rev, buf, tab, running, present, disturbed, got, sent, pipe,
                    sock, inq>>
    BY <2>2
  <2> QED BY <2>1, <2>3
<1>4. CASE BroadcastEnds
  <2>1. 1 \in 1 .. MaxConnections + 1
    OBVIOUS
  <2>2. heard' \in [Clients -> Nat] /\ b' \in 1 .. MaxConnections + 1
    BY <1>4, <2>1 DEF BroadcastEnds
  <2> QED BY <1>4, <2>2 DEF BroadcastEnds
<1>5. CASE Destroy
  BY <1>5 DEF Destroy
<1>6. CASE Joined
  <2>1. tab' \in Seq(Clients) /\ Len(tab') <= MaxConnections
    BY <1>6 DEF Joined
  <2> QED BY <1>6, <2>1 DEF Joined
<1> QED BY <1>1, <1>2, <1>3, <1>4, <1>5, <1>6

\* ... and of the clients.
LEMMA ClientTypes ==
  ASSUME Inv, NEW c \in Clients, Connects(c) \/ Sends(c) \/ Leaves(c) \/ Aborts(c)
  PROVE  TypeOK'
<1> USE DEF Inv, TypeOK, threadVars, appVars, clientVars
<1>1. CASE Connects(c)
  BY <1>1 DEF Connects
<1>2. CASE Sends(c)
  <2>1. Piece(c, sent[c] + 1) \in Cells
    BY DEF Piece, Cells
  <2>2. inq' \in [Clients -> Seq(Cells)]
    BY <1>2, <2>1 DEF Sends
  <2>3. sent' \in [Clients -> Nat]
    BY <1>2 DEF Sends
  <2> QED BY <1>2, <2>2, <2>3 DEF Sends
<1>3. CASE Leaves(c) \/ Aborts(c)
  BY <1>3, ZenonT(30) DEF Leaves, Aborts, Gone
<1> QED BY <1>1, <1>2, <1>3

-----------------------------------------------------------------------------
(* The parts of the invariant that a step keeps.                           *)

\* The steps of server_thread that go on to another entry, or to the next turn.
LEMMA TurnFacts ==
  ASSUME Inv, PollReturns \/ Accept \/ WriteNewLine
  PROVE  /\ thread \in {"polling", "accept", "newline"}
         /\ thread' \in {"accept", "top", "read"}
         /\ thread' = "read" => i' <= Len(tab')
<1> USE DEF Inv, TypeOK
<1>1. CASE PollReturns
  <2>1. Len(tab) \in Nat /\ 1 \in Nat
    OBVIOUS
  <2>2. CASE GoOn(1, Len(tab), Polled)
    BY <1>1, <2>1, <2>2, GoOnFacts DEF PollReturns, At
  <2> QED BY <1>1, <2>2 DEF PollReturns, At
<1>2. CASE Accept
  <2>1. Len(tab') \in Nat /\ 1 \in Nat /\ Len(tab') <= MaxConnections
    BY <1>2, ThreadTypes DEF Thread
  <2> QED BY <1>2, <2>1, GoOnFacts DEF Accept, At
<1>3. CASE WriteNewLine
  <2>1. Len(tab) \in Nat /\ i + 1 \in Nat
    BY ConstantsAssumption DEF Slots
  <2> QED BY <1>3, <2>1, GoOnFacts DEF WriteNewLine, At
<1> QED BY <1>1, <1>2, <1>3

\* Steps that leave server_thread and the table alone.
Elsewhere ==
  \/ Recv \/ Broadcast \/ BroadcastWrite \/ BroadcastEnds \/ Destroy
  \/ \E c \in Clients : Connects(c) \/ Sends(c) \/ Leaves(c) \/ Aborts(c)

LEMMA ElsewhereFacts ==
  ASSUME Elsewhere
  PROVE  UNCHANGED <<thread, i, j, rev, buf, tab>>
BY DEF Elsewhere, Recv, Broadcast, BroadcastWrite, BroadcastEnds, Destroy, Connects, Sends,
       Leaves, Aborts, threadVars

\* What a step is.
LEMMA Steps ==
  ASSUME [Next]_vars
  PROVE  \/ Loop \/ PollFails \/ PollReturns \/ Accept \/ WriteNewLine
         \/ ReadEnds \/ Shift \/ WriteData
         \/ \E k \in 1 .. BufferSize : ReadData(k)
         \/ Joined \/ Elsewhere
         \/ UNCHANGED vars
BY DEF Next, Thread, Elsewhere

\* The types.
LEMMA TypeStep ==
  ASSUME Inv, [Next]_vars
  PROVE  TypeOK'
<1>1. CASE UNCHANGED vars
  BY <1>1 DEF vars, threadVars, appVars, clientVars, Inv, TypeOK
<1>2. CASE Next
  BY <1>2, ThreadTypes, AppTypes, ClientTypes DEF Next
<1> QED BY <1>1, <1>2

LEMMA PositionStep ==
  ASSUME Inv, [Next]_vars
  PROVE  PositionInv'
<1> USE DEF Inv, PositionInv
<1>1. CASE Loop \/ PollFails
  BY <1>1 DEF Loop, PollFails
<1>2. CASE PollReturns \/ Accept \/ WriteNewLine
  BY <1>2, TurnFacts
<1>3. CASE ReadEnds
  <2>1. i \in Nat
    BY ConstantsAssumption DEF TypeOK, Slots
  <2> QED BY <1>3, <2>1 DEF ReadEnds, At
<1>4. CASE Shift
  <2>1. i \in Nat
    BY ConstantsAssumption DEF TypeOK, Slots
  <2> QED BY <1>4, <2>1, ShiftFacts
<1>5. CASE WriteData
  BY <1>5 DEF WriteData, At
<1>6. CASE \E k \in 1 .. BufferSize : ReadData(k)
  BY <1>6 DEF ReadData, At
<1>7. CASE Joined
  BY <1>7 DEF Joined, threadVars
<1>8. CASE Elsewhere
  BY <1>8, ElsewhereFacts
<1>9. CASE UNCHANGED vars
  BY <1>9 DEF vars, threadVars
<1> QED BY <1>1, <1>2, <1>3, <1>4, <1>5, <1>6, <1>7, <1>8, <1>9, Steps

LEMMA BufferStep ==
  ASSUME Inv, [Next]_vars
  PROVE  BufferInv'
<1> USE DEF Inv, BufferInv
<1>1. CASE Loop \/ PollFails
  BY <1>1 DEF Loop, PollFails, At
<1>2. CASE PollReturns \/ Accept \/ WriteNewLine
  <2>1. UNCHANGED <<buf, inq>>
    BY <1>2 DEF PollReturns, Accept, WriteNewLine
  <2> QED BY <1>2, <2>1, TurnFacts
<1>3. CASE ReadEnds
  BY <1>3 DEF ReadEnds, At
<1>4. CASE Shift
  <2>1. UNCHANGED <<buf, inq>>
    BY <1>4 DEF Shift
  <2> QED BY <1>4, <2>1, ShiftFacts
<1>5. CASE WriteData
  BY <1>5 DEF WriteData
<1>6. ASSUME NEW k \in 1 .. BufferSize, ReadData(k) PROVE BufferInv'
  <2>1. tab[i] \in Clients
    BY <1>6 DEF ReadData, At, PositionInv, Slots, TypeOK
  <2>2. inq[tab[i]] \in Seq(PiecesOf(tab[i]))
    BY <2>1
  <2>3. k \in Nat /\ k <= Len(inq[tab[i]])
    BY <1>6 DEF ReadData
  <2>4. /\ SubSeq(inq[tab[i]], 1, k) \in Seq(PiecesOf(tab[i]))
        /\ SubSeq(inq[tab[i]], k + 1, Len(inq[tab[i]])) \in Seq(PiecesOf(tab[i]))
    BY <2>2, <2>3, SplitSeq
  <2>5. \A c \in Clients : inq'[c] \in Seq(PiecesOf(c))
    BY <1>6, <2>4 DEF ReadData, TypeOK
  <2>6. thread' = "write" /\ buf' \in Seq(PiecesOf(tab'[i']))
    BY <1>6, <2>4 DEF ReadData
  <2> QED BY <2>5, <2>6
<1>7. CASE Joined
  BY <1>7 DEF Joined, threadVars
<1>8. CASE Elsewhere
  <2>1. UNCHANGED <<thread, buf, tab, i>>
    BY <1>8, ElsewhereFacts
  <2>2. CASE UNCHANGED inq
    BY <2>1, <2>2
  <2>3. ASSUME NEW c \in Clients, Sends(c) PROVE BufferInv'
    <3>1. Piece(c, sent[c] + 1) \in PiecesOf(c)
      BY DEF Piece, PiecesOf, TypeOK
    <3>2. Append(inq[c], Piece(c, sent[c] + 1)) \in Seq(PiecesOf(c))
      BY <3>1
    <3>3. \A d \in Clients : inq'[d] \in Seq(PiecesOf(d))
      BY <2>3, <3>2 DEF Sends, TypeOK
    <3> QED BY <2>1, <3>3
  <2> QED BY <1>8, <2>2, <2>3 DEF Elsewhere, Recv, Broadcast, BroadcastWrite, BroadcastEnds,
                                  Destroy, Connects, Leaves, Aborts
<1>9. CASE UNCHANGED vars
  BY <1>9 DEF vars, threadVars
<1> QED BY <1>1, <1>2, <1>3, <1>4, <1>5, <1>6, <1>7, <1>8, <1>9, Steps

\* Two neighbouring cells of s are of one client, or one of them is a newline.
Whole(s) ==
  \A k \in 1 .. Len(s) - 1 :
    (s[k] # NewLine /\ s[k + 1] # NewLine) => s[k].from = s[k + 1].from

\* What a client sent is from it.
LEMMA PieceFrom ==
  ASSUME NEW c, NEW q \in Seq(PiecesOf(c)), NEW k \in 1 .. Len(q)
  PROVE  q[k].from = c
<1>1. q[k] \in PiecesOf(c)
  OBVIOUS
<1> QED BY <1>1 DEF PiecesOf

\* Lines stay whole when a pipe that ends in a newline gets what a client sent,
LEMMA WriteWhole ==
  ASSUME NEW c, NEW p \in Seq(Cells), NEW q \in Seq(PiecesOf(c)), Whole(p),
         p # << >> => p[Len(p)] = NewLine
  PROVE  Whole(p \o q)
<1>1. Len(p) \in Nat /\ Len(q) \in Nat /\ \A k \in 1 .. Len(q) : q[k].from = c
  BY PieceFrom
<1>2. /\ Len(p \o q) = Len(p) + Len(q)
      /\ \A k \in 1 .. Len(p) + Len(q) : (p \o q)[k] = IF k <= Len(p) THEN p[k] ELSE q[k - Len(p)]
  <2>1. p \in Seq(Cells \union PiecesOf(c)) /\ q \in Seq(Cells \union PiecesOf(c))
    OBVIOUS
  <2> QED BY ONLY <2>1, ConcatProperties
<1> DEFINE s == p \o q
<1> HIDE DEF s
<1>3. ASSUME NEW k \in 1 .. Len(p) + Len(q) - 1, s[k] # NewLine, s[k + 1] # NewLine
      PROVE  s[k].from = s[k + 1].from
  <2>1. /\ s[k] = IF k <= Len(p) THEN p[k] ELSE q[k - Len(p)]
        /\ s[k + 1] = IF k + 1 <= Len(p) THEN p[k + 1] ELSE q[k + 1 - Len(p)]
    BY <1>1, <1>2 DEF s
  <2>2. CASE k + 1 <= Len(p)
    <3>1. k \in 1 .. Len(p) - 1 /\ k <= Len(p)
      BY <1>1, <2>2
    <3> QED BY <2>1, <2>2, <3>1, <1>3 DEF Whole
  <2>3. CASE k = Len(p)
    <3>1. p # << >> /\ s[k] = p[Len(p)]
      BY <2>1, <2>3, <1>1
    <3> QED BY <3>1, <1>3
  <2>4. CASE k > Len(p)
    <3>1. k - Len(p) \in 1 .. Len(q) /\ k + 1 - Len(p) \in 1 .. Len(q)
      BY <1>1, <2>4
    <3>2. s[k] = q[k - Len(p)] /\ s[k + 1] = q[k + 1 - Len(p)]
      BY <1>1, <2>1, <2>4
    <3> QED BY <3>1, <3>2, <1>1
  <2> QED BY <1>1, <2>2, <2>3, <2>4
<1> QED BY <1>2, <1>3 DEF Whole, s

\* ... when a newline is added,
LEMMA NewLineWhole ==
  ASSUME NEW p \in Seq(Cells), Whole(p)
  PROVE  /\ Whole(Append(p, NewLine))
         /\ Append(p, NewLine)[Len(Append(p, NewLine))] = NewLine
<1> DEFINE s == Append(p, NewLine)
<1>1. Len(p) \in Nat /\ NewLine \in Cells
  BY DEF Cells
<1>2. Len(s) = Len(p) + 1 /\ (\A k \in 1 .. Len(p) : s[k] = p[k]) /\ s[Len(p) + 1] = NewLine
  BY <1>1, AppendProperties
<1> HIDE DEF s
<1>3. ASSUME NEW k \in 1 .. Len(p), s[k] # NewLine, s[k + 1] # NewLine
      PROVE  s[k].from = s[k + 1].from
  <2>1. k # Len(p)
    BY <1>2, <1>3
  <2>2. k \in 1 .. Len(p) - 1 /\ k + 1 \in 1 .. Len(p)
    BY <1>1, <2>1
  <2> QED BY <1>2, <1>3, <2>2 DEF Whole
<1>4. Len(s) - 1 = Len(p)
  BY <1>1, <1>2
<1>5. Whole(s)
  BY <1>3, <1>4 DEF Whole
<1> QED BY <1>2, <1>5 DEF s

\* ... and when cells are taken from the front.
LEMMA DropWhole ==
  ASSUME NEW p, NEW u, NEW n \in Nat, Len(p) \in Nat, Drops(p, u, n), Whole(p)
  PROVE  Whole(u) /\ (Len(u) # 0 => u[Len(u)] = p[Len(p)])
<1>1. /\ n <= Len(p) /\ Len(u) = Len(p) - n
      /\ \A k \in 1 .. Len(u) : u[k] = p[k + n]
  BY DEF Drops
<1>2. ASSUME NEW k \in 1 .. Len(u) - 1, u[k] # NewLine, u[k + 1] # NewLine
      PROVE  u[k].from = u[k + 1].from
  <2>1. k + n \in 1 .. Len(p) - 1 /\ k \in 1 .. Len(u) /\ k + 1 \in 1 .. Len(u)
    BY <1>1
  <2>2. u[k] = p[k + n] /\ u[k + 1] = p[(k + 1) + n] /\ (k + 1) + n = (k + n) + 1
    BY <1>1, <2>1
  <2> QED BY <1>2, <2>1, <2>2 DEF Whole
<1>3. ASSUME Len(u) # 0 PROVE u[Len(u)] = p[Len(p)]
  <2>1. Len(u) \in 1 .. Len(u) /\ Len(u) + n = Len(p)
    BY <1>1, <1>3
  <2> QED BY <1>1, <2>1
<1> QED BY <1>2, <1>3 DEF Whole

LEMMA LineStep ==
  ASSUME Inv, [Next]_vars
  PROVE  LineInv'
<1>1. /\ pipe \in Seq(Cells) /\ Whole(pipe)
      /\ (thread # "newline" /\ pipe # << >>) => pipe[Len(pipe)] = NewLine
  BY DEF Inv, TypeOK, LineInv, LinesIntact, Whole
<1>2. SUFFICES /\ Whole(pipe')
               /\ (thread' # "newline" /\ pipe' # << >>) => pipe'[Len(pipe')] = NewLine
  BY DEF LineInv, LinesIntact, Whole
<1>3. CASE UNCHANGED pipe /\ (thread # "newline" \/ UNCHANGED thread)
  BY <1>1, <1>3
<1>4. CASE WriteData
  <2>1. buf \in Seq(PiecesOf(tab[i])) /\ thread = "write"
    BY <1>4 DEF WriteData, At, Inv, BufferInv
  <2>2. pipe' = pipe \o buf /\ thread' = "newline"
    BY <1>4 DEF WriteData
  <2>3. Whole(pipe \o buf)
    BY <1>1, <2>1, WriteWhole
  <2> QED BY <2>2, <2>3
<1>5. CASE WriteNewLine
  <2>1. pipe' = Append(pipe, NewLine)
    BY <1>5 DEF WriteNewLine
  <2> QED BY <1>1, <2>1, NewLineWhole
<1>6. CASE Recv
  <2>1. PICK n \in 1 .. Len(pipe) : pipe' \in Seq(Cells) /\ Drops(pipe, pipe', n)
    BY <1>6, RecvFacts DEF Inv
  <2>2. Len(pipe) \in Nat /\ n \in Nat
    BY <1>1
  <2>3. Whole(pipe') /\ (Len(pipe') # 0 => pipe'[Len(pipe')] = pipe[Len(pipe)])
    BY <1>1, <2>1, <2>2, DropWhole
  <2>4. pipe # << >> /\ UNCHANGED thread
    BY <1>6 DEF Recv, threadVars
  <2>5. pipe' # << >> => Len(pipe') # 0
    BY <2>1
  <2> QED BY <1>1, <2>3, <2>4, <2>5
<1>7. CASE Loop \/ PollFails \/ PollReturns \/ Accept \/ ReadEnds \/ Shift
            \/ \E k \in 1 .. BufferSize : ReadData(k)
  BY <1>3, <1>7 DEF Loop, PollFails, PollReturns, Accept, ReadEnds, Shift, ReadData, At
<1>8. CASE Joined \/ UNCHANGED vars
  BY <1>3, <1>8 DEF Joined, vars, threadVars
<1>9. CASE Elsewhere
  BY <1>3, <1>6, <1>9 DEF Elsewhere, Broadcast, BroadcastWrite, BroadcastEnds, Destroy, Connects,
                          Sends, Leaves, Aborts, threadVars
<1> QED BY <1>4, <1>5, <1>7, <1>8, <1>9, Steps

\* The pieces of every client stay in order.
LEMMA OrderStep ==
  ASSUME Inv, [Next]_vars
  PROVE  CommandsInOrder'
<1>1. /\ pipe \in Seq(Cells) /\ buf \in Seq(Cells) /\ << >> \in Seq(Cells)
      /\ \A c \in Clients : inq[c] \in Seq(Cells) /\ got[c] \in Nat /\ sent[c] \in Nat
  BY DEF Inv, TypeOK
<1>2. \A c \in Clients : InOrder(c, Way(pipe, buf, inq[c]), got[c], sent[c])
  BY DEF Inv, CommandsInOrder, Way
<1>3. SUFFICES ~ Recv => \A c \in Clients : InOrder(c, Way(pipe, buf, inq[c])', got'[c], sent'[c])
  <2>1. CASE Recv
    BY <2>1, RecvFacts DEF Inv
  <2> QED BY <2>1, <1>3 DEF CommandsInOrder, Way
<1>4. CASE UNCHANGED <<pipe, buf, inq, got, sent>>
  BY <1>2, <1>4
<1>5. CASE WriteData
  <2>1. pipe' = pipe \o buf /\ buf' = << >> /\ UNCHANGED <<inq, got, sent>>
    BY <1>5 DEF WriteData, appVars, clientVars
  <2>2. \A c \in Clients : Way(pipe \o buf, << >>, inq[c]) = Way(pipe, buf, inq[c])
    BY <1>1, WayMove
  <2> QED BY <1>2, <2>1, <2>2
<1>6. CASE WriteNewLine
  <2>1. pipe' = Append(pipe, NewLine) /\ buf = << >> /\ UNCHANGED <<buf, inq, got, sent>>
    BY <1>6 DEF WriteNewLine, At, appVars, clientVars, Inv, BufferInv
  <2> DEFINE f == << NewLine >>
  <2>2. f \in Seq(Cells) /\ \A c \in Clients : PlacesOf(c, f) = {}
    BY DEF Cells, PlacesOf, NewLine
  <2>3. Append(pipe, NewLine) = pipe \o f
    BY <1>1, <2>2, AppendIsConcat DEF Cells
  <2> HIDE DEF f
  <2>4. \A c \in Clients : InOrder(c, Way(pipe, f, inq[c]), got[c], sent[c])
    BY <1>1, <1>2, <2>1, <2>2, WayInsert
  <2>5. \A c \in Clients : Way(pipe \o f, << >>, inq[c]) = Way(pipe, f, inq[c])
    BY <1>1, <2>2, WayMove
  <2> QED BY <2>1, <2>3, <2>4, <2>5
<1>7. ASSUME NEW k \in 1 .. BufferSize, ReadData(k), NEW c \in Clients
      PROVE  InOrder(c, Way(pipe, buf, inq[c])', got'[c], sent'[c])
  <2> DEFINE d == tab[i]
  <2>1. d \in Clients
    BY <1>7 DEF ReadData, At, Inv, PositionInv, Slots, TypeOK
  <2>2. k \in Nat /\ k <= Len(inq[d])
    BY <1>7 DEF ReadData
  <2>3. /\ buf = << >> /\ buf' = SubSeq(inq[d], 1, k)
        /\ UNCHANGED <<pipe, got, sent>>
    BY <1>7 DEF ReadData, At, Inv, BufferInv, appVars, clientVars
  <2>4. inq' = [inq EXCEPT ![d] = SubSeq(@, k + 1, Len(@))]
    BY <1>7 DEF ReadData
  <2>5. inq \in [Clients -> Seq(Cells)] /\ inq[d] \in Seq(PiecesOf(d))
    BY <2>1 DEF Inv, TypeOK, BufferInv
  <2> HIDE DEF d
  <2>6. CASE c = d
    <3>1. inq'[c] = SubSeq(inq[d], k + 1, Len(inq[d]))
      BY <2>1, <2>4, <2>5, <2>6
    <3>2. Way(pipe, SubSeq(inq[d], 1, k), SubSeq(inq[d], k + 1, Len(inq[d])))
            = Way(pipe, << >>, inq[d])
      BY <1>1, <2>1, <2>2, WayRead
    <3> QED BY <1>2, <2>3, <2>6, <3>1, <3>2
  <2>7. CASE c # d
    <3>1. inq'[c] = inq[c]
      BY <2>4, <2>5, <2>7
    <3>2. buf' \in Seq(Cells) /\ buf' \in Seq(PiecesOf(d))
      BY <1>1, <2>1, <2>2, <2>3, <2>5, SplitSeq
    <3>3. PlacesOf(c, buf') = {}
      BY <2>7, <3>2, PieceFrom DEF PlacesOf
    <3>4. InOrder(c, Way(pipe, buf', inq[c]), got[c], sent[c])
      BY <1>1, <1>2, <2>3, <3>2, <3>3, WayInsert
    <3> QED BY <2>3, <3>1, <3>4
  <2> QED BY <2>6, <2>7
<1>8. ASSUME NEW d \in Clients, Sends(d), NEW c \in Clients
      PROVE  InOrder(c, Way(pipe, buf, inq[c])', got'[c], sent'[c])
  <2>1. /\ sent' = [sent EXCEPT ![d] = @ + 1]
        /\ inq' = [inq EXCEPT ![d] = Append(@, Piece(d, sent[d] + 1))]
        /\ UNCHANGED <<pipe, buf, got>>
    BY <1>8 DEF Sends, threadVars, appVars
  <2>2. inq \in [Clients -> Seq(Cells)] /\ sent \in [Clients -> Nat]
    BY DEF Inv, TypeOK
  <2>3. CASE c = d
    <3>1. inq'[c] = Append(inq[c], Piece(c, sent[c] + 1)) /\ sent'[c] = sent[c] + 1
      BY <2>1, <2>2, <2>3
    <3>2. InOrder(c, Way(pipe, buf, Append(inq[c], Piece(c, sent[c] + 1))), got[c], sent[c] + 1)
      BY <1>1, <1>2, WaySend
    <3> QED BY <2>1, <3>1, <3>2
  <2>4. CASE c # d
    <3>1. inq'[c] = inq[c] /\ sent'[c] = sent[c]
      BY <2>1, <2>2, <2>4
    <3> QED BY <1>2, <2>1, <3>1
  <2> QED BY <2>3, <2>4
<1>9. CASE Loop \/ PollFails \/ PollReturns \/ Accept \/ ReadEnds \/ Shift
  BY <1>4, <1>9 DEF Loop, PollFails, PollReturns, Accept, ReadEnds, Shift, appVars, clientVars
<1>10. CASE Joined \/ UNCHANGED vars
  BY <1>4, <1>10 DEF Joined, vars, threadVars, appVars, clientVars
<1>11. CASE Elsewhere
  BY <1>4, <1>8, <1>11 DEF Elsewhere, Broadcast, BroadcastWrite, BroadcastEnds, Destroy, Connects,
                           Leaves, Aborts, threadVars, appVars, clientVars
<1> QED BY <1>5, <1>6, <1>7, <1>9, <1>10, <1>11, Steps

\* The entries in use stay the open connections: server_thread accepts and
\* removes one at a time, and the others leave table and descriptors alone.
LEMMA SocketStep ==
  ASSUME Inv, [Next]_vars
  PROVE  SocketInv'
<1> USE DEF Inv, SocketInv, Used
<1>t. /\ tab \in Seq(Clients) /\ Len(tab) \in Nat /\ \A k \in 1 .. Len(tab) : tab[k] \in Clients
      /\ sock \in [Clients -> {"none", "backlog", "open", "closed"}]
      /\ peer \in [Clients -> {"none", "open"} \union Gone]
  BY DEF TypeOK
<1>1. CASE /\ UNCHANGED <<tab, sock, peer>>
           /\ thread' # "shift" /\ thread # "shift"
  BY <1>1
<1>2. CASE UNCHANGED <<tab, sock, peer, thread, j>>
  BY <1>2
<1>3. CASE Accept
  <2>1. thread # "shift" /\ thread' # "shift" /\ UNCHANGED peer
    BY <1>3, TurnFacts DEF Accept, At, clientVars
  <2>2. CASE UNCHANGED <<sock, tab>>
    BY <2>1, <2>2, <1>1
  <2>3. ASSUME NEW c \in Waiting, Accepted(c) PROVE SocketInv'
    <3>1. c \in Clients /\ sock[c] = "backlog" /\ peer[c] # "none"
      BY <2>3, <1>t DEF Waiting
    <3>2. \A k \in 1 .. Len(tab) : tab[k] # c
      BY <2>1, <3>1
    <3>3. CASE UNCHANGED tab /\ sock' = [sock EXCEPT ![c] = "closed"]
      BY <1>t, <2>1, <3>1, <3>2, <3>3
    <3>4. CASE tab' = Append(tab, c) /\ sock' = [sock EXCEPT ![c] = "open"]
      <4>1. /\ Len(tab') = Len(tab) + 1 /\ tab'[Len(tab) + 1] = c
            /\ \A k \in 1 .. Len(tab) : tab'[k] = tab[k]
        BY <1>t, <3>1, <3>4, AppendProperties
      <4>2. /\ sock'[c] = "open"
            /\ \A d \in Clients : d # c => sock'[d] = sock[d]
        BY <1>t, <3>1, <3>4
      <4>3. \A k \in 1 .. Len(tab') : k \in 1 .. Len(tab) \/ k = Len(tab) + 1
        BY <1>t, <4>1
      <4>4. \A k \in 1 .. Len(tab') : sock'[tab'[k]] = "open"
        BY <1>t, <2>1, <3>2, <4>1, <4>2, <4>3
      <4>5. \A d \in Clients : sock'[d] = "open" => \E k \in 1 .. Len(tab') : tab'[k] = d
        BY <1>t, <2>1, <4>1, <4>2
      <4>6. \A k, l \in 1 .. Len(tab') : tab'[k] = tab'[l] => k = l
        BY <1>t, <2>1, <3>2, <4>1, <4>3
      <4> QED BY <2>1, <3>1, <4>2, <4>4, <4>5, <4>6
    <3> QED BY <2>3, <3>3, <3>4 DEF Accepted
  <2> QED BY <1>3, <2>2, <2>3 DEF Accept
<1>4. CASE ReadEnds
  <2> DEFINE d == tab[i]
  <2>1. /\ thread = "read" /\ i \in 1 .. Len(tab)
        /\ thread' = "shift" /\ j' = i /\ UNCHANGED <<tab, peer>>
        /\ peer[d] \in Gone
        /\ sock' = [sock EXCEPT ![d] = "closed"]
    BY <1>4 DEF ReadEnds, At, PositionInv, TypeOK, Slots, clientVars
  <2>2. d \in Clients /\ \A k \in 1 .. Len(tab) : k # i => tab[k] # d
    BY <1>t, <2>1
  <2> HIDE DEF d
  <2>3. sock'[d] = "closed" /\ \A c \in Clients : c # d => sock'[c] = sock[c]
    BY <1>t, <2>1, <2>2
  <2>4. \A k \in (1 .. Len(tab)) \ {i} : sock'[tab[k]] = "open"
    BY <1>t, <2>1, <2>2, <2>3
  <2>5. \A c \in Clients : sock'[c] = "open" => \E k \in (1 .. Len(tab)) \ {i} : tab[k] = c
    BY <1>t, <2>1, <2>2, <2>3 DEF d
  <2>6. \A c \in Clients : peer[c] = "none" => sock'[c] = "none"
    BY <1>t, <2>1, <2>3 DEF Gone
  <2>7. \A k, l \in (1 .. Len(tab)) \ {i} : tab[k] = tab[l] => k = l
    BY <2>1
  <2> QED BY <2>1, <2>4, <2>5, <2>6, <2>7
<1>5. CASE Shift
  <2>1. UNCHANGED <<sock, peer>> /\ thread = "shift" /\ j \in 1 .. Len(tab)
    BY <1>5, ShiftFacts DEF Shift, clientVars
  <2>2. CASE /\ j < Len(tab) /\ Len(tab') = Len(tab)
             /\ j' = j + 1 /\ thread' = "shift"
             /\ \A k \in 1 .. Len(tab) : tab'[k] = IF k = j THEN tab[j + 1] ELSE tab[k]
    <3> DEFINE at(k) == IF k = j THEN j + 1 ELSE k
    <3>u. /\ \A k \in (1 .. Len(tab)) \ {j} : sock[tab[k]] = "open"
          /\ \A c \in Clients :
               sock[c] = "open" => \E k \in (1 .. Len(tab)) \ {j} : tab[k] = c
          /\ \A k, l \in (1 .. Len(tab)) \ {j} : tab[k] = tab[l] => k = l
      BY <2>1
    <3>1. \A k \in (1 .. Len(tab)) \ {j + 1} : at(k) \in (1 .. Len(tab)) \ {j} /\ tab'[k] = tab[at(k)]
      BY <1>t, <2>1, <2>2
    <3>2. \A k \in (1 .. Len(tab)) \ {j} :
            \E l \in (1 .. Len(tab)) \ {j + 1} : tab'[l] = tab[k]
      <4> SUFFICES ASSUME NEW k \in (1 .. Len(tab)) \ {j}
                   PROVE  \E l \in (1 .. Len(tab)) \ {j + 1} : tab'[l] = tab[k]
        OBVIOUS
      <4>1. CASE k = j + 1
        BY <1>t, <2>1, <2>2, <4>1
      <4>2. CASE k # j + 1
        BY <2>2, <4>2
      <4> QED BY <4>1, <4>2
    <3>3. \A k \in (1 .. Len(tab)) \ {j + 1} : sock[tab'[k]] = "open"
      BY ONLY <3>u, <3>1
    <3>4. \A c \in Clients :
            sock[c] = "open" => \E l \in (1 .. Len(tab)) \ {j + 1} : tab'[l] = c
      <4> SUFFICES ASSUME NEW c \in Clients, sock[c] = "open"
                   PROVE  \E l \in (1 .. Len(tab)) \ {j + 1} : tab'[l] = c
        OBVIOUS
      <4>1. PICK k \in (1 .. Len(tab)) \ {j} : tab[k] = c
        BY ONLY <3>u, c \in Clients, sock[c] = "open"
      <4> QED BY ONLY <3>2, <4>1
    <3>5. \A k, l \in (1 .. Len(tab)) \ {j + 1} : tab'[k] = tab'[l] => k = l
      <4> SUFFICES ASSUME NEW k \in (1 .. Len(tab)) \ {j + 1}, NEW l \in (1 .. Len(tab)) \ {j + 1},
                          tab'[k] = tab'[l]
                   PROVE  k = l
        OBVIOUS
      <4>1. at(k) \in (1 .. Len(tab)) \ {j} /\ at(l) \in (1 .. Len(tab)) \ {j}
        BY ONLY <3>1, k \in (1 .. Len(tab)) \ {j + 1}, l \in (1 .. Len(tab)) \ {j + 1}
      <4>2. tab[at(k)] = tab[at(l)]
        BY <3>1
      <4> HIDE DEF at
      <4>3. at(k) = at(l)
        BY ONLY <3>u, <4>1, <4>2
      <4> QED BY ONLY <4>3, k # j + 1, l # j + 1 DEF at
    <3> QED BY <2>1, <2>2, <3>3, <3>4, <3>5
  <2>3. CASE /\ j = Len(tab) /\ Len(tab') = Len(tab) - 1 /\ thread' \in {"top", "read"}
             /\ \A k \in 1 .. Len(tab) - 1 : tab'[k] = tab[k]
    <3>1. (1 .. Len(tab)) \ {j} = 1 .. Len(tab')
      BY <1>t, <2>3
    <3> QED BY <2>1, <2>3, <3>1, SMTT(30)
  <2> QED BY <1>5, <2>2, <2>3, ShiftFacts
<1>6. CASE Joined
  <2>1. /\ thread # "shift" /\ UNCHANGED <<thread, peer>> /\ tab' = << >>
        /\ sock' = [c \in Clients |->
             IF sock[c] = "backlog" \/ c \in {tab[k] : k \in 1 .. Len(tab)} THEN "closed" ELSE sock[c]]
    BY <1>6 DEF Joined, threadVars, clientVars
  <2>2. Len(tab') = 0
    BY <2>1
  <2>3. \A c \in Clients : sock'[c] # "open"
    BY <2>1
  <2>4. \A c \in Clients : peer[c] = "none" => sock'[c] = "none"
    <3> SUFFICES ASSUME NEW c \in Clients, peer[c] = "none" PROVE sock'[c] = "none"
      OBVIOUS
    <3>1. sock[c] = "none" /\ \A k \in 1 .. Len(tab) : tab[k] # c
      BY <2>1
    <3> QED BY <2>1, <3>1
  <2> QED BY <2>1, <2>2, <2>3, <2>4
<1>7. ASSUME NEW c \in Clients, Connects(c) PROVE SocketInv'
  <2>1. /\ peer[c] = "none" /\ peer' = [peer EXCEPT ![c] = "open"]
        /\ sock' = [sock EXCEPT ![c] = "backlog"] /\ UNCHANGED <<tab, thread, j>>
    BY <1>7 DEF Connects, threadVars
  <2>2. sock[c] = "none" /\ \A k \in Used : tab[k] # c
    BY <2>1
  <2> QED BY <1>t, <2>1, <2>2
<1>8. ASSUME NEW c \in Clients, Leaves(c) \/ Aborts(c) PROVE SocketInv'
  <2>1. /\ peer[c] = "open" /\ UNCHANGED <<sock, tab, thread, j>>
        /\ \/ peer' = [peer EXCEPT ![c] = "closed"]
           \/ peer' = [peer EXCEPT ![c] = "aborted"]
    BY <1>8 DEF Leaves, Aborts, threadVars
  <2> QED BY <1>t, <2>1
<1>9. CASE BroadcastWrite
  <2>1. UNCHANGED <<sock, tab, thread, j>>
    BY <1>9 DEF BroadcastWrite, threadVars
  <2>2. \A c \in Clients : peer'[c] = "none" => peer[c] = "none"
    BY <1>9, WriteFacts
  <2> QED BY <2>1, <2>2
<1>10. CASE Elsewhere
  BY <1>2, <1>7, <1>8, <1>9, <1>10 DEF Elsewhere, Recv, Broadcast, BroadcastEnds, Destroy, Sends,
                                       threadVars, clientVars
<1>11. CASE Loop \/ PollFails \/ WriteData \/ \E k \in 1 .. BufferSize : ReadData(k)
  BY <1>1, <1>11 DEF Loop, PollFails, WriteData, ReadData, At, clientVars
<1>12. CASE PollReturns \/ WriteNewLine
  <2>1. UNCHANGED <<tab, sock, peer>>
    BY <1>12 DEF PollReturns, WriteNewLine, clientVars
  <2> QED BY <1>1, <1>12, <2>1, TurnFacts
<1>13. CASE UNCHANGED vars
  BY <1>2, <1>13 DEF vars, threadVars, clientVars
<1> QED BY <1>3, <1>4, <1>5, <1>6, <1>10, <1>11, <1>12, <1>13, Steps

\* A broadcast goes through a table that only grows at its end, unless a removal
\* disturbs it.
LEMMA BroadcastStep ==
  ASSUME Inv, [Next]_vars
  PROVE  BroadcastInv'
<1> USE DEF Inv, BroadcastInv, WrittenTo
<1>t. /\ tab \in Seq(Clients) /\ Len(tab) \in Nat /\ \A k \in 1 .. Len(tab) : tab[k] \in Clients
      /\ heard \in [Clients -> Nat] /\ b \in Nat /\ present \in SUBSET Clients
  BY DEF TypeOK
<1>1. CASE UNCHANGED <<tab, app, b, success, heard, present, disturbed>> /\ (thread' # "shift" \/ thread' = thread)
  BY <1>1
<1>2. CASE app' \notin {"idle", "broadcast"}
  BY <1>2
<1>3. CASE Accept
  <2>1. thread # "shift" /\ thread' # "shift" /\ UNCHANGED <<app, b, success, heard, present, disturbed>>
    BY <1>3, TurnFacts DEF Accept, At, appVars
  <2>2. CASE UNCHANGED <<sock, tab>>
    BY <2>1, <2>2, <1>1
  <2>3. ASSUME NEW c \in Waiting, Accepted(c) PROVE BroadcastInv'
    <3>1. CASE UNCHANGED tab
      BY <2>1, <3>1, <1>1
    <3>2. CASE tab' = Append(tab, c)
      <4>1. c \in Clients /\ \A k \in 1 .. Len(tab) : tab[k] # c
        BY <2>1, <2>3 DEF Waiting, SocketInv, Used
      <4>2. /\ Len(tab') = Len(tab) + 1 /\ tab'[Len(tab) + 1] = c
            /\ \A k \in 1 .. Len(tab) : tab'[k] = tab[k]
        BY <1>t, <3>2, <4>1, AppendProperties
      <4>3. \A k \in 1 .. Len(tab') : k \in 1 .. Len(tab) \/ k = Len(tab) + 1
        BY <1>t, <4>2
      <4>4. ASSUME app = "broadcast", ~disturbed
            PROVE  /\ c \notin present
                   /\ \A d \in present : \E k \in 1 .. Len(tab') : tab'[k] = d
        <5>1. \A d \in present : \E k \in 1 .. Len(tab) : tab[k] = d
          BY <4>4
        <5>2. c \notin present
          BY ONLY <4>1, <5>1
        <5>3. 1 .. Len(tab) \subseteq 1 .. Len(tab')
          BY ONLY <1>t, <4>2
        <5> QED BY ONLY <4>2, <5>1, <5>2, <5>3
      <4>5. ASSUME app = "broadcast", ~disturbed, NEW k \in 1 .. Len(tab'), tab'[k] \in present
            PROVE  WrittenTo(k)'
        BY <2>1, <4>2, <4>3, <4>4, <4>5
      <4> QED BY <2>1, <4>4, <4>5
    <3> QED BY <2>3, <3>1, <3>2 DEF Accepted
  <2> QED BY <1>3, <2>2, <2>3 DEF Accept
<1>4. CASE ReadEnds
  BY <1>4 DEF ReadEnds
<1>5. CASE Shift
  BY <1>5, ShiftFacts DEF Shift, appVars
<1>6. CASE Broadcast
  <2>1. /\ app = "idle" /\ app' = "broadcast" /\ UNCHANGED <<tab, b, heard, thread>>
        /\ present' = {tab[k] : k \in 1 .. Len(tab)} /\ disturbed' = (thread = "shift")
    BY <1>6 DEF Broadcast, threadVars
  <2>2. b = 1 /\ \A c \in Clients : heard[c] = 0
    BY <2>1
  <2>3. \A k \in 1 .. Len(tab) : WrittenTo(k)'
    BY <1>t, <2>1, <2>2
  <2> QED BY <2>1, <2>3
<1>7. CASE BroadcastWrite
  <2>1. app = "broadcast" /\ b \in 1 .. Len(tab) /\ UNCHANGED <<tab, present, disturbed, thread>>
    BY <1>7, WriteFacts DEF BroadcastWrite, threadVars
  <2>2. CASE app' = "killed"
    BY <2>2
  <2>3. CASE disturbed /\ app' = "broadcast"
    BY <2>1, <2>3
  <2>4. CASE ~disturbed /\ app' = "broadcast"
    <3>1. \A k \in 1 .. Len(tab) : tab[k] = tab[b] => k = b
      BY <2>1, <2>4 DEF SocketInv, Used
    <3>2. /\ b' = b + 1
          /\ \/ heard' = [heard EXCEPT ![tab[b]] = @ + 1] /\ success' = success
             \/ heard' = heard /\ success' = FALSE
      BY <1>7, <2>4, WriteFacts
    <3>3. ASSUME NEW k \in 1 .. Len(tab), tab[k] \in present
          PROVE  WrittenTo(k)'
      <4>0. WrittenTo(k) /\ tab[k] \in Clients /\ tab[b] \in Clients /\ k \in Nat
        BY <1>t, <2>1, <2>4, <3>3
      <4>1. CASE k = b
        <5>1. k < b' /\ heard[tab[k]] = 0
          BY <1>t, <3>2, <4>0, <4>1
        <5> QED BY <1>t, <2>1, <3>2, <4>0, <4>1, <5>1
      <4>2. CASE k # b
        <5>1. heard'[tab[k]] = heard[tab[k]]
          BY <1>t, <2>1, <3>1, <3>2, <4>0, <4>2
        <5>2. k < b' <=> k < b
          BY <1>t, <3>2, <4>0, <4>2
        <5>3. success' => success
          BY <3>2
        <5> QED BY <2>1, <4>0, <5>1, <5>2, <5>3
      <4> QED BY <4>1, <4>2
    <3> QED BY <2>1, <2>4, <3>3
  <2> QED BY <1>7, <2>2, <2>3, <2>4, WriteFacts
<1>8. CASE BroadcastEnds
  BY <1>8 DEF BroadcastEnds
<1>9. CASE Destroy \/ Joined
  BY <1>2, <1>9 DEF Destroy, Joined
<1>10. CASE Elsewhere
  BY <1>1, <1>6, <1>7, <1>8, <1>9, <1>10 DEF Elsewhere, Recv, Connects, Sends, Leaves, Aborts,
                                                  threadVars, appVars
<1>11. CASE Loop \/ PollFails \/ WriteData \/ \E k \in 1 .. BufferSize : ReadData(k)
  BY <1>1, <1>11 DEF Loop, PollFails, WriteData, ReadData, At, appVars
<1>12. CASE PollReturns \/ WriteNewLine
  <2>1. UNCHANGED <<tab, app, b, success, heard, present, disturbed>>
    BY <1>12 DEF PollReturns, WriteNewLine, appVars
  <2> QED BY <1>1, <1>12, <2>1, TurnFacts
<1>13. CASE UNCHANGED vars
  BY <1>1, <1>13 DEF vars, threadVars, appVars
<1> QED BY <1>3, <1>4, <1>5, <1>9, <1>10, <1>11, <1>12, <1>13, Steps

-----------------------------------------------------------------------------
(* The theorems.                                                           *)

\* Inv is an inductive invariant of the two threads and the clients.
THEOREM Invariance == Spec => []Inv
<1>1. Inv /\ [Next]_vars => Inv'
  BY TypeStep, PositionStep, BufferStep, LineStep, SocketStep, OrderStep, BroadcastStep DEF Inv
<1> QED BY <1>1, InitInv, PTL DEF Spec

\* The types of the state, among them that connections never holds more than
\* max_connections entries and that both indices stay within its memory.
THEOREM TypeCorrect == Spec => []TypeOK
<1>1. Inv => TypeOK
  BY DEF Inv
<1> QED BY <1>1, Invariance, PTL

\* server_thread reads, writes and removes only at entries below num_connections,
\* although the loop goes by the revents of a table that has changed since poll.
THEOREM EntriesInUse == Spec => []PositionInv
<1>1. Inv => PositionInv
  BY DEF Inv
<1> QED BY <1>1, Invariance, PTL

\* Nothing a client sent is lost, repeated or reordered on its way through the
\* buffer of server_thread and the commands pipe.
THEOREM NothingLost == Spec => []CommandsInOrder
<1>1. Inv => CommandsInOrder
  BY DEF Inv
<1> QED BY <1>1, Invariance, PTL

\* No line in the commands pipe mixes what two clients sent.
THEOREM LinesWhole == Spec => []LinesIntact
<1>1. Inv => LinesIntact
  BY DEF Inv, LineInv
<1> QED BY <1>1, Invariance, PTL

\* Outside of a removal connections holds the descriptors that are open, each
\* once.
THEOREM SocketsTracked == Spec => []NoSocketLeaks
<1>1. Inv => NoSocketLeaks
  <2> SUFFICES ASSUME Inv, thread # "shift"
               PROVE  /\ {tab[k] : k \in 1 .. Len(tab)} = {c \in Clients : sock[c] = "open"}
                      /\ \A k, l \in 1 .. Len(tab) : tab[k] = tab[l] => k = l
    BY DEF NoSocketLeaks
  <2>1. Used = 1 .. Len(tab)
    BY DEF Used
  <2>2. \A k \in 1 .. Len(tab) : tab[k] \in Clients /\ sock[tab[k]] = "open"
    BY <2>1, SMTT(30) DEF Inv, TypeOK, SocketInv
  <2> QED BY <2>1, <2>2 DEF Inv, SocketInv
<1> QED BY <1>1, Invariance, PTL

\* command_server_broadcast, while nothing is removed, writes at most once to every
\* client that was connected when it began and, if it returns 0, to every one of
\* them, although server_thread adds to the table and clients reset their
\* connections meanwhile.
THEOREM BroadcastWhole == Spec => BroadcastReachesAll
<1>1. ASSUME Inv, [Next]_vars, app = "broadcast", app' = "idle", ~disturbed, NEW c \in present
      PROVE  heard[c] <= 1 /\ (success => heard[c] = 1)
  <2>1. b > Len(tab)
    <3>1. \/ BroadcastEnds \/ app' = app
          \/ app' \in {"broadcast", "joining", "destroyed", "killed"}
      <4>1. CASE BroadcastWrite
        BY <1>1, <4>1, WriteFacts DEF Inv
      <4> QED BY <1>1, <4>1, Steps DEF Loop, PollFails, PollReturns, Accept, WriteNewLine,
           ReadEnds, Shift, WriteData, ReadData, Joined, Elsewhere, Recv, Broadcast, Destroy,
           Connects, Sends, Leaves, Aborts, vars, appVars
    <3> QED BY <1>1, <3>1 DEF BroadcastEnds
  <2>2. PICK k \in 1 .. Len(tab) : tab[k] = c
    BY <1>1 DEF Inv, BroadcastInv
  <2>3. k < b
    BY <1>1, <2>1, <2>2 DEF Inv, TypeOK
  <2> QED BY <1>1, <2>2, <2>3 DEF Inv, BroadcastInv, WrittenTo
<1>2. Inv /\ [Next]_vars =>
        [(app = "broadcast" /\ app' = "idle" /\ ~disturbed)
           => \A c \in present : heard[c] <= 1 /\ (success => heard[c] = 1)]_vars
  BY <1>1
<1> QED BY <1>2, Invariance, PTL DEF Spec, BroadcastReachesAll
=============================================================================
