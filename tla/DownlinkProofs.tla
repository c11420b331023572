--------------------------- MODULE DownlinkProofs ---------------------------
(***************************************************************************)
(* Proofs about Downlink, for any number of connections, metrics and       *)
(* samples, any size of a message, of a character and of a read.           *)
(*                                                                         *)
(* The argument is about the unread bytes of a connection: they are whole  *)
(* messages, in the order of their samples, behind the rest of one that a  *)
(* read has cut (OrderedBytes), and all of them are newer than what was    *)
(* handed on (NetInv).                                                     *)
(***************************************************************************)
EXTENDS Downlink, SequenceTheorems, TLAPS

Byte == Versions \X (Nat \ {0})

\* The bytes of s are in order, none of a message is missing behind one that is
\* there, and the last message is complete.
OrderedBytes(s, m) ==
  /\ \A i \in 1 .. Len(s) : s[i][2] <= Size[m][s[i][1]]
  /\ \A i, j \in 1 .. Len(s) :
       i < j => s[i][1] < s[j][1] \/ (s[i][1] = s[j][1] /\ s[i][2] < s[j][2])
  /\ \A i \in 1 .. Len(s) :
       i + 1 <= Len(s) => \/ s[i + 1][1] = s[i][1] /\ s[i + 1][2] = s[i][2] + 1
                          \/ s[i][2] = Size[m][s[i][1]] /\ s[i + 1][2] = 1
  /\ Len(s) > 0 => s[Len(s)][2] = Size[m][s[Len(s)][1]]

\* Sample v is among the telemetry w.
Written(w, v) == \E i \in 1 .. Len(w) : w[i].ver = v

\* What is written is stored, and no older than the connection.
StreamInv ==
  \A c \in Conns :
    /\ \A m \in Metrics : since[c][m] <= cache[m]
    /\ \A i \in 1 .. Len(wrote[c]) :
         /\ wrote[c][i].ver <= cache[metric[c]]
         /\ since[c][metric[c]] <= wrote[c][i].ver
    /\ sub[c] = "none" =>
         link[c] = "none" /\ wrote[c] = << >> /\ net[c] = << >> /\ last[c] = 0

\* The unread bytes are in order, of written samples, and newer than what was
\* handed on.
NetInv ==
  \A c \in Conns :
    /\ OrderedBytes(net[c], metric[c])
    /\ \A i \in 1 .. Len(net[c]) : Written(wrote[c], net[c][i][1]) /\ last[c] < net[c][i][1]

\* The samples that were handed on are written ones; a subscription that runs
\* alone has handed on the newest of its metric, or begun behind it.
FeedInv ==
  /\ \A m \in Metrics : fed[m] <= cache[m]
  /\ \A c \in Conns :
       /\ from[c] <= since[c][metric[c]]
       /\ last[c] # 0 => Written(wrote[c], last[c])
       /\ sub[c] \in Live /\ metric[c] \notin raced
            => /\ fed[metric[c]] = IF last[c] = 0 THEN from[c] ELSE last[c]
               /\ \A d \in Conns : sub[d] \in Live /\ metric[d] = metric[c] => d = c

Inv == TypeOK /\ StreamInv /\ NetInv /\ InStep /\ FeedInv

-----------------------------------------------------------------------------
(* Bytes in order.                                                         *)

\* The bytes of a message are a sequence of its size.
LEMMA BytesOf ==
  ASSUME NEW m \in Metrics, NEW v \in Versions
  PROVE  /\ Size[m][v] \in Nat \ {0}
         /\ Bytes(m, v) \in Seq(Byte)
         /\ Len(Bytes(m, v)) = Size[m][v]
         /\ \A i \in 1 .. Size[m][v] : Bytes(m, v)[i] = <<v, i>>
<1>1. Size[m][v] \in Nat \ {0}
  BY ConstantsAssumption DEF Versions
<1>2. Bytes(m, v) \in [1 .. Size[m][v] -> Byte]
  BY <1>1 DEF Bytes, Byte
<1>3. \A i \in 1 .. Size[m][v] : Bytes(m, v)[i] = <<v, i>>
  BY DEF Bytes
<1>4. Bytes(m, v) \in Seq(Byte)
  BY <1>1, <1>2
<1>5. Len(Bytes(m, v)) = Size[m][v]
  BY <1>1, <1>2, <1>4, LenProperties
<1> QED
  BY <1>1, <1>3, <1>4, <1>5

\* What a read leaves.
LEMMA RestOf ==
  ASSUME NEW s \in Seq(Byte), NEW k \in 1 .. Len(s)
  PROVE  /\ SubSeq(s, k + 1, Len(s)) \in Seq(Byte)
         /\ Len(SubSeq(s, k + 1, Len(s))) = Len(s) - k
         /\ \A i \in 1 .. Len(s) - k :
              i + k \in 1 .. Len(s) /\ SubSeq(s, k + 1, Len(s))[i] = s[i + k]
<1>1. Len(s) \in Nat /\ \A i \in 1 .. Len(s) : s[i] \in Byte
  BY LenProperties
<1>2. \A i \in k + 1 .. Len(s) : s[i] \in Byte
  BY <1>1
<1>3. /\ SubSeq(s, k + 1, Len(s)) \in Seq(Byte)
      /\ Len(SubSeq(s, k + 1, Len(s))) =
           IF k + 1 <= Len(s) THEN Len(s) - (k + 1) + 1 ELSE 0
      /\ \A i \in 1 .. Len(s) - (k + 1) + 1 :
           SubSeq(s, k + 1, Len(s))[i] = s[k + 1 + i - 1]
  <2>1. k + 1 \in Int /\ Len(s) \in Int
    BY <1>1
  <2> QED
    BY <1>2, <2>1, SubSeqProperties
<1> QED
  BY <1>1, <1>3

\* What is left of bytes in order is in order.
LEMMA RestOrdered ==
  ASSUME NEW s \in Seq(Byte), NEW m \in Metrics, NEW k \in 1 .. Len(s),
         OrderedBytes(s, m)
  PROVE  OrderedBytes(SubSeq(s, k + 1, Len(s)), m)
<1> DEFINE r == SubSeq(s, k + 1, Len(s))
<1>1. /\ Len(r) = Len(s) - k /\ Len(s) \in Nat
      /\ \A i \in 1 .. Len(r) : i + k \in 1 .. Len(s) /\ r[i] = s[i + k]
  BY RestOf, LenProperties
<1> HIDE DEF r
<1>2. \A i \in 1 .. Len(r) : r[i][2] <= Size[m][r[i][1]]
  BY <1>1 DEF OrderedBytes
<1>3. ASSUME NEW i \in 1 .. Len(r), NEW j \in 1 .. Len(r), i < j
      PROVE  r[i][1] < r[j][1] \/ (r[i][1] = r[j][1] /\ r[i][2] < r[j][2])
  <2>1. i + k \in 1 .. Len(s) /\ j + k \in 1 .. Len(s) /\ i + k < j + k
    BY <1>1, <1>3
  <2>2. r[i] = s[i + k] /\ r[j] = s[j + k]
    BY <1>1
  <2> QED
    BY <2>1, <2>2 DEF OrderedBytes
<1>4. ASSUME NEW i \in 1 .. Len(r), i + 1 <= Len(r)
      PROVE  \/ r[i + 1][1] = r[i][1] /\ r[i + 1][2] = r[i][2] + 1
             \/ r[i][2] = Size[m][r[i][1]] /\ r[i + 1][2] = 1
  <2>1. i + k \in 1 .. Len(s) /\ (i + k) + 1 <= Len(s)
    BY <1>1, <1>4
  <2>2. r[i] = s[i + k] /\ r[i + 1] = s[(i + k) + 1]
    BY <1>1, <1>4
  <2> QED
    BY <2>1, <2>2 DEF OrderedBytes
<1>5. Len(r) > 0 => r[Len(r)][2] = Size[m][r[Len(r)][1]]
  BY <1>1 DEF OrderedBytes
<1>6. OrderedBytes(r, m)
  BY <1>2, <1>3, <1>4, <1>5 DEF OrderedBytes
<1> QED
  BY <1>6 DEF r

\* A newer message behind bytes in order leaves them in order.
LEMMA MessageOrdered ==
  ASSUME NEW s \in Seq(Byte), NEW m \in Metrics, NEW v \in Versions,
         OrderedBytes(s, m), \A i \in 1 .. Len(s) : s[i][1] < v
  PROVE  OrderedBytes(s \o Bytes(m, v), m)
<1> DEFINE b == Bytes(m, v)
           t == s \o b
           n == Len(s)
<1>1. /\ b \in Seq(Byte) /\ Len(b) = Size[m][v] /\ Size[m][v] \in Nat \ {0}
      /\ \A i \in 1 .. Len(b) : b[i] = <<v, i>>
  BY BytesOf
<1>2. n \in Nat /\ \A i \in 1 .. n : s[i] \in Byte
  BY LenProperties
<1> HIDE DEF b, n
<1>3. /\ Len(t) = n + Len(b)
      /\ \A i \in 1 .. Len(t) : t[i] = IF i <= n THEN s[i] ELSE b[i - n]
  BY <1>1, ConcatProperties DEF n
<1> HIDE DEF t
<1>4. \A i \in 1 .. Len(t) : i <= n => i \in 1 .. n /\ t[i] = s[i] /\ t[i] \in Byte
  BY <1>1, <1>2, <1>3
<1>5. \A i \in 1 .. Len(t) : i > n => i - n \in 1 .. Len(b) /\ t[i] = <<v, i - n>>
  <2> SUFFICES ASSUME NEW i \in 1 .. Len(t), i > n
               PROVE  i - n \in 1 .. Len(b) /\ t[i] = <<v, i - n>>
    OBVIOUS
  <2>1. i - n \in 1 .. Len(b)
    <3>1. Len(b) \in Nat /\ n \in Nat
      BY <1>1, <1>2
    <3> QED BY ONLY <1>3, <3>1, i \in 1 .. Len(t), i > n
  <2>2. t[i] = b[i - n]
    <3>1. n \in Nat /\ i \in Int /\ ~(i <= n)
      BY <1>2
    <3> QED BY ONLY <1>3, <3>1, i \in 1 .. Len(t)
  <2>3. b[i - n] = <<v, i - n>>
    BY ONLY <1>1, <2>1
  <2> QED BY ONLY <2>1, <2>2, <2>3
<1>6. \A i \in 1 .. Len(t) : t[i][2] <= Size[m][t[i][1]]
  <2> SUFFICES ASSUME NEW i \in 1 .. Len(t) PROVE t[i][2] <= Size[m][t[i][1]]
    OBVIOUS
  <2>1. CASE i <= n
    BY <2>1, <1>4 DEF OrderedBytes, n
  <2>2. CASE i > n
    BY <2>2, <1>1, <1>5
  <2> QED
    BY <2>1, <2>2, <1>1, <1>2, <1>3
<1>7. ASSUME NEW i \in 1 .. Len(t), NEW j \in 1 .. Len(t), i < j
      PROVE  t[i][1] < t[j][1] \/ (t[i][1] = t[j][1] /\ t[i][2] < t[j][2])
  <2>0. n \in Nat /\ i \in Int /\ j \in Int
    BY <1>2
  <2>1. CASE j <= n
    <3>1. i \in 1 .. n /\ j \in 1 .. n /\ t[i] = s[i] /\ t[j] = s[j]
      BY <2>0, <2>1, <1>4, <1>7
    <3> QED
      BY <3>1, <1>7 DEF OrderedBytes, n
  <2>2. CASE i <= n /\ j > n
    <3>1. i \in 1 .. n /\ t[i] = s[i] /\ t[j] = <<v, j - n>>
      BY <2>2, <1>4, <1>5
    <3> QED
      BY <3>1 DEF n
  <2>3. CASE i > n
    <3>1. t[i] = <<v, i - n>> /\ t[j] = <<v, j - n>>
      BY <2>0, <2>3, <1>5, <1>7
    <3> QED
      BY <3>1, <2>0, <1>7
  <2> QED
    BY <2>0, <2>1, <2>2, <2>3
<1>8. ASSUME NEW i \in 1 .. Len(t), i + 1 <= Len(t)
      PROVE  \/ t[i + 1][1] = t[i][1] /\ t[i + 1][2] = t[i][2] + 1
             \/ t[i][2] = Size[m][t[i][1]] /\ t[i + 1][2] = 1
  <2>0. n \in Nat /\ i \in Nat /\ i + 1 \in 1 .. Len(t)
    BY <1>1, <1>2, <1>3, <1>8
  <2>1. CASE i + 1 <= n
    <3>1. i \in 1 .. n /\ t[i] = s[i] /\ t[i + 1] = s[i + 1]
      BY <2>0, <2>1, <1>4
    <3> QED
      BY <3>1, <2>1 DEF OrderedBytes, n
  <2>2. CASE i = n
    <3>1. t[i] = s[n] /\ n > 0
      BY <2>0, <2>2, <1>4
    <3>2. t[i + 1] = <<v, 1>>
      BY <2>0, <2>2, <1>5
    <3> QED
      BY <3>1, <3>2 DEF OrderedBytes, n
  <2>3. CASE i > n
    <3>1. t[i] = <<v, i - n>> /\ t[i + 1] = <<v, (i - n) + 1>>
      BY <2>0, <2>3, <1>5
    <3> QED
      BY <3>1
  <2> QED
    BY <2>0, <2>1, <2>2, <2>3
<1>9. Len(t) > 0 => t[Len(t)][2] = Size[m][t[Len(t)][1]]
  <2>1. Len(t) \in 1 .. Len(t) /\ Len(t) > n
    BY <1>1, <1>2, <1>3
  <2>2. t[Len(t)] = <<v, Len(t) - n>>
    BY <2>1, <1>5
  <2> QED
    BY <2>2, <1>1, <1>2, <1>3
<1>10. OrderedBytes(t, m)
  BY <1>6, <1>7, <1>8, <1>9 DEF OrderedBytes
<1> QED
  BY <1>10 DEF t, b

\* A read that returns one message: everything behind it is newer, and begins
\* with a message.
LEMMA WholeRead ==
  ASSUME NEW s \in Seq(Byte), NEW m \in Metrics, NEW k \in 1 .. Len(s),
         OrderedBytes(s, m), IsMessage(m, SubSeq(s, 1, k))
  PROVE  /\ Head(SubSeq(s, 1, k))[1] = s[1][1]
         /\ s[1][1] \in Versions
         /\ \A i \in 1 .. Len(s) : i > k => s[1][1] < s[i][1]
         /\ k < Len(s) => s[k + 1][2] = 1
<1> DEFINE data == SubSeq(s, 1, k)
           v == s[1][1]
<1>1. Len(s) \in Nat /\ \A i \in 1 .. Len(s) : s[i] \in Byte
  BY LenProperties
<1>2. \A i \in 1 .. k : s[i] \in Byte
  BY <1>1
<1>3. /\ data \in Seq(Byte) /\ Len(data) = k
      /\ \A i \in 1 .. k : data[i] = s[i]
  BY <1>1, <1>2, SubSeqProperties
<1>4. Head(data) = s[1] /\ Head(data)[1] = v
  BY <1>1, <1>3
<1>5. v \in Versions
  BY <1>1 DEF Byte
<1> HIDE DEF v, data
<1>6. data = Bytes(m, v)
  BY <1>4 DEF IsMessage, data
<1>7. k = Size[m][v] /\ data[k] = <<v, k>>
  BY <1>3, <1>5, <1>6, BytesOf
<1>8. s[k] = <<v, k>> /\ k \in 1 .. Len(s)
  BY <1>3, <1>7
<1>9. ASSUME NEW i \in 1 .. Len(s), i > k
      PROVE  v < s[i][1]
  <2>1. s[k][1] < s[i][1] \/ (s[k][1] = s[i][1] /\ s[k][2] < s[i][2])
    BY <1>8, <1>9 DEF OrderedBytes
  <2>2. s[i][2] <= Size[m][s[i][1]]
    BY DEF OrderedBytes
  <2>3. s[i][2] \in Nat /\ s[i][1] \in Versions /\ k \in Nat
    BY <1>1 DEF Byte
  <2> QED
    BY <2>1, <2>2, <2>3, <1>7, <1>8
<1>10. k < Len(s) => s[k + 1][2] = 1
  <2> SUFFICES ASSUME k < Len(s) PROVE s[k + 1][2] = 1
    OBVIOUS
  <2>1. k + 1 \in 1 .. Len(s) /\ k + 1 > k
    BY <1>1
  <2>2. v < s[k + 1][1]
    BY <2>1, <1>9
  <2>3. \/ s[k + 1][1] = s[k][1]
        \/ s[k + 1][2] = 1
    BY <2>1, <1>1, <1>8 DEF OrderedBytes
  <2>4. s[k + 1][1] \in Versions
    BY <2>1, <1>1 DEF Byte
  <2> QED
    BY <2>2, <2>3, <2>4, <1>5, <1>8 DEF Versions
<1> QED
  BY <1>4, <1>5, <1>9, <1>10 DEF v, data

-----------------------------------------------------------------------------
(* The invariant.                                                          *)

\* The types of the sequences, by which the steps look into them.
LEMMA SeqTypes ==
  ASSUME TypeOK, NEW c \in Conns
  PROVE  /\ net[c] \in Seq(Byte) /\ Len(net[c]) \in Nat
         /\ \A i \in 1 .. Len(net[c]) : net[c][i][1] \in Versions
         /\ Len(wrote[c]) \in Nat
         /\ \A i \in 1 .. Len(wrote[c]) :
              wrote[c][i].ver \in Versions /\ wrote[c][i].metric \in Metrics
<1>1. net[c] \in Seq(Byte)
  BY DEF TypeOK, Byte
<1>2. \A i \in 1 .. Len(net[c]) : net[c][i] \in Byte
  BY <1>1, LenProperties
<1>3. \A i \in 1 .. Len(net[c]) : net[c][i][1] \in Versions
  BY <1>2 DEF Byte
<1>4. wrote[c] \in Seq([kind : {"sample"}, metric : Metrics, ver : Versions])
  BY DEF TypeOK
<1>5. \A i \in 1 .. Len(wrote[c]) :
        wrote[c][i] \in [kind : {"sample"}, metric : Metrics, ver : Versions]
  BY <1>4, LenProperties
<1> QED
  BY <1>1, <1>3, <1>4, <1>5, LenProperties

\* The empty sequence has no elements.
LEMMA EmptyDomain ==
  ASSUME NEW s, s = << >>
  PROVE  1 .. Len(s) = {}
OBVIOUS

\* No bytes are in order.
LEMMA EmptyOrdered ==
  ASSUME NEW m \in Metrics
  PROVE  OrderedBytes(<< >>, m) /\ << >> \in Seq(Byte) /\ Len(<< >>) = 0
BY DEF OrderedBytes

\* Initially the invariant holds.
LEMMA InvInit == Init => Inv
<1> SUFFICES ASSUME Init PROVE Inv
  OBVIOUS
<1>0. 0 \in 0 .. MaxVersion
  BY ConstantsAssumption
<1>1. TypeOK
  BY <1>0, ConstantsAssumption DEF Init, TypeOK, Stream!Init, Live, Versions
<1>2. \A c \in Conns : net[c] = << >> /\ wrote[c] = << >> /\ sub[c] = "none" /\ last[c] = 0
  BY DEF Init, Stream!Init
<1>3. ASSUME NEW c \in Conns
      PROVE  1 .. Len(wrote[c]) = {} /\ 1 .. Len(net[c]) = {}
  <2>1. wrote[c] = << >> /\ net[c] = << >>
    BY <1>2
  <2> QED
    BY <2>1, EmptyDomain
<1>4. \A c \in Conns : OrderedBytes(net[c], metric[c])
  BY <1>1, <1>2, EmptyOrdered DEF TypeOK
<1>7. StreamInv
  <2>1. \A c \in Conns, m \in Metrics : since[c][m] = 0 /\ cache[m] = 0
    BY DEF Init, Stream!Init
  <2>2. \A c \in Conns, m \in Metrics : since[c][m] <= cache[m]
    BY <2>1
  <2>3. \A c \in Conns : link[c] = "none"
    BY DEF Init
  <2> QED
    BY <1>2, <1>3, <2>2, <2>3, Zenon DEF StreamInv
<1>8. NetInv
  BY <1>3, <1>4, Zenon DEF NetInv
<1>5. InStep
  BY <1>2 DEF InStep
<1>6. FeedInv
  BY <1>1, <1>2 DEF Init, Stream!Init, FeedInv, TypeOK, Live
<1> QED
  BY <1>1, <1>7, <1>8, <1>5, <1>6 DEF Inv

\* A sample that is stored makes none of the facts false.
LEMMA PublishStep ==
  ASSUME Inv, NEW m \in Metrics, Publish(m)
  PROVE  Inv'
<1> USE DEF Inv
<1>0. /\ cache' = [cache EXCEPT ![m] = @ + 1] /\ cache[m] < MaxVersion
      /\ UNCHANGED <<since, wrote, link, net, metric, sub, last, from, fed, raced>>
  BY DEF Publish, Stream!Publish, subVars
<1>1. cache' \in [Metrics -> 0 .. MaxVersion] /\ \A n \in Metrics : cache[n] <= cache'[n]
  BY <1>0, ConstantsAssumption DEF TypeOK
<1>2. TypeOK'
  BY <1>0, <1>1 DEF TypeOK
<1>3. StreamInv'
  <2> SUFFICES ASSUME NEW c \in Conns
      PROVE  /\ \A n \in Metrics : since[c][n] <= cache'[n]
             /\ \A i \in 1 .. Len(wrote[c]) :
                  /\ wrote[c][i].ver <= cache'[metric[c]]
                  /\ since[c][metric[c]] <= wrote[c][i].ver
             /\ sub[c] = "none" =>
                  link[c] = "none" /\ wrote[c] = << >> /\ net[c] = << >> /\ last[c] = 0
    BY <1>0 DEF StreamInv
  <2>1. metric[c] \in Metrics /\ \A n \in Metrics : since[c][n] \in 0 .. MaxVersion
    BY DEF TypeOK
  <2>2. \A n \in Metrics : cache[n] \in Int /\ cache'[n] \in Int
    BY <1>1 DEF TypeOK
  <2>3. \A n \in Metrics : since[c][n] <= cache'[n]
    BY <1>1, <2>1, <2>2 DEF StreamInv
  <2>4. ASSUME NEW i \in 1 .. Len(wrote[c])
        PROVE  /\ wrote[c][i].ver <= cache'[metric[c]]
               /\ since[c][metric[c]] <= wrote[c][i].ver
    <3>1. wrote[c][i].ver \in Int
      BY SeqTypes, ConstantsAssumption DEF Versions
    <3> QED BY <1>1, <2>1, <2>2, <3>1 DEF StreamInv
  <2> QED
    BY <2>3, <2>4 DEF StreamInv
<1>4. NetInv'
  BY <1>0 DEF NetInv, Written
<1>5. InStep'
  BY <1>0 DEF InStep
<1>6. FeedInv'
  <2>1. \A n \in Metrics : fed'[n] <= cache'[n]
    BY <1>0, <1>1 DEF FeedInv, TypeOK
  <2> QED
    BY <1>0, <2>1 DEF FeedInv, Written
<1> QED
  BY <1>2, <1>3, <1>4, <1>5, <1>6

\* A written sample is newer than all the unread bytes, and of the metric.
LEMMA DownlinksStep ==
  ASSUME Inv, NEW c \in Conns, Downlinks(c)
  PROVE  Inv'
<1> USE DEF Inv
<1> DEFINE m == metric[c]
<1>0. m \in Metrics
  BY DEF TypeOK
<1>1. PICK n \in Metrics, v \in Int :
        /\ v \in 1 .. cache[n] /\ since[c][n] <= v
        /\ Stream!OlderSamplesOf(wrote[c], n, v)
        /\ wrote' = [wrote EXCEPT ![c] = Append(@, Stream!SampleMsg(n, v))]
  <2>1. \E n \in Metrics : \E v \in 1 .. cache[n] :
          /\ since[c][n] <= v
          /\ Stream!OlderSamplesOf(wrote[c], n, v)
          /\ wrote' = [wrote EXCEPT ![c] = Append(@, Stream!SampleMsg(n, v))]
    BY Zenon DEF Downlinks, Stream!SendSample
  <2>2. \A n \in Metrics : \A v \in 1 .. cache[n] : v \in Int
    BY DEF TypeOK
  <2> QED
    BY <2>1, <2>2, Zenon
<1>2. v \in Versions /\ v <= cache[n] /\ cache[n] \in Nat
  BY <1>1, ConstantsAssumption DEF TypeOK, Versions
<1>3. Stream!SampleMsg(n, v) \in [kind : {"sample"}, metric : Metrics, ver : Versions]
  BY <1>2 DEF Stream!SampleMsg
<1>4. /\ Len(wrote[c]) \in Nat
      /\ wrote'[c] = Append(wrote[c], Stream!SampleMsg(n, v))
      /\ Len(wrote'[c]) = Len(wrote[c]) + 1
      /\ wrote'[c][Len(wrote'[c])] = Stream!SampleMsg(n, v)
      /\ \A i \in 1 .. Len(wrote[c]) : wrote'[c][i] = wrote[c][i]
      /\ wrote' \in [Conns -> Seq([kind : {"sample"}, metric : Metrics, ver : Versions])]
  <2>1. wrote[c] \in Seq([kind : {"sample"}, metric : Metrics, ver : Versions])
    BY DEF TypeOK
  <2>2. wrote'[c] = Append(wrote[c], Stream!SampleMsg(n, v))
    BY <1>1 DEF TypeOK
  <2>3. /\ Len(wrote'[c]) = Len(wrote[c]) + 1 /\ Len(wrote[c]) \in Nat
        /\ wrote'[c][Len(wrote[c]) + 1] = Stream!SampleMsg(n, v)
        /\ \A i \in 1 .. Len(wrote[c]) : wrote'[c][i] = wrote[c][i]
        /\ wrote'[c] \in Seq([kind : {"sample"}, metric : Metrics, ver : Versions])
    BY <1>3, <2>1, <2>2, AppendProperties
  <2> QED
    BY <1>1, <2>2, <2>3 DEF TypeOK
<1>5. n = m
  BY <1>4 DEF Downlinks, Stream!SampleMsg
<1>6. /\ net' = [net EXCEPT ![c] = net[c] \o Bytes(m, v)]
      /\ UNCHANGED <<cache, since, link, metric, sub, last, from, fed, raced>>
      /\ link[c] = "open"
  <2>1. Stream!SampleMsg(n, v).ver = v
    BY DEF Stream!SampleMsg
  <2>2. net' = [net EXCEPT ![c] = @ \o Bytes(metric[c], Stream!SampleMsg(n, v).ver)]
    BY <1>4 DEF Downlinks
  <2>3. net' = [net EXCEPT ![c] = net[c] \o Bytes(m, v)]
    BY <2>1, <2>2 DEF TypeOK
  <2> QED
    BY <2>3 DEF Downlinks, Stream!SendSample, subVars
<1>7. \A i \in 1 .. Len(wrote[c]) : wrote[c][i].ver < v
  BY <1>1 DEF Stream!OlderSamplesOf
<1>8. \A i \in 1 .. Len(net[c]) : net[c][i][1] < v
  BY <1>7 DEF NetInv, Written
<1>9. last[c] < v
  <2>1. CASE last[c] = 0
    BY <2>1, <1>2 DEF Versions
  <2>2. CASE last[c] # 0
    BY <2>2, <1>7 DEF FeedInv, Written
  <2> QED
    BY <2>1, <2>2
<1> HIDE DEF m
<1>10. /\ net[c] \o Bytes(m, v) \in Seq(Byte)
       /\ Len(net[c] \o Bytes(m, v)) = Len(net[c]) + Size[m][v]
       /\ \A i \in 1 .. Len(net[c]) + Size[m][v] : (net[c] \o Bytes(m, v))[i] =
            IF i <= Len(net[c]) THEN net[c][i] ELSE Bytes(m, v)[i - Len(net[c])]
       /\ Size[m][v] \in Nat \ {0} /\ Len(net[c]) \in Nat
       /\ \A i \in 1 .. Size[m][v] : Bytes(m, v)[i] = <<v, i>>
  <2>1. Bytes(m, v) \in Seq(Byte) /\ Len(Bytes(m, v)) = Size[m][v]
        /\ Size[m][v] \in Nat \ {0}
        /\ \A i \in 1 .. Size[m][v] : Bytes(m, v)[i] = <<v, i>>
    BY <1>0, <1>2, BytesOf
  <2>2. net[c] \in Seq(Byte) /\ Len(net[c]) \in Nat
    BY SeqTypes
  <2> QED
    BY <2>1, <2>2, ConcatProperties
<1>11. net'[c] = net[c] \o Bytes(m, v) /\ \A d \in Conns : d # c => net'[d] = net[d]
  BY <1>6 DEF TypeOK
<1>12. TypeOK'
  <2>1. net' \in [Conns -> Seq(Byte)]
    BY <1>6, <1>10 DEF TypeOK, Byte
  <2> QED
    BY <2>1, <1>4, <1>6 DEF TypeOK, Byte
<1>13. StreamInv'
  <2> SUFFICES ASSUME NEW d \in Conns
      PROVE  /\ \A k \in Metrics : since[d][k] <= cache[k]
             /\ \A i \in 1 .. Len(wrote'[d]) :
                  /\ wrote'[d][i].ver <= cache[metric[d]]
                  /\ since[d][metric[d]] <= wrote'[d][i].ver
             /\ sub[d] = "none" =>
                  link[d] = "none" /\ wrote'[d] = << >> /\ net'[d] = << >> /\ last[d] = 0
    BY <1>6 DEF StreamInv
  <2>1. CASE d # c
    BY <2>1, <1>1, <1>11 DEF StreamInv, TypeOK
  <2>2. CASE d = c
    <3>1. sub[c] # "none"
      BY <1>6 DEF StreamInv
    <3>2. ASSUME NEW i \in 1 .. Len(wrote'[c])
          PROVE  wrote'[c][i].ver <= cache[m] /\ since[c][m] <= wrote'[c][i].ver
      <4>1. CASE i <= Len(wrote[c])
        BY <4>1, <1>4 DEF StreamInv, m
      <4>2. CASE i = Len(wrote[c]) + 1
        BY <4>2, <1>1, <1>2, <1>4, <1>5 DEF Stream!SampleMsg
      <4> QED
        BY <4>1, <4>2, <1>4
    <3> QED
      BY <2>2, <3>1, <3>2 DEF StreamInv, m
  <2> QED
    BY <2>1, <2>2
<1>14. \A d \in Conns, w \in Versions : Written(wrote[d], w) => Written(wrote'[d], w)
  <2> SUFFICES ASSUME NEW d \in Conns, NEW w \in Versions, Written(wrote[d], w)
               PROVE  Written(wrote'[d], w)
    OBVIOUS
  <2>1. CASE d # c
    BY <2>1, <1>1 DEF Written, TypeOK
  <2>2. CASE d = c
    <3>1. PICK i \in 1 .. Len(wrote[c]) : wrote[c][i].ver = w
      BY <2>2 DEF Written
    <3>2. i \in 1 .. Len(wrote'[c]) /\ wrote'[c][i].ver = w
      BY <3>1, <1>4
    <3> QED
      BY <2>2, <3>2 DEF Written
  <2> QED
    BY <2>1, <2>2
<1>15. Written(wrote'[c], v)
  <2>1. Len(wrote'[c]) \in 1 .. Len(wrote'[c]) /\ wrote'[c][Len(wrote'[c])].ver = v
    BY <1>4 DEF Stream!SampleMsg
  <2> QED
    BY <2>1 DEF Written
<1>16. NetInv'
  <2> SUFFICES ASSUME NEW d \in Conns
      PROVE  /\ OrderedBytes(net'[d], metric[d])
             /\ \A i \in 1 .. Len(net'[d]) :
                  Written(wrote'[d], net'[d][i][1]) /\ last[d] < net'[d][i][1]
    BY <1>6 DEF NetInv, Written
  <2>1. CASE d # c
    BY <2>1, <1>11, <1>14, SeqTypes DEF NetInv
  <2>2. CASE d = c
    <3>1. OrderedBytes(net'[c], m)
      <4>1. OrderedBytes(net[c], m) /\ net[c] \in Seq(Byte)
        BY SeqTypes DEF NetInv, m
      <4> QED
        BY <4>1, <1>0, <1>2, <1>8, <1>11, MessageOrdered
    <3>2. ASSUME NEW i \in 1 .. Len(net'[c])
          PROVE  Written(wrote'[c], net'[c][i][1]) /\ last[c] < net'[c][i][1]
      <4>1. CASE i <= Len(net[c])
        <5>1. i \in 1 .. Len(net[c]) /\ net'[c][i] = net[c][i]
          BY <4>1, <1>10, <1>11
        <5>2. net[c][i][1] \in Versions /\ Written(wrote[c], net[c][i][1]) /\ last[c] < net[c][i][1]
          BY <5>1, SeqTypes DEF NetInv
        <5> QED
          BY <5>1, <5>2, <1>14
      <4>2. CASE i > Len(net[c])
        <5>1. i \in 1 .. Len(net[c]) + Size[m][v] /\ i - Len(net[c]) \in 1 .. Size[m][v]
          BY <4>2, <1>10, <1>11
        <5>2. net'[c][i] = Bytes(m, v)[i - Len(net[c])]
          BY <4>2, <5>1, <1>10, <1>11
        <5>3. net'[c][i] = <<v, i - Len(net[c])>>
          BY <5>1, <5>2, <1>10
        <5> QED
          BY <5>3, <1>9, <1>15
      <4> QED
        BY <4>1, <4>2, <1>10
    <3> QED
      BY <2>2, <3>1, <3>2 DEF m
  <2> QED
    BY <2>1, <2>2
<1>17. InStep'
  <2> SUFFICES ASSUME NEW d \in Conns, sub[d] = "handling", net'[d] # << >>
      PROVE  Head(net'[d])[2] = 1
    BY <1>6 DEF InStep
  <2>1. CASE d # c
    BY <2>1, <1>11 DEF InStep
  <2>2. CASE d = c
    <3>1. net'[c] \in Seq(Byte) /\ Len(net'[c]) \in Nat /\ Len(net'[c]) > 0
          /\ Head(net'[c]) = net'[c][1]
      BY <1>10, <1>11
    <3>2. CASE Len(net[c]) = 0
      <4>1. net'[c][1] = <<v, 1>>
        BY <3>1, <3>2, <1>10, <1>11
      <4> QED
        BY <2>2, <3>1, <4>1
    <3>3. CASE Len(net[c]) # 0
      <4>1. net'[c][1] = net[c][1] /\ net[c] # << >>
        BY <3>1, <3>3, <1>10, <1>11
      <4>2. Head(net[c]) = net[c][1]
        BY <3>3, SeqTypes
      <4> QED
        BY <2>2, <3>1, <4>1, <4>2 DEF InStep
    <3> QED
      BY <3>2, <3>3
  <2> QED
    BY <2>1, <2>2
<1>18. FeedInv'
  <2>1. \A d \in Conns : last[d] # 0 => Written(wrote'[d], last[d])
    <3>1. \A d \in Conns : last[d] # 0 => last[d] \in Versions
      <4>1. last \in [Conns -> 0 .. MaxVersion]
        BY DEF TypeOK
      <4> QED
        BY <4>1, ConstantsAssumption DEF Versions
    <3> QED
      BY <3>1, <1>14 DEF FeedInv
  <2> QED
    BY <2>1, <1>6 DEF FeedInv, Written
<1> QED
  BY <1>12, <1>13, <1>16, <1>17, <1>18

\* The onboard server falls silent, or the connection ends: nothing that is unread
\* is of use then.
LEMMA LinkStep ==
  ASSUME Inv, NEW c \in Conns, DownlinkRaises(c) \/ OnboardCloses(c) \/ LinkBreaks(c)
  PROVE  Inv'
<1> USE DEF Inv
<1>0. UNCHANGED <<cache, since, wrote, metric, sub, last, from, fed, raced>>
  BY DEF DownlinkRaises, OnboardCloses, LinkBreaks, onboardVars, subVars
<1>1. /\ link[c] # "none"
      /\ link' \in [Conns -> {"none", "broken", "closed"} \union Up]
      /\ \A d \in Conns : d # c => link'[d] = link[d]
  BY DEF DownlinkRaises, OnboardCloses, LinkBreaks, TypeOK, Up
<1>2. \A d \in Conns : net'[d] = net[d] \/ net'[d] = << >>
  BY DEF DownlinkRaises, OnboardCloses, LinkBreaks, TypeOK
<1>3. net' \in [Conns -> Seq(Byte)]
  <2>1. net \in [Conns -> Seq(Byte)] /\ << >> \in Seq(Byte)
    BY DEF TypeOK, Byte
  <2>2. net' = net \/ net' = [net EXCEPT ![c] = << >>]
    BY DEF DownlinkRaises, OnboardCloses, LinkBreaks
  <2> QED
    BY <2>1, <2>2
<1>4. TypeOK'
  BY <1>0, <1>1, <1>3 DEF TypeOK, Byte
<1>5. StreamInv'
  <2>1. \A d \in Conns : sub[d] = "none" => d # c
    BY <1>1 DEF StreamInv
  <2>2. \A d \in Conns : sub[d] = "none" => link'[d] = "none" /\ net'[d] = << >>
    BY <1>1, <1>2, <2>1 DEF StreamInv
  <2> QED
    BY <1>0, <2>2, Zenon DEF StreamInv
<1>6. NetInv'
  <2> SUFFICES ASSUME NEW d \in Conns
      PROVE  /\ OrderedBytes(net'[d], metric[d])
             /\ \A i \in 1 .. Len(net'[d]) :
                  Written(wrote[d], net'[d][i][1]) /\ last[d] < net'[d][i][1]
    BY <1>0 DEF NetInv
  <2>1. CASE net'[d] = net[d]
    BY <2>1 DEF NetInv
  <2>2. CASE net'[d] = << >>
    <3>1. metric[d] \in Metrics
      BY DEF TypeOK
    <3> QED
      BY <2>2, <3>1, EmptyOrdered, EmptyDomain
  <2> QED
    BY <1>2, <2>1, <2>2
<1>7. InStep'
  BY <1>0, <1>2 DEF InStep
<1>8. FeedInv'
  BY <1>0 DEF FeedInv
<1> QED
  BY <1>4, <1>5, <1>6, <1>7, <1>8

\* A new subscription begins behind all that was handed on.
LEMMA SubscribeStep ==
  ASSUME Inv, NEW c \in Conns, Subscribe(c)
  PROVE  Inv'
<1> USE DEF Inv
<1>0. /\ sub[c] = "none" /\ wrote[c] = << >> /\ net[c] = << >> /\ last[c] = 0
      /\ since' = [since EXCEPT ![c] = cache]
      /\ link' = [link EXCEPT ![c] = "open"]
      /\ sub' = [sub EXCEPT ![c] = "reading"]
      /\ from' = [from EXCEPT ![c] = fed[metric[c]]]
      /\ raced' = IF LiveSubs(metric[c]) = {} THEN raced ELSE raced \union {metric[c]}
      /\ UNCHANGED <<cache, wrote, net, metric, last, fed>>
  BY DEF Subscribe, Stream!Connect, StreamInv
<1>1. metric[c] \in Metrics /\ fed[metric[c]] \in 0 .. MaxVersion
  BY DEF TypeOK
<1>2. TypeOK'
  <2>1. raced' \in SUBSET Metrics
    BY <1>0, <1>1 DEF TypeOK
  <2>2. since' \in [Conns -> [Metrics -> 0 .. MaxVersion]]
    BY <1>0 DEF TypeOK
  <2>3. from' \in [Conns -> 0 .. MaxVersion]
    BY <1>0, <1>1 DEF TypeOK
  <2>4. sub' \in [Conns -> {"none", "ended"} \union Live]
    BY <1>0 DEF TypeOK, Live
  <2>5. link' \in [Conns -> {"none", "broken", "closed"} \union Up]
    BY <1>0 DEF TypeOK, Up
  <2> QED
    BY <1>0, <2>1, <2>2, <2>3, <2>4, <2>5 DEF TypeOK
<1>3. /\ \A d \in Conns : d # c => since'[d] = since[d] /\ link'[d] = link[d]
                                   /\ sub'[d] = sub[d] /\ from'[d] = from[d]
      /\ since'[c] = cache /\ sub'[c] = "reading" /\ from'[c] = fed[metric[c]]
  BY <1>0 DEF TypeOK
<1>4. 1 .. Len(wrote[c]) = {} /\ 1 .. Len(net[c]) = {}
  BY <1>0, EmptyDomain
<1>5. StreamInv'
  <2> SUFFICES ASSUME NEW d \in Conns
      PROVE  /\ \A m \in Metrics : since'[d][m] <= cache[m]
             /\ \A i \in 1 .. Len(wrote[d]) :
                  /\ wrote[d][i].ver <= cache[metric[d]]
                  /\ since'[d][metric[d]] <= wrote[d][i].ver
             /\ sub'[d] = "none" =>
                  link'[d] = "none" /\ wrote[d] = << >> /\ net[d] = << >> /\ last[d] = 0
    BY <1>0, Zenon DEF StreamInv
  <2>1. CASE d # c
    BY <2>1, <1>3 DEF StreamInv
  <2>2. CASE d = c
    <3>1. \A m \in Metrics : since'[c][m] <= cache[m]
      BY <1>3, ConstantsAssumption DEF TypeOK
    <3> QED
      BY <2>2, <3>1, <1>3, <1>4
  <2> QED
    BY <2>1, <2>2
<1>6. NetInv'
  BY <1>0, Zenon DEF NetInv
<1>7. InStep'
  BY <1>0, <1>3 DEF InStep
<1>8. FeedInv'
  <2>1. ASSUME NEW d \in Conns PROVE from'[d] <= since'[d][metric[d]]
    BY <1>1, <1>3 DEF FeedInv, TypeOK
  <2>2. ASSUME NEW d \in Conns, sub'[d] \in Live, metric[d] \notin raced'
        PROVE  /\ fed[metric[d]] = IF last[d] = 0 THEN from'[d] ELSE last[d]
               /\ \A e \in Conns : sub'[e] \in Live /\ metric[e] = metric[d] => e = d
    <3>1. raced \subseteq raced' /\ metric[d] \notin raced
      BY <1>0, <2>2
    <3>2. CASE metric[d] # metric[c]
      <4>1. d # c /\ sub[d] \in Live /\ from'[d] = from[d]
        BY <1>3, <2>2, <3>2
      <4>2. \A e \in Conns : metric[e] = metric[d] => sub'[e] = sub[e]
        BY <1>3, <3>2
      <4> QED
        BY <3>1, <4>1, <4>2 DEF FeedInv
    <3>3. CASE metric[d] = metric[c]
      <4>1. LiveSubs(metric[c]) = {}
        BY <1>0, <2>2, <3>3
      <4>2. \A e \in Conns : metric[e] = metric[c] => sub[e] \notin Live
        BY <4>1 DEF LiveSubs
      <4>3. \A e \in Conns : sub'[e] \in Live /\ metric[e] = metric[c] => e = c
        BY <4>2, <1>3
      <4>4. d = c
        BY <2>2, <3>3, <4>3
      <4> QED
        BY <3>3, <4>3, <4>4, <1>0, <1>3
    <3> QED
      BY <3>2, <3>3
  <2> QED
    BY <1>0, <2>1, <2>2, Zenon DEF FeedInv
<1> QED
  BY <1>2, <1>5, <1>6, <1>7, <1>8

\* A subscription that is over leaves nothing to read.
LEMMA EndsStep ==
  ASSUME Inv, NEW c \in Conns, sub[c] \in Live, Ends(c)
  PROVE  Inv'
<1> USE DEF Inv
<1>0. /\ UNCHANGED <<cache, since, wrote, metric, last, from, fed, raced>>
      /\ sub' = [sub EXCEPT ![c] = "ended"]
      /\ link' = [link EXCEPT ![c] = "closed"]
      /\ net' = [net EXCEPT ![c] = << >>]
  BY DEF Ends, onboardVars
<1>1. /\ net'[c] = << >> /\ sub'[c] = "ended"
      /\ \A d \in Conns : d # c => net'[d] = net[d] /\ sub'[d] = sub[d] /\ link'[d] = link[d]
  BY <1>0 DEF TypeOK
<1>2. TypeOK'
  <2>1. net' \in [Conns -> Seq(Byte)]
    <3>1. net \in [Conns -> Seq(Byte)] /\ << >> \in Seq(Byte)
      BY DEF TypeOK, Byte
    <3> QED
      BY <1>0, <3>1
  <2>2. sub' \in [Conns -> {"none", "ended"} \union Live]
    BY <1>0 DEF TypeOK
  <2>3. link' \in [Conns -> {"none", "broken", "closed"} \union Up]
    BY <1>0 DEF TypeOK
  <2> QED
    BY <1>0, <2>1, <2>2, <2>3 DEF TypeOK, Byte
<1>3. StreamInv'
  <2>1. \A d \in Conns : sub'[d] = "none" => sub[d] = "none" /\ d # c
    BY <1>1
  <2>2. \A d \in Conns : sub'[d] = "none" =>
          link'[d] = "none" /\ wrote[d] = << >> /\ net'[d] = << >> /\ last[d] = 0
    BY <1>1, <2>1 DEF StreamInv
  <2> QED
    BY <1>0, <2>2, Zenon DEF StreamInv
<1>4. NetInv'
  <2>1. OrderedBytes(net'[c], metric[c]) /\ 1 .. Len(net'[c]) = {}
    <3>1. metric[c] \in Metrics
      BY DEF TypeOK
    <3> QED
      BY <1>1, <3>1, EmptyOrdered, EmptyDomain
  <2>2. \A d \in Conns : OrderedBytes(net'[d], metric[d])
    BY <1>1, <2>1 DEF NetInv
  <2>3. \A d \in Conns : \A i \in 1 .. Len(net'[d]) :
          Written(wrote[d], net'[d][i][1]) /\ last[d] < net'[d][i][1]
    BY <1>1, <2>1 DEF NetInv
  <2> QED
    BY <1>0, <2>2, <2>3, Zenon DEF NetInv
<1>5. InStep'
  BY <1>1 DEF InStep
<1>6. FeedInv'
  <2>1. \A d \in Conns : sub'[d] \in Live => sub[d] \in Live
    BY <1>1 DEF Live
  <2> QED
    BY <1>0, <2>1, Zenon DEF FeedInv
<1> QED
  BY <1>2, <1>3, <1>4, <1>5, <1>6

\* handle_sample returns.
LEMMA HandledStep ==
  ASSUME Inv, NEW c \in Conns, Handled(c)
  PROVE  Inv'
<1> USE DEF Inv
<1>0. /\ UNCHANGED <<cache, since, wrote, link, net, metric, last, from, fed, raced>>
      /\ sub' = [sub EXCEPT ![c] = "reading"] /\ sub[c] = "handling"
  BY DEF Handled, onboardVars
<1>1. sub'[c] = "reading" /\ \A d \in Conns : d # c => sub'[d] = sub[d]
  BY <1>0 DEF TypeOK
<1>2. TypeOK'
  <2>1. sub' \in [Conns -> {"none", "ended"} \union Live]
    BY <1>0 DEF TypeOK, Live
  <2> QED
    BY <1>0, <2>1 DEF TypeOK
<1>3. /\ \A d \in Conns : sub'[d] = "none" <=> sub[d] = "none"
      /\ \A d \in Conns : sub'[d] \in Live <=> sub[d] \in Live
      /\ \A d \in Conns : sub'[d] = "handling" => sub[d] = "handling"
  BY <1>0, <1>1 DEF Live
<1>4. StreamInv'
  BY <1>0, <1>3, Zenon DEF StreamInv
<1>5. NetInv'
  BY <1>0, Zenon DEF NetInv
<1>6. InStep'
  BY <1>0, <1>3, Zenon DEF InStep
<1>7. FeedInv'
  BY <1>0, <1>3, Zenon DEF FeedInv
<1> QED
  BY <1>2, <1>4, <1>5, <1>6, <1>7

\* The sample that a read hands on: newer than all that was handed on, no older
\* than the connection, and behind it everything is newer still.
LEMMA HandsOn ==
  ASSUME Inv, NEW c \in Conns, NEW k \in 1 .. Len(net[c]),
         IsMessage(metric[c], SubSeq(net[c], 1, k))
  PROVE  LET v == net[c][1][1]
         IN  /\ Head(SubSeq(net[c], 1, k))[1] = v
             /\ v \in Versions /\ Written(wrote[c], v)
             /\ last[c] < v /\ from[c] <= v /\ v <= cache[metric[c]]
             /\ \A i \in 1 .. Len(net[c]) : i > k => v < net[c][i][1]
             /\ k < Len(net[c]) => net[c][k + 1][2] = 1
<1> USE DEF Inv
<1> DEFINE v == net[c][1][1]
<1>1. metric[c] \in Metrics /\ OrderedBytes(net[c], metric[c]) /\ net[c] \in Seq(Byte)
  BY SeqTypes DEF TypeOK, NetInv
<1>2. /\ Head(SubSeq(net[c], 1, k))[1] = v
      /\ v \in Versions
      /\ \A i \in 1 .. Len(net[c]) : i > k => v < net[c][i][1]
      /\ k < Len(net[c]) => net[c][k + 1][2] = 1
  BY <1>1, WholeRead
<1>3. 1 \in 1 .. Len(net[c])
  BY SeqTypes
<1>4. Written(wrote[c], v) /\ last[c] < v
  BY <1>3 DEF NetInv
<1> HIDE DEF v
<1>5. since[c][metric[c]] <= v /\ v <= cache[metric[c]]
  BY <1>4 DEF StreamInv, Written
<1>6. from[c] <= since[c][metric[c]]
  BY DEF FeedInv
<1>7. from[c] \in Int /\ since[c][metric[c]] \in Int /\ v \in Int
  BY <1>1, <1>2 DEF TypeOK, Versions
<1>8. from[c] <= v
  BY <1>5, <1>6, <1>7
<1> QED
  BY <1>2, <1>4, <1>5, <1>8 DEF v

\* A read keeps what is unread in order.
LEMMA ReadStep ==
  ASSUME Inv, NEW c \in Conns, NEW k \in 1 .. ReadMax, Read(c, k)
  PROVE  Inv'
<1> USE DEF Inv
<1> DEFINE m == metric[c]
           data == SubSeq(net[c], 1, k)
           rest == SubSeq(net[c], k + 1, Len(net[c]))
           v == net[c][1][1]
<1>1. /\ sub[c] = "reading" /\ link[c] \in Up /\ k \in 1 .. Len(net[c])
      /\ \/ Ends(c)
         \/ /\ net' = [net EXCEPT ![c] = rest]
            /\ \/ /\ IsMessage(m, data)
                  /\ sub' = [sub EXCEPT ![c] = "handling"]
                  /\ last' = [last EXCEPT ![c] = Head(data)[1]]
                  /\ fed' = [fed EXCEPT ![m] = Head(data)[1]]
               \/ UNCHANGED <<sub, last, fed>>
            /\ UNCHANGED <<cache, since, wrote, link, metric, from, raced>>
  <2>1. k \in 1 .. Len(net[c])
    <3>1. Len(net[c]) \in Nat /\ k <= Len(net[c])
      BY SeqTypes DEF Read
    <3> QED
      BY <3>1, ConstantsAssumption
  <2>2. net \in [Conns -> Seq(Byte)]
    BY DEF TypeOK, Byte
  <2> QED
    BY <2>1, <2>2 DEF Read, onboardVars
<1>2. m \in Metrics /\ OrderedBytes(net[c], m) /\ net[c] \in Seq(Byte) /\ Len(net[c]) \in Nat
  BY SeqTypes DEF TypeOK, NetInv
<1>3. CASE Ends(c)
  BY <1>1, <1>3, EndsStep DEF Live
<1>4. CASE /\ net' = [net EXCEPT ![c] = rest]
           /\ \/ /\ IsMessage(m, data)
                 /\ sub' = [sub EXCEPT ![c] = "handling"]
                 /\ last' = [last EXCEPT ![c] = Head(data)[1]]
                 /\ fed' = [fed EXCEPT ![m] = Head(data)[1]]
              \/ UNCHANGED <<sub, last, fed>>
           /\ UNCHANGED <<cache, since, wrote, link, metric, from, raced>>
  <2>1. /\ rest \in Seq(Byte) /\ Len(rest) = Len(net[c]) - k
        /\ \A i \in 1 .. Len(rest) : i + k \in 1 .. Len(net[c]) /\ rest[i] = net[c][i + k]
    BY <1>1, <1>2, RestOf
  <2>2. OrderedBytes(rest, m)
    BY <1>1, <1>2, RestOrdered
  <2> HIDE DEF rest, m
  <2>3. net'[c] = rest /\ \A d \in Conns : d # c => net'[d] = net[d]
    BY <1>4 DEF TypeOK
  <2>4. net' \in [Conns -> Seq(Byte)]
    <3>1. net \in [Conns -> Seq(Byte)]
      BY DEF TypeOK, Byte
    <3> QED
      BY <1>4, <2>1, <3>1
  <2>5. \A d \in Conns : OrderedBytes(net'[d], metric[d])
    BY <2>2, <2>3 DEF NetInv, m
  <2>6. CASE UNCHANGED <<sub, last, fed>>
    <3>1. TypeOK'
      BY <1>4, <2>4, <2>6 DEF TypeOK, Byte
    <3>2. StreamInv'
      <4>1. \A d \in Conns : sub[d] = "none" => net'[d] = << >>
        BY <1>1, <2>3 DEF StreamInv
      <4> QED
        BY <1>4, <2>6, <4>1, Zenon DEF StreamInv
    <3>3. \A d \in Conns : \A i \in 1 .. Len(net'[d]) :
            Written(wrote[d], net'[d][i][1]) /\ last[d] < net'[d][i][1]
      <4> SUFFICES ASSUME NEW d \in Conns, NEW i \in 1 .. Len(net'[d])
                   PROVE  Written(wrote[d], net'[d][i][1]) /\ last[d] < net'[d][i][1]
        OBVIOUS
      <4>1. CASE d # c
        BY <4>1, <2>3 DEF NetInv
      <4>2. CASE d = c
        <5>1. i + k \in 1 .. Len(net[c]) /\ net'[c][i] = net[c][i + k]
          BY <2>1, <2>3, <4>2
        <5> QED
          BY <4>2, <5>1 DEF NetInv
      <4> QED
        BY <4>1, <4>2
    <3>4. NetInv'
      BY <1>4, <2>5, <2>6, <3>3, Zenon DEF NetInv
    <3>5. InStep'
      BY <1>1, <2>3, <2>6 DEF InStep
    <3>6. FeedInv'
      BY <1>4, <2>6, Zenon DEF FeedInv
    <3> QED
      BY <3>1, <3>2, <3>4, <3>5, <3>6
  <2>7. CASE /\ IsMessage(m, data)
             /\ sub' = [sub EXCEPT ![c] = "handling"]
             /\ last' = [last EXCEPT ![c] = Head(data)[1]]
             /\ fed' = [fed EXCEPT ![m] = Head(data)[1]]
    <3>1. /\ Head(data)[1] = v
          /\ v \in Versions /\ Written(wrote[c], v)
          /\ last[c] < v /\ from[c] <= v /\ v <= cache[m]
          /\ \A i \in 1 .. Len(net[c]) : i > k => v < net[c][i][1]
          /\ k < Len(net[c]) => net[c][k + 1][2] = 1
      BY <1>1, <2>7, HandsOn DEF m
    <3> HIDE DEF v, data
    <3>2. /\ last' = [last EXCEPT ![c] = v] /\ fed' = [fed EXCEPT ![m] = v]
          /\ last'[c] = v /\ fed'[m] = v /\ sub'[c] = "handling"
          /\ \A d \in Conns : d # c => last'[d] = last[d] /\ sub'[d] = sub[d]
          /\ \A n \in Metrics : n # m => fed'[n] = fed[n]
      BY <1>2, <2>7, <3>1 DEF TypeOK
    <3>3. v \in 0 .. MaxVersion /\ v # 0 /\ v \in Nat
      BY <3>1, ConstantsAssumption DEF Versions
    <3>4. TypeOK'
      <4>1. last' \in [Conns -> 0 .. MaxVersion] /\ fed' \in [Metrics -> 0 .. MaxVersion]
        BY <1>2, <3>2, <3>3 DEF TypeOK
      <4>2. sub' \in [Conns -> {"none", "ended"} \union Live]
        BY <2>7 DEF TypeOK, Live
      <4> QED
        BY <1>4, <2>4, <4>1, <4>2 DEF TypeOK, Byte
    <3>5. StreamInv'
      <4>1. \A d \in Conns : sub'[d] = "none" =>
              link[d] = "none" /\ wrote[d] = << >> /\ net'[d] = << >> /\ last'[d] = 0
        BY <2>3, <3>2 DEF StreamInv
      <4> QED
        BY <1>4, <4>1, Zenon DEF StreamInv
    <3>6. NetInv'
      <4>1. \A i \in 1 .. Len(rest) : Written(wrote[c], rest[i][1]) /\ v < rest[i][1]
        <5> SUFFICES ASSUME NEW i \in 1 .. Len(rest)
                     PROVE  Written(wrote[c], rest[i][1]) /\ v < rest[i][1]
          OBVIOUS
        <5>1. i + k \in 1 .. Len(net[c]) /\ i + k > k /\ rest[i] = net[c][i + k]
          BY <1>1, <1>2, <2>1
        <5> QED
          BY <3>1, <5>1 DEF NetInv
      <4>2. \A d \in Conns : \A i \in 1 .. Len(net'[d]) :
              Written(wrote[d], net'[d][i][1]) /\ last'[d] < net'[d][i][1]
        BY <2>3, <3>2, <4>1 DEF NetInv
      <4> QED
        BY <1>4, <2>5, <4>2, Zenon DEF NetInv
    <3>7. InStep'
      <4> SUFFICES ASSUME NEW d \in Conns, sub'[d] = "handling", net'[d] # << >>
                   PROVE  Head(net'[d])[2] = 1
        BY DEF InStep
      <4>1. CASE d # c
        BY <4>1, <2>3, <3>2 DEF InStep
      <4>2. CASE d = c
        <5>1. Len(rest) # 0 /\ Head(rest) = rest[1] /\ Len(rest) \in Nat
          BY <2>1, <2>3, <4>2
        <5>2. 1 \in 1 .. Len(rest) /\ k < Len(net[c]) /\ rest[1] = net[c][k + 1]
          BY <1>1, <1>2, <2>1, <5>1
        <5> QED
          BY <2>3, <3>1, <4>2, <5>1, <5>2
      <4> QED
        BY <4>1, <4>2
    <3>8. FeedInv'
      <4>1. \A n \in Metrics : fed'[n] <= cache[n]
        BY <3>1, <3>2 DEF FeedInv
      <4>2. \A d \in Conns : last'[d] # 0 => Written(wrote[d], last'[d])
        BY <3>1, <3>2 DEF FeedInv
      <4>3. ASSUME NEW d \in Conns, sub'[d] \in Live, metric[d] \notin raced
            PROVE  /\ fed'[metric[d]] = IF last'[d] = 0 THEN from[d] ELSE last'[d]
                   /\ \A e \in Conns : sub'[e] \in Live /\ metric[e] = metric[d] => e = d
        <5>1. \A e \in Conns : sub'[e] \in Live => sub[e] \in Live
          BY <1>1, <3>2 DEF Live
        <5>2. \A e \in Conns : sub'[e] \in Live /\ metric[e] = metric[d] => e = d
          BY <4>3, <5>1 DEF FeedInv
        <5>3. CASE d = c
          BY <3>2, <3>3, <5>2, <5>3 DEF m
        <5>4. CASE d # c
          <6>1. metric[d] # m
            <7>1. sub'[c] \in Live
              BY <3>2 DEF Live
            <7> QED
              BY <5>2, <5>4, <7>1 DEF m
          <6>2. fed'[metric[d]] = fed[metric[d]] /\ last'[d] = last[d]
            BY <3>2, <5>4, <6>1 DEF TypeOK
          <6> QED
            BY <4>3, <5>1, <5>2, <6>2 DEF FeedInv
        <5> QED
          BY <5>3, <5>4
      <4>4. \A d \in Conns : from[d] <= since[d][metric[d]]
        BY DEF FeedInv
      <4> QED
        BY <1>4, <4>1, <4>2, <4>3, <4>4, Zenon DEF FeedInv
    <3> QED
      BY <3>4, <3>5, <3>6, <3>7, <3>8
  <2> QED
    BY <1>4, <2>6, <2>7 DEF m
<1> QED
  BY <1>1, <1>3, <1>4

\* Every step keeps the invariant.
LEMMA InvStep == Inv /\ [Next]_vars => Inv'
<1> SUFFICES ASSUME Inv, [Next]_vars PROVE Inv'
  OBVIOUS
<1>1. ASSUME NEW m \in Metrics, Publish(m) PROVE Inv'
  BY <1>1, PublishStep
<1>2. ASSUME NEW c \in Conns, Downlinks(c) PROVE Inv'
  BY <1>2, DownlinksStep
<1>3. ASSUME NEW c \in Conns, DownlinkRaises(c) \/ OnboardCloses(c) \/ LinkBreaks(c) PROVE Inv'
  BY <1>3, LinkStep
<1>4. ASSUME NEW c \in Conns, Subscribe(c) PROVE Inv'
  BY <1>4, SubscribeStep
<1>5. ASSUME NEW c \in Conns, ReadSteps(c) PROVE Inv'
  BY <1>5, ReadStep DEF ReadSteps
<1>6. ASSUME NEW c \in Conns, Handled(c) PROVE Inv'
  BY <1>6, HandledStep
<1>7. ASSUME NEW c \in Conns, SubscribeEnds(c) PROVE Inv'
  BY <1>7, EndsStep DEF SubscribeEnds
<1>8. CASE UNCHANGED vars
  BY <1>8, Zenon DEF vars, onboardVars, subVars, Inv, TypeOK, StreamInv, NetInv, InStep, FeedInv
<1> QED
  BY <1>1, <1>2, <1>3, <1>4, <1>5, <1>6, <1>7, <1>8 DEF Next

-----------------------------------------------------------------------------
(* The theorems.                                                           *)

\* The invariant holds in every reachable state.
THEOREM Invariance == Spec => []Inv
BY InvInit, InvStep, PTL DEF Spec

\* The types of all variables are kept.
THEOREM TypeCorrect == Spec => []TypeOK
<1>1. Inv => TypeOK
  BY DEF Inv
<1> QED
  BY <1>1, Invariance, PTL

\* A subscription that hands on a sample is in step with the messages, whatever
\* the reads have cut and joined before.
THEOREM ReadsInStep == Spec => []InStep
<1>1. Inv => InStep
  BY DEF Inv
<1> QED
  BY <1>1, Invariance, PTL

\* Only a read hands on a sample, and what it hands on is newer than what the
\* subscription handed on before and no older than what it found handed on.
LEMMA FeedStep ==
  ASSUME Inv, [Next]_vars, NEW c \in Conns, sub[c] = "reading", sub'[c] = "handling"
  PROVE  last'[c] > last[c] /\ last'[c] >= from[c]
<1>1. sub \in [Conns -> {"none", "ended"} \union Live]
  BY DEF Inv, TypeOK
<1>2. PICK d \in Conns, k \in 1 .. ReadMax : Read(d, k)
  <2>1. sub' # sub
    BY <1>1
  <2>2. \A d \in Conns : ~(Subscribe(d) \/ Handled(d) \/ SubscribeEnds(d))
    BY <1>1 DEF Subscribe, Handled, SubscribeEnds, Ends
  <2> QED
    BY <2>1, <2>2 DEF Next, ReadSteps, vars, onboardVars, subVars, Publish, Downlinks,
                      DownlinkRaises, OnboardCloses, LinkBreaks
<1>3. d = c /\ ~Ends(d)
  BY <1>1, <1>2 DEF Read, Ends
<1>4. k \in 1 .. Len(net[c])
  <2>1. Len(net[c]) \in Nat /\ k <= Len(net[c])
    BY <1>2, <1>3, SeqTypes DEF Read, Inv
  <2> QED
    BY <2>1, ConstantsAssumption
<1>5. /\ IsMessage(metric[c], SubSeq(net[c], 1, k))
      /\ last' = [last EXCEPT ![c] = Head(SubSeq(net[c], 1, k))[1]]
  BY <1>2, <1>3 DEF Read
<1>6. last'[c] = Head(SubSeq(net[c], 1, k))[1]
  BY <1>5 DEF Inv, TypeOK
<1>7. last[c] < last'[c] /\ from[c] <= last'[c] /\ last'[c] \in Int
  BY <1>4, <1>5, <1>6, HandsOn DEF Versions
<1>8. last[c] \in Int /\ from[c] \in Int
  BY DEF Inv, TypeOK
<1> QED
  BY <1>7, <1>8

\* What add_sample relies on: a subscription hands on newer and newer samples,
\* and none that is older than what was handed on when it connected.
THEOREM FeedsInOrder == Spec => FeedInOrder
<1>1. Inv /\ [Next]_vars =>
        [\A c \in Conns :
           sub[c] = "reading" /\ sub'[c] = "handling"
             => last'[c] > last[c] /\ last'[c] >= from[c]]_vars
  BY FeedStep
<1> QED
  BY <1>1, Invariance, PTL DEF Spec, FeedInOrder

\* A step takes the samples of a metric back only if two subscriptions raced.
LEMMA FedStep ==
  ASSUME Inv, [Next]_vars, NEW m \in Metrics, m \notin raced'
  PROVE  fed'[m] >= fed[m]
<1>1. fed[m] \in Int
  BY DEF Inv, TypeOK
<1>2. CASE fed' = fed
  BY <1>1, <1>2
<1>3. CASE fed' # fed
  <2>1. PICK d \in Conns, k \in 1 .. ReadMax : Read(d, k)
    BY <1>3 DEF Next, ReadSteps, vars, onboardVars, subVars, Publish, Downlinks,
                DownlinkRaises, OnboardCloses, LinkBreaks, Subscribe, Handled, SubscribeEnds, Ends
  <2>2. k \in 1 .. Len(net[d])
    <3>1. Len(net[d]) \in Nat /\ k <= Len(net[d])
      BY <2>1, SeqTypes DEF Read, Inv
    <3> QED
      BY <3>1, ConstantsAssumption
  <2>3. /\ IsMessage(metric[d], SubSeq(net[d], 1, k))
        /\ fed' = [fed EXCEPT ![metric[d]] = Head(SubSeq(net[d], 1, k))[1]]
        /\ raced' = raced /\ sub[d] = "reading"
    BY <1>3, <2>1 DEF Read, Ends
  <2> DEFINE v == Head(SubSeq(net[d], 1, k))[1]
  <2>4. last[d] < v /\ from[d] <= v /\ v \in Int
    BY <2>2, <2>3, HandsOn DEF Versions
  <2> HIDE DEF v
  <2>5. CASE m = metric[d]
    <3>1. fed[m] = IF last[d] = 0 THEN from[d] ELSE last[d]
      BY <2>3, <2>5 DEF Inv, FeedInv, Live
    <3>2. fed'[m] = v
      BY <2>3, <2>5 DEF v, Inv, TypeOK
    <3>3. last[d] \in Int /\ from[d] \in Int
      BY DEF Inv, TypeOK
    <3> QED
      BY <2>4, <3>1, <3>2, <3>3
  <2>6. CASE m # metric[d]
    BY <1>1, <2>3, <2>6 DEF Inv, TypeOK
  <2> QED
    BY <2>5, <2>6
<1> QED
  BY <1>2, <1>3

\* The samples of a metric that reach the telemetry server never go back, over
\* all subscriptions, unless two of them ran at a time.
THEOREM GroundMovesForward == Spec => GroundNeverGoesBack
<1>1. Inv /\ [Next]_vars =>
        [\A m \in Metrics : m \notin raced' => fed'[m] >= fed[m]]_vars
  BY FedStep
<1> QED
  BY <1>1, Invariance, PTL DEF Spec, GroundNeverGoesBack
=============================================================================
