------------------------- MODULE AsyncSender_proofs -------------------------
(***************************************************************************)
(* A link between two replicas, for any messages, any number of broken     *)
(* connections and any way the writes and reads are cut: the receiver gets *)
(* whole messages, each once, in order on a connection.                    *)
(***************************************************************************)
EXTENDS Integers, Sequences, LinkPart, TLAPS

\* The chunks of messages, and the places of a stream of messages: before a
\* chunk, or before the first chunk of a message still to come.
Total(m) == HeaderSize + Size[m]
Chunks == {p \in Link!Messages \X Nat : p[2] \in 1..Total(p[1])}
Places == {p \in (Nat \ {0}) \X (Nat \ {0}) : p \in Chunks \/ p[2] = 1}
Succ(p) == IF p[2] < Total(p[1]) THEN <<p[1], p[2] + 1>> ELSE <<p[1] + 1, 1>>

ConnRecord == [under_way : Seq(Chunks), broken : BOOLEAN]
SessionRecord == [status : {0, 1}, need : Nat, buffer : Seq(Chunks)]

\* u is what lies between the places n and e of the stream.
Stream(u, n, e) ==
  /\ u \in Seq(Chunks) /\ n \in Places /\ e \in Places /\ n[1] <= e[1]
  /\ u = <<>> => e = n
  /\ u # <<>> => u[1] = n /\ e = Succ(u[Len(u)])
  /\ \A i \in 1..Len(u) : i + 1 \in 1..Len(u) => u[i + 1] = Succ(u[i])
  /\ \A i \in 1..Len(u) : u[i][1] <= e[1]
  /\ \A i, j \in 1..Len(u) : i < j => u[i][1] <= u[j][1]

\* The Session s has read the stream up to the place n.
Reads(s, n) ==
  /\ s \in SessionRecord
  /\ n[2] <= HeaderSize =>
       /\ s.status = 0 /\ s.need = HeaderSize /\ Len(s.buffer) = n[2] - 1
       /\ \A j \in 1..Len(s.buffer) : s.buffer[j] = <<n[1], j>>
  /\ n[2] > HeaderSize =>
       /\ s.status = 1 /\ s.need = Size[n[1]] /\ Len(s.buffer) = n[2] - 1 - HeaderSize
       /\ \A j \in 1..Len(s.buffer) : s.buffer[j] = <<n[1], HeaderSize + j>>

\* Connections C and their Sessions S while w is the next place to be written:
\* connection c was read up to n[c] and ends at e[c], the last one at w unless
\* it is broken, and a connection starts where or after the ones before it
\* ended, as messages go.
Net(C, S, w, n, e) ==
  /\ C \in Seq(ConnRecord) /\ S \in Seq(SessionRecord) /\ Len(S) = Len(C) /\ w \in Places
  /\ \A c \in 1..Len(C) : /\ Stream(C[c].under_way, n[c], e[c]) /\ Reads(S[c], n[c])
                          /\ e[c][1] <= w[1]
  /\ C # <<>> /\ ~C[Len(C)].broken => e[Len(C)] = w
  /\ \A c, d \in 1..Len(C) : c < d => e[c][1] <= n[d][1]

\* What was received over N connections: whole messages, on each connection in
\* order and before the place it was read up to, and not before the end of an
\* earlier connection.
MessageOf(r) == r.data[1][1]
Rec(R, N, n, e) ==
  /\ R \in Seq([conn : 1..N, data : Seq(Chunks)])
  /\ \A i \in 1..Len(R) :
       /\ MessageOf(R[i]) \in Link!Messages /\ R[i].data = Link!Body(MessageOf(R[i]))
       /\ MessageOf(R[i]) < n[R[i].conn][1]
       /\ \A c \in 1..N : c < R[i].conn => e[c][1] <= MessageOf(R[i])
  /\ \A i, j \in 1..Len(R) :
       i < j /\ R[i].conn = R[j].conn => MessageOf(R[i]) < MessageOf(R[j])

\* The queue holds the last numbers given out.
Queued(q, p) ==
  /\ p \in 0..Len(Size) /\ q \in Seq(Link!Messages) /\ Len(q) <= p
  /\ \A i \in 1..Len(q) : q[i] = p - Len(q) + i

\* The sender writes part st of message m from chunk i on.
Sends(m, st, i) ==
  /\ m \in Link!Messages /\ st \in {1, 2} /\ i \in Nat
  /\ i < IF st = 1 THEN HeaderSize ELSE Size[m]
PlaceOf(m, st, i) == <<m, i + 1 + IF st = 1 THEN 0 ELSE HeaderSize>>

\* The sender: queue_ holds the last messages given to SendMessage, and the
\* chain of handlers writes the one before them.
Writing == link_chain \in {"write", "connect"}
SenderInv ==
  /\ link_chain # "none" => in_process
  /\ Queued(queue, pushed)
  /\ Writing => pending = pushed - Len(queue) /\ Sends(pending, status, idx)
NextPlace ==
  IF Writing THEN PlaceOf(pending, status, idx) ELSE <<pushed - Len(queue) + 1, 1>>
LinkInv ==
  /\ SenderInv
  /\ \E n, e : Net(conns, session, NextPlace, n, e) /\ Rec(received, Len(conns), n, e)

\* The chunk after a chunk.
LEMMA ChunkIs ==
  ASSUME Link!SenderAssumption, NEW p \in Chunks
  PROVE  /\ p[1] \in Link!Messages /\ p[1] \in Nat \ {0} /\ Size[p[1]] \in Nat \ {0}
         /\ Total(p[1]) \in Nat /\ p[2] \in 1..Total(p[1]) /\ p = <<p[1], p[2]>>
         /\ p \in Places
<1>1. /\ p \in Link!Messages \X Nat /\ p[2] \in 1..Total(p[1]) BY Zenon DEF Chunks
<1>2. p[1] \in Nat \ {0} /\ Size[p[1]] \in Nat \ {0}
  BY <1>1 DEF Link!Messages, Link!SenderAssumption
<1>3. Total(p[1]) \in Nat BY <1>2 DEF Total, Link!SenderAssumption
<1>4. p[2] \in Nat \ {0} BY <1>1, <1>3
<1>5. p \in (Nat \ {0}) \X (Nat \ {0}) BY Zenon, <1>1, <1>2, <1>4
<1>6. p \in Places BY Zenon, <1>5 DEF Places
<1> QED BY <1>1, <1>2, <1>3, <1>6

LEMMA SuccIs ==
  ASSUME Link!SenderAssumption, NEW p \in Chunks
  PROVE  /\ Succ(p) \in Places /\ p[1] <= Succ(p)[1]
         /\ p[2] < Total(p[1]) => Succ(p) \in Chunks /\ Succ(p)[1] = p[1] /\ Succ(p)[2] = p[2] + 1
         /\ p[2] = Total(p[1]) => Succ(p)[1] = p[1] + 1 /\ Succ(p)[2] = 1
<1>1. /\ p[1] \in Link!Messages /\ p[1] \in Nat \ {0} /\ Total(p[1]) \in Nat
      /\ p[2] \in 1..Total(p[1])
  BY Zenon, ChunkIs
<1>2. CASE p[2] < Total(p[1])
  <2>1. Succ(p) = <<p[1], p[2] + 1>> BY Zenon, <1>2 DEF Succ
  <2>2. p[2] + 1 \in Nat \ {0} /\ p[2] + 1 \in 1..Total(p[1]) BY <1>1, <1>2
  <2>3. Succ(p) \in Chunks BY <1>1, <2>1, <2>2 DEF Chunks
  <2> QED BY <1>1, <1>2, <2>1, <2>3, ChunkIs
<1>3. CASE p[2] = Total(p[1])
  <2>1. Succ(p) = <<p[1] + 1, 1>> BY <1>1, <1>3 DEF Succ
  <2>2. Succ(p) \in Places BY <1>1, <2>1 DEF Places
  <2> QED BY <1>1, <1>3, <2>1, <2>2
<1> QED BY <1>1, <1>2, <1>3

\* A place is a pair of numbers.
LEMMA PlaceIs ==
  ASSUME NEW p \in Places
  PROVE  p[1] \in Nat \ {0} /\ p[2] \in Nat \ {0} /\ (p \in Chunks \/ p[2] = 1)
<1> QED BY Zenon DEF Places

\* A chunk is written at the end.
LEMMA StreamAppend ==
  ASSUME Link!SenderAssumption, NEW u, NEW n, NEW e, Stream(u, n, e), e \in Chunks
  PROVE  Stream(Append(u, e), n, Succ(e))
<1> DEFINE v == Append(u, e)
<1>1. PICK k \in Nat : k = Len(u) BY DEF Stream
<1>2. /\ u \in Seq(Chunks) /\ v \in Seq(Chunks) /\ Len(v) = k + 1 /\ v[k + 1] = e
      /\ \A i \in 1..k : v[i] = u[i]
  BY <1>1 DEF Stream
<1>3. /\ \A i \in 1..k : u[i] \in Chunks /\ i \in Nat
      /\ \A i \in 1..(k + 1) : i \in 1..k \/ i = k + 1
      /\ \A i \in 1..(k + 1) : i + 1 \in 1..(k + 1) => i \in 1..k /\ (i = k \/ i + 1 \in 1..k)
  BY <1>1, <1>2
<1>4. /\ Succ(e) \in Places /\ e[1] <= Succ(e)[1] /\ e[1] \in Nat /\ Succ(e)[1] \in Nat
  BY Zenon, SuccIs, PlaceIs, ChunkIs
<1>5. n \in Places /\ n[1] \in Nat /\ n[1] <= e[1] BY Zenon, PlaceIs DEF Stream
<1>6. n[1] <= Succ(e)[1] BY <1>4, <1>5
<1>7. v # <<>> BY <1>1, <1>2
<1>8. v[1] = n
  <2>1. CASE k = 0 BY <1>1, <1>2, <2>1 DEF Stream
  <2>2. CASE k # 0
    <3>1. 1 \in 1..k /\ u # <<>> BY <1>1, <1>2, <2>2
    <3> QED BY Zenon, <1>2, <3>1 DEF Stream
  <2> QED BY Zenon, <2>1, <2>2
<1>9. \A i \in 1..Len(v) : i + 1 \in 1..Len(v) => v[i + 1] = Succ(v[i])
  <2> SUFFICES ASSUME NEW i \in 1..(k + 1), i + 1 \in 1..(k + 1) PROVE v[i + 1] = Succ(v[i])
    BY Zenon, <1>2
  <2>1. i \in 1..k /\ (i = k \/ i + 1 \in 1..k) BY Zenon, <1>3
  <2>2. CASE i = k
    <3>1. u # <<>> BY <1>1, <1>2, <2>1, <2>2
    <3>2. e = Succ(u[k]) BY Zenon, <1>1, <3>1 DEF Stream
    <3> QED BY Zenon, <1>2, <2>1, <2>2, <3>2
  <2>3. CASE i + 1 \in 1..k
    <3>1. u[i + 1] = Succ(u[i]) BY Zenon, <1>1, <2>1, <2>3 DEF Stream
    <3> QED BY Zenon, <1>2, <2>1, <2>3, <3>1
  <2> QED BY Zenon, <2>1, <2>2, <2>3
<1>10. \A i \in 1..k : v[i] = u[i] /\ u[i][1] \in Nat /\ u[i][1] <= e[1]
  BY Zenon, <1>1, <1>2, <1>3, ChunkIs DEF Stream
<1>11. \A i \in 1..Len(v) : v[i][1] <= Succ(e)[1]
  <2> SUFFICES ASSUME NEW i \in 1..(k + 1) PROVE v[i][1] <= Succ(e)[1]
    BY Zenon, <1>2
  <2>1. CASE i = k + 1 BY Zenon, <1>2, <1>4, <2>1
  <2>2. CASE i \in 1..k
    <3>1. v[i][1] \in Nat /\ v[i][1] <= e[1] BY Zenon, <1>10, <2>2
    <3> HIDE DEF v
    <3> QED BY <1>4, <3>1
  <2> QED BY Zenon, <1>3, <2>1, <2>2
<1>12. \A i, j \in 1..Len(v) : i < j => v[i][1] <= v[j][1]
  <2> SUFFICES ASSUME NEW i \in 1..(k + 1), NEW j \in 1..(k + 1), i < j PROVE v[i][1] <= v[j][1]
    BY Zenon, <1>2
  <2>1. i \in 1..k /\ (j \in 1..k \/ j = k + 1) OBVIOUS
  <2>2. CASE j \in 1..k BY Zenon, <1>1, <1>10, <2>1, <2>2 DEF Stream
  <2>3. CASE j = k + 1 BY Zenon, <1>2, <1>10, <2>1, <2>3
  <2> QED BY Zenon, <2>1, <2>2, <2>3
<1> HIDE DEF v
<1>13. v[Len(v)] = e BY Zenon, <1>2
<1>14. Stream(v, n, Succ(e))
  BY Zenon, <1>2, <1>4, <1>5, <1>6, <1>7, <1>8, <1>9, <1>11, <1>12, <1>13 DEF Stream
<1> QED BY Zenon, <1>14 DEF v

\* The first chunk is read.
LEMMA StreamTail ==
  ASSUME Link!SenderAssumption, NEW u, NEW n, NEW e, Stream(u, n, e), u # <<>>
  PROVE  /\ n \in Chunks /\ Head(u) = n /\ Succ(n)[1] <= e[1]
         /\ Stream(Tail(u), Succ(n), e)
<1> DEFINE v == Tail(u)
<1>1. PICK k \in Nat : k + 1 = Len(u)
  <2>1. u \in Seq(Chunks) BY Zenon DEF Stream
  <2>2. PICK l \in Nat : l = Len(u) BY <2>1
  <2>3. l # 0 BY <2>1, <2>2
  <2>4. l - 1 \in Nat /\ (l - 1) + 1 = l BY <2>3
  <2> QED BY Zenon, <2>2, <2>4
<1>2. /\ u \in Seq(Chunks) /\ v \in Seq(Chunks) /\ Len(v) = k /\ Head(u) = u[1]
      /\ \A i \in 1..k : v[i] = u[i + 1]
  BY <1>1 DEF Stream
<1>3. /\ 1 \in 1..(k + 1) /\ \A i \in 1..k : i + 1 \in 1..(k + 1) /\ i \in 1..(k + 1)
      /\ k # 0 => 1 \in 1..k /\ 1 + 1 \in 1..(k + 1) /\ k \in 1..k
      /\ \A i \in 1..k : i + 1 \in 1..k => (i + 1) + 1 \in 1..(k + 1)
  OBVIOUS
<1>4. u[1] = n /\ n \in Chunks BY <1>1, <1>2, <1>3 DEF Stream
<1>5. Succ(n) \in Places BY Zenon, <1>4, SuccIs
<1>6. k = 0 => v = <<>> /\ e = Succ(n)
  <2> SUFFICES ASSUME k = 0 PROVE v = <<>> /\ e = Succ(n) BY Zenon
  <2>1. v = <<>>
    <3> HIDE DEF v
    <3> QED BY <1>2
  <2>2. e = Succ(u[Len(u)]) BY Zenon DEF Stream
  <2>3. Len(u) = 1 BY <1>1
  <2> QED BY Zenon, <1>4, <2>1, <2>2, <2>3
<1>7. k # 0 => v[1] = Succ(n)
  <2> SUFFICES ASSUME k # 0 PROVE v[1] = Succ(n) BY Zenon
  <2>1. u[1 + 1] = Succ(u[1]) BY Zenon, <1>1, <1>3 DEF Stream
  <2> QED BY Zenon, <1>2, <1>3, <1>4, <2>1
<1>8. e \in Places /\ \A i \in 1..k : v[i] \in Chunks /\ v[i][1] <= e[1]
  BY <1>1, <1>2, <1>3 DEF Stream
<1>9. Succ(n)[1] <= e[1]
  <2>1. CASE k = 0 BY <1>5, <1>6, <2>1, PlaceIs
  <2>2. CASE k # 0 BY Zenon, <1>3, <1>7, <1>8, <2>2
  <2> QED BY Zenon, <2>1, <2>2
<1>10. \A i, j \in 1..Len(v) : i < j => v[i][1] <= v[j][1]
  <2> SUFFICES ASSUME NEW i \in 1..k, NEW j \in 1..k, i < j PROVE v[i][1] <= v[j][1]
    BY Zenon, <1>2
  <2>1. i + 1 \in 1..(k + 1) /\ j + 1 \in 1..(k + 1) /\ i + 1 < j + 1 OBVIOUS
  <2>2. u[i + 1][1] <= u[j + 1][1] BY Zenon, <1>1, <2>1 DEF Stream
  <2> QED BY Zenon, <1>2, <2>2
<1>11. \A i \in 1..Len(v) : i + 1 \in 1..Len(v) => v[i + 1] = Succ(v[i])
  <2> SUFFICES ASSUME NEW i \in 1..k, i + 1 \in 1..k PROVE v[i + 1] = Succ(v[i])
    BY Zenon, <1>2
  <2>1. u[(i + 1) + 1] = Succ(u[i + 1]) BY Zenon, <1>1, <1>3 DEF Stream
  <2> QED BY Zenon, <1>2, <2>1
<1> HIDE DEF v
<1>12. v # <<>> => v[1] = Succ(n) /\ e = Succ(v[Len(v)])
  <2> SUFFICES ASSUME v # <<>> PROVE v[1] = Succ(n) /\ e = Succ(v[Len(v)]) BY Zenon
  <2>1. k # 0 BY Zenon, <1>6
  <2>2. v[k] = u[k + 1] BY Zenon, <1>2, <1>3, <2>1
  <2>3. e = Succ(u[Len(u)]) BY Zenon DEF Stream
  <2> QED BY Zenon, <1>1, <1>2, <1>7, <2>1, <2>2, <2>3
<1>13. v = <<>> => e = Succ(n) BY Zenon, <1>2, <1>6
<1>14. Stream(v, Succ(n), e)
  BY Zenon, <1>2, <1>5, <1>8, <1>9, <1>10, <1>11, <1>12, <1>13 DEF Stream
<1> QED BY Zenon, <1>2, <1>4, <1>9, <1>14 DEF v

\* A connection that breaks loses a suffix of what is under way.
LEMMA StreamCut ==
  ASSUME Link!SenderAssumption, NEW u, NEW n, NEW e, Stream(u, n, e), NEW k \in 0..Len(u)
  PROVE  \E f : f[1] <= e[1] /\ Stream(SubSeq(u, 1, k), n, f)
<1> DEFINE v == SubSeq(u, 1, k)
<1>1. PICK l \in Nat : l = Len(u) BY DEF Stream
<1>2. k \in 0..l BY Zenon, <1>1
<1>3. /\ u \in Seq(Chunks) /\ v \in Seq(Chunks) /\ Len(v) = k /\ \A i \in 1..k : v[i] = u[i]
  BY <1>1, <1>2 DEF Stream
<1>4. /\ \A i \in 1..k : i \in 1..l
      /\ k # 0 => 1 \in 1..k /\ k \in 1..k /\ l # 0
  BY <1>2
<1>5. /\ \A i \in 1..Len(v) : i + 1 \in 1..Len(v) => v[i + 1] = Succ(v[i])
      /\ \A i, j \in 1..Len(v) : i < j => v[i][1] <= v[j][1]
  BY Zenon, <1>1, <1>3, <1>4 DEF Stream
<1>6. n \in Places /\ e \in Places /\ n[1] <= e[1] /\ n[1] \in Nat /\ e[1] \in Nat
  BY Zenon, PlaceIs DEF Stream
<1>7. CASE k = 0
  <2>1. v = <<>> BY <1>3, <1>7
  <2>2. Stream(v, n, n) BY <1>3, <1>5, <1>6, <1>7, <2>1 DEF Stream
  <2> QED BY Zenon, <1>6, <2>2
<1>8. CASE k # 0
  <2>1. u # <<>> /\ v # <<>> BY <1>1, <1>3, <1>4, <1>8
  <2>2. v[1] = n BY Zenon, <1>3, <1>4, <1>8, <2>1 DEF Stream
  <2>3. u[k] \in Chunks /\ Succ(u[k]) \in Places /\ u[k][1] <= Succ(u[k])[1]
        /\ u[k][1] \in Nat /\ Succ(u[k])[1] \in Nat
    BY <1>1, <1>3, <1>4, <1>8, SuccIs, ChunkIs, PlaceIs
  <2>4. Succ(u[k])[1] <= e[1]
    <3>1. CASE k = l BY <1>1, <1>6, <2>1, <3>1 DEF Stream
    <3>2. CASE k # l
      <4>1. k \in 1..l /\ k + 1 \in 1..l BY <1>2, <1>8, <3>2
      <4>2. u[k + 1] = Succ(u[k]) /\ u[k + 1][1] <= e[1] BY Zenon, <1>1, <4>1 DEF Stream
      <4> QED BY Zenon, <4>2
    <3> QED BY Zenon, <3>1, <3>2
  <2>5. \A i \in 1..k : v[i][1] <= u[k][1] /\ v[i][1] \in Nat
    <3> SUFFICES ASSUME NEW i \in 1..k PROVE v[i][1] <= u[k][1] /\ v[i][1] \in Nat BY Zenon
    <3>1. u[i] \in Chunks /\ i \in 1..l /\ k \in 1..l BY <1>1, <1>3, <1>4, <1>8
    <3>2. i = k \/ i < k BY <1>2
    <3>3. u[i][1] \in Nat BY Zenon, <3>1, ChunkIs
    <3>4. i < k => u[i][1] <= u[k][1] BY Zenon, <1>1, <3>1 DEF Stream
    <3> QED BY <1>3, <2>3, <3>2, <3>3, <3>4
  <2>6. \A i \in 1..Len(v) : v[i][1] <= Succ(u[k])[1] BY <1>3, <2>3, <2>5
  <2>7. n[1] <= Succ(u[k])[1] BY <1>4, <1>8, <1>6, <2>2, <2>3, <2>5
  <2> HIDE DEF v
  <2>8. Succ(u[k]) = Succ(v[Len(v)]) BY Zenon, <1>3, <1>4, <1>8
  <2>9. Stream(v, n, Succ(u[k]))
    BY Zenon, <1>3, <1>5, <1>6, <2>1, <2>2, <2>3, <2>6, <2>7, <2>8 DEF Stream
  <2> QED BY Zenon, <2>4, <2>9 DEF v
<1> QED BY Zenon, <1>7, <1>8

\* Session::OnRead: the chunk at the place of the Session is read.
Reading(s, x) == Append(s.buffer, x)
AfterRead(s, x) ==
  IF Len(Reading(s, x)) < s.need THEN [s EXCEPT !.buffer = Reading(s, x)]
  ELSE IF s.status = 1 THEN Link!NewSession
       ELSE [status |-> 1, need |-> Link!DataSize(Reading(s, x)), buffer |-> <<>>]
Delivers(s, x) == Len(Reading(s, x)) >= s.need /\ s.status = 1

LEMMA SessionReads ==
  ASSUME Link!SenderAssumption, NEW n \in Chunks, NEW s, Reads(s, n)
  PROVE  /\ Reads(AfterRead(s, n), Succ(n))
         /\ Delivers(s, n) => n[2] = Total(n[1]) /\ Reading(s, n) = Link!Body(n[1])
<1>1. PICK m \in Nat \ {0}, k \in Nat, z \in Nat \ {0}, h \in Nat \ {0} :
        m = n[1] /\ k = n[2] /\ z = Size[m] /\ h = HeaderSize
  BY ChunkIs DEF Link!SenderAssumption
<1>2. /\ k \in 1..(h + z) /\ Total(m) = h + z /\ m \in Link!Messages /\ n = <<m, k>>
  BY Zenon, <1>1, ChunkIs DEF Total
<1>3. /\ Succ(n) \in Places
      /\ k < h + z => Succ(n)[1] = m /\ Succ(n)[2] = k + 1
      /\ k = h + z => Succ(n)[1] = m + 1 /\ Succ(n)[2] = 1
  BY Zenon, <1>1, <1>2, SuccIs
<1>4. /\ s \in SessionRecord /\ s.buffer \in Seq(Chunks) BY Zenon DEF Reads, SessionRecord
<1>5. PICK b \in Seq(Chunks) : b = Append(s.buffer, n)
  <2>1. \A q \in Seq(Chunks) : Append(q, n) \in Seq(Chunks) OBVIOUS
  <2> QED BY Zenon, <1>4, <2>1
<1>6. CASE k <= h
  <2>1. /\ s.status = 0 /\ s.need = h /\ Len(s.buffer) = k - 1
        /\ \A j \in 1..(k - 1) : s.buffer[j] = <<m, j>>
    BY Zenon, <1>1, <1>6 DEF Reads
  <2>2. Len(b) = k /\ b[k] = <<m, k>> /\ \A j \in 1..(k - 1) : b[j] = s.buffer[j]
    BY <1>2, <1>5, <1>4, <2>1
  <2>3. \A j \in 1..k : b[j] = <<m, j>> BY <2>1, <2>2
  <2>4. ~Delivers(s, n) BY <2>1 DEF Delivers
  <2>5. CASE k < h
    <3>1. AfterRead(s, n) = [s EXCEPT !.buffer = b] BY Zenon, <1>5, <2>1, <2>2, <2>5 DEF AfterRead, Reading
    <3>2. PICK r \in SessionRecord : r = [s EXCEPT !.buffer = b]
      BY Zenon, <1>5, <1>4 DEF SessionRecord
    <3>3. r.status = 0 /\ r.need = h /\ r.buffer = b BY Zenon, <1>4, <2>1, <3>2 DEF SessionRecord
    <3>4. Succ(n)[1] = m /\ Succ(n)[2] = k + 1 /\ k + 1 <= h /\ (k + 1) - 1 = k
      BY <1>2, <1>3, <2>5
    <3>5. Reads(r, Succ(n)) BY <1>1, <2>2, <2>3, <3>2, <3>3, <3>4 DEF Reads
    <3> QED BY Zenon, <2>4, <3>1, <3>2, <3>5
  <2>6. CASE k = h
    <3>1. Link!DataSize(b) = z
      <4>1. 1 \in 1..k BY <1>2
      <4>2. b[1] = <<m, 1>> BY Zenon, <2>3, <4>1
      <4> QED BY <1>1, <4>2 DEF Link!DataSize
    <3>2. AfterRead(s, n) = [status |-> 1, need |-> z, buffer |-> <<>>]
      BY <1>5, <2>1, <2>2, <2>6, <3>1 DEF AfterRead, Reading
    <3>3. PICK r : r = [status |-> 1, need |-> z, buffer |-> <<>>] BY Zenon
    <3>4. r \in SessionRecord /\ r.status = 1 /\ r.need = z /\ r.buffer = <<>>
      BY <3>3 DEF SessionRecord
    <3>5. /\ Succ(n)[1] = m /\ Succ(n)[2] = h + 1 /\ ~(h + 1 <= h) /\ h + 1 > h
          /\ (h + 1) - 1 - h = 0
      BY <1>2, <1>3, <2>6
    <3>6. Len(r.buffer) = 0 /\ \A j \in 1..Len(r.buffer) : FALSE BY <3>4
    <3>7. Reads(r, Succ(n)) BY Zenon, <1>1, <3>4, <3>5, <3>6 DEF Reads
    <3> QED BY Zenon, <2>4, <3>2, <3>3, <3>7
  <2> QED BY <1>2, <1>6, <2>5, <2>6
<1>7. CASE k > h
  <2>1. /\ s.status = 1 /\ s.need = z /\ Len(s.buffer) = k - 1 - h
        /\ \A j \in 1..(k - 1 - h) : s.buffer[j] = <<m, h + j>>
    BY Zenon, <1>1, <1>7 DEF Reads
  <2>2. PICK l \in Nat : l + 1 = k - h BY <1>2, <1>7
  <2>3. k - 1 - h = l /\ h + (l + 1) = k BY <1>2, <2>2
  <2>4. Len(b) = l + 1 /\ b[l + 1] = <<m, h + (l + 1)>> /\ \A j \in 1..l : b[j] = s.buffer[j]
    <3>1. PICK q \in Seq(Chunks) : q = s.buffer BY Zenon, <1>4
    <3>2. Len(q) = l /\ b = Append(q, n) BY Zenon, <1>5, <2>1, <2>3, <3>1
    <3>3. Len(b) = l + 1 /\ b[l + 1] = n /\ \A j \in 1..l : b[j] = q[j] BY <3>2
    <3> QED BY Zenon, <1>2, <2>3, <3>1, <3>3
  <2>5. \A j \in 1..(l + 1) : b[j] = <<m, h + j>>
    <3> SUFFICES ASSUME NEW j \in 1..(l + 1) PROVE b[j] = <<m, h + j>> BY Zenon
    <3>1. j \in 1..l \/ j = l + 1 BY <2>2
    <3> QED BY Zenon, <2>1, <2>3, <2>4, <3>1
  <2>6. CASE l + 1 < z
    <3>0. k < h + z BY <1>2, <2>3, <2>6
    <3>1. AfterRead(s, n) = [s EXCEPT !.buffer = b] BY Zenon, <1>5, <2>1, <2>4, <2>6 DEF AfterRead, Reading
    <3>2. PICK r \in SessionRecord : r = [s EXCEPT !.buffer = b]
      BY Zenon, <1>5, <1>4 DEF SessionRecord
    <3>3. r.status = 1 /\ r.need = z /\ r.buffer = b BY Zenon, <1>4, <2>1, <3>2 DEF SessionRecord
    <3>4. /\ Succ(n)[1] = m /\ Succ(n)[2] = k + 1 /\ ~(k + 1 <= h) /\ k + 1 > h
          /\ (k + 1) - 1 - h = l + 1
      BY <1>2, <1>3, <1>7, <2>3, <3>0
    <3>5. Reads(r, Succ(n)) BY Zenon, <1>1, <2>4, <2>5, <3>2, <3>3, <3>4 DEF Reads
    <3>6. ~Delivers(s, n) BY <1>5, <2>1, <2>4, <2>6 DEF Delivers, Reading
    <3> QED BY Zenon, <3>1, <3>2, <3>5, <3>6
  <2>7. CASE l + 1 >= z
    <3>1. l + 1 = z /\ k = h + z BY <1>2, <2>2, <2>3, <2>7
    <3>2. AfterRead(s, n) = Link!NewSession
      BY <1>5, <2>1, <2>4, <3>1 DEF AfterRead, Reading
    <3>3. PICK r : r = Link!NewSession BY Zenon
    <3>4. r \in SessionRecord /\ r.status = 0 /\ r.need = h /\ r.buffer = <<>>
      BY <1>1, <3>3 DEF SessionRecord, Link!NewSession
    <3>5. Succ(n)[2] = 1 /\ 1 <= h /\ ~(1 > h) /\ 1 - 1 = 0 BY <1>3, <3>1
    <3>6. Len(r.buffer) = 0 /\ \A j \in 1..Len(r.buffer) : FALSE BY <3>4
    <3>7. Reads(r, Succ(n)) BY Zenon, <1>1, <3>4, <3>5, <3>6 DEF Reads
    <3>8. b = [j \in 1..z |-> <<m, h + j>>]
      <4>1. Len(b) = z BY Zenon, <2>4, <3>1
      <4>3. \A q \in Seq(Chunks) : q = [j \in 1..Len(q) |-> q[j]] OBVIOUS
      <4>4. b = [j \in 1..Len(b) |-> b[j]] BY Zenon, <1>5, <4>3
      <4>2. \A j \in 1..z : b[j] = <<m, h + j>> BY Zenon, <2>5, <3>1
      <4> QED BY Zenon, <4>1, <4>2, <4>4
    <3>9. Reading(s, n) = Link!Body(m) BY Zenon, <1>1, <1>5, <3>8 DEF Reading, Link!Body
    <3> QED BY Zenon, <1>1, <1>2, <3>1, <3>2, <3>3, <3>7, <3>9
  <2> QED BY <2>6, <2>7, <2>2
<1> QED BY <1>2, <1>6, <1>7

-----------------------------------------------------------------------------
(* The connections *)

\* Element c of the sequence s is replaced.
Put(s, c, x) == [d \in 1..Len(s) |-> IF d = c THEN x ELSE s[d]]

\* The body of a message.
LEMMA BodyIs ==
  ASSUME Link!SenderAssumption, NEW y \in Link!Messages
  PROVE  /\ Link!Body(y) \in Seq(Chunks) /\ Link!Body(y)[1][1] = y /\ y \in Nat
<1>1. PICK z \in Nat \ {0}, h \in Nat \ {0} : z = Size[y] /\ h = HeaderSize
  BY DEF Link!SenderAssumption, Link!Messages
<1>2. y \in Nat BY DEF Link!SenderAssumption, Link!Messages
<1>3. Link!Body(y) = [k \in 1..z |-> <<y, h + k>>] BY Zenon, <1>1 DEF Link!Body
<1>4. Total(y) = h + z BY Zenon, <1>1 DEF Total
<1>5. \A k \in 1..z : h + k \in Nat /\ h + k \in 1..(h + z) BY <1>1
<1>6. \A k \in 1..z : <<y, h + k>> \in Chunks BY Zenon, <1>4, <1>5 DEF Chunks
<1>7. PICK b : b = Link!Body(y) BY Zenon
<1>8. b \in [1..z -> Chunks] BY Zenon, <1>3, <1>6, <1>7
<1>9. b \in Seq(Chunks) BY <1>1, <1>8
<1>10. 1 \in 1..z OBVIOUS
<1>11. b[1] = <<y, h + 1>> BY Zenon, <1>3, <1>7, <1>10
<1> QED BY <1>2, <1>7, <1>9, <1>11

\* A whole message is received.
LEMMA RecAppend ==
  ASSUME Link!SenderAssumption, NEW R, NEW N \in Nat, NEW n, NEW e, Rec(R, N, n, e),
         NEW c \in 1..N, NEW y \in Link!Messages, y < n[c][1],
         \A b \in 1..N : b < c => e[b][1] <= y,
         \A i \in 1..Len(R) : R[i].conn = c => MessageOf(R[i]) < y
  PROVE  Rec(Append(R, [conn |-> c, data |-> Link!Body(y)]), N, n, e)
<1> DEFINE rec == [conn : 1..N, data : Seq(Chunks)]
<1>1. PICK r : r = [conn |-> c, data |-> Link!Body(y)] BY Zenon
<1>2. r.conn = c /\ r.data = Link!Body(y) BY Zenon, <1>1
<1>3. MessageOf(r) = y BY Zenon, <1>2, BodyIs DEF MessageOf
<1>4. r \in rec BY Zenon, <1>1, BodyIs
<1>5. R \in Seq(rec) BY Zenon DEF Rec
<1> HIDE DEF rec
<1>6. PICK k \in Nat : k = Len(R) BY <1>5
<1>7. PICK Q : Q = Append(R, r) BY Zenon
<1>8. /\ Q \in Seq(rec) /\ Len(Q) = k + 1 /\ Q[k + 1] = r /\ \A i \in 1..k : Q[i] = R[i]
  BY <1>4, <1>5, <1>6, <1>7
<1>9. \A i \in 1..(k + 1) : i \in 1..k \/ i = k + 1 BY <1>6
<1>10. \A i \in 1..(k + 1) :
       /\ MessageOf(Q[i]) \in Link!Messages /\ Q[i].data = Link!Body(MessageOf(Q[i]))
       /\ MessageOf(Q[i]) < n[Q[i].conn][1]
       /\ \A b \in 1..N : b < Q[i].conn => e[b][1] <= MessageOf(Q[i])
  <2> SUFFICES ASSUME NEW i \in 1..(k + 1)
               PROVE  /\ MessageOf(Q[i]) \in Link!Messages
                      /\ Q[i].data = Link!Body(MessageOf(Q[i]))
                      /\ MessageOf(Q[i]) < n[Q[i].conn][1]
                      /\ \A b \in 1..N : b < Q[i].conn => e[b][1] <= MessageOf(Q[i])
    BY Zenon
  <2>1. CASE i \in 1..k
    <3>1. Q[i] = R[i] /\ i \in 1..Len(R) BY Zenon, <1>6, <1>8, <2>1
    <3> QED BY <3>1, Zenon DEF Rec
  <2>2. CASE i = k + 1
    <3>1. Q[i] = r BY Zenon, <1>8, <2>2
    <3> QED BY Zenon, <1>2, <1>3, <3>1
  <2> QED BY Zenon, <1>9, <2>1, <2>2
<1>11. \A i, j \in 1..(k + 1) :
         i < j /\ Q[i].conn = Q[j].conn => MessageOf(Q[i]) < MessageOf(Q[j])
  <2> SUFFICES ASSUME NEW i \in 1..(k + 1), NEW j \in 1..(k + 1), i < j, Q[i].conn = Q[j].conn
               PROVE  MessageOf(Q[i]) < MessageOf(Q[j])
    BY Zenon
  <2>1. i \in 1..k /\ (j \in 1..k \/ j = k + 1) BY <1>6
  <2>2. Q[i] = R[i] /\ i \in 1..Len(R) BY Zenon, <1>6, <1>8, <2>1
  <2>3. CASE j \in 1..k
    <3>1. Q[j] = R[j] /\ j \in 1..Len(R) BY Zenon, <1>6, <1>8, <2>3
    <3> QED BY Zenon, <2>2, <3>1 DEF Rec
  <2>4. CASE j = k + 1
    <3>1. Q[j] = r BY Zenon, <1>8, <2>4
    <3>2. R[i].conn = c BY Zenon, <1>2, <2>2, <3>1
    <3> QED BY Zenon, <1>3, <2>2, <3>1, <3>2
  <2> QED BY Zenon, <2>1, <2>3, <2>4
<1> USE DEF rec
<1>12. Rec(Q, N, n, e) BY Zenon, <1>8, <1>10, <1>11 DEF Rec
<1> QED BY Zenon, <1>1, <1>7, <1>12

\* The session reads a chunk of connection c.
ReadStep(C, S, R, c, D, T, Q) ==
  /\ D = Put(C, c, [under_way |-> Tail(C[c].under_way), broken |-> C[c].broken])
  /\ T = Put(S, c, AfterRead(S[c], Head(C[c].under_way)))
  /\ Q = IF Delivers(S[c], Head(C[c].under_way))
         THEN Append(R, [conn |-> c, data |-> Reading(S[c], Head(C[c].under_way))])
         ELSE R
LEMMA NetRead ==
  ASSUME Link!SenderAssumption, NEW C, NEW S, NEW w, NEW n, NEW e, NEW R,
         Net(C, S, w, n, e), Rec(R, Len(C), n, e),
         NEW c \in 1..Len(C), C[c].under_way # <<>>,
         NEW D, NEW T, NEW Q, ReadStep(C, S, R, c, D, T, Q)
  PROVE  \E m : Net(D, T, w, m, e) /\ Rec(Q, Len(D), m, e)
<1>1. PICK N \in Nat : N = Len(C) BY DEF Net
<1>2. PICK u, x : u = C[c].under_way /\ x = n[c] BY Zenon
<1>3. Stream(u, x, e[c]) /\ Reads(S[c], x) BY Zenon, <1>2 DEF Net
<1>4. /\ x \in Chunks /\ Head(u) = x /\ Succ(x)[1] <= e[c][1] /\ Stream(Tail(u), Succ(x), e[c])
  BY Zenon, <1>2, <1>3, StreamTail
<1>5. /\ Reads(AfterRead(S[c], x), Succ(x))
      /\ Delivers(S[c], x) => x[2] = Total(x[1]) /\ Reading(S[c], x) = Link!Body(x[1])
  BY Zenon, <1>3, <1>4, SessionReads
<1>6. PICK m : m = [d \in 1..N |-> IF d = c THEN Succ(x) ELSE n[d]] BY Zenon
<1>7. /\ C \in Seq(ConnRecord) /\ C[c] \in ConnRecord /\ Tail(u) \in Seq(Chunks)
      /\ S \in Seq(SessionRecord) /\ Len(S) = N /\ AfterRead(S[c], x) \in SessionRecord
  BY <1>1, <1>4, <1>5 DEF Net, Stream, Reads
<1>8. PICK r : r = [under_way |-> Tail(u), broken |-> C[c].broken] BY Zenon
<1>9. r \in ConnRecord /\ r.under_way = Tail(u) /\ r.broken = C[c].broken
  BY Zenon, <1>7, <1>8 DEF ConnRecord
<1>10. D = Put(C, c, r) /\ T = Put(S, c, AfterRead(S[c], x)) BY Zenon, <1>2, <1>4, <1>8 DEF ReadStep
<1>11. /\ D \in Seq(ConnRecord) /\ Len(D) = N
       /\ D[c].under_way = Tail(u) /\ D[c].broken = C[c].broken
       /\ \A d \in 1..N : d # c => D[d] = C[d]
  <2>1. D \in Seq(ConnRecord) /\ Len(D) = Len(C) /\ D[c] = r
    BY <1>7, <1>9, <1>10 DEF Put
  <2>2. \A d \in 1..Len(C) : d # c => D[d] = C[d]
    BY Zenon, <1>7, <1>9, <1>10 DEF Put
  <2> QED BY Zenon, <1>1, <1>9, <2>1, <2>2
<1>12. /\ T \in Seq(SessionRecord) /\ Len(T) = N /\ T[c] = AfterRead(S[c], x)
       /\ \A d \in 1..N : d # c => T[d] = S[d]
  <2>1. PICK y \in SessionRecord : y = AfterRead(S[c], x) BY Zenon, <1>7
  <2>2. c \in 1..Len(S) BY Zenon, <1>1, <1>7
  <2>3. T \in Seq(SessionRecord) /\ Len(T) = Len(S) /\ T[c] = y
    BY <1>7, <1>10, <2>1, <2>2 DEF Put
  <2>4. \A d \in 1..Len(S) : d # c => T[d] = S[d]
    BY Zenon, <1>7, <1>10, <2>1, <2>2 DEF Put
  <2> QED BY Zenon, <1>7, <2>1, <2>3, <2>4
<1>13. /\ m[c] = Succ(x) /\ \A d \in 1..N : d # c => m[d] = n[d] BY Zenon, <1>1, <1>6
<1>14. /\ x[1] <= Succ(x)[1] /\ x[1] \in Nat /\ Succ(x)[1] \in Nat
       /\ x[2] = Total(x[1]) => x[1] < Succ(x)[1]
  BY <1>4, ChunkIs, SuccIs, PlaceIs
<1>15. \A d \in 1..N : n[d][1] \in Nat /\ e[d][1] \in Nat /\ n[d][1] <= m[d][1] /\ m[d][1] \in Nat
  <2> SUFFICES ASSUME NEW d \in 1..N
               PROVE  n[d][1] \in Nat /\ e[d][1] \in Nat /\ n[d][1] <= m[d][1] /\ m[d][1] \in Nat
    BY Zenon
  <2>1. n[d] \in Places /\ e[d] \in Places BY Zenon, <1>1 DEF Net, Stream
  <2>2. n[d][1] \in Nat /\ e[d][1] \in Nat BY Zenon, <2>1, PlaceIs
  <2> QED BY <1>2, <1>13, <1>14, <2>2
<1>16. Net(D, T, w, m, e)
  <2>1. \A d \in 1..N : Stream(D[d].under_way, m[d], e[d]) /\ Reads(T[d], m[d]) /\ e[d][1] <= w[1]
    BY Zenon, <1>1, <1>4, <1>5, <1>11, <1>12, <1>13 DEF Net
  <2>2. D # <<>> /\ ~D[N].broken => e[N] = w
    <3>1. C # <<>> /\ N \in 1..N BY <1>1, <1>7
    <3>2. D[N].broken = C[N].broken BY <1>11, <3>1, Zenon
    <3> QED BY Zenon, <1>1, <3>1, <3>2 DEF Net
  <2>3. \A b, d \in 1..N : b < d => e[b][1] <= m[d][1]
    <3> SUFFICES ASSUME NEW b \in 1..N, NEW d \in 1..N, b < d PROVE e[b][1] <= m[d][1] BY Zenon
    <3>1. e[b][1] <= n[d][1] BY Zenon, <1>1 DEF Net
    <3> QED BY <1>15, <3>1
  <2>4. w \in Places BY Zenon DEF Net
  <2> QED BY Zenon, <1>11, <1>12, <2>1, <2>2, <2>3, <2>4 DEF Net
<1>17. Rec(R, N, m, e)
  <2>1. \A i \in 1..Len(R) : MessageOf(R[i]) < m[R[i].conn][1]
    <3> SUFFICES ASSUME NEW i \in 1..Len(R) PROVE MessageOf(R[i]) < m[R[i].conn][1] BY Zenon
    <3>0. R[i] \in [conn : 1..N, data : Seq(Chunks)] /\ MessageOf(R[i]) \in Link!Messages
      <4> DEFINE X == [conn : 1..N, data : Seq(Chunks)]
      <4>1. R \in Seq(X) BY Zenon, <1>1 DEF Rec
      <4> HIDE DEF X
      <4>2. R[i] \in X BY <4>1
      <4> USE DEF X
      <4>3. MessageOf(R[i]) \in Link!Messages BY <1>1, Zenon DEF Rec
      <4> QED BY Zenon, <4>2, <4>3
    <3>1. PICK d \in 1..N : d = R[i].conn BY Zenon, <3>0
    <3>2. PICK a \in Nat : a = MessageOf(R[i]) BY Zenon, <3>0, BodyIs
    <3>3. a < n[d][1] BY Zenon, <3>1, <3>2 DEF Rec
    <3>4. a < m[d][1] BY SMTT(30), <1>15, <3>3
    <3> QED BY Zenon, <3>1, <3>2, <3>4
  <2> QED BY Zenon, <1>1, <2>1 DEF Rec
<1>18. CASE ~Delivers(S[c], x) BY Zenon, <1>2, <1>4, <1>11, <1>16, <1>17, <1>18 DEF ReadStep
<1>19. CASE Delivers(S[c], x)
  <2>1. PICK r2 : r2 = [conn |-> c, data |-> Link!Body(x[1])] BY Zenon
  <2>2. Q = Append(R, r2) BY Zenon, <1>2, <1>4, <1>5, <1>19, <2>1 DEF ReadStep
  <2>3. x[1] < m[c][1] BY Zenon, <1>5, <1>13, <1>14, <1>19
  <2>4. \A b \in 1..N : b < c => e[b][1] <= x[1] BY Zenon, <1>1, <1>2 DEF Net
  <2>5. \A i \in 1..Len(R) : R[i].conn = c => MessageOf(R[i]) < x[1] BY Zenon, <1>2 DEF Rec
  <2>6. x[1] \in Link!Messages BY Zenon, <1>4, ChunkIs
  <2>7. Rec(Q, N, m, e) BY Zenon, <1>1, <1>17, <2>1, <2>2, <2>3, <2>4, <2>5, <2>6, RecAppend
  <2> QED BY Zenon, <1>11, <1>16, <2>7
<1> QED BY Zenon, <1>18, <1>19

\* What the sender does not put on a connection moves its place only.
LEMMA NetMoves ==
  ASSUME Link!SenderAssumption, NEW C, NEW S, NEW w, NEW n, NEW e, Net(C, S, w, n, e),
         C = <<>> \/ C[Len(C)].broken, NEW y \in Places, w[1] <= y[1]
  PROVE  Net(C, S, y, n, e)
<1>1. w[1] \in Nat /\ y[1] \in Nat BY Zenon, PlaceIs DEF Net
<1>2. \A c \in 1..Len(C) : e[c][1] <= y[1]
  <2> SUFFICES ASSUME NEW c \in 1..Len(C) PROVE e[c][1] <= y[1] BY Zenon
  <2>1. e[c] \in Places /\ e[c][1] <= w[1] BY Zenon DEF Net, Stream
  <2>2. e[c][1] \in Nat BY Zenon, <2>1, PlaceIs
  <2> QED BY <1>1, <2>1, <2>2
<1> QED BY <1>2, Zenon DEF Net

\* The last connection changes at its end: it takes a chunk, or it breaks.
LEMMA NetLast ==
  ASSUME Link!SenderAssumption, NEW C, NEW S, NEW w, NEW n, NEW e, NEW R,
         Net(C, S, w, n, e), Rec(R, Len(C), n, e), C # <<>>,
         NEW v, NEW b \in BOOLEAN, NEW x, NEW y \in Places, Stream(v, n[Len(C)], x),
         w[1] <= y[1], x[1] <= y[1], ~b => x = y,
         NEW D, D = Put(C, Len(C), [under_way |-> v, broken |-> b])
  PROVE  \E f : Net(D, S, y, n, f) /\ Rec(R, Len(D), n, f)
<1>1. PICK N \in Nat : N = Len(C) BY DEF Net
<1>2. C \in Seq(ConnRecord) /\ N \in 1..N BY <1>1 DEF Net
<1>3. PICK r : r = [under_way |-> v, broken |-> b] BY Zenon
<1>4. r \in ConnRecord /\ r.under_way = v /\ r.broken = b BY Zenon, <1>3 DEF ConnRecord, Stream
<1>5. D = Put(C, N, r) BY Zenon, <1>1, <1>3
<1>6. D \in Seq(ConnRecord) /\ Len(D) = N /\ D[N] = r /\ \A d \in 1..N : d # N => D[d] = C[d]
  BY <1>1, <1>2, <1>4, <1>5 DEF Put
<1>7. PICK f : f = [d \in 1..N |-> IF d = N THEN x ELSE e[d]] BY Zenon
<1>8. f[N] = x /\ \A d \in 1..N : d # N => f[d] = e[d] BY Zenon, <1>2, <1>7
<1>9. w[1] \in Nat /\ y[1] \in Nat BY Zenon, PlaceIs DEF Net
<1>10. Net(D, S, y, n, f)
  <2>1. ASSUME NEW d \in 1..N
        PROVE  Stream(D[d].under_way, n[d], f[d]) /\ Reads(S[d], n[d]) /\ f[d][1] <= y[1]
    <3>1. Reads(S[d], n[d]) BY Zenon, <1>1 DEF Net
    <3>2. CASE d = N BY <1>1, <1>4, <1>6, <1>8, <3>1, <3>2, Zenon
    <3>3. CASE d # N
      <4>1. D[d] = C[d] /\ f[d] = e[d] BY Zenon, <1>6, <1>8, <3>3
      <4>2. Stream(C[d].under_way, n[d], e[d]) /\ e[d][1] <= w[1] BY Zenon, <1>1 DEF Net
      <4>3. e[d][1] \in Nat BY Zenon, <4>2, PlaceIs DEF Stream
      <4>4. e[d][1] <= y[1] BY <1>9, <4>2, <4>3
      <4> QED BY <3>1, <4>1, <4>2, <4>4, Zenon
    <3> QED BY Zenon, <3>2, <3>3
  <2>2. ~D[N].broken => f[N] = y BY <1>4, <1>6, <1>8, Zenon
  <2>3. ASSUME NEW c \in 1..N, NEW d \in 1..N, c < d PROVE f[c][1] <= n[d][1]
    <3>1. c # N BY <1>1, <2>3
    <3>2. f[c] = e[c] BY Zenon, <1>8, <3>1
    <3> QED BY Zenon, <1>1, <2>3, <3>2 DEF Net
  <2>4. S \in Seq(SessionRecord) /\ Len(S) = N BY Zenon, <1>1 DEF Net
  <2> QED BY <1>6, <2>1, <2>2, <2>3, <2>4, Zenon DEF Net
<1>11. Rec(R, N, n, f)
  <2>1. ASSUME NEW i \in 1..Len(R), NEW c \in 1..N, c < R[i].conn PROVE f[c][1] <= MessageOf(R[i])
    <3>1. R[i].conn \in 1..N
      <4> DEFINE X == [conn : 1..N, data : Seq(Chunks)]
      <4>1. R \in Seq(X) BY Zenon, <1>1 DEF Rec
      <4> HIDE DEF X
      <4>2. R[i] \in X BY <4>1
      <4> USE DEF X
      <4> QED BY Zenon, <4>2
    <3>2. c # N BY <1>1, <2>1, <3>1
    <3>3. f[c] = e[c] BY Zenon, <1>8, <3>2
    <3> QED BY Zenon, <1>1, <2>1, <3>3 DEF Rec
  <2> QED BY Zenon, <1>1, <2>1 DEF Rec
<1> QED BY Zenon, <1>6, <1>10, <1>11

\* A new connection starts with the message that is being written.
Connects(C, S, D, T) ==
  /\ D = Append(C, [under_way |-> <<>>, broken |-> FALSE])
  /\ T = Append(S, Link!NewSession)
LEMMA NetConnect ==
  ASSUME Link!SenderAssumption, NEW C, NEW S, NEW w, NEW n, NEW e, NEW R,
         Net(C, S, w, n, e), Rec(R, Len(C), n, e),
         NEW y \in Places, y[1] = w[1], y[2] = 1,
         NEW D, NEW T, Connects(C, S, D, T)
  PROVE  \E m, f : Net(D, T, y, m, f) /\ Rec(R, Len(D), m, f)
<1>1. PICK N \in Nat : N = Len(C) BY DEF Net
<1>2. /\ C \in Seq(ConnRecord) /\ S \in Seq(SessionRecord) /\ Len(S) = N BY Zenon, <1>1 DEF Net
<1>3. PICK r : r = [under_way |-> <<>>, broken |-> FALSE] BY Zenon
<1>4. PICK s : s = Link!NewSession BY Zenon
<1>5. /\ r \in ConnRecord /\ r.under_way = <<>> /\ r.broken = FALSE
  <2>1. <<>> \in Seq(Chunks) OBVIOUS
  <2> QED BY Zenon, <1>3, <2>1 DEF ConnRecord
<1>6. /\ s \in SessionRecord /\ s.status = 0 /\ s.need = HeaderSize /\ s.buffer = <<>>
  <2>1. <<>> \in Seq(Chunks) OBVIOUS
  <2> QED BY Zenon, <1>4, <2>1 DEF SessionRecord, Link!NewSession, Link!SenderAssumption
<1>7. /\ D \in Seq(ConnRecord) /\ Len(D) = N + 1 /\ D[N + 1] = r
      /\ \A d \in 1..N : D[d] = C[d]
  BY <1>1, <1>2, <1>3, <1>5 DEF Connects
<1>8. /\ T \in Seq(SessionRecord) /\ Len(T) = N + 1 /\ T[N + 1] = s
      /\ \A d \in 1..N : T[d] = S[d]
  BY <1>2, <1>4, <1>6 DEF Connects
<1>9. PICK m, f : /\ m = [d \in 1..(N + 1) |-> IF d = N + 1 THEN y ELSE n[d]]
                  /\ f = [d \in 1..(N + 1) |-> IF d = N + 1 THEN y ELSE e[d]]
  BY Zenon
<1>10. /\ \A d \in 1..N : d \in 1..(N + 1) /\ d # N + 1
       /\ N + 1 \in 1..(N + 1) /\ \A d \in 1..(N + 1) : d \in 1..N \/ d = N + 1
  OBVIOUS
<1>11. /\ m[N + 1] = y /\ f[N + 1] = y /\ \A d \in 1..N : m[d] = n[d] /\ f[d] = e[d]
  BY Zenon, <1>9, <1>10
<1>12. Stream(<<>>, y, y)
  <2>1. y[1] \in Nat BY Zenon, PlaceIs
  <2>2. <<>> \in Seq(Chunks) /\ Len(<<>>) = 0 OBVIOUS
  <2> QED BY <2>1, <2>2 DEF Stream
<1>13. Reads(s, y)
  <2>1. HeaderSize \in Nat \ {0} BY Zenon DEF Link!SenderAssumption
  <2>2. ~(y[2] > HeaderSize) /\ y[2] - 1 = 0 BY <2>1
  <2>3. Len(s.buffer) = 0 BY Zenon, <1>6
  <2> QED BY <1>6, <2>2, <2>3 DEF Reads
<1>14. \A d \in 1..N : /\ Stream(C[d].under_way, n[d], e[d]) /\ Reads(S[d], n[d])
                       /\ e[d][1] <= y[1]
  BY Zenon, <1>1 DEF Net
<1>15. \A d \in 1..(N + 1) : /\ Stream(D[d].under_way, m[d], f[d]) /\ Reads(T[d], m[d])
                             /\ f[d][1] <= y[1]
  <2> SUFFICES ASSUME NEW d \in 1..(N + 1)
               PROVE  /\ Stream(D[d].under_way, m[d], f[d]) /\ Reads(T[d], m[d])
                      /\ f[d][1] <= y[1]
    BY Zenon
  <2>1. CASE d \in 1..N BY <1>7, <1>8, <1>11, <1>14, <2>1, Zenon
  <2>2. CASE d = N + 1
    <3>1. y[1] <= y[1] BY PlaceIs
    <3> QED BY <1>5, <1>7, <1>8, <1>11, <1>12, <1>13, <2>2, <3>1, Zenon
  <2> QED BY Zenon, <1>10, <2>1, <2>2
<1>16. ASSUME NEW c \in 1..(N + 1), NEW d \in 1..(N + 1), c < d PROVE f[c][1] <= m[d][1]
  <2>1. c \in 1..N BY <1>16
  <2>2. f[c] = e[c] BY Zenon, <1>11, <2>1
  <2>3. CASE d \in 1..N
    <3>1. e[c][1] <= n[d][1] BY Zenon, <1>1, <1>16, <2>1, <2>3 DEF Net
    <3> QED BY <1>11, <2>2, <2>3, <3>1, Zenon
  <2>4. CASE d = N + 1 BY <1>11, <1>14, <2>1, <2>2, <2>4, Zenon
  <2> QED BY Zenon, <1>10, <2>3, <2>4
<1>17. ~D[N + 1].broken => f[N + 1] = y BY <1>11, Zenon
<1>18. Net(D, T, y, m, f) BY <1>7, <1>8, <1>15, <1>16, <1>17, Zenon DEF Net
<1>19. Rec(R, N + 1, m, f)
  <2> DEFINE X == [conn : 1..N, data : Seq(Chunks)]
             Y == [conn : 1..(N + 1), data : Seq(Chunks)]
  <2>1. R \in Seq(X) BY Zenon, <1>1 DEF Rec
  <2>2. \A z \in X : z \in Y /\ z.conn \in 1..N BY Zenon, <1>10
  <2> HIDE DEF X, Y
  <2>3. R \in Seq(Y) BY <2>1, <2>2
  <2>4. \A i \in 1..Len(R) : R[i] \in X BY SMTT(30), <2>1
  <2>5. \A i \in 1..Len(R) : R[i].conn \in 1..N BY Zenon, <2>2, <2>4
  <2>6. \A i \in 1..Len(R) : MessageOf(R[i]) < m[R[i].conn][1]
    BY Zenon, <1>1, <1>11, <2>5 DEF Rec
  <2>7. ASSUME NEW i \in 1..Len(R), NEW c \in 1..(N + 1), c < R[i].conn
        PROVE  f[c][1] <= MessageOf(R[i])
    <3>1. c \in 1..N BY <2>5, <2>7
    <3> QED BY Zenon, <1>1, <1>11, <2>7, <3>1 DEF Rec
  <2> USE DEF Y
  <2> QED BY Zenon, <1>1, <2>3, <2>6, <2>7 DEF Rec
<1> QED BY Zenon, <1>7, <1>18, <1>19

\* SendMessage adds the next number to it, and OnSendNewMessage takes the first.
LEMMA QueuePush ==
  ASSUME Link!SenderAssumption, NEW q, NEW p, Queued(q, p), p + 1 \in Link!Messages,
         NEW r, NEW s, r = Append(q, p + 1), s = p + 1
  PROVE  Queued(r, s) /\ s - Len(r) = p - Len(q)
<1>1. PICK l \in Nat, L \in Nat : l = Len(q) /\ L = Len(Size)
  BY DEF Queued, Link!SenderAssumption
<1>2. /\ p \in 0..L /\ q \in Seq(Link!Messages) /\ l <= p /\ \A i \in 1..l : q[i] = p - l + i
  BY Zenon, <1>1 DEF Queued
<1>3. p + 1 \in 1..L BY <1>1 DEF Link!SenderAssumption, Link!Messages
<1>5. /\ r \in Seq(Link!Messages) /\ Len(r) = l + 1 /\ r[l + 1] = p + 1
      /\ \A i \in 1..l : r[i] = q[i]
  BY <1>1, <1>2
<1>6. \A i \in 1..(l + 1) : i \in 1..l \/ i = l + 1 OBVIOUS
<1>7. \A i \in 1..(l + 1) : r[i] = p + 1 - (l + 1) + i
  <2>1. \A i \in Nat : p + 1 - (l + 1) + i = p - l + i BY <1>2
  <2>2. p - l + (l + 1) = p + 1 BY <1>2
  <2>3. \A i \in 1..l : r[i] = p - l + i BY <1>2, <1>5, Zenon
  <2>4. r[l + 1] = p - l + (l + 1) BY Zenon, <1>5, <2>2
  <2>5. \A i \in 1..(l + 1) : r[i] = p - l + i BY <1>6, <2>3, <2>4, Zenon
  <2>6. \A i \in 1..(l + 1) : i \in Nat OBVIOUS
  <2> QED BY <2>1, <2>5, <2>6, Zenon
<1>8. l + 1 <= p + 1 /\ p + 1 \in 0..L /\ p + 1 - (l + 1) = p - l BY <1>1, <1>2, <1>3
<1> QED BY <1>1, <1>5, <1>7, <1>8 DEF Queued

LEMMA QueuePop ==
  ASSUME Link!SenderAssumption, NEW q, NEW p, Queued(q, p), q # <<>>
  PROVE  /\ Queued(Tail(q), p) /\ Head(q) \in Link!Messages
         /\ Head(q) = p - Len(q) + 1 /\ Head(q) = p - Len(Tail(q))
<1>1. PICK l \in Nat, L \in Nat : l = Len(q) /\ L = Len(Size)
  BY DEF Queued, Link!SenderAssumption
<1>2. /\ p \in 0..L /\ q \in Seq(Link!Messages) /\ l <= p /\ \A i \in 1..l : q[i] = p - l + i
  BY Zenon, <1>1 DEF Queued
<1>3. l # 0 /\ 1 \in 1..l BY <1>1, <1>2
<1>4. PICK r : r = Tail(q) BY Zenon
<1>5. /\ r \in Seq(Link!Messages) /\ Len(r) = l - 1 /\ \A i \in 1..(l - 1) : r[i] = q[i + 1]
      /\ Head(q) = q[1]
  BY <1>1, <1>2, <1>3, <1>4
<1>6. \A i \in 1..(l - 1) : i + 1 \in 1..l /\ p - l + (i + 1) = p - (l - 1) + i
  BY <1>2
<1>7. \A i \in 1..(l - 1) : r[i] = p - (l - 1) + i BY Zenon, <1>2, <1>5, <1>6
<1>8. l - 1 <= p BY <1>2
<1>9. q[1] = p - l + 1 /\ q[1] \in Link!Messages BY <1>1, <1>2, <1>3
<1>10. p - l + 1 = p - (l - 1) BY SMTT(30), <1>2
<1> QED BY Zenon, <1>1, <1>2, <1>4, <1>5, <1>7, <1>8, <1>9, <1>10 DEF Queued

\* The part that is written.
PartOf(m, st) == IF st = 1 THEN Link!Header(m) ELSE Link!Body(m)

LEMMA PartIs ==
  ASSUME Link!SenderAssumption, NEW m, NEW st, NEW i, Sends(m, st, i)
  PROVE  /\ PlaceOf(m, st, i) \in Chunks /\ PartOf(m, st)[i + 1] = PlaceOf(m, st, i)
         /\ PlaceOf(m, st, i)[1] = m /\ m \in Nat \ {0}
         /\ i + 1 < Len(PartOf(m, st)) =>
              Sends(m, st, i + 1) /\ PlaceOf(m, st, i + 1) = Succ(PlaceOf(m, st, i))
         /\ i + 1 >= Len(PartOf(m, st)) /\ st = 1 =>
              Sends(m, 2, 0) /\ PlaceOf(m, 2, 0) = Succ(PlaceOf(m, st, i))
         /\ i + 1 >= Len(PartOf(m, st)) /\ st # 1 => <<m + 1, 1>> = Succ(PlaceOf(m, st, i))
         /\ Sends(m, 1, 0) /\ PlaceOf(m, 1, 0) = <<m, 1>>
<1>1. PICK z \in Nat \ {0}, h \in Nat \ {0} : z = Size[m] /\ h = HeaderSize
  BY DEF Sends, Link!SenderAssumption, Link!Messages
<1>2. m \in Nat \ {0} /\ m \in Link!Messages BY DEF Sends, Link!SenderAssumption, Link!Messages
<1>3. Total(m) = h + z BY Zenon, <1>1 DEF Total
<1>4. Sends(m, 1, 0) /\ PlaceOf(m, 1, 0) = <<m, 1>> BY <1>1, <1>2 DEF Sends, PlaceOf
<1>5. CASE st = 1
  <2>1. i \in Nat /\ i < h BY Zenon, <1>1, <1>5 DEF Sends
  <2>2. PartOf(m, st) = [k \in 1..h |-> <<m, k>>] BY Zenon, <1>1, <1>5 DEF PartOf, Link!Header
  <2>3. Len(PartOf(m, st)) = h BY <1>1, <2>2
  <2>4. PlaceOf(m, st, i) = <<m, i + 1>> BY <1>5, <2>1 DEF PlaceOf
  <2>5. i + 1 \in 1..h /\ i + 1 \in 1..(h + z) /\ i + 1 \in Nat /\ i + 1 < h + z BY <1>1, <2>1
  <2>6. PartOf(m, st)[i + 1] = <<m, i + 1>> BY Zenon, <2>2, <2>5
  <2>7. <<m, i + 1>> \in Chunks BY Zenon, <1>2, <1>3, <2>5 DEF Chunks
  <2>8. Succ(<<m, i + 1>>) = <<m, i + 1 + 1>> BY Zenon, <1>3, <2>5 DEF Succ
  <2>9. i + 1 < h => Sends(m, st, i + 1) /\ PlaceOf(m, st, i + 1) = <<m, i + 1 + 1>>
    BY <1>1, <1>2, <1>5, <2>1 DEF Sends, PlaceOf
  <2>10. Sends(m, 2, 0) /\ PlaceOf(m, 2, 0) = <<m, 1 + h>> BY <1>1, <1>2 DEF Sends, PlaceOf
  <2>11. i + 1 >= h => 1 + h = i + 1 + 1 BY <1>1, <2>1
  <2> QED BY <1>2, <1>4, <1>5, <2>3, <2>4, <2>6, <2>7, <2>8, <2>9, <2>10, <2>11
<1>6. CASE st = 2
  <2>1. i \in Nat /\ i < z BY <1>1, <1>6 DEF Sends
  <2>2. PartOf(m, st) = [k \in 1..z |-> <<m, h + k>>] BY <1>1, <1>6 DEF PartOf, Link!Body
  <2>3. Len(PartOf(m, st)) = z BY <1>1, <2>2
  <2>4. PlaceOf(m, st, i) = <<m, i + 1 + h>> BY <1>1, <1>6, <2>1 DEF PlaceOf
  <2>5. i + 1 \in 1..z /\ i + 1 + h \in 1..(h + z) /\ i + 1 + h \in Nat /\ h + (i + 1) = i + 1 + h
    BY <1>1, <2>1
  <2>6. PartOf(m, st)[i + 1] = <<m, i + 1 + h>> BY Zenon, <2>2, <2>5
  <2>7. <<m, i + 1 + h>> \in Chunks BY Zenon, <1>2, <1>3, <2>5 DEF Chunks
  <2>8. i + 1 < z => i + 1 + h < h + z /\ (i + 1) + 1 + h = i + 1 + h + 1 /\ i + 1 \in Nat
    BY <1>1, <2>1
  <2>9. i + 1 < z => Succ(<<m, i + 1 + h>>) = <<m, (i + 1) + 1 + h>> BY Zenon, <1>3, <2>8 DEF Succ
  <2>10. i + 1 < z => Sends(m, st, i + 1) /\ PlaceOf(m, st, i + 1) = <<m, (i + 1) + 1 + h>>
    BY <1>1, <1>2, <1>6, <2>8 DEF Sends, PlaceOf
  <2>11. i + 1 >= z => ~(i + 1 + h < h + z) BY <1>1, <2>1
  <2>12. i + 1 >= z => Succ(<<m, i + 1 + h>>) = <<m + 1, 1>> BY Zenon, <1>3, <2>11 DEF Succ
  <2> QED BY <1>2, <1>4, <1>6, <2>3, <2>4, <2>6, <2>7, <2>9, <2>10, <2>12
<1> QED BY Zenon, <1>5, <1>6 DEF Sends

\* The steps of the sender that write nothing leave its place alone.
LEMMA SenderKeeps ==
  ASSUME Link!SenderAssumption, SenderInv,
         \/ Link!Push \/ Link!LoadInProcess \/ Link!Exchange
         \/ Link!PopMessage \/ Link!PopNothing \/ Link!ClearInProcess \/ Link!WriteError
  PROVE  SenderInv' /\ NextPlace' = NextPlace /\ UNCHANGED <<conns, session, received>>
<1>1. CASE Link!Push
  <2>1. /\ pushed' = pushed + 1 /\ queue' = Append(queue, pushed + 1)
        /\ pushed + 1 \in Link!Messages
        /\ UNCHANGED <<in_process, link_chain, pending, status, idx, conns, session, received>>
    BY Zenon, <1>1 DEF Link!Push, Link!sendVars, Link!netVars
  <2>2. Queued(queue', pushed') /\ pushed' - Len(queue') = pushed - Len(queue)
    <3>1. Queued(queue, pushed) BY Zenon DEF SenderInv
    <3>2. PICK r, s : r = queue' /\ s = pushed' BY Zenon
    <3>3. r = Append(queue, pushed + 1) /\ s = pushed + 1 BY Zenon, <2>1, <3>2
    <3>4. Queued(r, s) /\ s - Len(r) = pushed - Len(queue) BY <2>1, <3>1, <3>3, QueuePush, Zenon
    <3> QED BY Zenon, <3>2, <3>4
  <2> QED BY Zenon, <2>1, <2>2 DEF SenderInv, NextPlace, Writing
<1>2. CASE Link!LoadInProcess
  <2>1. UNCHANGED <<pushed, queue, in_process, link_chain, pending, status, idx, conns, session, received>>
    BY Zenon, <1>2 DEF Link!LoadInProcess, Link!sendVars, Link!netVars
  <2> QED BY Zenon, <2>1 DEF SenderInv, NextPlace, Writing
<1>3. CASE Link!Exchange
  <2>1. UNCHANGED <<pushed, queue, pending, status, idx, conns, session, received>>
    BY Zenon, <1>3 DEF Link!Exchange, Link!sendVars, Link!netVars
  <2>2. CASE in_process
    <3>1. UNCHANGED <<in_process, link_chain>> BY Zenon, <1>3, <2>2 DEF Link!Exchange
    <3> QED BY Zenon, <2>1, <3>1 DEF SenderInv, NextPlace, Writing
  <2>3. CASE ~in_process
    <3>1. in_process' /\ link_chain' = "pop" /\ link_chain = "none"
      BY Zenon, <1>3, <2>3 DEF Link!Exchange, SenderInv
    <3> QED BY Zenon, <2>1, <3>1 DEF SenderInv, NextPlace, Writing
  <2> QED BY Zenon, <2>2, <2>3
<1>4. CASE Link!PopMessage
  <2>1. /\ link_chain = "pop" /\ link_chain' = "write" /\ queue # <<>> /\ pending' = Head(queue)
        /\ queue' = Tail(queue) /\ status' = 1 /\ idx' = 0
        /\ UNCHANGED <<pushed, in_process, conns, session, received>>
    BY Zenon, <1>4 DEF Link!PopMessage, Link!netVars
  <2>2. /\ Queued(queue', pushed') /\ pending' \in Link!Messages
        /\ pending' = pushed - Len(queue) + 1 /\ pending' = pushed' - Len(queue')
    BY Zenon, <2>1, QueuePop DEF SenderInv
  <2>3. Sends(pending', status', idx') /\ PlaceOf(pending', status', idx') = <<pending', 1>>
    BY <2>1, <2>2 DEF Sends, PlaceOf, Link!SenderAssumption
  <2>4. Writing' /\ ~Writing BY Zenon, <2>1 DEF Writing
  <2>5. NextPlace' = <<pending', 1>> /\ NextPlace = <<pushed - Len(queue) + 1, 1>>
    BY Zenon, <2>3, <2>4 DEF NextPlace
  <2>6. in_process' BY Zenon, <2>1 DEF SenderInv
  <2>7. SenderInv' BY Zenon, <2>2, <2>3, <2>6 DEF SenderInv
  <2> QED BY Zenon, <2>1, <2>2, <2>5, <2>7
<1>5. CASE Link!PopNothing
  <2>1. /\ link_chain = "pop" /\ link_chain' = "clear"
        /\ UNCHANGED <<pushed, queue, in_process, pending, status, idx, conns, session, received>>
    BY Zenon, <1>5 DEF Link!PopNothing, Link!sendVars, Link!netVars
  <2> QED BY Zenon, <2>1 DEF SenderInv, NextPlace, Writing
<1>6. CASE Link!ClearInProcess
  <2>1. /\ link_chain = "clear" /\ link_chain' = "none"
        /\ UNCHANGED <<pushed, queue, pending, status, idx, conns, session, received>>
    BY Zenon, <1>6 DEF Link!ClearInProcess, Link!sendVars, Link!netVars
  <2> QED BY Zenon, <2>1 DEF SenderInv, NextPlace, Writing
<1>7. CASE Link!WriteError
  <2>1. /\ link_chain = "write" /\ link_chain' = "connect"
        /\ UNCHANGED <<pushed, queue, in_process, pending, status, idx, conns, session, received>>
    BY Zenon, <1>7 DEF Link!WriteError, Link!sendVars, Link!netVars
  <2> QED BY Zenon, <2>1 DEF SenderInv, NextPlace, Writing
<1> QED BY Zenon, <1>1, <1>2, <1>3, <1>4, <1>5, <1>6, <1>7

\* OnSend writes the next chunk.
LEMMA SenderWrites ==
  ASSUME Link!SenderAssumption, SenderInv, Link!WriteSome
  PROVE  /\ SenderInv' /\ NextPlace \in Chunks /\ NextPlace' = Succ(NextPlace)
         /\ Link!Part[idx + 1] = NextPlace
<1>1. /\ link_chain = "write" /\ UNCHANGED <<pushed, queue, in_process, pending>>
      /\ IF idx + 1 >= Len(Link!Part) THEN Link!OnSendMessage
         ELSE idx' = idx + 1 /\ UNCHANGED <<status, link_chain>>
  BY Zenon DEF Link!WriteSome
<1>2. Writing /\ NextPlace = PlaceOf(pending, status, idx) BY Zenon, <1>1 DEF Writing, NextPlace
<1>3. Sends(pending, status, idx) /\ pending = pushed - Len(queue) BY Zenon, <1>2 DEF SenderInv
<1>4. Link!Part = PartOf(pending, status) BY Zenon DEF Link!Part, PartOf
<1>5. /\ NextPlace \in Chunks /\ Link!Part[idx + 1] = NextPlace
  BY <1>2, <1>3, <1>4, PartIs
<1>6. in_process' BY Zenon, <1>1 DEF SenderInv
<1>7. Queued(queue', pushed') BY Zenon, <1>1 DEF SenderInv
<1>8. PICK l \in Nat, i \in Nat : l = Len(Link!Part) /\ i = idx
  <2>1. /\ HeaderSize \in Nat /\ Size[pending] \in Nat /\ idx \in Nat
    BY <1>3 DEF Sends, Link!SenderAssumption, Link!Messages
  <2>2. Len(Link!Part) \in Nat BY <2>1 DEF Link!Part, Link!Header, Link!Body
  <2> QED BY Zenon, <2>1, <2>2
<1>9. CASE i + 1 >= l
  <2>1. Link!OnSendMessage BY Zenon, <1>1, <1>8, <1>9
  <2>2. CASE status = 1
    <3>1. status' = 2 /\ idx' = 0 /\ link_chain' = "write" BY Zenon, <2>1, <2>2 DEF Link!OnSendMessage
    <3>2. Sends(pending', status', idx') /\ PlaceOf(pending', status', idx') = Succ(NextPlace)
      BY <1>1, <1>2, <1>3, <1>4, <1>8, <1>9, <2>2, <3>1, PartIs
    <3>3. Writing' BY Zenon, <3>1 DEF Writing
    <3>4. NextPlace' = Succ(NextPlace) BY Zenon, <3>2, <3>3 DEF NextPlace
    <3>5. SenderInv' BY Zenon, <1>1, <1>3, <1>6, <1>7, <3>2 DEF SenderInv
    <3> QED BY Zenon, <1>5, <3>4, <3>5
  <2>3. CASE status # 1
    <3>1. link_chain' = "pop" BY Zenon, <2>1, <2>3 DEF Link!OnSendMessage
    <3>2. ~Writing' BY Zenon, <3>1 DEF Writing
    <3>3. <<pending + 1, 1>> = Succ(NextPlace)
      BY <1>2, <1>3, <1>4, <1>8, <1>9, <2>3, PartIs
    <3>4. NextPlace' = <<pending + 1, 1>> BY Zenon, <1>1, <1>3, <3>2 DEF NextPlace
    <3>5. SenderInv' BY Zenon, <1>6, <1>7, <3>2 DEF SenderInv
    <3> QED BY Zenon, <1>5, <3>3, <3>4, <3>5
  <2> QED BY Zenon, <2>2, <2>3
<1>10. CASE ~(i + 1 >= l)
  <2>1. idx' = idx + 1 /\ UNCHANGED <<status, link_chain>> BY Zenon, <1>1, <1>8, <1>10
  <2>2. i + 1 < l BY <1>10
  <2>3. Sends(pending', status', idx') /\ PlaceOf(pending', status', idx') = Succ(NextPlace)
    BY <1>1, <1>2, <1>3, <1>4, <1>8, <2>1, <2>2, PartIs
  <2>4. Writing' BY Zenon, <1>1, <2>1 DEF Writing
  <2>5. NextPlace' = Succ(NextPlace) BY Zenon, <2>3, <2>4 DEF NextPlace
  <2>6. SenderInv' BY Zenon, <1>1, <1>3, <1>6, <1>7, <2>3 DEF SenderInv
  <2> QED BY Zenon, <1>5, <2>5, <2>6
<1> QED BY Zenon, <1>9, <1>10

\* ReConnect goes back to the first chunk of the message.
LEMMA SenderConnects ==
  ASSUME Link!SenderAssumption, SenderInv, Link!ReConnect
  PROVE  /\ SenderInv' /\ NextPlace' \in Places /\ NextPlace'[1] = NextPlace[1]
         /\ NextPlace'[2] = 1
<1>1. /\ link_chain = "connect" /\ link_chain' = "write" /\ status' = 1 /\ idx' = 0
      /\ UNCHANGED <<pushed, queue, in_process, pending>>
  BY Zenon DEF Link!ReConnect
<1>2. Writing /\ Writing' BY Zenon, <1>1 DEF Writing
<1>3. Sends(pending, status, idx) /\ pending = pushed - Len(queue) BY Zenon, <1>2 DEF SenderInv
<1>4. /\ NextPlace[1] = pending /\ Sends(pending', status', idx')
      /\ NextPlace' = <<pending, 1>> /\ pending \in Nat \ {0}
  BY <1>1, <1>2, <1>3, PartIs DEF NextPlace
<1>5. NextPlace' \in Places BY <1>4 DEF Places
<1>6. in_process' BY Zenon, <1>1 DEF SenderInv
<1>7. SenderInv' BY Zenon, <1>1, <1>3, <1>4, <1>6 DEF SenderInv
<1> QED BY Zenon, <1>4, <1>5, <1>7

\* Initially nothing was sent.
LEMMA LinkInit ==
  ASSUME Link!SenderAssumption, Link!Init
  PROVE  LinkInv
<1>1. /\ pushed = 0 /\ queue = <<>> /\ link_chain = "none"
      /\ conns = <<>> /\ session = <<>> /\ received = <<>>
  BY Zenon DEF Link!Init
<1>2. SenderInv
  <2>1. Len(Size) \in Nat BY DEF Link!SenderAssumption
  <2>2. <<>> \in Seq(Link!Messages) /\ Len(<<>>) = 0 OBVIOUS
  <2>3. Queued(queue, pushed) BY <1>1, <2>1, <2>2 DEF Queued
  <2> QED BY Zenon, <1>1, <2>3 DEF SenderInv, Writing
<1>3. NextPlace = <<1, 1>>
  <2>1. Len(<<>>) = 0 BY Zenon
  <2> QED BY <1>1, <2>1 DEF NextPlace, Writing
<1>4. NextPlace \in Places BY <1>3 DEF Places
<1>5. PICK n : n = <<>> BY Zenon
<1>6. Net(conns, session, NextPlace, n, n)
  <2>1. /\ <<>> \in Seq(ConnRecord) /\ <<>> \in Seq(SessionRecord) /\ Len(<<>>) = 0
    OBVIOUS
  <2> QED BY <1>1, <1>4, <2>1 DEF Net
<1>7. Rec(received, Len(conns), n, n)
  <2>1. <<>> \in Seq([conn : 1..Len(conns), data : Seq(Chunks)]) /\ Len(<<>>) = 0 OBVIOUS
  <2> QED BY <1>1, <2>1 DEF Rec
<1> QED BY Zenon, <1>2, <1>6, <1>7 DEF LinkInv

\* Put replaces an element, and a record of a connection has two fields.
LEMMA ExceptIs ==
  ASSUME NEW X, NEW s \in Seq(X), NEW c, NEW x
  PROVE  [s EXCEPT ![c] = x] = Put(s, c, x)
<1>1. s = [d \in 1..Len(s) |-> s[d]] OBVIOUS
<1> QED BY Zenon, <1>1 DEF Put

LEMMA UnderWayIs ==
  ASSUME NEW q \in ConnRecord, NEW v
  PROVE  [q EXCEPT !.under_way = v] = [under_way |-> v, broken |-> q.broken]
BY DEF ConnRecord

\* What the network does is a step of the lemmas above.
LEMMA WriteIs ==
  ASSUME NEW n, NEW e, Net(conns, session, NextPlace, n, e), Link!WriteSome,
         Link!Part[idx + 1] = NextPlace
  PROVE  /\ UNCHANGED <<session, received>> /\ conns # <<>>
         /\ conns[Len(conns)].broken => conns' = conns
         /\ ~conns[Len(conns)].broken =>
              conns' = Put(conns, Len(conns),
                           [under_way |-> Append(conns[Len(conns)].under_way, NextPlace),
                            broken |-> FALSE])
<1>1. PICK N \in Nat : N = Len(conns) /\ N \in 1..N
  <2>1. conns # <<>> /\ conns \in Seq(ConnRecord)
    BY Zenon DEF Link!WriteSome, Link!Connected, Net
  <2> QED BY <2>1
<1>2. /\ UNCHANGED <<session, received>> /\ conns # <<>>
      /\ conns' = IF conns[N].broken THEN conns
                  ELSE [conns EXCEPT ![N].under_way = Append(@, NextPlace)]
  BY Zenon, <1>1 DEF Link!WriteSome, Link!Connected, Link!Current
<1>3. CASE ~conns[N].broken
  <2>1. conns \in Seq(ConnRecord) /\ conns[N] \in ConnRecord BY <1>1 DEF Net
  <2>2. PICK r : r = [under_way |-> Append(conns[N].under_way, NextPlace), broken |-> FALSE]
    BY Zenon
  <2>3. conns[N].broken = FALSE BY Zenon, <1>3, <2>1 DEF ConnRecord
  <2>4. [conns[N] EXCEPT !.under_way = Append(@, NextPlace)] = r
    BY Zenon, <2>1, <2>2, <2>3, UnderWayIs
  <2>5. conns' = [conns EXCEPT ![N] = r] BY Zenon, <1>2, <1>3, <2>4
  <2>6. conns' = Put(conns, N, r) BY Zenon, <2>1, <2>5, ExceptIs
  <2> QED BY Zenon, <1>1, <1>2, <1>3, <2>2, <2>6
<1> QED BY Zenon, <1>1, <1>2, <1>3

LEMMA ReadIs ==
  ASSUME NEW n, NEW e, Net(conns, session, NextPlace, n, e),
         NEW c, Link!Read(c)
  PROVE  /\ c \in 1..Len(conns) /\ conns[c].under_way # <<>>
         /\ UNCHANGED <<pushed, queue, in_process, link_chain, pending, status, idx>>
         /\ ReadStep(conns, session, received, c, conns', session', received')
<1>1. PICK N \in Nat : N = Len(conns) BY DEF Net
<1>2. c \in 1..N /\ conns[c].under_way # <<>> /\ conns[c] \in ConnRecord
  BY <1>1 DEF Net, Link!Read, Link!OnRead
<1>3. PICK s \in SessionRecord : s = session[c] BY <1>1, <1>2 DEF Net
<1>4. PICK x : x = Head(conns[c].under_way) BY Zenon
<1>5. conns' = Put(conns, c, [under_way |-> Tail(conns[c].under_way), broken |-> conns[c].broken])
  <2>1. conns \in Seq(ConnRecord) BY Zenon DEF Net
  <2>2. conns' = [conns EXCEPT ![c].under_way = Tail(@)] BY Zenon DEF Link!Read, Link!OnRead
  <2>3. PICK r : r = [under_way |-> Tail(conns[c].under_way), broken |-> conns[c].broken] BY Zenon
  <2>4. [conns[c] EXCEPT !.under_way = Tail(@)] = r BY Zenon, <1>2, <2>3, UnderWayIs
  <2>5. conns' = [conns EXCEPT ![c] = r] BY Zenon, <2>2, <2>4
  <2>6. conns' = Put(conns, c, r) BY Zenon, <2>1, <2>5, ExceptIs
  <2> QED BY Zenon, <2>3, <2>6
<1>6. /\ session' = [session EXCEPT ![c] = AfterRead(s, x)]
      /\ received' = IF Delivers(s, x) THEN Append(received, [conn |-> c, data |-> Reading(s, x)])
                     ELSE received
  <2>1. PICK l \in Nat, k \in Nat : l = Len(Reading(s, x)) /\ k = s.need
    <3>1. x \in Chunks BY <1>2, <1>4 DEF ConnRecord
    <3>2. PICK b \in Seq(Chunks) : b = s.buffer BY Zenon, <1>3 DEF SessionRecord
    <3> QED BY <1>3, <3>1, <3>2 DEF SessionRecord, Reading
  <2>2. CASE l < k
    <3>1. session' = [session EXCEPT ![c].buffer = Reading(s, x)] /\ received' = received
      BY Zenon, <1>3, <1>4, <2>1, <2>2 DEF Link!Read, Link!OnRead, Reading
    <3>2. ~Delivers(s, x) BY <2>1, <2>2 DEF Delivers
    <3>3. AfterRead(s, x) = [s EXCEPT !.buffer = Reading(s, x)] BY Zenon, <2>1, <2>2 DEF AfterRead
    <3>4. session' = [session EXCEPT ![c] = AfterRead(s, x)] BY Zenon, <1>3, <3>1, <3>3
    <3> QED BY Zenon, <3>1, <3>2, <3>4
  <2>3. CASE ~(l < k)
    <3>1. /\ session' = [session EXCEPT ![c] =
                IF s.status = 1 THEN Link!NewSession
                ELSE [status |-> 1, need |-> Link!DataSize(Reading(s, x)), buffer |-> <<>>]]
          /\ received' = IF s.status = 1
                         THEN Append(received, [conn |-> c, data |-> Reading(s, x)])
                         ELSE received
      BY Zenon, <1>3, <1>4, <2>1, <2>3 DEF Link!Read, Link!OnRead, Reading
    <3>2. Delivers(s, x) <=> s.status = 1
      <4>1. l >= k BY <2>3
      <4> QED BY Zenon, <2>1, <4>1 DEF Delivers
    <3>3. AfterRead(s, x) = IF s.status = 1 THEN Link!NewSession
                ELSE [status |-> 1, need |-> Link!DataSize(Reading(s, x)), buffer |-> <<>>]
      BY Zenon, <2>1, <2>3 DEF AfterRead
    <3> QED BY Zenon, <3>1, <3>2, <3>3
  <2> QED BY Zenon, <2>2, <2>3
<1>7. session' = Put(session, c, AfterRead(s, x))
  <2>1. session \in Seq(SessionRecord) /\ c \in 1..Len(session) BY Zenon, <1>1, <1>2 DEF Net
  <2> QED BY Zenon, <1>6, <2>1, ExceptIs
<1>8. UNCHANGED <<pushed, queue, in_process, link_chain, pending, status, idx>>
  BY Zenon DEF Link!Read, Link!OnRead, Link!sendVars
<1> QED BY Zenon, <1>1, <1>2, <1>3, <1>4, <1>5, <1>6, <1>7, <1>8 DEF ReadStep

\* Every step keeps the invariant.
LEMMA LinkStep ==
  ASSUME Link!SenderAssumption, LinkInv, [Link!Next]_Link!vars
  PROVE  LinkInv'
<1>1. SenderInv BY Zenon DEF LinkInv
<1>2. PICK n, e : Net(conns, session, NextPlace, n, e) /\ Rec(received, Len(conns), n, e)
  BY Zenon DEF LinkInv
<1>3. PICK w \in Places : w = NextPlace BY Zenon, <1>2 DEF Net
<1>4. ASSUME NEW m, NEW f, SenderInv', Net(conns', session', NextPlace', m, f),
             Rec(received', Len(conns'), m, f)
      PROVE  LinkInv'
  BY Zenon, <1>4 DEF LinkInv
<1>5. ASSUME SenderInv' /\ NextPlace' = NextPlace /\ UNCHANGED <<conns, session, received>>
      PROVE  LinkInv'
  <2>1. Net(conns', session', NextPlace', n, e) /\ Rec(received', Len(conns'), n, e)
    BY Zenon, <1>2, <1>5
  <2> QED BY Zenon, <1>4, <1>5, <2>1
<1>6. CASE \/ Link!Push \/ Link!LoadInProcess \/ Link!Exchange
           \/ Link!PopMessage \/ Link!PopNothing \/ Link!ClearInProcess \/ Link!WriteError
  BY Zenon, <1>1, <1>5, <1>6, SenderKeeps
<1>7. CASE Link!WriteSome
  <2>1. /\ SenderInv' /\ w \in Chunks /\ NextPlace' = Succ(w) /\ Link!Part[idx + 1] = NextPlace
    BY Zenon, <1>1, <1>3, <1>7, SenderWrites
  <2>2. PICK y \in Places : y = Succ(w) /\ w[1] <= y[1] BY Zenon, <2>1, SuccIs
  <2>3. PICK N : N = Len(conns) BY Zenon
  <2>4. /\ session' = session /\ received' = received /\ conns # <<>>
        /\ conns[N].broken => conns' = conns
        /\ ~conns[N].broken =>
             conns' = Put(conns, N, [under_way |-> Append(conns[N].under_way, w), broken |-> FALSE])
    BY Zenon, <1>2, <1>3, <1>7, <2>1, <2>3, WriteIs
  <2>5. CASE conns[N].broken
    <3>1. Net(conns, session, y, n, e) BY Zenon, <1>2, <1>3, <2>2, <2>3, <2>5, NetMoves
    <3>2. Net(conns', session', NextPlace', n, e) /\ Rec(received', Len(conns'), n, e)
      BY Zenon, <1>2, <2>1, <2>2, <2>4, <2>5, <3>1
    <3> QED BY Zenon, <1>4, <2>1, <3>2
  <2>6. CASE ~conns[N].broken
    <3>1. e[N] = w /\ Stream(conns[N].under_way, n[N], e[N])
      <4>1. conns \in Seq(ConnRecord) BY Zenon, <1>2 DEF Net
      <4>2. N \in 1..Len(conns) BY <2>3, <2>4, <4>1
      <4> QED BY Zenon, <1>2, <1>3, <2>3, <2>4, <2>6, <4>2 DEF Net
    <3>2. PICK v : v = Append(conns[N].under_way, w) BY Zenon
    <3>3. Stream(v, n[N], y) BY Zenon, <2>1, <2>2, <3>1, <3>2, StreamAppend
    <3>4. y[1] <= y[1] BY PlaceIs
    <3>5. PICK D : D = Put(conns, Len(conns), [under_way |-> v, broken |-> FALSE]) BY Zenon
    <3>6. conns' = D BY Zenon, <2>3, <2>4, <2>6, <3>2, <3>5
    <3>7. Stream(v, n[Len(conns)], y) BY Zenon, <2>3, <3>3
    <3>8. Net(conns, session, w, n, e) BY Zenon, <1>2, <1>3
    <3>9. \E f : Net(D, session, y, n, f) /\ Rec(received, Len(D), n, f)
      BY Zenon, <1>2, <2>2, <2>4, <3>4, <3>5, <3>7, <3>8, NetLast
    <3>10. PICK f : Net(D, session, y, n, f) /\ Rec(received, Len(D), n, f) BY Zenon, <3>9
    <3>11. Net(conns', session', NextPlace', n, f) /\ Rec(received', Len(conns'), n, f)
      BY Zenon, <2>1, <2>2, <2>4, <3>6, <3>10
    <3> QED BY Zenon, <1>4, <2>1, <3>11
  <2> QED BY Zenon, <2>5, <2>6
<1>8. CASE Link!ReConnect
  <2>1. SenderInv' /\ NextPlace' \in Places /\ NextPlace'[1] = w[1] /\ NextPlace'[2] = 1
    BY Zenon, <1>1, <1>3, <1>8, SenderConnects
  <2>2. PICK y \in Places : y = NextPlace' /\ y[1] = w[1] /\ y[2] = 1 BY Zenon, <2>1
  <2>3. PICK D, T : D = conns' /\ T = session' BY Zenon
  <2>4. Connects(conns, session, D, T) /\ received' = received
    BY Zenon, <1>8, <2>3 DEF Link!ReConnect, Connects
  <2>5. Net(conns, session, w, n, e) BY Zenon, <1>2, <1>3
  <2>6. PICK m, f : Net(D, T, y, m, f) /\ Rec(received, Len(D), m, f)
    BY <1>2, <2>2, <2>4, <2>5, NetConnect
  <2>7. Net(conns', session', NextPlace', m, f) /\ Rec(received', Len(conns'), m, f)
    BY Zenon, <2>2, <2>3, <2>4, <2>6
  <2> QED BY Zenon, <1>4, <2>1, <2>7
<1>9. CASE Link!Break
  <2>1. /\ UNCHANGED <<pushed, queue, in_process, link_chain, pending, status, idx, session, received>>
        /\ conns # <<>>
    BY Zenon, <1>9 DEF Link!Break, Link!Connected, Link!sendVars
  <2>2. SenderInv' /\ NextPlace' = w BY Zenon, <1>1, <1>3, <2>1 DEF SenderInv, NextPlace, Writing
  <2>3. PICK N : N = Len(conns) BY Zenon
  <2>4. PICK k \in 0..Len(conns[N].under_way) :
          conns' = [conns EXCEPT ![N] =
                      [under_way |-> SubSeq(conns[N].under_way, 1, k), broken |-> TRUE]]
    BY Zenon, <1>9, <2>3 DEF Link!Break, Link!Current
  <2>5. conns \in Seq(ConnRecord) BY Zenon, <1>2 DEF Net
  <2>6. N \in 1..Len(conns) BY SMTT(30), <2>1, <2>3, <2>5
  <2>7. Stream(conns[N].under_way, n[N], e[N]) /\ e[N][1] <= w[1] BY Zenon, <1>2, <1>3, <2>6 DEF Net
  <2>8. PICK v : v = SubSeq(conns[N].under_way, 1, k) BY Zenon
  <2>9. PICK x : x[1] <= e[N][1] /\ Stream(v, n[N], x) BY Zenon, <2>7, <2>8, StreamCut
  <2>10. x[1] <= w[1]
    <3>1. x \in Places /\ e[N] \in Places BY Zenon, <2>7, <2>9 DEF Stream
    <3>2. x[1] \in Nat /\ e[N][1] \in Nat /\ w[1] \in Nat BY Zenon, <3>1, PlaceIs
    <3> QED BY SMTT(30), <2>7, <2>9, <3>2
  <2>11. PICK D : D = Put(conns, Len(conns), [under_way |-> v, broken |-> TRUE]) BY Zenon
  <2>12. conns' = D
    <3>1. PICK r : r = [under_way |-> v, broken |-> TRUE] BY Zenon
    <3>2. conns' = [conns EXCEPT ![N] = r] BY Zenon, <2>4, <2>8, <3>1
    <3>3. conns' = Put(conns, N, r) BY Zenon, <2>5, <3>2, ExceptIs
    <3> QED BY Zenon, <2>3, <2>11, <3>1, <3>3
  <2>13. Net(conns, session, w, n, e) /\ w[1] <= w[1] BY SMTT(30), <1>2, <1>3, PlaceIs
  <2>14. Stream(v, n[Len(conns)], x) BY Zenon, <2>3, <2>9
  <2>15. PICK f : Net(D, session, w, n, f) /\ Rec(received, Len(D), n, f)
    <3>1. PICK b \in BOOLEAN : b = TRUE BY Zenon
    <3>2. D = Put(conns, Len(conns), [under_way |-> v, broken |-> b]) /\ (~b => x = w)
      BY Zenon, <2>11, <3>1
    <3> HIDE <3>1
    <3> QED BY <1>2, <2>1, <2>10, <2>13, <2>14, <3>2, NetLast
  <2>16. Net(conns', session', NextPlace', n, f) /\ Rec(received', Len(conns'), n, f)
    BY Zenon, <2>1, <2>2, <2>12, <2>15
  <2> QED BY Zenon, <1>4, <2>2, <2>16
<1>10. CASE \E c \in 1..MaxConnections : Link!Read(c)
  <2>1. PICK c : Link!Read(c) BY Zenon, <1>10
  <2>2. PICK D, T, Q : D = conns' /\ T = session' /\ Q = received' BY Zenon
  <2>3. /\ c \in 1..Len(conns) /\ conns[c].under_way # <<>>
        /\ UNCHANGED <<pushed, queue, in_process, link_chain, pending, status, idx>>
        /\ ReadStep(conns, session, received, c, D, T, Q)
    BY Zenon, <1>2, <2>1, <2>2, ReadIs
  <2>4. SenderInv' /\ NextPlace' = w BY Zenon, <1>1, <1>3, <2>3 DEF SenderInv, NextPlace, Writing
  <2>5. Net(conns, session, w, n, e) BY Zenon, <1>2, <1>3
  <2>6. PICK m : Net(D, T, w, m, e) /\ Rec(Q, Len(D), m, e)
    BY Zenon, <1>2, <2>3, <2>5, NetRead
  <2>7. Net(conns', session', NextPlace', m, e) /\ Rec(received', Len(conns'), m, e)
    BY Zenon, <2>2, <2>4, <2>6
  <2> QED BY Zenon, <1>4, <2>4, <2>7
<1>11. CASE UNCHANGED Link!vars
  <2>1. UNCHANGED <<pushed, queue, in_process, link_chain, pending, status, idx, conns, session, received>>
    BY Zenon, <1>11 DEF Link!vars
  <2>2. SenderInv' /\ NextPlace' = NextPlace BY Zenon, <1>1, <2>1 DEF SenderInv, NextPlace, Writing
  <2> QED BY Zenon, <1>5, <2>1, <2>2
<1> QED BY Zenon, <1>6, <1>7, <1>8, <1>9, <1>10, <1>11 DEF Link!Next, Link!Send, Link!Handle

\* Of two messages that were received, the one of the earlier connection is the
\* earlier one, and on one connection they are in order.
LEMMA LinkInvSafe ==
  ASSUME Link!SenderAssumption, LinkInv
  PROVE  LinkSafe
<1>1. PICK n, e : Net(conns, session, NextPlace, n, e) /\ Rec(received, Len(conns), n, e)
  BY Zenon DEF LinkInv
<1>2. PICK N, R : N = Len(conns) /\ R = received /\ N \in Nat
  <2>1. conns \in Seq(ConnRecord) BY <1>1, Zenon DEF Net
  <2>2. Len(conns) \in Nat BY <2>1
  <2> QED BY Zenon, <2>2
<1>3. DOMAIN R = 1..Len(R) /\ Len(R) \in Nat
  <2> DEFINE X == [conn : 1..Len(conns), data : Seq(Chunks)]
  <2>1. R \in Seq(X) BY <1>1, <1>2, Zenon DEF Rec
  <2> HIDE DEF X
  <2> QED BY <2>1
<1>4. \A i \in 1..Len(R) : R[i].conn \in 1..N
  <2> DEFINE X == [conn : 1..N, data : Seq(Chunks)]
  <2>1. R \in Seq(X) BY Zenon, <1>1, <1>2 DEF Rec
  <2> HIDE DEF X
  <2>2. \A i \in 1..Len(R) : R[i] \in X BY SMTT(30), <2>1
  <2> USE DEF X
  <2> QED BY Zenon, <2>2
<1>5. \A i \in 1..Len(R) : /\ MessageOf(R[i]) \in Link!Messages /\ MessageOf(R[i]) \in Nat
                           /\ R[i].data = Link!Body(MessageOf(R[i]))
  BY Zenon, <1>1, <1>2, BodyIs DEF Rec
<1>6. Link!FramesWhole BY Zenon, <1>2, <1>3, <1>5 DEF Link!FramesWhole
<1>7. ASSUME NEW i \in 1..Len(R), NEW j \in 1..Len(R), i < j, R[i].conn = R[j].conn
      PROVE  MessageOf(R[i]) < MessageOf(R[j])
  BY Zenon, <1>1, <1>2, <1>7 DEF Rec
<1>8. Link!OrderedPerConnection
  BY Zenon, <1>2, <1>3, <1>7 DEF Link!OrderedPerConnection, MessageOf
<1>9. ASSUME NEW i \in 1..Len(R), NEW j \in 1..Len(R), R[i].conn < R[j].conn
      PROVE  MessageOf(R[i]) < MessageOf(R[j])
  <2>1. PICK c \in 1..N, d \in 1..N : c = R[i].conn /\ d = R[j].conn BY Zenon, <1>4
  <2>2. PICK a \in Nat, b \in Nat : a = MessageOf(R[i]) /\ b = MessageOf(R[j]) BY Zenon, <1>5
  <2>3. a < n[c][1] BY Zenon, <1>1, <1>2, <2>1, <2>2 DEF Rec
  <2>4. e[c][1] <= b BY Zenon, <1>1, <1>2, <1>9, <2>1, <2>2 DEF Rec
  <2>5. n[c] \in Places /\ e[c] \in Places /\ n[c][1] <= e[c][1]
    BY Zenon, <1>1, <1>2, <2>1 DEF Net, Stream
  <2>6. n[c][1] \in Nat /\ e[c][1] \in Nat BY Zenon, <2>5, PlaceIs
  <2> QED BY <2>2, <2>3, <2>4, <2>5, <2>6
<1>10. ASSUME NEW i \in 1..Len(R), NEW j \in 1..Len(R), R[i].data = R[j].data
       PROVE  i = j
  <2>1. MessageOf(R[i]) = MessageOf(R[j]) BY Zenon, <1>10 DEF MessageOf
  <2>2. PICK c \in 1..N, d \in 1..N : c = R[i].conn /\ d = R[j].conn BY Zenon, <1>4
  <2>3. PICK a \in Nat : a = MessageOf(R[i]) /\ a = MessageOf(R[j]) BY Zenon, <1>5, <2>1
  <2>4. ~(a < a) OBVIOUS
  <2>5. c = d
    <3>1. ASSUME c < d PROVE FALSE BY <1>9, <2>2, <2>3, <2>4, <3>1, Zenon
    <3>2. ASSUME d < c PROVE FALSE BY <1>9, <2>2, <2>3, <2>4, <3>2, Zenon
    <3> QED BY <3>1, <3>2
  <2>6. ~(i < j) /\ ~(j < i)
    <3>1. ASSUME i < j PROVE FALSE BY <1>7, <2>2, <2>3, <2>4, <2>5, <3>1, Zenon
    <3>2. ASSUME j < i PROVE FALSE BY <1>7, <2>2, <2>3, <2>4, <2>5, <3>2, Zenon
    <3> QED BY Zenon, <3>1, <3>2
  <2> QED BY <1>3, <2>6
<1>11. Link!AtMostOnce BY Zenon, <1>2, <1>3, <1>10 DEF Link!AtMostOnce
<1> QED BY Zenon, <1>6, <1>8, <1>11 DEF LinkSafe, Link!LinkSafe

\* The receiver's callback gets whole messages, none of them twice, and in the
\* order of the SendMessage calls on each connection, whatever connections break
\* and however the writes and reads are cut (AsyncReplicaClient::OnSend,
\* ReConnect, Session::OnRead).
THEOREM LinkDelivers ==
  ASSUME Link!SenderAssumption
  PROVE  Link!Spec => []LinkSafe
<1>1. Link!Init => LinkInv BY Zenon, LinkInit
<1>2. LinkInv /\ [Link!Next]_Link!vars => LinkInv' BY Zenon, LinkStep
<1>3. LinkInv => LinkSafe BY Zenon, LinkInvSafe
<1> QED BY <1>1, <1>2, <1>3, PTL DEF Link!Spec

=============================================================================
