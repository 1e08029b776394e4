-------------------------- MODULE DescriptorsProofs --------------------------
(***************************************************************************)
(* For any number of processes, descriptors and pipes and any size of the  *)
(* ring: a pipe counts the ends that the tables hold, delivers the bytes   *)
(* it accepted in order, and is never made anew; console descriptors are   *)
(* the last to be given away; the screen shows the line that is read.      *)
(***************************************************************************)
EXTENDS Descriptors, NumberFacts, FiniteSetTheorems, SequenceTheorems, TLAPS

Ring == 0..(PipeBufSize - 1)

PipeRec == [head : Ring, tail : Ring, buf : [Ring -> Bytes], ends : [Roles -> Nat]]

\* The types of all variables, those of pipes that are gone included.  Between
\* two keys the line is not full.
DescTypes ==
  /\ pipe \in [Ids -> PipeRec \cup {NoPipe}]
  /\ nextPipe \in 0..MaxPipes
  /\ fds \in [Procs -> [Fds -> Ends \cup {NoEnd}]] /\ nextFd \in [Procs -> Fds]
  /\ alive \subseteq Procs /\ halted \in BOOLEAN /\ astray \subseteq Ids
  /\ console \in [by : Procs \cup {None}, line : Seq(Keys), screen : Seq(Keys \cup {"prompt"})]
  /\ Len(console.line) < LineSize
  /\ stream \in [Ids -> Seq(Bytes)]

\* An id that has not been drawn has no pipe and no descriptor.
Undrawn ==
  \A i \in Ids : i >= nextPipe =>
    pipe[i] = NoPipe /\ \A p \in Procs, f \in Fds : fds[p][f].pipe # i

\* Descriptors are given out upwards and never given back: those from the
\* console's up to next_fd are all in use.
UsedBelowNext ==
  \A p \in Procs : \A g \in UserFdBase..(nextFd[p] - 1) : fds[p][g] # NoEnd

\* The inductive invariant.
DescInv ==
  /\ DescTypes /\ Undrawn /\ UsedBelowNext
  /\ EndsCounted /\ PipeIsFifo /\ EchoMatches

-----------------------------------------------------------------------------
(* The search for a descriptor. *)

FdTable == [Fds -> Ends \cup {NoEnd}]

\* The descriptor found is free, and every one passed over is in use; without
\* one the table is full.
LEMMA AllocSound ==
  ASSUME NEW table \in FdTable, NEW next \in Fds
  PROVE  LET r == alloc_user_fd(table, next)
             start == Max({next, UserFdBase})
         IN  /\ r = NoFd => \A f \in Fds : table[f] # NoEnd
             /\ r # NoFd => /\ r \in Fds /\ table[r] = NoEnd
                            /\ r >= start => \A g \in start..(r - 1) : table[g] # NoEnd
                            /\ r < start => \A g \in start..(FdTableSize - 1) : table[g] # NoEnd
<1> DEFINE r == alloc_user_fd(table, next)
           start == Max({next, UserFdBase})
           at(k) == (start + k) % FdTableSize
           free == {k \in Fds : table[at(k)] = NoEnd}
<1>1. /\ FdTableSize \in Nat \ {0} /\ UserFdBase \in Fds /\ next \in Fds
      /\ Fds = 0..(FdTableSize - 1)
  BY DescriptorsAssumption DEF Fds
<1>2. start \in Fds
  <2>1. next \in Int /\ UserFdBase \in Int
    BY <1>1
  <2>2. start = IF next >= UserFdBase THEN next ELSE UserFdBase
    BY <2>1, MinMaxOfTwo
  <2> QED BY <1>1, <2>2
<1>3. r = IF free = {} THEN NoFd ELSE at(Min(free))
  BY DEF alloc_user_fd
<1> HIDE DEF r, start
<1>4. ASSUME NEW k \in Fds
      PROVE  at(k) \in Fds /\ at(k) = IF start + k < FdTableSize THEN start + k ELSE start + k - FdTableSize
  <2> DEFINE a == start + k
             n == FdTableSize
  <2>1. a \in 0..(2 * n - 1) /\ n \in Nat \ {0} /\ Fds = 0..(n - 1) /\ at(k) = a % n
    BY <1>1, <1>2
  <2> HIDE DEF a, n, at
  <2>2. at(k) = (IF a < n THEN a ELSE a - n) /\ at(k) \in Fds
    BY <2>1, RingIndex
  <2> QED BY <1>1, <1>2, <2>2 DEF a, n
<1>5. ASSUME NEW f \in Fds
      PROVE  \E k \in Fds : at(k) = f /\ k = IF f >= start THEN f - start ELSE f - start + FdTableSize
  <2> DEFINE k == IF f >= start THEN f - start ELSE f - start + FdTableSize
  <2>1. k \in Fds
    BY <1>1, <1>2
  <2>2. at(k) = f
    <3>1. start + k = IF f >= start THEN f ELSE f + FdTableSize
      BY <1>1, <1>2
    <3>2. start \in Int /\ k \in Int /\ f \in 0..(FdTableSize - 1) /\ FdTableSize \in Nat
      BY <1>1, <1>2, <2>1
    <3> HIDE DEF k, at
    <3>3. at(k) = IF start + k < FdTableSize THEN start + k ELSE start + k - FdTableSize
      BY <1>4, <2>1
    <3> QED BY <3>1, <3>2, <3>3
  <2> QED BY <2>1, <2>2
<1> HIDE DEF at
<1>6. CASE free = {}
  <2>1. r = NoFd
    BY <1>3, <1>6
  <2>2. ASSUME NEW f \in Fds
        PROVE  table[f] # NoEnd
    <3>1. PICK k \in Fds : at(k) = f
      BY <1>5
    <3> QED BY <3>1, <1>6
  <2> QED BY <2>1, <2>2 DEF r, start
<1>7. CASE free # {}
  <2> DEFINE m == Min(free)
  <2>1. free \in SUBSET Nat
    BY <1>1
  <2>2. m \in free /\ \A j \in free : m <= j
    <3> HIDE DEF free
    <3> QED BY <1>7, <2>1, LeastNumber
  <2>3. r = at(m)
    BY <1>3, <1>7
  <2> HIDE DEF m
  <2>4. r \in Fds /\ table[r] = NoEnd /\ m \in Fds
    BY <1>4, <2>2, <2>3
  <2>5. ASSUME NEW g \in Fds, g >= start, r >= start => g < r
        PROVE  table[g] # NoEnd
    <3>1. PICK k \in Fds : at(k) = g /\ k = g - start
      BY <1>5, <2>5
    <3>2. k < m
      <4>1. r = IF start + m < FdTableSize THEN start + m ELSE start + m - FdTableSize
        BY <1>4, <2>3, <2>4
      <4>2. /\ start \in Int /\ m \in Int /\ r \in Int /\ g \in Int
            /\ FdTableSize \in Int /\ start >= 0 /\ m >= 0 /\ m < FdTableSize /\ g < FdTableSize
        BY <1>1, <1>2, <2>4
      <4> QED BY <2>5, <3>1, <4>1, <4>2
    <3> QED BY <1>1, <2>2, <2>4, <3>1, <3>2
  <2>6. r # NoFd
    BY <1>1, <2>4 DEF NoFd
  <2>7. start..(r - 1) \subseteq Fds /\ start..(FdTableSize - 1) \subseteq Fds
    BY <1>1, <1>2, <2>4
  <2>8. r >= start => \A g \in start..(r - 1) : table[g] # NoEnd
    BY <1>1, <1>2, <2>4, <2>5, <2>7
  <2>9. r < start => \A g \in start..(FdTableSize - 1) : table[g] # NoEnd
    BY <1>1, <1>2, <2>4, <2>5, <2>7
  <2> QED BY <2>4, <2>6, <2>8, <2>9 DEF r, start
<1> QED BY <1>6, <1>7 DEF r, start


-----------------------------------------------------------------------------
(* The ring buffer. *)

\* A function on 1..n is a sequence of length n.
LEMMA FunctionIsSeq ==
  ASSUME NEW S, NEW n \in Nat, NEW f \in [1..n -> S]
  PROVE  f \in Seq(S) /\ Len(f) = n
<1>1. f \in Seq(S)
  BY SeqDef
<1> QED BY <1>1

\* Where the k-th byte lies, seen from the tail and seen from the head of a
\* ring that holds l bytes: the bytes there are not reached by a write of n
\* bytes that fits, and the next ones are the ones written.
LEMMA RingPlaces ==
  ASSUME NEW b \in Nat \ {0}, NEW t \in 0..(b - 1), NEW l \in 0..(b - 1),
         NEW n \in 0..(b - 1 - l), NEW k \in 1..(l + n),
         NEW h, h = (t + l) % b, NEW i, i = (t + k - 1) % b
  PROVE  /\ i \in 0..(b - 1)
         /\ k <= l => 1 + ((i - h + b) % b) > n
         /\ k > l => 1 + ((i - h + b) % b) = k - l
<1>1. h = (IF t + l < b THEN t + l ELSE t + l - b) /\ h \in 0..(b - 1)
  <2> DEFINE a == t + l
  <2>1. a \in 0..(2 * b - 1) /\ h = a % b
    OBVIOUS
  <2> HIDE DEF a
  <2>2. h = (IF a < b THEN a ELSE a - b) /\ h \in 0..(b - 1)
    BY <2>1, RingIndex
  <2> QED BY <2>2 DEF a
<1>2. i = (IF t + k - 1 < b THEN t + k - 1 ELSE t + k - 1 - b) /\ i \in 0..(b - 1)
  <2> DEFINE a == t + k - 1
  <2>1. a \in 0..(2 * b - 1) /\ i = a % b
    OBVIOUS
  <2> HIDE DEF a
  <2>2. i = (IF a < b THEN a ELSE a - b) /\ i \in 0..(b - 1)
    BY <2>1, RingIndex
  <2> QED BY <2>2 DEF a
<1> DEFINE a == i - h + b
<1>3. a \in 0..(2 * b - 1)
  BY <1>1, <1>2
<1> DEFINE j == a % b
<1>4. j = IF a < b THEN a ELSE a - b
  <2> HIDE DEF a
  <2> QED BY <1>3, RingIndex
<1> HIDE DEF j
<1>5. (k <= l => 1 + j > n) /\ (k > l => 1 + j = k - l)
  BY <1>1, <1>2, <1>4
<1> QED BY <1>2, <1>5 DEF j

\* How many bytes there are, by the order of head and tail.
LEMMA BufferedSound ==
  ASSUME NEW p \in PipeRec
  PROVE  /\ Buffered(p) \in 0..(PipeBufSize - 1)
         /\ p.head = (p.tail + Buffered(p)) % PipeBufSize
         /\ Content(p) \in Seq(Bytes) /\ Len(Content(p)) = Buffered(p)
         /\ \A k \in 1..Buffered(p) : Content(p)[k] = p.buf[(p.tail + k - 1) % PipeBufSize]
<1> DEFINE b == PipeBufSize
           t == p.tail
           h == p.head
           a == h - t + b
           l == Buffered(p)
<1>1. b \in Nat \ {0} /\ t \in 0..(b - 1) /\ h \in 0..(b - 1)
  BY DescriptorsAssumption DEF PipeRec, Ring
<1>2. a \in 0..(2 * b - 1) /\ l = a % b
  BY <1>1 DEF Buffered
<1>3. l = (IF a < b THEN a ELSE a - b) /\ l \in 0..(b - 1)
  <2> HIDE DEF a, b, l
  <2> QED BY <1>1, <1>2, RingIndex
<1>4. h = (t + l) % b
  <2> DEFINE c == t + l
  <2>1. c \in 0..(2 * b - 1) /\ h = IF c < b THEN c ELSE c - b
    <3> HIDE DEF b, l, t, h
    <3> QED BY <1>1, <1>3
  <2>2. c % b = IF c < b THEN c ELSE c - b
    <3> HIDE DEF c, b
    <3> QED BY <1>1, <2>1, RingIndex
  <2> QED BY <2>1, <2>2
<1>5. ASSUME NEW k \in 1..l
      PROVE  p.buf[(t + k - 1) % b] \in Bytes
  <2> DEFINE c == t + k - 1
  <2>1. c \in 0..(2 * b - 1)
    <3> HIDE DEF b, l, t
    <3> QED BY <1>1, <1>3
  <2>2. c % b \in 0..(b - 1)
    <3> HIDE DEF c, b
    <3> QED BY <1>1, <2>1, RingIndex
  <2>3. p.buf \in [0..(b - 1) -> Bytes]
    BY DEF PipeRec, Ring
  <2> QED BY <2>2, <2>3
<1>6. Content(p) = [k \in 1..l |-> p.buf[(t + k - 1) % b]]
  BY DEF Content
<1> HIDE DEF l, b, t, h
<1>7. Content(p) \in [1..l -> Bytes] /\ l \in Nat
  <2>1. l \in Nat
    BY <1>1, <1>3
  <2>2. \A k \in 1..l : p.buf[(t + k - 1) % b] \in Bytes
    BY <1>5
  <2> DEFINE place(k) == (t + k - 1) % b
  <2>3. Content(p) = [k \in 1..l |-> p.buf[place(k)]] /\ \A k \in 1..l : p.buf[place(k)] \in Bytes
    BY <1>6, <2>2
  <2> HIDE DEF place
  <2> QED BY <2>1, <2>3
<1>8. Content(p) \in Seq(Bytes) /\ Len(Content(p)) = l
  BY <1>7, FunctionIsSeq
<1>9. \A k \in 1..l : Content(p)[k] = p.buf[(t + k - 1) % b]
  BY <1>6
<1> QED BY <1>3, <1>4, <1>8, <1>9 DEF l, b, t, h

\* Head and tail determine how many bytes there are.
LEMMA BufferedIs ==
  ASSUME NEW p \in PipeRec, NEW l \in 0..(PipeBufSize - 1),
         p.head = (p.tail + l) % PipeBufSize
  PROVE  Buffered(p) = l
<1> DEFINE b == PipeBufSize
           t == p.tail
           h == p.head
           a == h - t + b
           c == t + l
<1>1. b \in Nat \ {0} /\ t \in 0..(b - 1) /\ h \in 0..(b - 1) /\ l \in 0..(b - 1)
  <2>1. b \in Nat \ {0}
    BY DescriptorsAssumption
  <2>2. t \in 0..(b - 1) /\ h \in 0..(b - 1)
    BY DEF PipeRec, Ring
  <2> QED BY <2>1, <2>2
<1>2. a \in 0..(2 * b - 1) /\ c \in 0..(2 * b - 1) /\ h = c % b
  <2>1. h = c % b
    OBVIOUS
  <2> HIDE DEF h, t, b
  <2>2. a \in 0..(2 * b - 1) /\ c \in 0..(2 * b - 1)
    BY <1>1
  <2> QED BY <2>1, <2>2
<1>3. h = (IF c < b THEN c ELSE c - b) /\ a % b = (IF a < b THEN a ELSE a - b)
  <2> HIDE DEF a, b, c, h
  <2> QED BY <1>1, <1>2, RingIndex
<1>4. a % b = l
  <2> DEFINE d == a % b
  <2>1. d = IF a < b THEN a ELSE a - b
    BY <1>3
  <2> HIDE DEF b, t, h, d
  <2>2. d = l
    BY <1>1, <1>3, <2>1
  <2> QED BY <2>2 DEF d
<1> QED BY <1>4 DEF Buffered


\* A write appends as much of the data as there is room for.
LEMMA WriteRing ==
  ASSUME NEW p \in PipeRec, NEW data \in Seq(Bytes)
  PROVE  LET n == Min({Len(data), Room(p)})
             w == pipe_write(p, data)
         IN  /\ w \in PipeRec /\ w.ends = p.ends
             /\ Content(w) = Content(p) \o SubSeq(data, 1, n)
             /\ SubSeq(data, 1, n) \in Seq(Bytes)
<1> DEFINE b == PipeBufSize
           t == p.tail
           h == p.head
           l == Buffered(p)
           n == Min({Len(data), Room(p)})
           w == pipe_write(p, data)
           hw == (h + n) % b
           from(i) == 1 + ((i - h + b) % b)
           buf == [i \in 0..(b - 1) |-> IF from(i) <= n THEN data[from(i)] ELSE p.buf[i]]
<1>1. /\ b \in Nat \ {0} /\ l \in 0..(b - 1) /\ h = (t + l) % b
      /\ t \in 0..(b - 1) /\ h \in 0..(b - 1)
  <2>1. b \in Nat \ {0}
    BY DescriptorsAssumption
  <2>2. t \in 0..(b - 1) /\ h \in 0..(b - 1)
    BY DEF PipeRec, Ring
  <2>3. l \in 0..(b - 1) /\ h = (t + l) % b
    BY BufferedSound
  <2> QED BY <2>1, <2>2, <2>3
<1>2. /\ n \in Nat /\ n <= Len(data) /\ n <= b - 1 - l /\ Len(data) \in Nat
  <2>1. Len(data) \in Nat /\ Room(p) = b - 1 - l /\ Room(p) \in Nat
    <3>1. Room(p) = b - 1 - l
      BY DEF Room
    <3>2. Len(data) \in Nat
      OBVIOUS
    <3> HIDE DEF b, l
    <3> QED BY <1>1, <3>1, <3>2
  <2>2. n = IF Len(data) <= Room(p) THEN Len(data) ELSE Room(p)
    BY <2>1, MinMaxOfTwo
  <2> HIDE DEF n, b, l
  <2> QED BY <2>1, <2>2
<1>3. p.buf \in [0..(b - 1) -> Bytes] /\ DOMAIN p.buf = 0..(b - 1)
  BY DEF PipeRec, Ring
<1>4. w = [p EXCEPT !.head = hw, !.buf = buf]
  BY <1>3 DEF pipe_write
<1>5. ASSUME NEW i \in 0..(b - 1)
      PROVE  from(i) \in 1..b
  <2> DEFINE a == i - h + b
  <2>1. a \in 0..(2 * b - 1)
    <3> HIDE DEF b, h
    <3> QED BY <1>1
  <2>2. a % b \in 0..(b - 1)
    <3> HIDE DEF a, b
    <3> QED BY <1>1, <2>1, RingIndex
  <2> DEFINE c == a % b
  <2>3. from(i) = 1 + c /\ c \in 0..(b - 1)
    BY <2>2
  <2> HIDE DEF c, b, from
  <2> QED BY <1>1, <2>3
<1>6. hw \in 0..(b - 1)
  <2> DEFINE a == h + n
  <2>1. a \in 0..(2 * b - 1)
    <3> HIDE DEF b, h, n, l
    <3> QED BY <1>1, <1>2
  <2>2. a % b \in 0..(b - 1)
    <3> HIDE DEF a, b
    <3> QED BY <1>1, <2>1, RingIndex
  <2> QED BY <2>2
<1> HIDE DEF n, w, hw, from, l
<1>7. buf \in [0..(b - 1) -> Bytes]
  <2>1. ASSUME NEW i \in 0..(b - 1)
        PROVE  (IF from(i) <= n THEN data[from(i)] ELSE p.buf[i]) \in Bytes
    <3>1. CASE from(i) <= n
      <4>1. from(i) \in 1..Len(data)
        BY <1>1, <1>2, <1>5, <3>1
      <4>2. data[from(i)] \in Bytes
        BY <4>1
      <4> QED BY <3>1, <4>2
    <3>2. CASE ~(from(i) <= n)
      BY <1>3, <3>2
    <3> QED BY <3>1, <3>2
  <2> QED BY <2>1
<1>8. \A i \in 0..(b - 1) : buf[i] = IF from(i) <= n THEN data[from(i)] ELSE p.buf[i]
  OBVIOUS
<1> HIDE DEF buf
<1>9. w \in PipeRec /\ w.ends = p.ends /\ w.tail = t /\ w.head = hw /\ w.buf = buf
  BY <1>4, <1>6, <1>7 DEF PipeRec, Ring
<1> DEFINE m == l + n
<1>10. Buffered(w) = m
  <2>1. m \in 0..(b - 1)
    <3> HIDE DEF b
    <3> QED BY <1>1, <1>2
  <2>2. hw = (t + m) % b
    <3> DEFINE x == t + l
               y == h + n
               z == t + m
    <3>1. x \in 0..(2 * b - 1) /\ y \in 0..(2 * b - 1) /\ z \in 0..(2 * b - 1)
      <4> HIDE DEF b, t, h
      <4> QED BY <1>1, <1>2
    <3>2. h = x % b /\ hw = y % b
      BY <1>1 DEF hw
    <3>3. /\ h = (IF x < b THEN x ELSE x - b)
          /\ hw = (IF y < b THEN y ELSE y - b)
          /\ z % b = (IF z < b THEN z ELSE z - b)
      <4> HIDE DEF x, y, z, b, h
      <4> QED BY <1>1, <3>1, <3>2, RingIndex
    <3> DEFINE zb == z % b
    <3>4. zb = (IF z < b THEN z ELSE z - b)
      BY <3>3
    <3> HIDE DEF zb, b, h, t
    <3>5. hw = zb
      BY <1>1, <1>2, <3>1, <3>3, <3>4
    <3> QED BY <3>5 DEF zb
  <2> HIDE DEF m
  <2> QED BY <1>9, <2>1, <2>2, BufferedIs
<1>11. /\ SubSeq(data, 1, n) \in Seq(Bytes) /\ Len(SubSeq(data, 1, n)) = n
       /\ \A k \in 1..n : SubSeq(data, 1, n)[k] = data[k]
  <2>1. \A k \in 1..n : data[k] \in Bytes
    BY <1>2
  <2> QED BY <1>2, <2>1, SubSeqProperties
<1> DEFINE add == SubSeq(data, 1, n)
           c == Content(p)
           d == Content(w)
<1>12. /\ c \in Seq(Bytes) /\ Len(c) = l
       /\ \A k \in 1..l : c[k] = p.buf[(t + k - 1) % b]
  BY BufferedSound DEF l
<1>13. /\ d \in Seq(Bytes) /\ Len(d) = m
       /\ \A k \in 1..m : d[k] = buf[(t + k - 1) % b]
  BY <1>9, <1>10, BufferedSound
<1> HIDE DEF add, c, d
<1>14. /\ c \o add \in Seq(Bytes) /\ Len(c \o add) = m
       /\ \A k \in 1..m : (c \o add)[k] = IF k <= l THEN c[k] ELSE add[k - l]
  BY <1>11, <1>12, ConcatProperties DEF add
<1>15. ASSUME NEW k \in 1..m
       PROVE  d[k] = (c \o add)[k]
  <2> DEFINE i == (t + k - 1) % b
             f == from(i)
  <2>1. i \in 0..(b - 1) /\ (k <= l => f > n) /\ (k > l => f = k - l)
    <3>1. n \in 0..(b - 1 - l) /\ k \in 1..(l + n) /\ f = 1 + ((i - h + b) % b)
      <4>1. f = 1 + ((i - h + b) % b)
        BY DEF from
      <4> HIDE DEF b, f
      <4> QED BY <1>1, <1>2, <4>1
    <3>2. i = (t + k - 1) % b
      OBVIOUS
    <3> HIDE DEF i, f, b, t, h
    <3> QED BY <1>1, <3>1, <3>2, RingPlaces, SMTT(30)
  <2>2. d[k] = buf[i]
    BY <1>13
  <2> HIDE DEF i
  <2>3. d[k] = IF f <= n THEN data[f] ELSE p.buf[i]
    BY <1>8, <2>1, <2>2
  <2>4. l \in Int /\ n \in Int /\ k \in Int /\ k <= l + n /\ k >= 1 /\ f \in Int
    <3>1. f \in 1..b
      BY <1>5, <2>1
    <3> HIDE DEF b, f
    <3> QED BY <1>1, <1>2, <3>1
  <2> HIDE DEF f
  <2>5. CASE k <= l
    <3>1. d[k] = p.buf[i]
      BY <2>1, <2>3, <2>4, <2>5
    <3>2. c[k] = p.buf[i]
      <4>1. k \in 1..l
        BY <2>4, <2>5
      <4> QED BY <1>12, <4>1 DEF i
    <3> QED BY <1>14, <2>5, <3>1, <3>2
  <2>6. CASE k > l
    <3>1. f = k - l /\ f \in 1..n /\ ~(k <= l)
      BY <2>1, <2>4, <2>6
    <3>2. d[k] = data[f]
      BY <2>3, <3>1
    <3>3. add[f] = data[f]
      BY <1>11, <3>1 DEF add
    <3> QED BY <1>14, <3>1, <3>2, <3>3
  <2>7. k <= l \/ k > l
    BY <2>4
  <2> QED BY <2>5, <2>6, <2>7, Zenon
<1>16. d = c \o add
  BY <1>13, <1>14, <1>15, SeqEqual
<1> QED BY <1>9, <1>11, <1>16 DEF w, c, d, add, n


\* A read takes the oldest bytes.
LEMMA ReadRing ==
  ASSUME NEW p \in PipeRec, NEW n \in Nat
  PROVE  LET m == Min({n, Buffered(p)})
             r == pipe_read(p, n)
         IN  /\ r \in PipeRec /\ r.ends = p.ends
             /\ Content(r) = SubSeq(Content(p), m + 1, Len(Content(p)))
             /\ Content(r) \in Seq(Bytes)
<1> DEFINE b == PipeBufSize
           t == p.tail
           h == p.head
           l == Buffered(p)
           m == Min({n, l})
           r == pipe_read(p, n)
           tr == (t + m) % b
<1>1. /\ b \in Nat \ {0} /\ l \in 0..(b - 1) /\ h = (t + l) % b
      /\ t \in 0..(b - 1) /\ h \in 0..(b - 1)
  <2>1. b \in Nat \ {0}
    BY DescriptorsAssumption
  <2>2. t \in 0..(b - 1) /\ h \in 0..(b - 1)
    BY DEF PipeRec, Ring
  <2>3. l \in 0..(b - 1) /\ h = (t + l) % b
    BY BufferedSound
  <2> QED BY <2>1, <2>2, <2>3
<1>2. m \in Nat /\ m <= l
  <2>1. n \in Int /\ l \in Int
    <3> HIDE DEF l, b
    <3> QED BY <1>1
  <2>2. m = IF n <= l THEN n ELSE l
    <3> HIDE DEF l
    <3> QED BY <2>1, MinMaxOfTwo
  <2> HIDE DEF m, b, l
  <2> QED BY <1>1, <2>2
<1>3. r = [p EXCEPT !.tail = tr]
  BY DEF pipe_read
<1>4. tr = (IF t + m < b THEN t + m ELSE t + m - b) /\ tr \in 0..(b - 1)
  <2> DEFINE a == t + m
  <2>1. a \in 0..(2 * b - 1) /\ tr = a % b
    <3>1. tr = a % b
      OBVIOUS
    <3> HIDE DEF b, t, m, l, tr
    <3>2. a \in 0..(2 * b - 1)
      BY <1>1, <1>2
    <3> QED BY <3>1, <3>2
  <2> HIDE DEF a, b, tr
  <2>2. tr = (IF a < b THEN a ELSE a - b) /\ tr \in 0..(b - 1)
    BY <1>1, <2>1, RingIndex
  <2> HIDE DEF t, m, l
  <2> QED BY <1>1, <1>2, <2>2 DEF a
<1> HIDE DEF m, r, tr, l
<1>5. r \in PipeRec /\ r.ends = p.ends /\ r.tail = tr /\ r.head = h /\ r.buf = p.buf
  BY <1>3, <1>4 DEF PipeRec, Ring
<1> DEFINE q == l - m
<1>6. Buffered(r) = q
  <2>1. q \in 0..(b - 1)
    <3> HIDE DEF b
    <3> QED BY <1>1, <1>2
  <2>2. h = (tr + q) % b
    <3> DEFINE x == t + l
               y == tr + q
    <3>1. x \in 0..(2 * b - 1) /\ y \in 0..(2 * b - 1)
      <4> HIDE DEF b, t, h
      <4> QED BY <1>1, <1>2, <1>4
    <3>2. h = x % b
      BY <1>1
    <3> DEFINE yb == y % b
    <3>3. /\ h = (IF x < b THEN x ELSE x - b)
          /\ yb = (IF y < b THEN y ELSE y - b)
      <4> HIDE DEF x, y, b, h
      <4> QED BY <1>1, <3>1, <3>2, RingIndex
    <3> HIDE DEF yb, b, h, t
    <3>4. h = yb
      BY <1>1, <1>2, <1>4, <3>3
    <3> QED BY <3>4 DEF yb
  <2> HIDE DEF q, b
  <2> QED BY <1>5, <2>1, <2>2, BufferedIs DEF b
<1> DEFINE c == Content(p)
           d == Content(r)
<1>7. /\ c \in Seq(Bytes) /\ Len(c) = l
      /\ \A k \in 1..l : c[k] = p.buf[(t + k - 1) % b]
  BY BufferedSound DEF l
<1>8. /\ d \in Seq(Bytes) /\ Len(d) = q
      /\ \A k \in 1..q : d[k] = p.buf[(tr + k - 1) % b]
  BY <1>5, <1>6, BufferedSound
<1> HIDE DEF c, d
<1> DEFINE s == SubSeq(c, m + 1, l)
<1>9. /\ s \in Seq(Bytes) /\ Len(s) = q
      /\ \A k \in 1..q : s[k] = c[m + k]
  <2>1. \A k \in (m + 1)..l : c[k] \in Bytes
    <3> HIDE DEF b
    <3> QED BY <1>1, <1>2, <1>7
  <2> DEFINE u == m + 1
  <2>2. u \in Int /\ l \in Int
    <3> HIDE DEF b
    <3> QED BY <1>1, <1>2
  <2>3. /\ s \in Seq(Bytes) /\ Len(s) = (IF u <= l THEN l - u + 1 ELSE 0)
        /\ \A k \in 1..(l - u + 1) : s[k] = c[u + k - 1]
    <3>1. \A k \in u..l : c[k] \in Bytes
      BY <2>1
    <3> HIDE DEF u
    <3>2. /\ SubSeq(c, u, l) \in Seq(Bytes) /\ Len(SubSeq(c, u, l)) = (IF u <= l THEN l - u + 1 ELSE 0)
          /\ \A k \in 1..(l - u + 1) : SubSeq(c, u, l)[k] = c[u + k - 1]
      BY <2>2, <3>1, SubSeqProperties
    <3> QED BY <3>2 DEF u
  <2> HIDE DEF s, b
  <2>4. l - u + 1 = q /\ \A k \in Int : u + k - 1 = m + k
    BY <1>1, <1>2
  <2>5. Len(s) = q
    BY <1>1, <1>2, <2>3, <2>4
  <2>6. ASSUME NEW k \in 1..q
        PROVE  s[k] = c[m + k]
    <3>1. k \in 1..(l - u + 1) /\ k \in Int
      BY <2>4
    <3>2. u + k - 1 = m + k
      BY <2>4, <3>1
    <3> HIDE DEF u
    <3> QED BY <2>3, <3>1, <3>2
  <2> QED BY <2>3, <2>5, <2>6
<1> HIDE DEF s
<1>10. ASSUME NEW k \in 1..q
       PROVE  d[k] = s[k]
  <2> DEFINE x == tr + k - 1
             y == t + (m + k) - 1
  <2>1. x \in 0..(2 * b - 1) /\ y \in 0..(2 * b - 1) /\ m + k \in 1..l
    <3> HIDE DEF b, t
    <3> QED BY <1>1, <1>2, <1>4
  <2> DEFINE xb == x % b
             yb == y % b
  <2>2. xb = (IF x < b THEN x ELSE x - b) /\ yb = (IF y < b THEN y ELSE y - b)
    <3> HIDE DEF x, y, b
    <3> QED BY <1>1, <2>1, RingIndex
  <2>3. d[k] = p.buf[xb] /\ c[m + k] = p.buf[yb]
    BY <1>7, <1>8, <2>1
  <2> HIDE DEF xb, yb
  <2>4. xb = yb
    <3> HIDE DEF b, t
    <3> QED BY <1>1, <1>2, <1>4, <2>2
  <2> QED BY <1>9, <2>3, <2>4
<1>11. d = s
  <2> HIDE DEF q
  <2> QED BY <1>8, <1>9, <1>10, SeqEqual
<1>12. s = SubSeq(c, m + 1, Len(c))
  BY <1>7 DEF s
<1> QED BY <1>5, <1>8, <1>11, <1>12 DEF r, c, d, m, l


-----------------------------------------------------------------------------
(* The ends of pipes. *)

Tables == [Procs -> FdTable]
Pipes == [Ids -> PipeRec \cup {NoPipe}]
End(i, role) == [pipe |-> i, role |-> role]

\* The descriptors that hold e, in the tables ft, and how many there are.
HeldIn(ft, e) == {x \in Procs \X Fds : ft[x[1]][x[2]] = e}
Count(ft, e) == Cardinality(HeldIn(ft, e))

\* EndsCounted, with the tables, the pipes and the strays as parameters.
Counted(ft, ps, lost) ==
  \A i \in Ids, role \in Roles :
    /\ ps[i].ends[role] >= Count(ft, End(i, role))
    /\ i \notin lost => ps[i].ends[role] = Count(ft, End(i, role))

\* The parameters are the variables.
LEMMA CountedIs == EndsCounted <=> Counted(fds, pipe, astray)
  BY DEF EndsCounted, Counted, Held, HeldIn, Count, End

\* And they are the primed variables in the next state.
LEMMA CountedNext == EndsCounted' <=> Counted(fds', pipe', astray')
  BY DEF EndsCounted, Counted, Held, HeldIn, Count, End

\* A live pipe is told apart from the slot of a pipe that is gone, which
\* counts no ends.
LEMMA LiveOrGone ==
  /\ \A p \in PipeRec : p # NoPipe
  /\ \A ps \in Pipes : \A i \in Ids : ps[i].ends \in [Roles -> Nat] /\ (ps[i] # NoPipe => ps[i] \in PipeRec)
  /\ \A r \in Roles : NoPipe.ends[r] = 0
<1>1. ASSUME NEW p \in PipeRec
      PROVE  p # NoPipe
  <2>1. 0 \in Ring
    BY DescriptorsAssumption DEF Ring
  <2>2. DOMAIN p.buf = Ring
    BY DEF PipeRec
  <2>3. DOMAIN NoPipe.buf = {}
    <3>1. NoPipe.buf = <<>>
      BY DEF NoPipe
    <3> QED BY <3>1
  <2> QED BY <2>1, <2>2, <2>3
<1>2. NoPipe.ends = [r \in Roles |-> 0]
  BY DEF NoPipe
<1>3. ASSUME NEW ps \in Pipes, NEW i \in Ids
      PROVE  ps[i].ends \in [Roles -> Nat] /\ (ps[i] # NoPipe => ps[i] \in PipeRec)
  <2>1. ps[i] \in PipeRec \cup {NoPipe}
    BY DEF Pipes
  <2>2. CASE ps[i] \in PipeRec
    BY <2>2 DEF PipeRec
  <2>3. CASE ps[i] = NoPipe
    BY <1>2, <2>3
  <2> QED BY <2>1, <2>2, <2>3
<1> QED BY <1>1, <1>2, <1>3

\* There are finitely many descriptors.
LEMMA CountType ==
  ASSUME NEW ft, NEW e
  PROVE  IsFiniteSet(HeldIn(ft, e)) /\ Count(ft, e) \in Nat
<1>1. IsFiniteSet(Fds)
  <2>1. 0 \in Int /\ FdTableSize - 1 \in Int
    BY DescriptorsAssumption
  <2> QED BY <2>1, FS_Interval DEF Fds
<1>2. IsFiniteSet(Procs \X Fds)
  BY <1>1, FS_Product, DescriptorsAssumption
<1>3. HeldIn(ft, e) \in SUBSET (Procs \X Fds)
  BY DEF HeldIn
<1>4. IsFiniteSet(HeldIn(ft, e))
  BY <1>2, <1>3, FS_Subset
<1> QED BY <1>4, FS_CardinalityType DEF Count

\* An end that some descriptor holds is counted.
LEMMA HeldCounts ==
  ASSUME NEW ft, NEW p \in Procs, NEW f \in Fds
  PROVE  Count(ft, ft[p][f]) > 0
<1>1. <<p, f>> \in HeldIn(ft, ft[p][f])
  BY DEF HeldIn
<1>2. Count(ft, ft[p][f]) # 0
  BY <1>1, CountType, FS_EmptySet DEF Count
<1> QED BY <1>2, CountType

\* The tables gt are ft with v stored in descriptor f of p.
StoredAt(gt, ft, p, f, v) ==
  /\ gt[p][f] = v
  /\ \A q \in Procs, g \in Fds : <<q, g>> # <<p, f>> => gt[q][g] = ft[q][g]

\* Storing v gives up the end that was there and takes another.
LEMMA StoreEnd ==
  ASSUME NEW ft, NEW gt, NEW p \in Procs, NEW f \in Fds, NEW v, NEW e,
         StoredAt(gt, ft, p, f, v)
  PROVE  Count(gt, e) = Count(ft, e) - (IF ft[p][f] = e THEN 1 ELSE 0)
                                     + (IF v = e THEN 1 ELSE 0)
<1> DEFINE x == <<p, f>>
           A == HeldIn(ft, e)
           B == HeldIn(gt, e)
<1>1. /\ gt[p][f] = v
      /\ \A q \in Procs, g \in Fds : <<q, g>> # x => gt[q][g] = ft[q][g]
  BY DEF StoredAt
<1>2. A \ {x} = B \ {x}
  <2>1. ASSUME NEW y \in Procs \X Fds, y # x
        PROVE  gt[y[1]][y[2]] = ft[y[1]][y[2]]
    BY <1>1, <2>1
  <2> QED BY <2>1 DEF HeldIn
<1>3. (x \in A <=> ft[p][f] = e) /\ (x \in B <=> v = e)
  BY <1>1 DEF HeldIn
<1>4. IsFiniteSet(A) /\ IsFiniteSet(B) /\ Cardinality(A) \in Nat /\ Cardinality(B) \in Nat
  BY CountType DEF Count
<1> HIDE DEF A, B, x
<1>5. /\ Cardinality(A \ {x}) = IF x \in A THEN Cardinality(A) - 1 ELSE Cardinality(A)
      /\ Cardinality(B \ {x}) = IF x \in B THEN Cardinality(B) - 1 ELSE Cardinality(B)
  BY <1>4, FS_RemoveElement
<1>6. Cardinality(B) = Cardinality(A) - (IF ft[p][f] = e THEN 1 ELSE 0)
                                      + (IF v = e THEN 1 ELSE 0)
  <2> DEFINE a == Cardinality(A)
             b == Cardinality(B)
  <2>1. (IF x \in A THEN a - 1 ELSE a) = (IF x \in B THEN b - 1 ELSE b)
    BY <1>2, <1>5
  <2>2. a \in Nat /\ b \in Nat
    BY <1>4
  <2> HIDE DEF a, b
  <2>3. b = a - (IF ft[p][f] = e THEN 1 ELSE 0) + (IF v = e THEN 1 ELSE 0)
    BY <1>3, <2>1, <2>2
  <2> QED BY <2>3 DEF a, b
<1> QED BY <1>6 DEF A, B, Count

\* What a pipe holds depends on its ring only.
LEMMA SameContent ==
  ASSUME NEW p, NEW q, q.head = p.head, q.tail = p.tail, q.buf = p.buf
  PROVE  Content(q) = Content(p)
  BY DEF Content, Buffered

\* Giving up an end that is counted.  A pipe goes with its last end.
LEMMA CloseSound ==
  ASSUME NEW ps \in Pipes, NEW e \in Ends, ps[e.pipe].ends[e.role] > 0
  PROVE  LET qs == pipe_close_role(ps, e)
         IN  /\ qs \in Pipes
             /\ \A i \in Ids, r \in Roles :
                  qs[i].ends[r] = ps[i].ends[r] - (IF e = End(i, r) THEN 1 ELSE 0)
             /\ \A i \in Ids : /\ ps[i] = NoPipe => qs[i] = NoPipe
                               /\ qs[i] # NoPipe => Content(qs[i]) = Content(ps[i])
<1> DEFINE id == e.pipe
           p == ps[id]
           left == [p.ends EXCEPT ![e.role] = @ - 1]
           q == [p EXCEPT !.ends = left]
           qs == pipe_close_role(ps, e)
<1>1. id \in Ids /\ e.role \in Roles /\ e = End(id, e.role)
  BY DEF Ends, End
<1>2. p # NoPipe
  BY <1>1, LiveOrGone
<1>3. p \in PipeRec /\ p.ends \in [Roles -> Nat]
  BY <1>1, <1>2, LiveOrGone DEF PipeRec
<1>4. left \in [Roles -> Nat] /\ \A r \in Roles : left[r] = p.ends[r] - (IF r = e.role THEN 1 ELSE 0)
  <2>1. p.ends[e.role] \in Nat /\ p.ends[e.role] > 0
    BY <1>1, <1>3
  <2>2. p.ends[e.role] - 1 \in Nat
    BY <2>1
  <2>3. \A r \in Roles : p.ends[r] \in Nat
    BY <1>3
  <2> QED BY <1>1, <1>3, <2>2, <2>3
<1>5. qs = [ps EXCEPT ![id] = IF \A r \in Roles : q.ends[r] = 0 THEN NoPipe ELSE q]
  <2>1. [p EXCEPT !.ends[e.role] = IF @ > 0 THEN @ - 1 ELSE 0] = q
    BY <1>1, <1>3 DEF PipeRec
  <2> QED BY <1>2, <2>1 DEF pipe_close_role
<1> HIDE DEF left
<1>6. q \in PipeRec /\ q.ends = left /\ q.head = p.head /\ q.tail = p.tail /\ q.buf = p.buf
  BY <1>3, <1>4 DEF PipeRec
<1> HIDE DEF q, qs
<1>7. qs \in Pipes /\ qs[id] = (IF \A r \in Roles : left[r] = 0 THEN NoPipe ELSE q)
      /\ \A i \in Ids : i # id => qs[i] = ps[i]
  BY <1>1, <1>5, <1>6 DEF Pipes
<1>8. ASSUME NEW i \in Ids, NEW r \in Roles
      PROVE  qs[i].ends[r] = ps[i].ends[r] - (IF e = End(i, r) THEN 1 ELSE 0)
  <2>1. ps[i].ends[r] \in Nat
    BY LiveOrGone
  <2>2. CASE i # id
    <3>1. e # End(i, r)
      BY <1>1, <2>2 DEF End
    <3> QED BY <1>7, <2>1, <2>2, <3>1
  <2>3. CASE i = id
    <3>1. e = End(i, r) <=> r = e.role
      BY <1>1, <2>3 DEF End
    <3>2. qs[i].ends[r] = left[r]
      <4>1. CASE \A u \in Roles : left[u] = 0
        BY <1>7, <2>3, <4>1, LiveOrGone
      <4>2. CASE ~(\A u \in Roles : left[u] = 0)
        BY <1>6, <1>7, <2>3, <4>2
      <4> QED BY <4>1, <4>2
    <3> QED BY <1>4, <2>3, <3>1, <3>2
  <2> QED BY <2>2, <2>3
<1>9. ASSUME NEW i \in Ids
      PROVE  /\ ps[i] = NoPipe => qs[i] = NoPipe
             /\ qs[i] # NoPipe => Content(qs[i]) = Content(ps[i])
  <2>1. Content(q) = Content(p)
    BY <1>6, SameContent
  <2> QED BY <1>2, <1>7, <2>1
<1> QED BY <1>7, <1>8, <1>9 DEF qs

\* Taking another end of a pipe that is there.
LEMMA CloneSound ==
  ASSUME NEW ps \in Pipes, NEW e \in Ends, ps[e.pipe] # NoPipe
  PROVE  LET qs == pipe_clone_role(ps, e)
         IN  /\ qs \in Pipes
             /\ \A i \in Ids, r \in Roles :
                  qs[i].ends[r] = ps[i].ends[r] + (IF e = End(i, r) THEN 1 ELSE 0)
             /\ \A i \in Ids : /\ ps[i] = NoPipe => qs[i] = NoPipe
                               /\ qs[i] # NoPipe => Content(qs[i]) = Content(ps[i])
<1> DEFINE id == e.pipe
           p == ps[id]
           more == [p.ends EXCEPT ![e.role] = @ + 1]
           q == [p EXCEPT !.ends = more]
           qs == pipe_clone_role(ps, e)
<1>1. id \in Ids /\ e.role \in Roles /\ e = End(id, e.role)
  BY DEF Ends, End
<1>2. p \in PipeRec /\ p.ends \in [Roles -> Nat]
  BY <1>1, LiveOrGone DEF PipeRec
<1>3. more \in [Roles -> Nat] /\ \A r \in Roles : more[r] = p.ends[r] + (IF r = e.role THEN 1 ELSE 0)
  <2>1. p.ends[e.role] + 1 \in Nat /\ \A r \in Roles : p.ends[r] \in Nat
    BY <1>1, <1>2
  <2> QED BY <1>1, <1>2, <2>1
<1>4. qs = [ps EXCEPT ![id] = q]
  <2>1. qs = [ps EXCEPT ![id].ends[e.role] = @ + 1]
    BY DEF pipe_clone_role
  <2> QED BY <1>1, <1>2, <2>1 DEF PipeRec, Pipes
<1> HIDE DEF more
<1>5. q \in PipeRec /\ q.ends = more /\ q.head = p.head /\ q.tail = p.tail /\ q.buf = p.buf
  BY <1>2, <1>3 DEF PipeRec
<1> HIDE DEF q, qs
<1>6. qs \in Pipes /\ qs[id] = q /\ \A i \in Ids : i # id => qs[i] = ps[i]
  BY <1>1, <1>4, <1>5 DEF Pipes
<1>7. ASSUME NEW i \in Ids, NEW r \in Roles
      PROVE  qs[i].ends[r] = ps[i].ends[r] + (IF e = End(i, r) THEN 1 ELSE 0)
  <2>1. ps[i].ends[r] \in Nat
    BY LiveOrGone
  <2>2. CASE i # id
    <3>1. e # End(i, r)
      BY <1>1, <2>2 DEF End
    <3> QED BY <1>6, <2>1, <2>2, <3>1
  <2>3. CASE i = id
    <3>1. e = End(i, r) <=> r = e.role
      BY <1>1, <2>3 DEF End
    <3> QED BY <1>3, <1>5, <1>6, <2>3, <3>1
  <2> QED BY <2>2, <2>3
<1>8. ASSUME NEW i \in Ids
      PROVE  /\ ps[i] = NoPipe => qs[i] = NoPipe
             /\ qs[i] # NoPipe => Content(qs[i]) = Content(ps[i])
  <2>1. Content(q) = Content(p)
    BY <1>5, SameContent
  <2> QED BY <1>6, <2>1
<1> QED BY <1>6, <1>7, <1>8 DEF qs


-----------------------------------------------------------------------------
(* The system calls. *)

\* What ConsoleKept and IdsNotReused say of one step.
ConsoleStep ==
  \A p \in Procs, f \in 0..(UserFdBase - 1) :
    fds[p][f] = NoEnd /\ fds'[p][f] # NoEnd
      => \A g \in UserFdBase..(FdTableSize - 1) : fds'[p][g] # NoEnd

IdsStep == \A i \in Ids : i < nextPipe /\ pipe[i] = NoPipe => pipe'[i] = NoPipe

Kept == DescInv' /\ ConsoleStep /\ IdsStep

\* The parts of the invariant, for the variables that occur in them.
LEMMA InvParts ==
  ASSUME DescInv
  PROVE  /\ pipe \in Pipes /\ nextPipe \in 0..MaxPipes /\ fds \in Tables /\ nextFd \in [Procs -> Fds]
         /\ alive \subseteq Procs /\ halted \in BOOLEAN /\ astray \subseteq Ids
         /\ console \in [by : Procs \cup {None}, line : Seq(Keys), screen : Seq(Keys \cup {"prompt"})]
         /\ Len(console.line) < LineSize
         /\ stream \in [Ids -> Seq(Bytes)]
         /\ Counted(fds, pipe, astray)
         /\ Undrawn /\ UsedBelowNext /\ PipeIsFifo /\ EchoMatches
  BY CountedIs DEF DescInv, DescTypes, Pipes, Tables, FdTable

\* A step that only concerns the console, who is alive and the machine's end.
LEMMA ConsoleSteps ==
  ASSUME DescInv, UNCHANGED <<pipe, nextPipe, fds, nextFd, stream, astray>>,
         alive' \subseteq Procs, halted' \in BOOLEAN,
         console' \in [by : Procs \cup {None}, line : Seq(Keys), screen : Seq(Keys \cup {"prompt"})],
         Len(console'.line) < LineSize,
         console'.screen = <<"prompt">> \o console'.line
  PROVE  Kept
<1>1. DescTypes' /\ EchoMatches'
  BY DEF DescInv, DescTypes, EchoMatches
<1>2. Undrawn' /\ UsedBelowNext' /\ PipeIsFifo'
  BY DEF DescInv, Undrawn, UsedBelowNext, PipeIsFifo
<1>3. EndsCounted'
  BY InvParts, CountedNext
<1>4. ConsoleStep /\ IdsStep
  BY DEF ConsoleStep, IdsStep
<1> QED BY <1>1, <1>2, <1>3, <1>4 DEF Kept, DescInv

\* A process exits.
LEMMA ExitKeeps ==
  ASSUME DescInv, NEW p \in Procs, sys_exit(p)
  PROVE  Kept
<1>1. alive' \subseteq Procs /\ UNCHANGED <<pipe, nextPipe, fds, nextFd, console, halted, stream, astray>>
  BY InvParts DEF sys_exit
<1>2. console.screen = <<"prompt">> \o console.line
  BY InvParts DEF EchoMatches
<1> QED BY <1>1, <1>2, InvParts, ConsoleSteps

\* A line begins.
LEMMA StartKeeps ==
  ASSUME DescInv, NEW p \in Procs, StartLine(p)
  PROVE  Kept
<1>1. /\ alive' = alive /\ UNCHANGED <<pipe, nextPipe, fds, nextFd, halted, stream, astray>>
      /\ console' = [by |-> p, line |-> <<>>, screen |-> <<"prompt">>]
  BY DEF StartLine, NoReader
<1>2. <<>> \in Seq(Keys) /\ <<"prompt">> \in Seq(Keys \cup {"prompt"}) /\ Len(<<>>) < LineSize
  BY DescriptorsAssumption
<1>3. <<"prompt">> = <<"prompt">> \o <<>>
  BY <1>2, ConcatEmptySeq
<1> QED BY <1>1, <1>2, <1>3, InvParts, ConsoleSteps

\* The line and the screen that Enter and Erase make of matching ones match.
LEMMA EnterErase ==
  ASSUME NEW line \in Seq(Keys), NEW k \in Keys
  PROVE  /\ Append(line, k) \in Seq(Keys) /\ Len(Append(line, k)) = Len(line) + 1
         /\ Append(<<"prompt">> \o line, k) = <<"prompt">> \o Append(line, k)
         /\ line # <<>> => /\ Front(line) \in Seq(Keys) /\ Len(Front(line)) = Len(line) - 1
                           /\ Front(<<"prompt">> \o line) = <<"prompt">> \o Front(line)
         /\ <<"prompt">> \o line \in Seq(Keys \cup {"prompt"})
<1> DEFINE T == Keys \cup {"prompt"}
           a == <<"prompt">>
<1>1. a \in Seq(T) /\ line \in Seq(T) /\ k \in T /\ Len(a) = 1 /\ a[1] = "prompt"
  BY SeqMonotonic
<1> HIDE DEF a, T
<1>2. a \o line \in Seq(T) /\ Len(a \o line) = 1 + Len(line)
      /\ \A i \in 1..(1 + Len(line)) : (a \o line)[i] = IF i <= 1 THEN a[i] ELSE line[i - 1]
  BY <1>1, ConcatProperties, SMTT(30)
<1>3. Append(line, k) \in Seq(Keys) /\ Append(line, k) \in Seq(T) /\ Len(Append(line, k)) = Len(line) + 1
      /\ \A i \in 1..Len(line) : Append(line, k)[i] = line[i]
      /\ Append(line, k)[Len(line) + 1] = k
  BY <1>1, AppendProperties
<1>4. Append(a \o line, k) = a \o Append(line, k)
  <2> DEFINE u == a \o line
             v == Append(line, k)
             x == Append(u, k)
             y == a \o v
             n == Len(line)
  <2>1. x \in Seq(T) /\ Len(x) = n + 2 /\ (\A i \in 1..(n + 1) : x[i] = u[i]) /\ x[n + 2] = k
    <3>1. u \in Seq(T) /\ Len(u) = n + 1 /\ n \in Nat
      BY <1>2
    <3> HIDE DEF u, n
    <3>2. x \in Seq(T) /\ Len(x) = Len(u) + 1 /\ (\A i \in 1..Len(u) : x[i] = u[i]) /\ x[Len(u) + 1] = k
      BY <1>1, <3>1, AppendProperties
    <3>3. Len(u) + 1 = n + 2
      BY <3>1
    <3> HIDE DEF x
    <3> QED BY <3>1, <3>2, <3>3
  <2>2. y \in Seq(T) /\ Len(y) = n + 2 /\ \A i \in 1..(n + 2) : y[i] = IF i <= 1 THEN a[i] ELSE v[i - 1]
    <3>1. v \in Seq(T) /\ Len(v) = n + 1 /\ n \in Nat
      BY <1>3
    <3> HIDE DEF v, n
    <3>2. y \in Seq(T) /\ Len(y) = Len(a) + Len(v)
          /\ \A i \in 1..(Len(a) + Len(v)) : y[i] = IF i <= Len(a) THEN a[i] ELSE v[i - Len(a)]
      BY <1>1, <3>1, ConcatProperties
    <3>3. Len(a) + Len(v) = n + 2
      BY <1>1, <3>1
    <3> HIDE DEF y
    <3> QED BY <1>1, <3>2, <3>3
  <2>3. n \in Nat
    OBVIOUS
  <2>4. /\ \A i \in 1..(n + 1) : u[i] = IF i <= 1 THEN a[i] ELSE line[i - 1]
        /\ \A i \in 1..n : v[i] = line[i]
        /\ v[n + 1] = k
    BY <1>2, <1>3
  <2> HIDE DEF x, y, u, v, n
  <2>5. ASSUME NEW i \in 1..(n + 2)
        PROVE  x[i] = y[i]
    <3>1. CASE i = n + 2
      BY <2>1, <2>2, <2>3, <2>4, <3>1
    <3>2. CASE i = 1
      <4>1. 1 \in 1..(n + 1) /\ 1 \in 1..(n + 2) /\ 1 <= 1
        BY <2>3
      <4>2. x[1] = a[1] /\ y[1] = a[1]
        BY <2>1, <2>2, <2>4, <4>1
      <4> QED BY <3>2, <4>2
    <3>3. CASE i > 1 /\ i < n + 2
      <4>1. i \in 1..(n + 1) /\ i - 1 \in 1..n /\ ~(i <= 1)
        BY <2>3, <3>3
      <4> QED BY <2>1, <2>2, <2>4, <4>1
    <3> QED BY <2>3, <3>1, <3>2, <3>3
  <2>6. x = y
    BY <2>1, <2>2, <2>5, SeqEqual
  <2> QED BY <2>6 DEF x, y, u, v
<1>5. ASSUME line # <<>>
      PROVE  /\ Front(line) \in Seq(Keys) /\ Len(Front(line)) = Len(line) - 1
             /\ Front(a \o line) = a \o Front(line)
  <2> DEFINE n == Len(line)
             u == a \o line
             v == SubSeq(line, 1, n - 1)
             x == SubSeq(u, 1, n)
             y == a \o v
  <2>1. n \in Nat /\ n >= 1
    BY <1>5
  <2>2. Len(u) = n + 1
    BY <1>2
  <2>3. v \in Seq(Keys) /\ v \in Seq(T) /\ Len(v) = n - 1 /\ \A i \in 1..(n - 1) : v[i] = line[i]
    <3>1. \A i \in 1..(n - 1) : line[i] \in Keys
      OBVIOUS
    <3>2. \A i \in 1..(n - 1) : line[i] \in T
      BY <3>1 DEF T
    <3> HIDE DEF n
    <3>3. v \in Seq(Keys) /\ v \in Seq(T)
          /\ Len(v) = (IF 1 <= n - 1 THEN n - 1 - 1 + 1 ELSE 0)
          /\ \A i \in 1..(n - 1 - 1 + 1) : v[i] = line[1 + i - 1]
      BY <2>1, <3>1, <3>2, SubSeqProperties
    <3> HIDE DEF v
    <3> QED BY <2>1, <3>3
  <2>4. x \in Seq(T) /\ Len(x) = n /\ \A i \in 1..n : x[i] = u[i]
    <3>1. \A i \in 1..n : u[i] \in T
      <4>1. u \in Seq(T)
        BY <1>2
      <4> HIDE DEF u, n
      <4> QED BY <2>1, <2>2, <4>1
    <3> HIDE DEF n, u
    <3>2. x \in Seq(T)
          /\ Len(x) = (IF 1 <= n THEN n - 1 + 1 ELSE 0)
          /\ \A i \in 1..(n - 1 + 1) : x[i] = u[1 + i - 1]
      BY <2>1, <3>1, SubSeqProperties
    <3> HIDE DEF x
    <3> QED BY <2>1, <3>2
  <2>5. y \in Seq(T) /\ Len(y) = n /\ \A i \in 1..n : y[i] = IF i <= 1 THEN a[i] ELSE v[i - 1]
    <3> HIDE DEF v, n
    <3>1. y \in Seq(T) /\ Len(y) = Len(a) + Len(v)
          /\ \A i \in 1..(Len(a) + Len(v)) : y[i] = IF i <= Len(a) THEN a[i] ELSE v[i - Len(a)]
      BY <1>1, <2>3, ConcatProperties
    <3>2. Len(a) + Len(v) = n
      BY <1>1, <2>1, <2>3
    <3> HIDE DEF y
    <3> QED BY <1>1, <3>1, <3>2
  <2>6. \A i \in 1..(n + 1) : u[i] = IF i <= 1 THEN a[i] ELSE line[i - 1]
    BY <1>2
  <2> HIDE DEF x, y, u, v, n
  <2>7. ASSUME NEW i \in 1..n
        PROVE  x[i] = y[i]
    <3>1. CASE i = 1
      <4>1. 1 \in 1..(n + 1) /\ 1 \in 1..n /\ 1 <= 1
        BY <2>1
      <4>2. x[1] = a[1] /\ y[1] = a[1]
        BY <2>4, <2>5, <2>6, <4>1
      <4> QED BY <3>1, <4>2
    <3>2. CASE i > 1
      <4>1. i \in 1..(n + 1) /\ i - 1 \in 1..(n - 1) /\ ~(i <= 1)
        BY <2>1, <3>2
      <4> QED BY <2>3, <2>4, <2>5, <2>6, <4>1
    <3> QED BY <2>1, <3>1, <3>2
  <2>8. x = y
    BY <2>4, <2>5, <2>7, SeqEqual
  <2>9. Front(u) = x /\ Front(line) = v
    <3>1. Len(u) - 1 = n
      BY <2>1, <2>2
    <3> QED BY <3>1 DEF Front, x, v, n
  <2> QED BY <2>3, <2>8, <2>9 DEF u, y, n
<1> QED BY <1>2, <1>3, <1>4, <1>5 DEF a, T


\* A key is typed.
LEMMA KeyKeeps ==
  ASSUME DescInv, NEW k \in Keys, Key(k)
  PROVE  Kept
<1> DEFINE Consoles == [by : Procs \cup {None}, line : Seq(Keys), screen : Seq(Keys \cup {"prompt"})]
           Matches(c) == c.screen = <<"prompt">> \o c.line
           next == CASE k = "erase"                 -> Erase(console)
                     [] k \in {"nul", "interrupt"}  -> console
                     [] k \in {"return", "newline"} -> Enter(console, "newline")
                     [] OTHER                       -> Enter(console, k)
           over == \/ k \in {"nul", "interrupt"}
                   \/ next.line # <<>> /\ (Last(next.line) = "newline" \/ Len(next.line) = LineSize)
<1>1. /\ console' = IF over THEN NoReader ELSE next
      /\ alive' \subseteq Procs
      /\ UNCHANGED <<pipe, nextPipe, fds, nextFd, halted, stream, astray>>
  BY InvParts DEF Key
<1>2. console \in Consoles /\ Matches(console) /\ Len(console.line) \in Nat
      /\ Len(console.line) < LineSize /\ LineSize \in Nat
  BY InvParts, DescriptorsAssumption DEF EchoMatches
<1>3. ASSUME NEW x \in Keys
      PROVE  /\ Enter(console, x) \in Consoles /\ Matches(Enter(console, x))
             /\ Len(Enter(console, x).line) = Len(console.line) + 1
  <2> DEFINE l == console.line
             c == [console EXCEPT !.line = Append(l, x), !.screen = Append(console.screen, x)]
  <2>1. l \in Seq(Keys) /\ console.screen = <<"prompt">> \o l
    BY <1>2
  <2>2. /\ Append(l, x) \in Seq(Keys) /\ Len(Append(l, x)) = Len(l) + 1
        /\ Append(console.screen, x) = <<"prompt">> \o Append(l, x)
        /\ <<"prompt">> \o Append(l, x) \in Seq(Keys \cup {"prompt"})
    <3> HIDE DEF l
    <3> QED BY <2>1, EnterErase
  <2>3. Enter(console, x) = c
    BY DEF Enter
  <2>4. c \in Consoles /\ c.line = Append(l, x) /\ c.screen = Append(console.screen, x)
    <3>1. Append(console.screen, x) \in Seq(Keys \cup {"prompt"})
      BY <2>2
    <3> QED BY <1>2, <2>2, <3>1
  <2> QED BY <2>2, <2>3, <2>4
<1>4. /\ Erase(console) \in Consoles /\ Matches(Erase(console))
      /\ Len(Erase(console).line) < LineSize
  <2>1. CASE console.line = <<>>
    BY <1>2, <2>1 DEF Erase
  <2>2. CASE console.line # <<>>
    <3> DEFINE l == console.line
               c == [console EXCEPT !.line = Front(l), !.screen = Front(console.screen)]
    <3>1. l \in Seq(Keys) /\ console.screen = <<"prompt">> \o l /\ l # <<>>
      BY <1>2, <2>2
    <3>2. /\ Front(l) \in Seq(Keys) /\ Len(Front(l)) = Len(l) - 1
          /\ Front(console.screen) = <<"prompt">> \o Front(l)
          /\ <<"prompt">> \o Front(l) \in Seq(Keys \cup {"prompt"})
      <4> HIDE DEF l
      <4>1. Front(l) \in Seq(Keys) /\ Len(Front(l)) = Len(l) - 1 /\ Front(<<"prompt">> \o l) = <<"prompt">> \o Front(l)
        BY <3>1, EnterErase
      <4> QED BY <3>1, <4>1, EnterErase
    <3>3. Erase(console) = c
      BY <2>2 DEF Erase
    <3>4. c \in Consoles /\ c.line = Front(l) /\ c.screen = Front(console.screen)
      <4>1. Front(console.screen) \in Seq(Keys \cup {"prompt"})
        BY <3>2
      <4> QED BY <1>2, <3>2, <4>1
    <3>5. Len(Front(l)) < LineSize
      <4> DEFINE n == Len(l)
      <4>1. n \in Nat /\ n < LineSize /\ LineSize \in Nat /\ Len(Front(l)) = n - 1
        BY <1>2, <3>2
      <4> HIDE DEF n
      <4> QED BY <4>1
    <3> QED BY <3>2, <3>3, <3>4, <3>5
  <2> QED BY <2>1, <2>2
<1>5. NoReader \in Consoles /\ Matches(NoReader) /\ Len(NoReader.line) < LineSize
  <2>1. <<>> \in Seq(Keys) /\ <<"prompt">> \in Seq(Keys \cup {"prompt"}) /\ Len(<<>>) = 0 /\ 0 < LineSize
    BY DescriptorsAssumption
  <2>2. <<"prompt">> = <<"prompt">> \o <<>>
    BY <2>1, ConcatEmptySeq
  <2> QED BY <2>1, <2>2 DEF NoReader
<1>6. /\ next \in Consoles /\ Matches(next)
      /\ \/ Len(next.line) < LineSize
         \/ next.line # <<>> /\ Len(next.line) = LineSize
  <2>1. "newline" \in Keys
    BY DEF Keys
  <2>2. ASSUME NEW x \in Keys
        PROVE  \/ Len(Enter(console, x).line) < LineSize
               \/ Enter(console, x).line # <<>> /\ Len(Enter(console, x).line) = LineSize
    <3> DEFINE l == Enter(console, x).line
               n == Len(console.line)
               m == Len(l)
    <3>1. m = n + 1 /\ n \in Nat /\ n < LineSize /\ LineSize \in Nat
      BY <1>2, <1>3
    <3>2. l = <<>> => m = 0
      <4>1. Len(<<>>) = 0
        OBVIOUS
      <4> HIDE DEF l
      <4> QED BY <4>1
    <3> HIDE DEF l, n, m
    <3>3. m < LineSize \/ (l # <<>> /\ m = LineSize)
      <4>1. (m < LineSize \/ m = LineSize) /\ m # 0
        BY <3>1
      <4> QED BY <3>2, <4>1, Zenon
    <3> QED BY <3>3 DEF l, m
  <2>3. next \in {Erase(console), console, Enter(console, "newline"), Enter(console, k)}
    OBVIOUS
  <2> HIDE DEF next, Consoles, Matches
  <2> QED BY <1>2, <1>3, <1>4, <2>1, <2>2, <2>3
<1>7. console' \in Consoles /\ Matches(console') /\ Len(console'.line) < LineSize
  <2>1. CASE over
    <3>1. console' = NoReader
      BY <1>1, <2>1
    <3> QED BY <1>5, <3>1
  <2>2. CASE ~over
    <3>1. console' = next
      BY <1>1, <2>2
    <3>2. Len(next.line) < LineSize
      <4> HIDE DEF next
      <4> QED BY <1>6, <2>2
    <3> HIDE DEF next
    <3> QED BY <1>6, <3>1, <3>2
  <2> QED BY <2>1, <2>2
<1> QED BY <1>1, <1>7, InvParts, ConsoleSteps

\* Bytes go through a pipe, and nobody's descriptors change.
LEMMA StreamKeeps ==
  ASSUME DescInv, NEW id \in Ids, NEW q, pipe[id] # NoPipe,
         q \in PipeRec, q.ends = pipe[id].ends, NEW st \in Seq(Bytes), Content(q) = st,
         pipe' = [pipe EXCEPT ![id] = q], stream' = [stream EXCEPT ![id] = st],
         UNCHANGED <<nextPipe, fds, nextFd, alive, console, halted, astray>>
  PROVE  Kept
<1>1. /\ pipe' \in Pipes /\ stream' \in [Ids -> Seq(Bytes)]
      /\ pipe'[id] = q /\ stream'[id] = st
      /\ \A i \in Ids : i # id => pipe'[i] = pipe[i] /\ stream'[i] = stream[i]
  BY InvParts DEF Pipes
<1>2. DescTypes'
  BY <1>1 DEF DescInv, DescTypes, Pipes
<1>3. Undrawn' /\ UsedBelowNext' /\ EchoMatches'
  BY <1>1 DEF DescInv, Undrawn, UsedBelowNext, EchoMatches
<1>4. PipeIsFifo'
  BY <1>1 DEF DescInv, PipeIsFifo
<1>5. EndsCounted'
  <2>1. \A i \in Ids : pipe'[i].ends = pipe[i].ends
    BY <1>1
  <2>2. Counted(fds', pipe', astray')
    BY <2>1, InvParts DEF Counted
  <2> QED BY <2>2, CountedNext
<1>6. ConsoleStep /\ IdsStep
  BY <1>1 DEF ConsoleStep, IdsStep
<1> QED BY <1>2, <1>3, <1>4, <1>5, <1>6 DEF Kept, DescInv

\* A descriptor that is not free is a pipe end.
LEMMA EndOf ==
  ASSUME DescInv, NEW p \in Procs, NEW f \in Fds, fds[p][f] # NoEnd
  PROVE  fds[p][f] \in Ends /\ fds[p][f].pipe \in Ids /\ fds[p][f].role \in Roles
  BY InvParts DEF Tables, FdTable, Ends

\* The two roles, and that of a free descriptor.
LEMMA RolesDiffer == "Read" \in Roles /\ "Write" \in Roles /\ NoEnd.role \notin Roles
  BY DEF Roles, NoEnd

\* A write.
LEMMA WriteKeeps ==
  ASSUME DescInv, NEW p \in Procs, NEW fd \in Fds, NEW data \in Data, WritePipe(p, fd, data)
  PROVE  Kept
<1> DEFINE id == fds[p][fd].pipe
           n == Min({Len(data), Room(pipe[id])})
           q == pipe_write(pipe[id], data)
           st == stream[id] \o SubSeq(data, 1, n)
<1>1. /\ fds[p][fd].role = "Write" /\ pipe[id] # NoPipe
      /\ pipe' = [pipe EXCEPT ![id] = pipe_write(@, data)]
      /\ stream' = [stream EXCEPT ![id] = @ \o SubSeq(data, 1, n)]
      /\ UNCHANGED <<nextPipe, fds, nextFd, alive, console, halted, astray>>
  BY DEF WritePipe, PipeOf
<1>2. id \in Ids
  BY <1>1, EndOf, RolesDiffer
<1>3. pipe[id] \in PipeRec
  BY <1>1, <1>2, InvParts, LiveOrGone
<1>4. data \in Seq(Bytes)
  <2>1. CASE data \in {<<b>> : b \in Bytes}
    <3>1. PICK b \in Bytes : data = <<b>>
      BY <2>1
    <3>2. <<b>> \in Seq(Bytes)
      OBVIOUS
    <3> QED BY <3>1, <3>2
  <2>2. CASE data \in {[k \in 1..PipeBufSize |-> b] : b \in Bytes}
    <3>1. data \in [1..PipeBufSize -> Bytes] /\ PipeBufSize \in Nat
      BY <2>2, DescriptorsAssumption
    <3> QED BY <3>1, FunctionIsSeq
  <2> QED BY <2>1, <2>2 DEF Data
<1>5. /\ q \in PipeRec /\ q.ends = pipe[id].ends
      /\ Content(q) = Content(pipe[id]) \o SubSeq(data, 1, n)
      /\ SubSeq(data, 1, n) \in Seq(Bytes)
  BY <1>3, <1>4, WriteRing
<1>6. Content(pipe[id]) = stream[id] /\ stream[id] \in Seq(Bytes)
  BY <1>1, <1>2, InvParts DEF PipeIsFifo
<1>7. Content(q) = st /\ st \in Seq(Bytes)
  <2> HIDE DEF n, q, id
  <2> QED BY <1>5, <1>6, ConcatProperties
<1>8. pipe' = [pipe EXCEPT ![id] = q] /\ stream' = [stream EXCEPT ![id] = st]
  BY <1>1, <1>2, InvParts DEF Pipes
<1> HIDE DEF id, q, st
<1> QED BY <1>1, <1>2, <1>5, <1>7, <1>8, StreamKeeps

\* A read.
LEMMA ReadKeeps ==
  ASSUME DescInv, NEW p \in Procs, NEW fd \in Fds, NEW n \in 1..PipeBufSize, ReadPipe(p, fd, n)
  PROVE  Kept
<1> DEFINE id == fds[p][fd].pipe
           m == Min({n, Buffered(pipe[id])})
           q == pipe_read(pipe[id], n)
           st == SubSeq(stream[id], m + 1, Len(stream[id]))
<1>1. /\ fds[p][fd].role = "Read" /\ pipe[id] # NoPipe
      /\ pipe' = [pipe EXCEPT ![id] = pipe_read(@, n)]
      /\ stream' = [stream EXCEPT ![id] = SubSeq(@, m + 1, Len(@))]
      /\ UNCHANGED <<nextPipe, fds, nextFd, alive, console, halted, astray>>
  BY DEF ReadPipe, PipeOf
<1>2. id \in Ids
  BY <1>1, EndOf, RolesDiffer
<1>3. pipe[id] \in PipeRec
  BY <1>1, <1>2, InvParts, LiveOrGone
<1>4. n \in Nat
  BY DescriptorsAssumption
<1>5. /\ q \in PipeRec /\ q.ends = pipe[id].ends
      /\ Content(q) = SubSeq(Content(pipe[id]), m + 1, Len(Content(pipe[id])))
      /\ Content(q) \in Seq(Bytes)
  BY <1>3, <1>4, ReadRing
<1>6. Content(pipe[id]) = stream[id] /\ stream[id] \in Seq(Bytes)
  BY <1>1, <1>2, InvParts DEF PipeIsFifo
<1>7. Content(q) = st /\ st \in Seq(Bytes)
  <2> HIDE DEF m, q, id
  <2> QED BY <1>5, <1>6
<1>8. pipe' = [pipe EXCEPT ![id] = q] /\ stream' = [stream EXCEPT ![id] = st]
  BY <1>1, <1>2, InvParts DEF Pipes
<1> HIDE DEF id, q, st
<1> QED BY <1>1, <1>2, <1>5, <1>7, <1>8, StreamKeeps


\* dup2: the end that newfd held is given up, and it gets another one.
LEMMA DupKeeps ==
  ASSUME DescInv, NEW p \in Procs, NEW old \in Fds, NEW new \in Fds \cup {FdTableSize},
         sys_dup2(p, old, new)
  PROVE  Kept
<1> DEFINE src == fds[p][old]
           e == fds[p][new]
           gone == IF e = NoEnd THEN pipe ELSE pipe_close_role(pipe, e)
<1>1. /\ old # new /\ new >= UserFdBase /\ src # NoEnd
      /\ UNCHANGED <<nextPipe, nextFd, alive, console, stream, astray>>
  BY DEF sys_dup2
<1>2. CASE new \notin Fds
  <2>1. halted' \in BOOLEAN /\ UNCHANGED <<pipe, fds>>
    BY <1>2 DEF sys_dup2
  <2>2. console.screen = <<"prompt">> \o console.line
    BY InvParts DEF EchoMatches
  <2> QED BY <1>1, <2>1, <2>2, InvParts, ConsoleSteps
<1>3. CASE new \in Fds
  <2>1. pipe' = pipe_clone_role(gone, src) /\ UNCHANGED halted
        /\ fds' = [fds EXCEPT ![p][new] = src]
    BY <1>3 DEF sys_dup2
  <2>2. fds \in Tables /\ fds[p] \in FdTable /\ pipe \in Pipes /\ Counted(fds, pipe, astray)
    BY InvParts DEF Tables
  <2>3. src \in Ends /\ src.pipe \in Ids /\ src.role \in Roles /\ src = End(src.pipe, src.role)
    BY <1>1, EndOf DEF Ends, End
  <2>4. fds' = [fds EXCEPT ![p] = [fds[p] EXCEPT ![new] = src]]
    BY <1>3, <2>1, <2>2 DEF Tables
  <2>5. \A i \in Ids, r \in Roles : pipe[i].ends[r] \in Nat /\ NoEnd # End(i, r)
    BY <2>2, LiveOrGone, RolesDiffer DEF End
  <2>6. /\ gone \in Pipes
        /\ \A i \in Ids, r \in Roles : gone[i].ends[r] = pipe[i].ends[r] - (IF e = End(i, r) THEN 1 ELSE 0)
        /\ \A i \in Ids : /\ pipe[i] = NoPipe => gone[i] = NoPipe
                          /\ gone[i] # NoPipe => Content(gone[i]) = Content(pipe[i])
    <3>1. CASE e = NoEnd
      BY <2>2, <2>5, <3>1
    <3>2. CASE e # NoEnd
      <4>1. e \in Ends /\ e.pipe \in Ids /\ e.role \in Roles /\ e = End(e.pipe, e.role)
        BY <1>3, <3>2, EndOf DEF Ends, End
      <4>2. Count(fds, e) > 0 /\ Count(fds, e) \in Nat
        BY <1>3, HeldCounts, CountType
      <4>3. pipe[e.pipe].ends[e.role] >= Count(fds, e)
        BY <2>2, <4>1 DEF Counted
      <4>4. pipe[e.pipe].ends[e.role] > 0
        BY <2>5, <4>1, <4>2, <4>3
      <4>5. gone = pipe_close_role(pipe, e)
        BY <3>2
      <4> HIDE DEF e
      <4> QED BY <2>2, <4>1, <4>4, <4>5, CloseSound
    <3> QED BY <3>1, <3>2
  <2>7. gone[src.pipe].ends[src.role] > 0
    <3> DEFINE mt == [fds EXCEPT ![p] = [fds[p] EXCEPT ![new] = NoEnd]]
    <3>1. Count(mt, src) = Count(fds, src) - (IF e = src THEN 1 ELSE 0) + (IF NoEnd = src THEN 1 ELSE 0)
      <4>1. StoredAt(mt, fds, p, new, NoEnd)
        BY <1>3, <2>2 DEF StoredAt, Tables, FdTable
      <4> HIDE DEF src, mt
      <4> QED BY <1>3, <4>1, StoreEnd
    <3>2. mt[p][old] = src
      BY <1>1, <1>3, <2>2 DEF Tables, FdTable
    <3>3. Count(mt, src) > 0 /\ Count(mt, src) \in Nat /\ Count(fds, src) \in Nat
      <4>1. Count(mt, mt[p][old]) > 0
        <5> HIDE DEF mt
        <5> QED BY HeldCounts
      <4> QED BY <3>2, <4>1, CountType
    <3>4. pipe[src.pipe].ends[src.role] >= Count(fds, src) /\ pipe[src.pipe].ends[src.role] \in Nat
      BY <2>2, <2>3, <2>5 DEF Counted
    <3>5. gone[src.pipe].ends[src.role] = pipe[src.pipe].ends[src.role] - (IF e = src THEN 1 ELSE 0)
      BY <2>3, <2>6
    <3> DEFINE a == gone[src.pipe].ends[src.role]
               b == pipe[src.pipe].ends[src.role]
               c == Count(fds, src)
               d == Count(mt, src)
    <3>6. d = c - (IF e = src THEN 1 ELSE 0)
      BY <1>1, <3>1, <3>3
    <3> HIDE DEF a, b, c, d
    <3>7. a > 0
      BY <3>3, <3>4, <3>5, <3>6, SMTT(30) DEF a, b, c, d
    <3> QED BY <3>7 DEF a
  <2>8. gone[src.pipe] # NoPipe
    BY <2>3, <2>7, LiveOrGone
  <2> HIDE DEF gone
  <2>9. /\ pipe' \in Pipes
        /\ \A i \in Ids, r \in Roles : pipe'[i].ends[r] = gone[i].ends[r] + (IF src = End(i, r) THEN 1 ELSE 0)
        /\ \A i \in Ids : /\ gone[i] = NoPipe => pipe'[i] = NoPipe
                          /\ pipe'[i] # NoPipe => Content(pipe'[i]) = Content(gone[i])
    BY <2>1, <2>3, <2>6, <2>8, CloneSound
  <2>10. /\ fds' \in [Procs -> [Fds -> Ends \cup {NoEnd}]] /\ fds'[p][new] = src
         /\ \A q \in Procs, g \in Fds : <<q, g>> # <<p, new>> => fds'[q][g] = fds[q][g]
    <3> HIDE DEF src
    <3> QED BY <1>3, <2>2, <2>3, <2>4 DEF Tables, FdTable
  <2>11. DescTypes'
    BY <1>1, <2>1, <2>9, <2>10 DEF DescInv, DescTypes, Pipes
  <2>12. Undrawn'
    <3> SUFFICES ASSUME NEW i \in Ids, i >= nextPipe
                 PROVE  pipe'[i] = NoPipe /\ \A q \in Procs, f \in Fds : fds'[q][f].pipe # i
      BY <1>1 DEF Undrawn
    <3>1. pipe[i] = NoPipe /\ \A q \in Procs, f \in Fds : fds[q][f].pipe # i
      BY InvParts DEF Undrawn
    <3> QED BY <1>3, <2>6, <2>9, <2>10, <3>1
  <2>13. UsedBelowNext'
    <3> SUFFICES ASSUME NEW q \in Procs, NEW g \in UserFdBase..(nextFd[q] - 1)
                 PROVE  fds'[q][g] # NoEnd
      BY <1>1 DEF UsedBelowNext
    <3>1. fds[q][g] # NoEnd
      BY InvParts DEF UsedBelowNext
    <3>2. g \in Fds
      <4>1. nextFd[q] \in Fds /\ UserFdBase \in Fds /\ FdTableSize \in Nat
        BY InvParts, DescriptorsAssumption DEF Fds
      <4> QED BY <4>1 DEF Fds
    <3> QED BY <1>1, <2>10, <3>1, <3>2
  <2>14. EndsCounted'
    <3>1. Counted(fds', pipe', astray')
      <4> SUFFICES ASSUME NEW i \in Ids, NEW r \in Roles
                   PROVE  /\ pipe'[i].ends[r] >= Count(fds', End(i, r))
                          /\ i \notin astray' => pipe'[i].ends[r] = Count(fds', End(i, r))
        BY DEF Counted
      <4> DEFINE x == End(i, r)
                 m == Count(fds, x)
                 n == Count(fds', x)
                 a == pipe[i].ends[r]
                 b == pipe'[i].ends[r]
      <4>1. n = m - (IF e = x THEN 1 ELSE 0) + (IF src = x THEN 1 ELSE 0)
        <5>1. StoredAt(fds', fds, p, new, src)
          BY <2>10 DEF StoredAt
        <5> HIDE DEF src, x
        <5> QED BY <1>3, <5>1, StoreEnd
      <4>2. b = a - (IF e = x THEN 1 ELSE 0) + (IF src = x THEN 1 ELSE 0)
        BY <2>6, <2>9
      <4>3. a \in Nat /\ m \in Nat /\ a >= m /\ (i \notin astray => a = m)
        BY <2>2, <2>5, CountType DEF Counted
      <4> HIDE DEF x, m, n, a, b, e, src
      <4>4. b >= n /\ (i \notin astray' => b = n)
        BY <1>1, <4>1, <4>2, <4>3
      <4> QED BY <4>4 DEF x, n, b
    <3> QED BY <3>1, CountedNext
  <2>15. PipeIsFifo'
    BY <1>1, <2>6, <2>9, InvParts DEF PipeIsFifo
  <2>16. EchoMatches'
    BY <1>1, InvParts DEF EchoMatches
  <2>17. ConsoleStep
    <3> SUFFICES ASSUME NEW q \in Procs, NEW f \in 0..(UserFdBase - 1)
                 PROVE  fds'[q][f] = fds[q][f]
      BY DEF ConsoleStep
    <3>1. f \in Fds /\ f # new
      <4>1. UserFdBase \in Fds /\ FdTableSize \in Nat /\ new \in Fds
        BY <1>3, DescriptorsAssumption DEF Fds
      <4> QED BY <1>1, <4>1 DEF Fds
    <3> QED BY <2>10, <3>1
  <2>18. IdsStep
    BY <2>6, <2>9 DEF IdsStep
  <2> QED BY <2>11, <2>12, <2>13, <2>14, <2>15, <2>16, <2>17, <2>18 DEF Kept, DescInv
<1> QED BY <1>2, <1>3


\* The slot of an exited process is used again.
LEMMA ReplaceKeeps ==
  ASSUME DescInv, NEW p \in Procs, Replace(p)
  PROVE  Kept
<1>1. /\ alive' \subseteq Procs /\ astray' = astray \cup ({fds[p][f].pipe : f \in Fds} \cap Ids)
      /\ fds' = [fds EXCEPT ![p] = EmptyFds] /\ nextFd' = [nextFd EXCEPT ![p] = UserFdBase]
      /\ UNCHANGED <<pipe, nextPipe, console, halted, stream>>
  BY InvParts DEF Replace
<1>2. EmptyFds \in FdTable /\ \A f \in Fds : EmptyFds[f] = NoEnd
  BY DEF EmptyFds, FdTable
<1>3. /\ fds' \in Tables /\ \A f \in Fds : fds'[p][f] = NoEnd
      /\ \A q \in Procs : q # p => fds'[q] = fds[q]
  BY <1>1, <1>2, InvParts DEF Tables
<1>4. UserFdBase \in Fds
  BY DescriptorsAssumption DEF Fds
<1>5. /\ nextFd' \in [Procs -> Fds] /\ nextFd'[p] = UserFdBase
      /\ \A q \in Procs : q # p => nextFd'[q] = nextFd[q]
  BY <1>1, <1>4, InvParts
<1>6. DescTypes'
  <2>1. astray' \subseteq Ids
    BY <1>1, InvParts
  <2> QED BY <1>1, <1>3, <1>5, <2>1 DEF DescInv, DescTypes, Tables, FdTable
<1>7. Undrawn'
  <2> SUFFICES ASSUME NEW i \in Ids, i >= nextPipe
               PROVE  pipe[i] = NoPipe /\ \A q \in Procs, f \in Fds : fds'[q][f].pipe # i
    BY <1>1 DEF Undrawn
  <2>1. pipe[i] = NoPipe /\ \A q \in Procs, f \in Fds : fds[q][f].pipe # i
    BY InvParts DEF Undrawn
  <2>2. NoEnd.pipe # i
    <3>1. NoEnd.pipe = -1 /\ i \in Nat
      BY DescriptorsAssumption DEF NoEnd, Ids
    <3> QED BY <3>1
  <2> QED BY <1>3, <2>1, <2>2
<1>8. UsedBelowNext'
  <2> SUFFICES ASSUME NEW q \in Procs, NEW g \in UserFdBase..(nextFd'[q] - 1)
               PROVE  fds'[q][g] # NoEnd
    BY DEF UsedBelowNext
  <2>1. CASE q = p
    <3>1. UserFdBase \in Int /\ g \in UserFdBase..(UserFdBase - 1)
      BY <1>4, <1>5, <2>1, DescriptorsAssumption DEF Fds
    <3> QED BY <3>1
  <2>2. CASE q # p
    BY <1>3, <1>5, <2>2, InvParts DEF UsedBelowNext
  <2> QED BY <2>1, <2>2
<1>9. EndsCounted'
  <2>1. Counted(fds', pipe', astray')
    <3> SUFFICES ASSUME NEW i \in Ids, NEW r \in Roles
                 PROVE  /\ pipe[i].ends[r] >= Count(fds', End(i, r))
                        /\ i \notin astray' => pipe[i].ends[r] = Count(fds', End(i, r))
      BY <1>1 DEF Counted
    <3> DEFINE x == End(i, r)
               A == HeldIn(fds, x)
               B == HeldIn(fds', x)
               n == pipe[i].ends[r]
    <3>1. NoEnd # x
      BY RolesDiffer DEF End
    <3>2. B \in SUBSET A
      <4>1. ASSUME NEW y \in Procs \X Fds, fds'[y[1]][y[2]] = x
            PROVE  fds[y[1]][y[2]] = x
        <5>1. y[1] \in Procs /\ y[2] \in Fds
          OBVIOUS
        <5> QED BY <1>3, <3>1, <4>1, <5>1
      <4> QED BY <4>1 DEF HeldIn
    <3>3. i \notin astray' => A \subseteq B
      <4> SUFFICES ASSUME i \notin astray', NEW y \in Procs \X Fds, fds[y[1]][y[2]] = x
                   PROVE  fds'[y[1]][y[2]] = x
        BY DEF HeldIn
      <4>1. y[1] \in Procs /\ y[2] \in Fds
        OBVIOUS
      <4>2. x.pipe = i
        BY DEF End
      <4>3. y[1] # p
        BY <1>1, <4>1, <4>2
      <4> QED BY <1>3, <4>1, <4>3
    <3>4. n \in Nat /\ n >= Cardinality(A) /\ (i \notin astray => n = Cardinality(A))
      BY InvParts, LiveOrGone DEF Counted, Count
    <3>5. IsFiniteSet(A) /\ Cardinality(A) \in Nat /\ Cardinality(B) \in Nat
      BY CountType DEF Count
    <3> HIDE DEF A, B, n
    <3>6. Cardinality(B) <= Cardinality(A)
      BY <3>2, <3>5, FS_Subset
    <3>7. i \notin astray' => i \notin astray /\ Cardinality(B) = Cardinality(A)
      <4>1. i \notin astray' => i \notin astray /\ A = B
        BY <1>1, <3>2, <3>3
      <4> QED BY <4>1
    <3>8. n >= Cardinality(B) /\ (i \notin astray' => n = Cardinality(B))
      BY <3>4, <3>5, <3>6, <3>7
    <3> QED BY <3>8 DEF B, n, Count
  <2> QED BY <2>1, CountedNext
<1>10. PipeIsFifo' /\ EchoMatches'
  BY <1>1, InvParts DEF PipeIsFifo, EchoMatches
<1>11. ConsoleStep
  <2>1. 0..(UserFdBase - 1) \subseteq Fds
    BY DescriptorsAssumption DEF Fds
  <2> QED BY <1>3, <2>1 DEF ConsoleStep
<1>12. IdsStep
  BY <1>1 DEF IdsStep
<1> QED BY <1>6, <1>7, <1>8, <1>9, <1>10, <1>11, <1>12 DEF Kept, DescInv

\* The two descriptors of a new pipe, in the table t of the caller, whose
\* descriptors from the console's up to next are in use.
LEMMA TwoFds ==
  ASSUME NEW t \in FdTable, NEW next \in Fds, \A g \in UserFdBase..(next - 1) : t[g] # NoEnd,
         NEW rd, rd = alloc_user_fd(t, next), rd # NoFd,
         NEW wr, wr = alloc_user_fd(t, (rd + 1) % FdTableSize),
         NEW u, \A g \in Fds : (g = rd \/ g = wr) => u[g] # NoEnd,
         \A g \in Fds : g # rd /\ g # wr => u[g] = t[g]
  PROVE  /\ rd \in Fds /\ wr \in Fds /\ t[rd] = NoEnd /\ t[wr] = NoEnd
         /\ (wr + 1) % FdTableSize \in Fds
         /\ \A g \in UserFdBase..(((wr + 1) % FdTableSize) - 1) : u[g] # NoEnd
         /\ (rd < UserFdBase \/ wr < UserFdBase)
              => \A g \in UserFdBase..(FdTableSize - 1) : u[g] # NoEnd
<1> DEFINE n == FdTableSize
           base == UserFdBase
           from == Max({next, base})
           nw == (rd + 1) % n
           fromw == Max({nw, base})
           last == (wr + 1) % n
<1>1. n \in Nat \ {0} /\ base \in 0..(n - 1) /\ Fds = 0..(n - 1) /\ next \in 0..(n - 1)
  BY DescriptorsAssumption DEF Fds
<1>2. from = IF next >= base THEN next ELSE base
  <2>1. next \in Int /\ base \in Int
    BY <1>1
  <2> QED BY <2>1, MinMaxOfTwo
<1>3. /\ rd \in Fds /\ t[rd] = NoEnd
      /\ rd >= from => \A g \in from..(rd - 1) : t[g] # NoEnd
      /\ rd < from => \A g \in from..(n - 1) : t[g] # NoEnd
  BY AllocSound
<1>4. nw = (IF rd + 1 < n THEN rd + 1 ELSE rd + 1 - n) /\ nw \in 0..(n - 1)
  <2> DEFINE a == rd + 1
  <2>1. a \in 0..(2 * n - 1) /\ nw = a % n
    <3>1. nw = a % n
      OBVIOUS
    <3> HIDE DEF nw, n
    <3>2. a \in 0..(2 * n - 1)
      BY <1>1, <1>3
    <3> QED BY <3>1, <3>2
  <2> HIDE DEF a, n, nw
  <2>2. nw = (IF a < n THEN a ELSE a - n) /\ nw \in 0..(n - 1)
    BY <1>1, <2>1, RingIndex
  <2> QED BY <1>1, <1>3, <2>2 DEF a
<1>5. fromw = IF nw >= base THEN nw ELSE base
  <2>1. nw \in Int /\ base \in Int
    <3> HIDE DEF nw, n
    <3> QED BY <1>1, <1>4
  <2> QED BY <2>1, MinMaxOfTwo
<1>6. /\ wr \in Fds /\ t[wr] = NoEnd
      /\ wr >= fromw => \A g \in fromw..(wr - 1) : t[g] # NoEnd
      /\ wr < fromw => \A g \in fromw..(n - 1) : t[g] # NoEnd
  <2>1. nw \in Fds /\ wr = alloc_user_fd(t, nw)
    BY <1>1, <1>4
  <2>2. wr # NoFd
    BY <1>3, <2>1, AllocSound
  <2> HIDE DEF nw
  <2> QED BY <2>1, <2>2, AllocSound
<1>7. last = (IF wr + 1 < n THEN wr + 1 ELSE wr + 1 - n) /\ last \in 0..(n - 1)
  <2> DEFINE a == wr + 1
  <2>1. a \in 0..(2 * n - 1) /\ last = a % n
    <3>1. last = a % n
      OBVIOUS
    <3> HIDE DEF last, n
    <3>2. a \in 0..(2 * n - 1)
      BY <1>1, <1>6
    <3> QED BY <3>1, <3>2
  <2> HIDE DEF a, n, last
  <2>2. last = (IF a < n THEN a ELSE a - n) /\ last \in 0..(n - 1)
    BY <1>1, <2>1, RingIndex
  <2> QED BY <1>1, <1>6, <2>2 DEF a
<1> DEFINE used(f) == u[f] # NoEnd
<1>8. \A g \in base..(next - 1) : t[g] # NoEnd
  OBVIOUS
<1>9. \A g \in Fds : (t[g] # NoEnd \/ g = rd \/ g = wr) => used(g)
  OBVIOUS
<1>10. /\ base \in Int /\ n \in Int /\ next \in Int /\ from \in Int /\ rd \in Int /\ wr \in Int
       /\ nw \in Int /\ fromw \in Int /\ last \in Int
       /\ 0 <= base /\ base < n /\ 0 <= rd /\ rd < n /\ 0 <= wr /\ wr < n
       /\ from >= base /\ from >= next /\ fromw >= base /\ from < n /\ fromw < n
  <2> HIDE DEF n, base, from, nw, fromw, last
  <2> QED BY <1>1, <1>2, <1>3, <1>4, <1>5, <1>6, <1>7, SMTT(30)
<1> HIDE DEF n, base, from, nw, fromw, last, used
<1>11. \A g \in base..(from - 1) : t[g] # NoEnd
  BY <1>2, <1>8, <1>10
<1>12. CASE rd < from
  <2>1. \A g \in base..(n - 1) : t[g] # NoEnd
    BY <1>3, <1>10, <1>11, <1>12
  <2>2. wr < base
    BY <1>6, <1>10, <2>1
  <2>3. last <= base
    BY <1>7, <1>10, <2>2
  <2>4. \A g \in base..(n - 1) : used(g)
    BY <1>1, <1>9, <1>10, <2>1
  <2>5. \A g \in base..(last - 1) : used(g)
    BY <1>10, <2>3
  <2> QED BY <1>1, <1>3, <1>6, <1>7, <2>4, <2>5 DEF used, last, base, n
<1>13. CASE rd >= from
  <2>1. \A g \in base..rd : used(g)
    <3> SUFFICES ASSUME NEW g \in base..rd
                 PROVE  used(g)
      OBVIOUS
    <3>1. g \in Fds /\ g \in Int
      BY <1>1, <1>10
    <3>2. CASE g = rd
      BY <1>9, <3>1, <3>2
    <3>3. CASE g < from
      BY <1>9, <1>10, <1>11, <3>1, <3>3
    <3>4. CASE g >= from /\ g # rd
      <4>1. g \in from..(rd - 1)
        BY <1>10, <3>1, <3>4
      <4> QED BY <1>3, <1>9, <1>13, <3>1, <4>1
    <3> QED BY <1>10, <3>1, <3>2, <3>3, <3>4
  <2>2. CASE wr < fromw \/ rd + 1 = n
    <3>1. \A g \in base..(n - 1) : used(g)
      <4>1. CASE rd + 1 = n
        BY <1>10, <2>1, <4>1
      <4>2. CASE wr < fromw /\ rd + 1 # n
        <5>1. fromw = rd + 1
          BY <1>4, <1>5, <1>10, <1>13, <4>2
        <5>2. ASSUME NEW g \in base..(n - 1)
              PROVE  used(g)
          <6>1. g \in Fds /\ g \in Int
            BY <1>1, <1>10
          <6>2. CASE g <= rd
            BY <1>10, <2>1, <6>1, <6>2
          <6>3. CASE g > rd
            <7>1. g \in fromw..(n - 1)
              BY <1>10, <5>1, <6>1, <6>3
            <7> QED BY <1>6, <1>9, <4>2, <6>1, <7>1
          <6> QED BY <1>10, <6>1, <6>2, <6>3
        <5> QED BY <5>2
      <4> QED BY <2>2, <4>1, <4>2
    <3>2. \A g \in base..(last - 1) : used(g)
      BY <1>1, <1>7, <1>10, <3>1
    <3> QED BY <1>1, <1>3, <1>6, <1>7, <3>1, <3>2 DEF used, last, base, n
  <2>3. CASE wr >= fromw /\ rd + 1 # n
    <3>1. fromw = rd + 1
      BY <1>4, <1>5, <1>10, <1>13, <2>3
    <3>2. ASSUME NEW g \in base..wr
          PROVE  used(g)
      <4>1. g \in Fds /\ g \in Int
        BY <1>1, <1>10
      <4>2. CASE g <= rd
        BY <1>10, <2>1, <4>1, <4>2
      <4>3. CASE g = wr
        BY <1>9, <4>1, <4>3
      <4>4. CASE g > rd /\ g # wr
        <5>1. g \in fromw..(wr - 1)
          BY <1>10, <3>1, <4>1, <4>4
        <5> QED BY <1>6, <1>9, <2>3, <4>1, <5>1
      <4> QED BY <1>10, <4>1, <4>2, <4>3, <4>4
    <3>3. last - 1 <= wr
      BY <1>7, <1>10
    <3>4. \A g \in base..(last - 1) : used(g)
      BY <1>10, <3>2, <3>3
    <3>5. ~(rd < base) /\ ~(wr < base)
      BY <1>10, <1>13, <2>3
    <3> QED BY <1>1, <1>3, <1>6, <1>7, <3>4, <3>5 DEF used, last, base, n
  <2> QED BY <1>10, <2>2, <2>3
<1> QED BY <1>10, <1>12, <1>13

\* A pipe that was just made is empty and has an end for either role.
LEMMA NewPipe ==
  /\ new_pipe \in PipeRec /\ Content(new_pipe) = <<>>
  /\ \A r \in Roles : new_pipe.ends[r] = 1
<1>1. PipeBufSize \in Nat \ {0} /\ 0 \in Ring /\ (CHOOSE b \in Bytes : TRUE) \in Bytes
  BY DescriptorsAssumption DEF Ring
<1>2. new_pipe \in PipeRec /\ new_pipe.head = 0 /\ new_pipe.tail = 0
  BY <1>1 DEF new_pipe, PipeRec, Ring
<1>3. Buffered(new_pipe) = 0
  <2>1. Buffered(new_pipe) = (0 - 0 + PipeBufSize) % PipeBufSize
    BY <1>2 DEF Buffered
  <2> DEFINE n == PipeBufSize
  <2>2. n \in 0..(2 * n - 1) /\ 0 - 0 + n = n
    BY <1>1
  <2>3. n % n = n - n
    BY <1>1, <2>2, RingIndex
  <2> QED BY <1>1, <2>1, <2>2, <2>3
<1>4. Content(new_pipe) = <<>>
  BY <1>3 DEF Content
<1>5. \A r \in Roles : new_pipe.ends[r] = 1
  BY DEF new_pipe
<1> QED BY <1>2, <1>4, <1>5

\* sys_pipe.
LEMMA PipeKeeps ==
  ASSUME DescInv, NEW p \in Procs, sys_pipe(p)
  PROVE  Kept
<1> DEFINE id == nextPipe
           t == fds[p]
           rd == alloc_user_fd(t, nextFd[p])
           wr == alloc_user_fd(t, (rd + 1) % FdTableSize)
           R == End(id, "Read")
           W == End(id, "Write")
<1>1. /\ id < MaxPipes /\ nextPipe' = id + 1
      /\ pipe' = [pipe EXCEPT ![id] = new_pipe]
      /\ stream' = [stream EXCEPT ![id] = <<>>]
      /\ astray' = IF rd = NoFd \/ rd = wr THEN astray \cup {id} ELSE astray
      /\ UNCHANGED <<alive, console, halted>>
  BY DEF sys_pipe, alloc_pipe
<1>2. /\ rd = NoFd => UNCHANGED <<fds, nextFd>>
      /\ rd # NoFd => /\ fds' = [fds EXCEPT ![p] = [t EXCEPT ![rd] = R, ![wr] = W]]
                      /\ nextFd' = [nextFd EXCEPT ![p] = (wr + 1) % FdTableSize]
  BY DEF sys_pipe, alloc_pipe, End
<1>3. id \in Ids /\ id \in Nat /\ MaxPipes \in Nat
  BY <1>1, InvParts, DescriptorsAssumption DEF Ids
<1>4. /\ fds \in Tables /\ pipe \in Pipes /\ stream \in [Ids -> Seq(Bytes)]
      /\ nextFd \in [Procs -> Fds] /\ t \in FdTable /\ nextFd[p] \in Fds
      /\ astray \subseteq Ids /\ Counted(fds, pipe, astray)
  BY InvParts DEF Tables
<1>5. R \in Ends /\ W \in Ends /\ R # NoEnd /\ W # NoEnd
  BY <1>3, RolesDiffer DEF Ends, End
<1>6. \A g \in UserFdBase..(nextFd[p] - 1) : t[g] # NoEnd
  BY InvParts DEF UsedBelowNext
<1>7. /\ pipe[id] = NoPipe
      /\ \A q \in Procs, f \in Fds : fds[q][f].pipe # id
  BY <1>3, InvParts DEF Undrawn
<1>8. /\ pipe' \in Pipes /\ stream' \in [Ids -> Seq(Bytes)] /\ astray' \subseteq Ids
      /\ pipe'[id] = new_pipe /\ stream'[id] = <<>>
      /\ \A i \in Ids : i # id => pipe'[i] = pipe[i] /\ stream'[i] = stream[i]
  <2>1. new_pipe \in PipeRec
    BY NewPipe
  <2> HIDE DEF rd, wr
  <2> QED BY <1>1, <1>3, <1>4, <2>1 DEF Pipes
<1>9. ASSUME rd # NoFd
      PROVE  /\ rd \in Fds /\ wr \in Fds /\ t[rd] = NoEnd /\ t[wr] = NoEnd
             /\ fds'[p][wr] = W /\ (rd # wr => fds'[p][rd] = R)
             /\ \A g \in Fds : g # rd /\ g # wr => fds'[p][g] = t[g]
             /\ \A q \in Procs : q # p => fds'[q] = fds[q]
             /\ fds' \in Tables /\ nextFd' \in [Procs -> Fds]
             /\ \A g \in UserFdBase..(nextFd'[p] - 1) : fds'[p][g] # NoEnd
             /\ \A q \in Procs : q # p => nextFd'[q] = nextFd[q]
             /\ (rd < UserFdBase \/ wr < UserFdBase)
                   => \A g \in UserFdBase..(FdTableSize - 1) : fds'[p][g] # NoEnd
  <2> DEFINE u == [t EXCEPT ![rd] = R, ![wr] = W]
  <2>1. rd \in Fds
    BY <1>4, <1>9, AllocSound
  <2>2. wr \in Fds
    <3> DEFINE nw == (rd + 1) % FdTableSize
    <3>1. nw \in Fds
      <4> DEFINE a == rd + 1
      <4>1. FdTableSize \in Nat \ {0} /\ Fds = 0..(FdTableSize - 1)
        BY DescriptorsAssumption DEF Fds
      <4> HIDE DEF rd
      <4>2. a \in 0..(2 * FdTableSize - 1)
        BY <2>1, <4>1
      <4> HIDE DEF a
      <4>3. a % FdTableSize \in 0..(FdTableSize - 1)
        BY <4>1, <4>2, RingIndex
      <4> QED BY <4>1, <4>3 DEF a
    <3>2. t[rd] = NoEnd
      BY <1>4, <1>9, AllocSound
    <3> HIDE DEF nw
    <3>3. alloc_user_fd(t, nw) \in Fds
      BY <1>4, <2>1, <3>1, <3>2, AllocSound
    <3> QED BY <3>3 DEF nw
  <2>3. /\ u \in FdTable /\ u[wr] = W /\ (rd # wr => u[rd] = R)
        /\ \A g \in Fds : g # rd /\ g # wr => u[g] = t[g]
    <3> HIDE DEF rd, wr, t, R, W
    <3> QED BY <1>4, <1>5, <2>1, <2>2 DEF FdTable
  <2>4. fds' = [fds EXCEPT ![p] = u] /\ nextFd' = [nextFd EXCEPT ![p] = (wr + 1) % FdTableSize]
    BY <1>2, <1>9
  <2>5. \A g \in Fds : (g = rd \/ g = wr) => u[g] # NoEnd
    <3> HIDE DEF u, rd, wr, R, W
    <3> QED BY <1>5, <2>3
  <2> HIDE DEF u
  <2>6. /\ rd \in Fds /\ wr \in Fds /\ t[rd] = NoEnd /\ t[wr] = NoEnd
        /\ (wr + 1) % FdTableSize \in Fds
        /\ \A g \in UserFdBase..(((wr + 1) % FdTableSize) - 1) : u[g] # NoEnd
        /\ (rd < UserFdBase \/ wr < UserFdBase)
              => \A g \in UserFdBase..(FdTableSize - 1) : u[g] # NoEnd
    <3>1. wr = alloc_user_fd(t, (rd + 1) % FdTableSize) /\ rd = alloc_user_fd(t, nextFd[p])
      OBVIOUS
    <3> HIDE DEF wr, rd, t
    <3> QED BY <1>4, <1>6, <1>9, <2>3, <2>5, <3>1, TwoFds
  <2>7. fds' \in Tables /\ fds'[p] = u /\ \A q \in Procs : q # p => fds'[q] = fds[q]
    BY <1>4, <2>3, <2>4 DEF Tables
  <2> DEFINE last == (wr + 1) % FdTableSize
  <2>8. last \in Fds /\ nextFd' = [nextFd EXCEPT ![p] = last]
    BY <2>4, <2>6
  <2>9. \A g \in UserFdBase..(last - 1) : u[g] # NoEnd
    BY <2>6
  <2> HIDE DEF last, wr, rd, t, R, W
  <2>10. nextFd' \in [Procs -> Fds] /\ nextFd'[p] = last /\ \A q \in Procs : q # p => nextFd'[q] = nextFd[q]
    BY <1>4, <2>8
  <2> QED BY <2>3, <2>6, <2>7, <2>9, <2>10
<1> HIDE DEF rd, wr, t, id, R, W
<1>10. fds' \in Tables /\ nextFd' \in [Procs -> Fds]
  BY <1>2, <1>4, <1>9
<1>11. DescTypes'
  <2>1. nextPipe' \in 0..MaxPipes
    BY <1>1, <1>3
  <2>2. /\ alive \subseteq Procs /\ halted \in BOOLEAN
        /\ console \in [by : Procs \cup {None}, line : Seq(Keys), screen : Seq(Keys \cup {"prompt"})]
        /\ Len(console.line) < LineSize
    BY InvParts
  <2>3. UNCHANGED <<alive, console, halted>>
    BY <1>1
  <2> QED BY <1>8, <1>10, <2>1, <2>2, <2>3 DEF DescTypes, Pipes, Tables, FdTable
<1>12. R.pipe = id /\ W.pipe = id
  BY DEF R, W, End
<1>13. ASSUME NEW q \in Procs, NEW f \in Fds
       PROVE  fds'[q][f] \in {fds[q][f], R, W}
  BY <1>2, <1>9 DEF t
<1>14. Undrawn'
  <2> SUFFICES ASSUME NEW i \in Ids, i >= id + 1
               PROVE  pipe'[i] = NoPipe /\ \A q \in Procs, f \in Fds : fds'[q][f].pipe # i
    BY <1>1 DEF Undrawn
  <2>1. i \in Nat /\ i >= id /\ i # id
    BY <1>3 DEF Ids
  <2>2. pipe[i] = NoPipe /\ \A q \in Procs, f \in Fds : fds[q][f].pipe # i
    BY <2>1, InvParts DEF Undrawn, id
  <2> QED BY <1>8, <1>12, <1>13, <2>1, <2>2
<1>15. UsedBelowNext'
  <2> SUFFICES ASSUME NEW q \in Procs, NEW g \in UserFdBase..(nextFd'[q] - 1)
               PROVE  fds'[q][g] # NoEnd
    BY DEF UsedBelowNext
  <2>1. CASE rd = NoFd \/ q # p
    <3>1. nextFd'[q] = nextFd[q] /\ fds'[q] = fds[q]
      BY <1>2, <1>9, <2>1
    <3> QED BY <3>1, InvParts DEF UsedBelowNext
  <2>2. CASE rd # NoFd /\ q = p
    BY <1>9, <2>2
  <2> QED BY <2>1, <2>2
<1>16. EndsCounted'
  <2>1. ASSUME NEW r \in Roles
        PROVE  Count(fds, End(id, r)) = 0
    <3>1. HeldIn(fds, End(id, r)) = {}
      <4> SUFFICES ASSUME NEW x \in Procs \X Fds, fds[x[1]][x[2]] = End(id, r)
                   PROVE  FALSE
        BY DEF HeldIn
      <4>1. x[1] \in Procs /\ x[2] \in Fds /\ End(id, r).pipe = id
        BY DEF End
      <4> QED BY <1>7, <4>1
    <3> QED BY <3>1, FS_EmptySet DEF Count
  <2>2. ASSUME NEW i \in Ids, NEW r \in Roles
        PROVE  Count(fds', End(i, r)) = Count(fds, End(i, r)) +
                 (IF rd # NoFd /\ rd # wr /\ R = End(i, r) THEN 1 ELSE 0) +
                 (IF rd # NoFd /\ W = End(i, r) THEN 1 ELSE 0)
    <3> DEFINE x == End(i, r)
    <3>0. NoEnd # x /\ Count(fds, x) \in Nat
      BY RolesDiffer, CountType DEF End
    <3>1. CASE rd = NoFd
      <4>1. fds' = fds
        BY <1>2, <3>1
      <4> HIDE DEF x
      <4>2. Count(fds', x) = Count(fds, x)
        BY <4>1
      <4> QED BY <3>0, <3>1, <4>2 DEF x
    <3>2. CASE rd # NoFd /\ rd = wr
      <4>1. StoredAt(fds', fds, p, wr, W) /\ wr \in Fds /\ fds[p][wr] = NoEnd
        BY <1>9, <3>2 DEF StoredAt, t
      <4> HIDE DEF x
      <4>2. Count(fds', x) = Count(fds, x) - (IF fds[p][wr] = x THEN 1 ELSE 0) + (IF W = x THEN 1 ELSE 0)
        BY <4>1, StoreEnd
      <4>3. fds[p][wr] # x
        BY <3>0, <4>1
      <4>4. Count(fds', x) = Count(fds, x) + (IF W = x THEN 1 ELSE 0)
        BY <3>0, <4>2, <4>3
      <4> QED BY <3>0, <3>2, <4>4 DEF x
    <3>3. CASE rd # NoFd /\ rd # wr
      <4> DEFINE mt == [fds EXCEPT ![p] = [t EXCEPT ![rd] = R]]
      <4>1. mt[p][rd] = R /\ mt[p][wr] = NoEnd /\ fds[p][rd] = NoEnd /\ rd \in Fds /\ wr \in Fds
        BY <1>4, <1>9, <3>3 DEF Tables, FdTable, t
      <4>2. StoredAt(mt, fds, p, rd, R)
        BY <1>4, <1>9, <3>3 DEF StoredAt, Tables, FdTable, t
      <4>3. \A q \in Procs, g \in Fds : <<q, g>> # <<p, wr>> => fds'[q][g] = mt[q][g]
        <5> SUFFICES ASSUME NEW q \in Procs, NEW g \in Fds, <<q, g>> # <<p, wr>>
                     PROVE  fds'[q][g] = mt[q][g]
          OBVIOUS
        <5>1. CASE q # p
          <6>1. mt[q] = fds[q] /\ fds'[q] = fds[q]
            BY <1>4, <1>9, <3>3, <5>1 DEF Tables
          <6> QED BY <6>1
        <5>2. CASE q = p /\ g = rd
          BY <1>9, <3>3, <4>1, <5>2
        <5>3. CASE q = p /\ g # rd /\ g # wr
          <6>1. mt[p][g] = fds[p][g]
            BY <4>2, <5>3 DEF StoredAt
          <6> QED BY <1>9, <3>3, <5>3, <6>1 DEF t
        <5> QED BY <5>1, <5>2, <5>3
      <4>4. StoredAt(fds', mt, p, wr, W)
        BY <1>9, <3>3, <4>3 DEF StoredAt
      <4> HIDE DEF x, mt
      <4>5. Count(mt, x) = Count(fds, x) - (IF fds[p][rd] = x THEN 1 ELSE 0) + (IF R = x THEN 1 ELSE 0)
        BY <4>1, <4>2, StoreEnd
      <4>6. Count(fds', x) = Count(mt, x) - (IF mt[p][wr] = x THEN 1 ELSE 0) + (IF W = x THEN 1 ELSE 0)
        BY <4>1, <4>4, StoreEnd
      <4>7. fds[p][rd] # x /\ mt[p][wr] # x
        BY <3>0, <4>1
      <4>8. Count(fds', x) = Count(fds, x) + (IF R = x THEN 1 ELSE 0) + (IF W = x THEN 1 ELSE 0)
        BY <3>0, <4>5, <4>6, <4>7
      <4> QED BY <3>0, <3>3, <4>8 DEF x
    <3> QED BY <3>1, <3>2, <3>3
  <2>3. Counted(fds', pipe', astray')
    <3> SUFFICES ASSUME NEW i \in Ids, NEW r \in Roles
                 PROVE  /\ pipe'[i].ends[r] >= Count(fds', End(i, r))
                        /\ i \notin astray' => pipe'[i].ends[r] = Count(fds', End(i, r))
      BY DEF Counted
    <3>1. CASE i # id
      <4>1. R # End(i, r) /\ W # End(i, r)
        BY <1>12, <3>1 DEF End
      <4>2. Count(fds', End(i, r)) = Count(fds, End(i, r))
        BY <2>2, <4>1, CountType
      <4>3. pipe'[i] = pipe[i] /\ (i \notin astray' => i \notin astray)
        BY <1>1, <1>8, <3>1
      <4> QED BY <1>4, <4>2, <4>3 DEF Counted
    <3>2. CASE i = id
      <4>1. Count(fds, End(i, r)) = 0 /\ pipe'[i].ends[r] = 1
        BY <1>8, <2>1, <3>2, NewPipe
      <4>2. (R = End(i, r) <=> r = "Read") /\ (W = End(i, r) <=> r = "Write") /\ r \in {"Read", "Write"}
        BY <3>2 DEF R, W, End, Roles
      <4>3. i \notin astray' => rd # NoFd /\ rd # wr
        BY <1>1, <3>2
      <4> DEFINE n == Count(fds', End(i, r))
                 two == rd # NoFd /\ rd # wr /\ R = End(i, r)
                 one == rd # NoFd /\ W = End(i, r)
      <4>4. n = 0 + (IF two THEN 1 ELSE 0) + (IF one THEN 1 ELSE 0)
        BY <2>2, <4>1
      <4>5. ~(two /\ one) /\ (i \notin astray' => two \/ one)
        BY <4>2, <4>3
      <4> HIDE DEF two, one, n
      <4>6. 1 >= n /\ (i \notin astray' => 1 = n)
        BY <4>4, <4>5
      <4> QED BY <4>1, <4>6 DEF n
    <3> QED BY <3>1, <3>2
  <2> QED BY <2>3, CountedNext
<1>17. PipeIsFifo'
  <2>1. Content(pipe'[id]) = stream'[id]
    BY <1>8, NewPipe
  <2> QED BY <1>8, <2>1, InvParts DEF PipeIsFifo
<1>18. EchoMatches'
  BY <1>1, InvParts DEF EchoMatches
<1>19. ConsoleStep
  <2> SUFFICES ASSUME NEW q \in Procs, NEW f \in 0..(UserFdBase - 1),
                      fds[q][f] = NoEnd, fds'[q][f] # NoEnd
               PROVE  \A g \in UserFdBase..(FdTableSize - 1) : fds'[q][g] # NoEnd
    BY DEF ConsoleStep
  <2>1. f \in Fds /\ f < UserFdBase
    BY DescriptorsAssumption DEF Fds
  <2>2. q = p /\ rd # NoFd
    BY <1>2, <1>9
  <2>3. f = rd \/ f = wr
    BY <1>9, <2>1, <2>2 DEF t
  <2> QED BY <1>9, <2>1, <2>2, <2>3
<1>20. IdsStep
  <2> SUFFICES ASSUME NEW i \in Ids, i < nextPipe, pipe[i] = NoPipe
               PROVE  pipe'[i] = NoPipe
    BY DEF IdsStep
  <2>1. i # id
    BY <1>3 DEF Ids, id
  <2> QED BY <1>8, <2>1
<1> QED BY <1>11, <1>14, <1>15, <1>16, <1>17, <1>18, <1>19, <1>20 DEF Kept, DescInv

-----------------------------------------------------------------------------
(* The theorems. *)

\* No pipes, no descriptors and no line to begin with.
LEMMA InitEstablishes == DescInit => DescInv
<1> SUFFICES ASSUME DescInit PROVE DescInv
  OBVIOUS
<1>1. /\ MaxPipes \in Nat \ {0} /\ FdTableSize \in Nat \ {0} /\ LineSize \in Nat \ {0}
      /\ UserFdBase \in Fds
  BY DescriptorsAssumption DEF Fds
<1>2. /\ pipe = [i \in Ids |-> NoPipe] /\ nextPipe = 0
      /\ fds = [p \in Procs |-> EmptyFds] /\ nextFd = [p \in Procs |-> UserFdBase]
      /\ alive = Procs /\ halted = FALSE /\ stream = [i \in Ids |-> <<>>] /\ astray = {}
  BY DEF DescInit
<1>3. console.by = None /\ console.line = <<>> /\ console.screen = <<"prompt">> /\ console = NoReader
  BY DEF DescInit, NoReader
<1>4. console \in [by : Procs \cup {None}, line : Seq(Keys), screen : Seq(Keys \cup {"prompt"})]
  <2>1. <<>> \in Seq(Keys) /\ <<"prompt">> \in Seq(Keys \cup {"prompt"})
    OBVIOUS
  <2> QED BY <1>3, <2>1 DEF NoReader
<1>5. EchoMatches /\ Len(console.line) < LineSize
  BY <1>1, <1>3 DEF EchoMatches
<1>6. \A p \in Procs : EmptyFds \in [Fds -> Ends \cup {NoEnd}] /\ \A f \in Fds : fds[p][f] = NoEnd
  BY <1>2 DEF EmptyFds
<1>7. DescTypes
  <2>1. <<>> \in Seq(Bytes)
    OBVIOUS
  <2>2. pipe \in [Ids -> PipeRec \cup {NoPipe}] /\ stream \in [Ids -> Seq(Bytes)]
    BY <1>2, <2>1
  <2>3. fds \in [Procs -> [Fds -> Ends \cup {NoEnd}]] /\ nextFd \in [Procs -> Fds]
    BY <1>1, <1>2, <1>6
  <2>4. nextPipe \in 0..MaxPipes /\ alive \subseteq Procs /\ halted \in BOOLEAN /\ astray \subseteq Ids
    <3>1. nextPipe = 0 /\ alive = Procs /\ halted = FALSE /\ astray = {}
      BY <1>2
    <3>2. nextPipe \in 0..MaxPipes
      BY <1>1, <3>1
    <3>3. halted \in BOOLEAN
      BY <3>1, Zenon
    <3> QED BY <3>1, <3>2, <3>3
  <2> QED BY <1>4, <1>5, <2>2, <2>3, <2>4 DEF DescTypes
<1>8. Undrawn
  <2>1. \A i \in Ids : NoEnd.pipe # i
    BY DEF NoEnd, Ids
  <2> QED BY <1>2, <1>6, <2>1 DEF Undrawn
<1>9. UsedBelowNext
  BY <1>1, <1>2 DEF UsedBelowNext, Fds
<1>10. EndsCounted
  <2>1. ASSUME NEW i \in Ids, NEW r \in Roles
        PROVE  Count(fds, End(i, r)) = 0
    <3>1. NoEnd # End(i, r)
      BY RolesDiffer DEF End
    <3>2. HeldIn(fds, End(i, r)) = {}
      BY <1>6, <3>1 DEF HeldIn
    <3> QED BY <3>2, FS_EmptySet DEF Count
  <2>2. \A i \in Ids, r \in Roles : pipe[i].ends[r] = 0
    BY <1>2, LiveOrGone
  <2> QED BY <2>1, <2>2, CountedIs DEF Counted
<1>11. PipeIsFifo
  BY <1>2 DEF PipeIsFifo
<1> QED BY <1>5, <1>7, <1>8, <1>9, <1>10, <1>11 DEF DescInv

\* Every step, and every stutter, keeps the invariant and what ConsoleKept
\* and IdsNotReused say.
LEMMA StepKeeps == DescInv /\ [DescNext]_descVars => Kept
<1> SUFFICES ASSUME DescInv, [DescNext]_descVars PROVE Kept
  OBVIOUS
<1>1. CASE UNCHANGED descVars
  <2>1. UNCHANGED <<pipe, nextPipe, fds, nextFd, alive, console, halted, stream, astray>>
    BY <1>1 DEF descVars
  <2>2. console.screen = <<"prompt">> \o console.line
    BY InvParts DEF EchoMatches
  <2> QED BY <2>1, <2>2, InvParts, ConsoleSteps
<1>2. ASSUME NEW p \in Procs,
             \/ sys_pipe(p) \/ sys_exit(p) \/ Replace(p) \/ StartLine(p)
             \/ \E old \in Fds, new \in Fds \cup {FdTableSize} : sys_dup2(p, old, new)
             \/ \E fd \in Fds, data \in Data : WritePipe(p, fd, data)
             \/ \E fd \in Fds, n \in 1..PipeBufSize : ReadPipe(p, fd, n)
      PROVE  Kept
  BY <1>2, PipeKeeps, ExitKeeps, ReplaceKeeps, StartKeeps, DupKeeps, WriteKeeps, ReadKeeps
<1>3. CASE \E k \in Keys : Key(k)
  BY <1>3, KeyKeeps
<1> QED BY <1>1, <1>2, <1>3 DEF DescNext

\* The invariant holds in every state.
THEOREM DescriptorsInvariant == DescSpec => []DescInv
<1>1. DescInv /\ [DescNext]_descVars => DescInv'
  BY StepKeeps DEF Kept
<1> QED BY <1>1, InitEstablishes, PTL DEF DescSpec

\* Pipes, descriptor tables and the console keep their types, and the line
\* never outgrows the reader's buffer.
THEOREM DescriptorTypes == DescSpec => []DescTypeOK
<1>1. DescInv => DescTypeOK
  <2> SUFFICES ASSUME DescInv PROVE DescTypeOK
    OBVIOUS
  <2>1. ASSUME NEW i \in Ids, pipe[i] # NoPipe
        PROVE  /\ {pipe[i].head, pipe[i].tail} \subseteq Ring
               /\ \A r \in Roles : pipe[i].ends[r] \in Nat
               /\ pipe[i].buf \in [Ring -> Bytes]
    <3>1. pipe[i] \in PipeRec
      BY <2>1, InvParts, LiveOrGone
    <3> QED BY <3>1 DEF PipeRec
  <2>2. console.by \in Procs \cup {None} /\ Len(console.line) <= LineSize
    <3>1. console.by \in Procs \cup {None} /\ Len(console.line) \in Nat /\ Len(console.line) < LineSize
      BY InvParts
    <3> QED BY <3>1, DescriptorsAssumption
  <2>3. /\ nextPipe \in 0..MaxPipes /\ fds \in [Procs -> [Fds -> Ends \cup {NoEnd}]] /\ nextFd \in [Procs -> Fds]
        /\ alive \subseteq Procs /\ halted \in BOOLEAN /\ astray \subseteq Ids
    BY InvParts DEF Tables, FdTable
  <2> QED BY <2>1, <2>2, <2>3 DEF DescTypeOK, Ring
<1> QED BY <1>1, DescriptorsInvariant, PTL

\* sys_pipe, dup2 and the reuse of process slots keep the count of a pipe's
\* ends: exactly the descriptors that hold one, or more when one went astray,
\* and so no descriptor leads to a pipe that is gone.
THEOREM EndsAlwaysCounted == DescSpec => []EndsCounted
<1>1. DescInv => EndsCounted
  BY DEF DescInv
<1> QED BY <1>1, DescriptorsInvariant, PTL

\* pipe_write and pipe_read deliver the accepted bytes in order, for a ring
\* of any size.
THEOREM PipesDeliverInOrder == DescSpec => []PipeIsFifo
<1>1. DescInv => PipeIsFifo
  BY DEF DescInv
<1> QED BY <1>1, DescriptorsInvariant, PTL

\* sys_read's echo shows the line that the program will get.
THEOREM EchoAlwaysMatches == DescSpec => []EchoMatches
<1>1. DescInv => EchoMatches
  BY DEF DescInv
<1> QED BY <1>1, DescriptorsInvariant, PTL

\* alloc_user_fd gives a console descriptor away only when no other is left.
THEOREM ConsoleLast == DescSpec => ConsoleKept
<1>1. DescInv /\ [DescNext]_descVars
        => [\A p \in Procs, f \in 0..(UserFdBase - 1) :
              fds[p][f] = NoEnd /\ fds'[p][f] # NoEnd
                => \A g \in UserFdBase..(FdTableSize - 1) : fds'[p][g] # NoEnd]_descVars
  BY StepKeeps DEF Kept, ConsoleStep
<1> QED BY <1>1, DescriptorsInvariant, PTL DEF DescSpec, ConsoleKept

\* alloc_pipe never makes a second pipe in the slot of one that is gone.
THEOREM SlotsUsedOnce == DescSpec => IdsNotReused
<1>1. DescInv /\ [DescNext]_descVars
        => [\A i \in Ids : i < nextPipe /\ pipe[i] = NoPipe => pipe'[i] = NoPipe]_descVars
  BY StepKeeps DEF Kept, IdsStep
<1> QED BY <1>1, DescriptorsInvariant, PTL DEF DescSpec, IdsNotReused
=============================================================================
