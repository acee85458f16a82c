-------------------------- MODULE ClientOutputProofs --------------------------
(***************************************************************************)
(* Proofs about ClientOutput for every size of the ring, of the kernel's   *)
(* buffer and of messages, and every time-out.  First the C functions of   *)
(* the ring, each by what it does to the sequence of bytes that wait; then *)
(* one lemma per action for the invariant, and the refinement.             *)
(***************************************************************************)
EXTENDS ClientOutput, SequenceTheorems, TLAPS

(* No deleted client leaves output behind, and only a client is flushed.   *)
Closed ==
  /\ ~open => queue.len = 0 /\ wire = <<>>
  /\ step.at = "flush" => open

(* The mark is never older than the silence it stands for.                 *)
Marked == queue.stalled <= quiet

(* Each byte may follow the one before it.                                 *)
Chained(s) == \A i \in 1 .. Len(s) - 1 : Follows(s[i + 1], s[i])

(* The last byte of a message.                                             *)
Ends(b) == b[2] = b[1]

(* Whole messages, but for the first, of which the end is left.            *)
Runs(s) == Chained(s) /\ Ends(s[Len(s)])

(* What the peer read last, is about to read, and will read.               *)
Stream == (<<last>> \o wire) \o Pending

(* Unless a policy reply tore it, the stream is whole messages to its end. *)
Coherent == ~torn => ~garbled /\ Runs(Stream)

OutputIInv == OutputTypeOK /\ Closed /\ Marked /\ Coherent

-----------------------------------------------------------------------------
(* The remainder of an index that wraps at most once upwards and twice     *)
(* downwards.                                                              *)
LEMMA ModInRange ==
  ASSUME NEW x \in Int
  PROVE  /\ x % QueueSize \in 0 .. QueueSize - 1
         /\ x \in 0 .. QueueSize - 1 => x % QueueSize = x
         /\ x \in QueueSize .. 2 * QueueSize - 1 => x % QueueSize = x - QueueSize
         /\ x \in -QueueSize .. -1 => x % QueueSize = x + QueueSize
         /\ x \in -(2 * QueueSize) .. -QueueSize - 1 => x % QueueSize = x + 2 * QueueSize
BY OutputAssumption, SMT

(* An index that has passed the end of the ring at most once.              *)
LEMMA Wrap ==
  ASSUME NEW x \in 0 .. 2 * QueueSize - 1
  PROVE  x % QueueSize \in Ring /\ x % QueueSize = IF x < QueueSize THEN x ELSE x - QueueSize
<1>1. QueueSize \in Nat \ {0} /\ x \in Int
  BY OutputAssumption
<1>2. CASE x < QueueSize
  <2>1. x \in 0 .. QueueSize - 1
    BY <1>1, <1>2
  <2>2. x % QueueSize = x
    BY <1>1, <2>1, ModInRange
  <2>3. QED
    BY <1>2, <2>1, <2>2 DEF Ring
<1>3. CASE ~(x < QueueSize)
  <2>1. x \in QueueSize .. 2 * QueueSize - 1 /\ x - QueueSize \in 0 .. QueueSize - 1
    BY <1>1, <1>3
  <2>2. x % QueueSize = x - QueueSize
    BY <1>1, <2>1, ModInRange
  <2>3. QED
    BY <1>3, <2>1, <2>2 DEF Ring
<1>4. QED
  BY <1>2, <1>3

(* The bytes a ring holds, oldest first.                                   *)
Waiting(q) == [i \in 1 .. q.len |-> q.data[(q.head + i - 1) % QueueSize]]

(* The slot of the byte at position i, with the wrap spelled out.          *)
LEMMA SlotOf ==
  ASSUME NEW q \in Queues, NEW i \in 1 .. QueueSize
  PROVE  /\ (q.head + i - 1) % QueueSize \in Ring
         /\ (q.head + i - 1) % QueueSize = IF q.head + i - 1 < QueueSize
              THEN q.head + i - 1 ELSE (q.head + i - 1) - QueueSize
<1> DEFINE x == q.head + i - 1
<1>1. q.head \in 0 .. QueueSize - 1 /\ QueueSize \in Nat \ {0}
  BY OutputAssumption DEF Queues, Ring
<1>2. x \in 0 .. 2 * QueueSize - 1
  BY <1>1
<1> HIDE DEF x
<1>3. x % QueueSize \in Ring /\ x % QueueSize = IF x < QueueSize THEN x ELSE x - QueueSize
  BY <1>2, Wrap
<1>4. QED
  BY <1>3, Zenon DEF x

(* Every ring holds a sequence of bytes.                                   *)
LEMMA WaitingType ==
  ASSUME NEW q \in Queues
  PROVE  /\ Waiting(q) \in Seq(Bytes) /\ Len(Waiting(q)) = q.len
         /\ q.len \in 0 .. QueueSize /\ q.head \in 0 .. QueueSize - 1
<1>1. q.len \in 0 .. QueueSize /\ q.head \in 0 .. QueueSize - 1 /\ QueueSize \in Nat \ {0}
  BY OutputAssumption DEF Queues, Ring
<1>2. \A i \in 1 .. q.len : q.data[(q.head + i - 1) % QueueSize] \in Bytes
  <2>1. \A i \in 1 .. q.len : i \in 1 .. QueueSize
    BY <1>1
  <2>2. \A i \in 1 .. q.len : (q.head + i - 1) % QueueSize \in Ring
    BY <2>1, SlotOf
  <2>3. QED
    BY <2>2 DEF Queues
<1> DEFINE w == [i \in 1 .. q.len |-> q.data[(q.head + i - 1) % QueueSize]]
<1>3. q.len \in Nat /\ w \in [1 .. q.len -> Bytes]
  BY <1>1, <1>2
<1>4. Waiting(q) = w
  BY DEF Waiting
<1> HIDE DEF w
<1>5. w \in Seq(Bytes) /\ Len(w) = q.len
  BY <1>3
<1>6. QED
  BY <1>1, <1>4, <1>5

(* A message is a sequence of bytes, and one of the longest and the policy *)
(* reply are made of them.                                                 *)
LEMMA MessageType ==
  ASSUME NEW n \in 1 .. MaxMsg \cup {PolicyLen}
  PROVE  /\ n \in Nat \ {0} /\ Message(n) \in Seq(Bytes) /\ Len(Message(n)) = n
         /\ \A i \in 1 .. n : Message(n)[i] = <<n, i>>
<1>1. n \in Nat \ {0}
  BY OutputAssumption
<1>2. \A i \in 1 .. n : <<n, i>> \in Bytes
  BY DEF Bytes
<1>3. QED
  BY <1>1, <1>2 DEF Message

(* A byte names its message and its place in it.                           *)
LEMMA ByteType ==
  /\ Whole \in Bytes
  /\ \A b \in Bytes : \E n \in Nat \ {0} : \E i \in 1 .. n : b = <<n, i>>
<1>1. 1 \in 1 .. MaxMsg /\ 1 \in 1 .. 1 /\ \A n \in 1 .. MaxMsg \cup {PolicyLen} : n \in Nat \ {0}
  BY OutputAssumption
<1>2. Whole \in {<<1, i>> : i \in 1 .. 1}
  BY <1>1 DEF Whole
<1>3. Whole \in Bytes
  BY <1>1, <1>2, Zenon DEF Bytes
<1>4. ASSUME NEW b \in Bytes
      PROVE  \E n \in Nat \ {0} : \E i \in 1 .. n : b = <<n, i>>
  <2>1. PICK n \in 1 .. MaxMsg \cup {PolicyLen} : b \in {<<n, i>> : i \in 1 .. n}
    BY Zenon DEF Bytes
  <2>2. QED
    BY <1>1, <2>1
<1>5. QED
  BY <1>3, <1>4

-----------------------------------------------------------------------------
(* client_output_init() empties the ring.                                  *)
LEMMA InitRing ==
  ASSUME NEW q \in Queues
  PROVE  /\ client_output_init(q) \in Queues
         /\ client_output_init(q).len = 0
         /\ client_output_init(q).stalled = NotStalled
         /\ Waiting(client_output_init(q)) = <<>>
<1>1. 0 \in Ring /\ 0 \in 0 .. QueueSize
  BY OutputAssumption DEF Ring
<1>2. client_output_init(q) \in Queues /\ client_output_init(q).len = 0
      /\ client_output_init(q).stalled = NotStalled
  BY <1>1 DEF client_output_init, Queues
<1>3. QED
  BY <1>2, WaitingType

(* client_output_enqueue() of a message that fits appends it, wherever the *)
(* two memcpy()s wrap, and disturbs no byte that waits.                    *)
LEMMA EnqueueRing ==
  ASSUME NEW q \in Queues, NEW m \in Seq(Bytes), Len(m) <= client_output_space(q)
  PROVE  /\ client_output_enqueue(q, m) \in Queues
         /\ client_output_enqueue(q, m).stalled = q.stalled
         /\ Waiting(client_output_enqueue(q, m)) = Waiting(q) \o m
<1> DEFINE r == client_output_enqueue(q, m)
           k(i) == ((i - q.head) - q.len) % QueueSize
           d == [i \in Ring |-> IF k(i) < Len(m) THEN m[k(i) + 1] ELSE q.data[i]]
<1>1. /\ q.len \in 0 .. QueueSize /\ q.head \in 0 .. QueueSize - 1
      /\ QueueSize \in Nat \ {0} /\ Len(m) \in Nat /\ q.len + Len(m) <= QueueSize
  BY WaitingType, OutputAssumption DEF client_output_space
<1>2. \A i \in Ring : k(i) \in 0 .. QueueSize - 1
  <2>1. \A i \in Ring : (i - q.head) - q.len \in Int
    BY <1>1 DEF Ring
  <2>2. QED
    BY <2>1, ModInRange
<1>3. d \in [Ring -> Bytes]
  <2>1. SUFFICES ASSUME NEW i \in Ring
                 PROVE  (IF k(i) < Len(m) THEN m[k(i) + 1] ELSE q.data[i]) \in Bytes
    OBVIOUS
  <2>2. k(i) < Len(m) => k(i) + 1 \in 1 .. Len(m)
    BY <1>1, <1>2, <2>1
  <2>3. QED
    BY <2>1, <2>2 DEF Queues
<1>4. /\ r.data = d /\ r.len = q.len + Len(m) /\ r.head = q.head /\ r.stalled = q.stalled
      /\ r \in Queues
  <2>1. r = [q EXCEPT !.data = d, !.len = q.len + Len(m)]
    BY DEF client_output_enqueue, Queues
  <2>2. q.len + Len(m) \in 0 .. QueueSize
    BY <1>1
  <2>3. QED
    BY <1>3, <2>1, <2>2 DEF Queues
<1> HIDE DEF r, d
<1>5. ASSUME NEW j \in 1 .. q.len
      PROVE  Waiting(r)[j] = Waiting(q)[j]
  <2> DEFINE s == (q.head + j - 1) % QueueSize
  <2>1. j \in 1 .. QueueSize /\ j \in 1 .. r.len
    BY <1>1, <1>4
  <2>2. /\ s \in Ring
        /\ s = IF q.head + j - 1 < QueueSize THEN q.head + j - 1 ELSE (q.head + j - 1) - QueueSize
    BY <2>1, SlotOf
  <2> HIDE DEF s
  <2>3. k(s) = QueueSize + (j - 1) - q.len
    <3> DEFINE x == (s - q.head) - q.len
    <3>1. x = (j - 1) - q.len \/ x = (j - 1) - q.len - QueueSize
      BY <1>1, <2>2
    <3>2. k(s) = x % QueueSize
      OBVIOUS
    <3> HIDE DEF x, k
    <3>3. CASE x = (j - 1) - q.len
      <4>1. x \in -QueueSize .. -1 /\ x \in Int
        BY <1>1, <3>3
      <4>2. x % QueueSize = x + QueueSize
        BY <4>1, ModInRange
      <4>3. QED
        BY <1>1, <3>2, <3>3, <4>2
    <3>4. CASE x = (j - 1) - q.len - QueueSize
      <4>1. x \in -(2 * QueueSize) .. -QueueSize - 1 /\ x \in Int
        BY <1>1, <3>4
      <4>2. x % QueueSize = x + 2 * QueueSize
        BY <4>1, ModInRange
      <4>3. QED
        BY <1>1, <3>2, <3>4, <4>2
    <3>5. QED
      BY <3>1, <3>3, <3>4
  <2>4. ~(k(s) < Len(m))
    BY <1>1, <2>3
  <2>5. d[s] = q.data[s]
    BY <2>2, <2>4 DEF d
  <2>6. QED
    BY <1>4, <2>1, <2>5 DEF Waiting, s
<1>6. ASSUME NEW j \in 1 .. Len(m)
      PROVE  Waiting(r)[q.len + j] = m[j]
  <2> DEFINE i == q.len + j
             s == (q.head + i - 1) % QueueSize
  <2>1. i \in 1 .. QueueSize /\ i \in 1 .. r.len
    BY <1>1, <1>4
  <2> HIDE DEF i
  <2>2. /\ s \in Ring
        /\ s = IF q.head + i - 1 < QueueSize THEN q.head + i - 1 ELSE (q.head + i - 1) - QueueSize
    BY <2>1, SlotOf
  <2> HIDE DEF s
  <2>3. k(s) = j - 1
    <3> DEFINE x == (s - q.head) - q.len
    <3>1. x = j - 1 \/ x = j - 1 - QueueSize
      <4>1. /\ q.head \in Int /\ q.len \in Int /\ QueueSize \in Int /\ j \in Int
            /\ i = q.len + j
        BY <1>1 DEF i
      <4>2. s = q.head + i - 1 \/ s = (q.head + i - 1) - QueueSize
        BY <2>2
      <4>3. CASE s = q.head + i - 1
        BY <4>1, <4>3
      <4>4. CASE s = (q.head + i - 1) - QueueSize
        <5>1. \A a, b, c, n \in Int : (((a + (b + c) - 1) - n) - a) - b = c - 1 - n
          OBVIOUS
        <5>2. x = (((q.head + (q.len + j) - 1) - QueueSize) - q.head) - q.len
          BY <4>1, <4>4
        <5>3. QED
          BY <4>1, <5>1, <5>2
      <4>5. QED
        BY <4>2, <4>3, <4>4
    <3>2. k(s) = x % QueueSize
      OBVIOUS
    <3> HIDE DEF x, k
    <3>3. CASE x = j - 1
      <4>1. x \in 0 .. QueueSize - 1 /\ x \in Int
        BY <1>1, <3>3
      <4>2. QED
        BY <3>2, <3>3, <4>1, ModInRange
    <3>4. CASE x = j - 1 - QueueSize
      <4>1. x \in -QueueSize .. -1 /\ x \in Int
        BY <1>1, <3>4
      <4>2. x % QueueSize = x + QueueSize
        BY <4>1, ModInRange
      <4>3. QED
        BY <1>1, <3>2, <3>4, <4>2
    <3>5. QED
      BY <3>1, <3>3, <3>4
  <2>4. d[s] = m[j]
    BY <1>1, <2>2, <2>3 DEF d
  <2>5. Waiting(r)[i] = r.data[s]
    BY <1>4, <2>1 DEF Waiting, s
  <2>6. QED
    BY <1>4, <2>4, <2>5 DEF i
<1>7. QED
  <2>1. /\ Waiting(r) \in Seq(Bytes) /\ Len(Waiting(r)) = q.len + Len(m)
        /\ Waiting(q) \in Seq(Bytes) /\ Len(Waiting(q)) = q.len
    BY <1>4, WaitingType
  <2>2. \A j \in 1 .. q.len + Len(m) :
          Waiting(r)[j] = IF j <= q.len THEN Waiting(q)[j] ELSE m[j - q.len]
    <3>1. SUFFICES ASSUME NEW j \in 1 .. q.len + Len(m)
                   PROVE  Waiting(r)[j] = IF j <= q.len THEN Waiting(q)[j] ELSE m[j - q.len]
      OBVIOUS
    <3>2. CASE j <= q.len
      BY <1>1, <1>5, <3>2
    <3>3. CASE ~(j <= q.len)
      <4>1. j - q.len \in 1 .. Len(m) /\ q.len + (j - q.len) = j
        BY <1>1, <3>3
      <4>2. QED
        BY <1>6, <3>3, <4>1
    <3>4. QED
      BY <3>2, <3>3
  <2>3. Waiting(r) = Waiting(q) \o m
    <3> DEFINE z == Waiting(q) \o m
    <3>1. /\ z \in Seq(Bytes) /\ Len(z) = q.len + Len(m)
          /\ \A j \in 1 .. q.len + Len(m) :
               z[j] = IF j <= q.len THEN Waiting(q)[j] ELSE m[j - q.len]
      <4>1. \A a, b \in Seq(Bytes) :
              /\ a \o b \in Seq(Bytes) /\ Len(a \o b) = Len(a) + Len(b)
              /\ \A j \in 1 .. Len(a) + Len(b) :
                   (a \o b)[j] = IF j <= Len(a) THEN a[j] ELSE b[j - Len(a)]
        BY ConcatProperties
      <4>2. /\ z \in Seq(Bytes) /\ Len(z) = Len(Waiting(q)) + Len(m)
            /\ \A j \in 1 .. Len(Waiting(q)) + Len(m) :
                 z[j] = IF j <= Len(Waiting(q)) THEN Waiting(q)[j] ELSE m[j - Len(Waiting(q))]
        BY <2>1, <4>1
      <4> HIDE DEF z
      <4>3. QED
        BY <2>1, <4>2
    <3> HIDE DEF z
    <3>2. Waiting(r) = z
      BY <2>1, <2>2, <3>1, SeqEqual
    <3>3. QED
      BY <3>2 DEF z
  <2>4. QED
    BY <1>4, <2>3 DEF r

(* client_output_peek() shows the oldest bytes, as far as they lie in one  *)
(* piece.                                                                  *)
LEMMA PeekRing ==
  ASSUME NEW q \in Queues
  PROVE  /\ client_output_peek(q) \in Seq(Bytes)
         /\ Len(client_output_peek(q)) <= q.len
         /\ \A i \in 1 .. Len(client_output_peek(q)) : client_output_peek(q)[i] = Waiting(q)[i]
<1> DEFINE n == Min2(QueueSize - q.head, q.len)
<1>1. /\ q.len \in 0 .. QueueSize /\ q.head \in 0 .. QueueSize - 1 /\ QueueSize \in Nat \ {0}
      /\ Waiting(q) \in Seq(Bytes) /\ Len(Waiting(q)) = q.len
  BY WaitingType, OutputAssumption
<1>2. n \in 0 .. q.len /\ n <= QueueSize - q.head
  BY <1>1 DEF Min2
<1> HIDE DEF n
<1>3. \A i \in 1 .. n : q.data[q.head + i - 1] = Waiting(q)[i]
  <2>1. SUFFICES ASSUME NEW i \in 1 .. n
                 PROVE  q.data[q.head + i - 1] = Waiting(q)[i]
    OBVIOUS
  <2>2. i \in 1 .. q.len /\ i \in 1 .. QueueSize /\ q.head + i - 1 < QueueSize
    BY <1>1, <1>2
  <2>3. (q.head + i - 1) % QueueSize = q.head + i - 1
    BY <2>2, SlotOf
  <2>4. QED
    BY <2>2, <2>3 DEF Waiting
<1>4. client_output_peek(q) = [i \in 1 .. n |-> q.data[q.head + i - 1]]
  BY DEF client_output_peek, n
<1>5. \A i \in 1 .. n : i \in 1 .. q.len
  BY <1>1, <1>2
<1>6. \A i \in 1 .. n : Waiting(q)[i] \in Bytes
  BY <1>1, <1>5
<1>7. n \in Nat
  BY <1>1, <1>2
<1>8. client_output_peek(q) \in Seq(Bytes) /\ Len(client_output_peek(q)) = n
  <2>1. \A i \in 1 .. n : q.data[q.head + i - 1] \in Bytes
    BY <1>3, <1>6
  <2>2. QED
    BY <1>4, <1>7, <2>1
<1>9. QED
  BY <1>1, <1>2, <1>3, <1>4, <1>8

(* client_output_consume() takes the n oldest bytes and no other.          *)
LEMMA ConsumeRing ==
  ASSUME NEW q \in Queues, NEW n \in 0 .. q.len
  PROVE  /\ client_output_consume(q, n) \in Queues
         /\ client_output_consume(q, n).stalled \in {NotStalled, q.stalled}
         /\ Waiting(client_output_consume(q, n)) = SubSeq(Waiting(q), n + 1, q.len)
<1> DEFINE r == client_output_consume(q, n)
<1>1. /\ q.len \in 0 .. QueueSize /\ q.head \in 0 .. QueueSize - 1 /\ QueueSize \in Nat \ {0}
      /\ Waiting(q) \in Seq(Bytes) /\ Len(Waiting(q)) = q.len
  BY WaitingType, OutputAssumption
<1>2. CASE n >= q.len
  <2>1. r = client_output_init(q)
    BY <1>2 DEF client_output_consume
  <2>2. n + 1 > q.len /\ n + 1 \in Nat /\ q.len \in Nat
    BY <1>1, <1>2
  <2>3. SubSeq(Waiting(q), n + 1, q.len) = <<>>
    BY <1>1, <2>2
  <2>4. QED
    BY <2>1, <2>3, InitRing
<1>3. CASE ~(n >= q.len)
  <2>1. r = [q EXCEPT !.head = (q.head + n) % QueueSize, !.len = q.len - n]
    BY <1>3 DEF client_output_consume
  <2>4. /\ (q.head + n) % QueueSize \in Ring
        /\ (q.head + n) % QueueSize = IF q.head + n < QueueSize
              THEN q.head + n ELSE (q.head + n) - QueueSize
    <3> DEFINE x == q.head + n
    <3>1. x \in 0 .. 2 * QueueSize - 1
      BY <1>1
    <3> HIDE DEF x
    <3>2. /\ x % QueueSize \in Ring
          /\ x % QueueSize = IF x < QueueSize THEN x ELSE x - QueueSize
      BY <3>1, Wrap
    <3>3. QED
      BY <3>2, Zenon DEF x
  <2>2. (q.head + n) % QueueSize \in Ring /\ q.len - n \in 0 .. QueueSize
    <3>1. q.len - n \in 0 .. QueueSize
      BY <1>1
    <3>2. QED
      BY <2>4, <3>1, Zenon
  <2>3. /\ r \in Queues /\ r.data = q.data /\ r.len = q.len - n
        /\ r.head = (q.head + n) % QueueSize /\ r.stalled = q.stalled
    BY <2>1, <2>2 DEF Queues
  <2>9. r.head = IF q.head + n < QueueSize THEN q.head + n ELSE (q.head + n) - QueueSize
    BY <2>3, <2>4, Zenon
  <2> HIDE DEF r
  <2>5. \A i \in 1 .. q.len - n : Waiting(r)[i] = Waiting(q)[n + i]
    <3>1. SUFFICES ASSUME NEW i \in 1 .. q.len - n
                   PROVE  Waiting(r)[i] = Waiting(q)[n + i]
      OBVIOUS
    <3> DEFINE j == n + i
    <3>2. /\ i \in 1 .. QueueSize /\ j \in 1 .. QueueSize
          /\ i \in 1 .. r.len /\ j \in 1 .. q.len
      BY <1>1, <2>3
    <3>3. /\ (r.head + i - 1) % QueueSize = IF r.head + i - 1 < QueueSize
               THEN r.head + i - 1 ELSE (r.head + i - 1) - QueueSize
          /\ (q.head + j - 1) % QueueSize = IF q.head + j - 1 < QueueSize
               THEN q.head + j - 1 ELSE (q.head + j - 1) - QueueSize
      BY <2>3, <3>2, SlotOf
    <3>4. (r.head + i - 1) % QueueSize = (q.head + j - 1) % QueueSize
      <4>1. r.head \in 0 .. QueueSize - 1 /\ i \in Nat /\ n \in Nat /\ j = n + i
        BY <1>1, <2>2, <2>3 DEF Ring
      <4> HIDE DEF j
      <4>2. \/ r.head + i = q.head + j
            \/ r.head + i = q.head + j - QueueSize
        BY <1>1, <2>9, <4>1
      <4> DEFINE sr == (r.head + i - 1) % QueueSize
                 sq == (q.head + j - 1) % QueueSize
      <4>3. /\ sr = IF r.head + i - 1 < QueueSize
                      THEN r.head + i - 1 ELSE (r.head + i - 1) - QueueSize
            /\ sq = IF q.head + j - 1 < QueueSize
                      THEN q.head + j - 1 ELSE (q.head + j - 1) - QueueSize
        BY <3>3
      <4> HIDE DEF sr, sq
      <4>4. /\ q.head \in Int /\ QueueSize \in Nat /\ q.head < QueueSize /\ q.head >= 0
            /\ r.head \in Int /\ r.head < QueueSize /\ i \in Nat /\ n \in Nat
            /\ i + n <= QueueSize /\ i >= 1
        BY <1>1, <3>2, <4>1
      <4>5. sr = sq
        BY <2>9, <4>1, <4>2, <4>3, <4>4
      <4>6. QED
        BY <4>5 DEF sr, sq
    <3> HIDE DEF j
    <3>5. Waiting(r)[i] = Waiting(q)[j]
      BY <2>3, <3>2, <3>4 DEF Waiting
    <3>6. QED
      BY <3>5 DEF j
  <2>6. Waiting(r) \in Seq(Bytes) /\ Len(Waiting(r)) = q.len - n
    BY <2>3, WaitingType
  <2>7. Waiting(r) = SubSeq(Waiting(q), n + 1, q.len)
    <3> DEFINE z == SubSeq(Waiting(q), n + 1, q.len)
    <3>1. /\ z \in Seq(Bytes) /\ Len(z) = q.len - n
          /\ \A i \in 1 .. q.len - n : z[i] = Waiting(q)[n + i]
      <4>1. /\ n + 1 \in Int /\ q.len \in Int /\ n + 1 <= q.len
            /\ \A i \in n + 1 .. q.len : Waiting(q)[i] \in Bytes
        BY <1>1, <1>3
      <4>2. /\ z \in Seq(Bytes) /\ Len(z) = q.len - (n + 1) + 1
            /\ \A i \in 1 .. q.len - (n + 1) + 1 : z[i] = Waiting(q)[n + 1 + i - 1]
        BY <4>1, SubSeqProperties
      <4>3. /\ q.len - (n + 1) + 1 = q.len - n
            /\ \A i \in 1 .. q.len - n : n + 1 + i - 1 = n + i
        BY <1>1
      <4>4. QED
        BY <4>2, <4>3
    <3> HIDE DEF z
    <3>2. Waiting(r) = z
      BY <2>5, <2>6, <3>1, SeqEqual
    <3>3. QED
      BY <3>2 DEF z
  <2>8. QED
    BY <2>3, <2>7 DEF r
<1>4. QED
  BY <1>2, <1>3

-----------------------------------------------------------------------------
(* A message put behind whole messages: queue_client_bytes() never starts  *)
(* one in the middle of another.                                           *)
LEMMA RunsConcat ==
  ASSUME NEW s \in Seq(Bytes), s # <<>>, Runs(s),
         NEW m \in Seq(Bytes), m # <<>>, Runs(m), m[1][2] = 1
  PROVE  Runs(s \o m)
<1> DEFINE z == s \o m
<1>1. /\ Len(s) \in Nat \ {0} /\ Len(m) \in Nat \ {0} /\ Len(z) = Len(s) + Len(m)
      /\ \A i \in 1 .. Len(s) + Len(m) : z[i] = IF i <= Len(s) THEN s[i] ELSE m[i - Len(s)]
  BY ConcatProperties, EmptySeq
<1> HIDE DEF z
<1>2. Chained(z)
  <2>1. SUFFICES ASSUME NEW i \in 1 .. Len(z) - 1
                 PROVE  Follows(z[i + 1], z[i])
    BY DEF Chained
  <2>2. CASE i < Len(s)
    <3>1. i \in 1 .. Len(s) - 1 /\ z[i] = s[i] /\ z[i + 1] = s[i + 1]
      BY <1>1, <2>2
    <3>2. QED
      BY <3>1 DEF Runs, Chained
  <2>3. CASE i = Len(s)
    <3>1. z[i] = s[Len(s)] /\ z[i + 1] = m[1]
      BY <1>1, <2>3
    <3>2. QED
      BY <3>1 DEF Runs, Ends, Follows
  <2>4. CASE i > Len(s)
    <3>1. /\ i - Len(s) \in 1 .. Len(m) - 1 /\ z[i] = m[i - Len(s)]
          /\ z[i + 1] = m[i - Len(s) + 1]
      BY <1>1, <2>4
    <3>2. QED
      BY <3>1 DEF Runs, Chained
  <2>5. QED
    BY <1>1, <2>2, <2>3, <2>4
<1>3. z[Len(z)] = m[Len(m)]
  BY <1>1
<1>4. QED
  BY <1>2, <1>3 DEF Runs, z

(* Where a message begins, the one before it has ended.                    *)
LEMMA RunsSplit ==
  ASSUME NEW s \in Seq(Bytes), s # <<>>,
         NEW u \in Seq(Bytes), u # <<>>, Runs(s \o u), u[1][2] = 1
  PROVE  Runs(s) /\ Runs(u)
<1> DEFINE z == s \o u
<1>1. /\ Len(s) \in Nat \ {0} /\ Len(u) \in Nat \ {0} /\ Len(z) = Len(s) + Len(u)
      /\ \A i \in 1 .. Len(s) + Len(u) : z[i] = IF i <= Len(s) THEN s[i] ELSE u[i - Len(s)]
  BY ConcatProperties, EmptySeq
<1>2. Runs(z)
  OBVIOUS
<1> HIDE DEF z
<1>3. \A i \in 1 .. Len(s) + Len(u) - 1 : Follows(z[i + 1], z[i])
  BY <1>1, <1>2 DEF Runs, Chained
<1>4. Chained(s)
  <2>1. SUFFICES ASSUME NEW i \in 1 .. Len(s) - 1
                 PROVE  Follows(s[i + 1], s[i])
    BY DEF Chained
  <2>2. i \in 1 .. Len(s) + Len(u) - 1 /\ z[i] = s[i] /\ z[i + 1] = s[i + 1]
    BY <1>1
  <2>3. QED
    BY <1>3, <2>2
<1>5. Chained(u)
  <2>1. SUFFICES ASSUME NEW i \in 1 .. Len(u) - 1
                 PROVE  Follows(u[i + 1], u[i])
    BY DEF Chained
  <2> DEFINE j == Len(s) + i
  <2>2. j \in 1 .. Len(s) + Len(u) - 1 /\ z[j] = u[i] /\ z[j + 1] = u[i + 1]
    BY <1>1
  <2> HIDE DEF j
  <2>3. QED
    BY <1>3, <2>2
<1>6. Ends(s[Len(s)])
  <2> DEFINE a == s[Len(s)]
             b == u[1]
  <2>1. Follows(b, a)
    <3>1. /\ Len(s) \in 1 .. Len(s) + Len(u) - 1
          /\ z[Len(s)] = s[Len(s)] /\ z[Len(s) + 1] = u[1]
      BY <1>1
    <3>2. QED
      BY <1>3, <3>1
  <2>2. a \in Bytes /\ b \in Bytes
    BY <1>1
  <2>3. a[2] \in Nat \ {0} /\ b[2] = 1
    <3>1. PICK n \in Nat \ {0} : \E i \in 1 .. n : a = <<n, i>>
      BY <2>2, ByteType
    <3>2. QED
      BY <3>1
  <2> HIDE DEF a, b
  <2>4. b # <<a[1], a[2] + 1>>
    BY <2>3
  <2>5. QED
    BY <2>1, <2>4 DEF Follows, Ends, a
<1>7. Ends(u[Len(u)])
  <2>1. z[Len(z)] = u[Len(u)]
    BY <1>1
  <2>2. QED
    BY <1>2, <2>1 DEF Runs
<1>8. QED
  BY <1>4, <1>5, <1>6, <1>7 DEF Runs

(* What is sent, waits and comes behind may be grouped either way.         *)
LEMMA Regroup ==
  \A s, t, u \in Seq(Bytes) : (s \o t) \o u = s \o (t \o u)
BY ConcatAssociative

(* The peer reads a byte: it follows the one before, and the rest is as it *)
(* was.                                                                    *)
LEMMA RunsTail ==
  ASSUME NEW b \in Bytes, NEW s \in Seq(Bytes), s # <<>>, Runs(<<b>> \o s)
  PROVE  Follows(s[1], b) /\ Runs(s)
<1> DEFINE z == <<b>> \o s
<1>1. <<b>> \in Seq(Bytes) /\ Len(<<b>>) = 1 /\ <<b>>[1] = b
  OBVIOUS
<1>2. /\ Len(s) \in Nat \ {0} /\ Len(z) = 1 + Len(s)
      /\ \A i \in 1 .. 1 + Len(s) : z[i] = IF i <= 1 THEN <<b>>[i] ELSE s[i - 1]
  BY <1>1, ConcatProperties, EmptySeq
<1>3. Runs(z)
  OBVIOUS
<1> HIDE DEF z
<1>4. z[1] = b /\ \A i \in 1 .. Len(s) : z[i + 1] = s[i]
  <2>1. ASSUME NEW i \in 1 .. Len(s) PROVE z[i + 1] = s[i]
    <3>1. i + 1 \in 1 .. 1 + Len(s) /\ ~(i + 1 <= 1) /\ i + 1 - 1 = i
      BY <1>2
    <3>2. QED
      BY <1>2, <3>1
  <2>2. 1 \in 1 .. 1 + Len(s)
    BY <1>2
  <2>3. QED
    BY <1>1, <1>2, <2>1, <2>2
<1>5. \A i \in 1 .. Len(s) : Follows(z[i + 1], z[i])
  BY <1>2, <1>3 DEF Runs, Chained
<1>6. Follows(s[1], b)
  BY <1>2, <1>4, <1>5
<1>7. Chained(s)
  <2>1. SUFFICES ASSUME NEW i \in 1 .. Len(s) - 1
                 PROVE  Follows(s[i + 1], s[i])
    BY DEF Chained
  <2> DEFINE j == i + 1
  <2>2. i \in 1 .. Len(s) /\ j \in 1 .. Len(s)
    BY <1>2
  <2>3. z[j] = s[i] /\ z[j + 1] = s[j] /\ Follows(z[j + 1], z[j])
    BY <1>4, <1>5, <2>2
  <2>4. QED
    BY <2>3
<1>8. Ends(s[Len(s)])
  <2>1. z[Len(z)] = s[Len(s)]
    <3>1. Len(s) \in 1 .. Len(s) /\ Len(z) = Len(s) + 1
      BY <1>2
    <3>2. QED
      BY <1>4, <3>1
  <2>2. QED
    BY <1>3, <2>1 DEF Runs
<1>9. QED
  BY <1>6, <1>7, <1>8 DEF Runs

(* A message by itself is whole, and so is what the peer remembers of the  *)
(* last one.                                                               *)
LEMMA RunsMessage ==
  /\ \A n \in 1 .. MaxMsg \cup {PolicyLen} : Runs(Message(n)) /\ Message(n)[1][2] = 1
  /\ Runs(<<Whole>>)
<1>1. ASSUME NEW n \in 1 .. MaxMsg \cup {PolicyLen}
      PROVE  Runs(Message(n)) /\ Message(n)[1][2] = 1
  <2>1. /\ n \in Nat \ {0} /\ Len(Message(n)) = n
        /\ \A i \in 1 .. n : Message(n)[i] = <<n, i>>
    BY MessageType
  <2>2. \A i \in 1 .. n - 1 : Follows(<<n, i + 1>>, <<n, i>>)
    BY <2>1 DEF Follows
  <2>3. \A i \in 1 .. n - 1 : i \in 1 .. n /\ i + 1 \in 1 .. n
    BY <2>1
  <2>4. Chained(Message(n))
    BY <2>1, <2>2, <2>3 DEF Chained
  <2>5. n \in 1 .. n /\ 1 \in 1 .. n
    BY <2>1
  <2>6. QED
    BY <2>1, <2>4, <2>5 DEF Runs, Ends
<1>2. Len(<<Whole>>) = 1 /\ <<Whole>>[1] = Whole
  OBVIOUS
<1>3. Chained(<<Whole>>)
  BY <1>2 DEF Chained
<1>4. Ends(<<Whole>>[Len(<<Whole>>)])
  BY <1>2 DEF Ends, Whole
<1>5. QED
  BY <1>1, <1>3, <1>4 DEF Runs

-----------------------------------------------------------------------------
(* What each step of the loop, of the kernel and of the peer does: it      *)
(* keeps the invariant, is a step of the FIFO, and ends a client in poll() *)
(* only after the time-out.                                                *)
Patient == open /\ ~open' /\ step.at = "poll" => quiet >= Timeout

GoodStep == OutputIInv' /\ [Fifo!FifoNext]_Fifo!fifoVars /\ Patient

(* The state in sequences.                                                 *)
LEMMA Facts ==
  ASSUME OutputIInv
  PROVE  /\ queue \in Queues /\ Pending = Waiting(queue)
         /\ Pending \in Seq(Bytes) /\ Len(Pending) = queue.len /\ queue.len \in 0 .. QueueSize
         /\ wire \in Seq(Bytes) /\ Len(wire) \in 0 .. Room /\ last \in Bytes
         /\ <<last>> \o wire \in Seq(Bytes) /\ <<last>> \o wire # <<>>
         /\ quiet \in 0 .. Timeout /\ queue.stalled \in -1 .. Timeout
         /\ Room \in Nat \ {0} /\ QueueSize \in Nat \ {0} /\ Timeout \in Nat \ {0}
         /\ open \in BOOLEAN /\ garbled \in BOOLEAN /\ torn \in BOOLEAN
         /\ step \in [at : Steps, out : BOOLEAN]
<1>1. /\ queue \in Queues /\ wire \in Seq(Bytes) /\ Len(wire) <= Room /\ last \in Bytes
      /\ quiet \in 0 .. Timeout
      /\ open \in BOOLEAN /\ garbled \in BOOLEAN /\ torn \in BOOLEAN
      /\ step \in [at : Steps, out : BOOLEAN]
  BY DEF OutputIInv, OutputTypeOK, Ages
<1>2. Room \in Nat \ {0} /\ QueueSize \in Nat \ {0} /\ Timeout \in Nat \ {0}
  BY OutputAssumption
<1>3. Pending = Waiting(queue)
  BY DEF Pending, Waiting
<1>4. queue.stalled \in -1 .. Timeout
  <2>1. queue.stalled \in (0 .. Timeout) \cup {-1}
    BY <1>1 DEF Queues, Ages, NotStalled
  <2>2. QED
    BY <1>2, <2>1
<1>5. /\ <<last>> \in Seq(Bytes) /\ Len(<<last>>) = 1 /\ Len(wire) \in 0 .. Room
  BY <1>1, <1>2
<1>6. <<last>> \o wire \in Seq(Bytes) /\ Len(<<last>> \o wire) = 1 + Len(wire)
  BY <1>1, <1>5, ConcatProperties
<1>7. <<last>> \o wire # <<>>
  BY <1>5, <1>6
<1>8. QED
  BY <1>1, <1>2, <1>3, <1>4, <1>5, <1>6, <1>7, WaitingType

(* A step that leaves the bytes alone.                                     *)
LEMMA KeepsBytes ==
  ASSUME OutputIInv, queue' \in Queues, Waiting(queue') = Waiting(queue),
         open' = open, wire' = wire, last' = last, garbled' = garbled, torn' = torn,
         step' \in [at : Steps, out : BOOLEAN], step'.at = "flush" => open,
         quiet' \in Ages, queue'.stalled <= quiet'
  PROVE  GoodStep
<1>1. Pending' = Pending /\ Stream' = Stream /\ queue'.len = queue.len
  <2>1. Pending' = Waiting(queue')
    BY DEF Pending, Waiting
  <2>2. queue'.len = queue.len
    BY Facts, WaitingType
  <2>3. QED
    BY <2>1, <2>2, Facts DEF Stream
<1>2. OutputTypeOK'
  BY DEF OutputIInv, OutputTypeOK
<1>3. Closed' /\ Marked' /\ Coherent'
  BY <1>1 DEF OutputIInv, Closed, Marked, Coherent
<1>4. QED
  BY <1>1, <1>2, <1>3 DEF GoodStep, OutputIInv, Patient, Fifo!fifoVars

(* del_client() drops what waits, and nothing of it is left.               *)
LEMMA Deletes ==
  ASSUME OutputIInv, Deleted, step' \in [at : Steps, out : BOOLEAN], step'.at # "flush",
         Patient
  PROVE  GoodStep
<1>1. /\ queue' \in Queues /\ queue'.len = 0 /\ queue'.stalled = NotStalled
      /\ Waiting(queue') = <<>> /\ wire' = <<>> /\ last' = Whole /\ open' = FALSE
      /\ garbled' = FALSE /\ torn' = FALSE /\ quiet' = 0
  BY Facts, InitRing DEF Deleted
<1>2. Pending' = <<>>
  BY <1>1 DEF Pending, Waiting
<1>3. OutputTypeOK'
  <2>1. 0 \in Ages /\ <<>> \in Seq(Bytes) /\ Len(<<>>) <= Room
    BY Facts DEF Ages
  <2>2. QED
    BY <1>1, <2>1, ByteType DEF OutputTypeOK
<1>4. Closed' /\ Marked'
  BY <1>1 DEF Closed, Marked, NotStalled
<1>5. Coherent'
  <2>1. Stream' = <<Whole>>
    <3>1. Stream' = (<<Whole>> \o <<>>) \o <<>>
      BY <1>1, <1>2 DEF Stream
    <3>2. <<Whole>> \in Seq(Bytes)
      BY ByteType
    <3>3. QED
      BY <3>1, <3>2, ConcatEmptySeq
  <2>2. QED
    BY <1>1, <2>1, RunsMessage DEF Coherent
<1>6. [Fifo!FifoNext]_Fifo!fifoVars
  <2>1. CASE open
    BY <1>1, <1>2, <2>1 DEF Fifo!FifoNext, Fifo!Drop
  <2>2. CASE ~open
    <3>1. queue.len = 0 /\ wire = <<>> /\ open = FALSE
      BY <2>2, Facts DEF OutputIInv, Closed
    <3>2. Pending = <<>>
      BY <3>1, Facts
    <3>3. QED
      BY <1>1, <1>2, <3>1, <3>2 DEF Fifo!fifoVars
  <2>3. QED
    BY <2>1, <2>2
<1>7. QED
  BY <1>3, <1>4, <1>5, <1>6 DEF GoodStep, OutputIInv

(* Where a step of the loop may go.                                        *)
LEMMA Places ==
  ASSUME NEW at \in Steps, NEW out \in BOOLEAN
  PROVE  [at |-> at, out |-> out] \in [at : Steps, out : BOOLEAN]
OBVIOUS

(* poll() returned: disconnect_stalled_clients() ends only a client whose  *)
(* mark, and so whose silence, has reached the time-out.                   *)
LEMMA PollStep ==
  ASSUME OutputIInv, Poll
  PROVE  GoodStep
<1>1. PollOut \in BOOLEAN /\ step' = [at |-> "events", out |-> PollOut] /\ "events" \in Steps
  BY Facts DEF Poll, PollOut, Steps
<1>2. step' \in [at : Steps, out : BOOLEAN] /\ step'.at = "events"
  BY <1>1
<1>3. CASE open /\ queue.len > 0 /\ queue.stalled >= Timeout
  <2>1. Deleted
    BY <1>3 DEF Poll
  <2>2. quiet >= Timeout
    <3>1. queue.stalled <= quiet
      BY DEF OutputIInv, Marked
    <3>2. QED
      BY <1>3, <3>1, Facts
  <2>3. QED
    BY <1>2, <2>1, <2>2, Deletes DEF Patient
<1>4. CASE ~(open /\ queue.len > 0 /\ queue.stalled >= Timeout)
  <2>1. UNCHANGED <<queue, open, quiet, wire, last, garbled, torn>>
    BY <1>4 DEF Poll, Undisturbed
  <2>2. quiet' \in Ages /\ queue'.stalled <= quiet'
    BY <2>1 DEF OutputIInv, OutputTypeOK, Marked
  <2>3. QED
    BY <1>2, <2>1, <2>2, Facts, KeepsBytes
<1>5. QED
  BY <1>3, <1>4

(* A client comes into the slot: the ring is emptied again.                *)
LEMMA AddClientStep ==
  ASSUME OutputIInv, AddClient
  PROVE  GoodStep
<1>1. /\ queue' = client_output_init(queue) /\ ~open /\ open' = TRUE
      /\ UNCHANGED <<step, quiet, wire, last, garbled, torn>>
  BY DEF AddClient, Undisturbed
<1>2. /\ queue' \in Queues /\ queue'.len = 0 /\ queue'.stalled = NotStalled
      /\ Waiting(queue') = <<>>
  BY <1>1, Facts, InitRing
<1>3. queue.len = 0 /\ wire = <<>> /\ Pending = <<>> /\ Pending' = <<>>
  <2>1. queue.len = 0 /\ wire = <<>>
    BY <1>1 DEF OutputIInv, Closed
  <2>2. Pending' = Waiting(queue')
    BY DEF Pending, Waiting
  <2>3. QED
    BY <1>2, <2>1, <2>2, Facts
<1>4. OutputTypeOK'
  BY <1>1, <1>2 DEF OutputIInv, OutputTypeOK
<1>5. Closed' /\ Marked'
  BY <1>1, <1>2, Facts DEF Closed, Marked, NotStalled
<1>6. Coherent'
  BY <1>1, <1>3 DEF OutputIInv, Coherent, Stream
<1>7. Fifo!Connect
  BY <1>1, <1>3 DEF Fifo!Connect
<1>8. QED
  BY <1>1, <1>4, <1>5, <1>6, <1>7 DEF GoodStep, OutputIInv, Patient, Fifo!FifoNext

(* queue_client_bytes(): the whole message, or the connection.             *)
LEMMA EnqueueStep ==
  ASSUME OutputIInv, NEW n \in 1 .. MaxMsg, Enqueue(n)
  PROVE  GoodStep
<1>1. step.at \in {"events", "read"} /\ open /\ UNCHANGED step
  BY DEF Enqueue
<1>2. CASE n > client_output_space(queue)
  BY <1>1, <1>2, Facts, Deletes DEF Enqueue, Patient
<1>3. CASE ~(n > client_output_space(queue))
  <2> DEFINE m == Message(n)
             W == <<last>> \o wire
  <2>1. /\ queue' = client_output_enqueue(queue, m)
        /\ UNCHANGED <<open, quiet, wire, last, garbled, torn>>
    BY <1>3 DEF Enqueue, Undisturbed
  <2>2. /\ n \in Nat \ {0} /\ m \in Seq(Bytes) /\ Len(m) = n /\ m # <<>>
        /\ Runs(m) /\ m[1][2] = 1
    BY MessageType, RunsMessage
  <2> HIDE DEF m
  <2>3. n <= client_output_space(queue)
    BY <1>3, <2>2, Facts DEF client_output_space
  <2>4. /\ queue' \in Queues /\ queue'.stalled = queue.stalled
        /\ Waiting(queue') = Waiting(queue) \o m
    BY <2>1, <2>2, <2>3, Facts, EnqueueRing
  <2>5. Pending' = Pending \o m
    BY <2>4, Facts DEF Pending, Waiting
  <2>6. OutputTypeOK'
    BY <1>1, <2>1, <2>4 DEF OutputIInv, OutputTypeOK
  <2>7. Closed' /\ Marked'
    BY <1>1, <2>1, <2>4 DEF OutputIInv, Closed, Marked
  <2>8. Coherent'
    <3>1. Stream' = Stream \o m
      <4>1. Stream' = W \o (Pending \o m) /\ Stream = W \o Pending
        BY <2>1, <2>5 DEF Stream
      <4>2. W \in Seq(Bytes) /\ Pending \in Seq(Bytes)
        BY Facts
      <4> HIDE DEF W
      <4>3. QED
        BY <4>1, <4>2, <2>2, Regroup
    <3>2. Stream \in Seq(Bytes) /\ Stream # <<>>
      <4>1. W \in Seq(Bytes) /\ W # <<>> /\ Pending \in Seq(Bytes) /\ Stream = W \o Pending
        BY Facts DEF Stream
      <4> HIDE DEF W
      <4>2. QED
        BY <4>1, ConcatProperties, ConcatEqualIffEmpty
    <3>3. Runs(Stream) => Runs(Stream')
      BY <2>2, <3>1, <3>2, RunsConcat
    <3>4. QED
      BY <2>1, <3>3 DEF OutputIInv, Coherent
  <2>9. Fifo!Put(m)
    <3>1. Len(Pending) + Len(m) <= QueueSize
      BY <2>2, <2>3, Facts DEF client_output_space
    <3>2. QED
      BY <1>1, <2>1, <2>5, <3>1 DEF Fifo!Put
  <2>10. [Fifo!FifoNext]_Fifo!fifoVars
    BY <2>9 DEF Fifo!FifoNext, m
  <2>11. QED
    BY <2>1, <2>6, <2>7, <2>8, <2>10 DEF GoodStep, OutputIInv, Patient
<1>4. QED
  BY <1>2, <1>3

(* One send() of the flush: its k bytes are the oldest that wait, and they *)
(* leave the ring in the order they have in it.                            *)
LEMMA SendStep ==
  ASSUME OutputIInv, NEW k \in 1 .. QueueSize, SendSome(k)
  PROVE  GoodStep
<1> DEFINE peek == client_output_peek(queue)
           q    == [queue EXCEPT !.stalled = NotStalled]
           W    == <<last>> \o wire
           P    == Pending
           sent == SubSeq(P, 1, k)
           rest == SubSeq(P, k + 1, Len(P))
<1>1. /\ step.at = "flush" /\ k <= Len(peek) /\ k <= Room - Len(wire)
      /\ wire' = wire \o SubSeq(peek, 1, k) /\ queue' = client_output_consume(q, k)
      /\ quiet' = 0 /\ UNCHANGED <<open, step, last, garbled, torn>>
  BY DEF SendSome
<1>2. open
  BY <1>1 DEF OutputIInv, Closed
<1>3. /\ q \in Queues /\ q.len = queue.len /\ q.stalled = NotStalled
      /\ Waiting(q) = Waiting(queue)
  BY Facts DEF Queues, Waiting
<1>4. /\ peek \in Seq(Bytes) /\ Len(peek) <= queue.len
      /\ \A i \in 1 .. Len(peek) : peek[i] = P[i]
  BY Facts, PeekRing
<1> HIDE DEF peek, q
<1>5. /\ P \in Seq(Bytes) /\ Len(P) = queue.len /\ Len(peek) \in Nat /\ k \in 1 .. Len(P)
      /\ wire \in Seq(Bytes) /\ Len(wire) \in Nat /\ W \in Seq(Bytes) /\ W # <<>>
  BY <1>1, <1>4, Facts
<1>6. /\ queue' \in Queues /\ queue'.stalled = NotStalled /\ Pending' = rest
  <2>1. k \in 0 .. q.len
    BY <1>3, <1>5
  <2>2. /\ queue' \in Queues /\ queue'.stalled = NotStalled
        /\ Waiting(queue') = SubSeq(Waiting(q), k + 1, q.len)
    BY <1>1, <1>3, <2>1, ConsumeRing
  <2>3. Pending' = Waiting(queue')
    BY DEF Pending, Waiting
  <2>4. QED
    BY <1>3, <1>5, <2>2, <2>3, Facts
<1> HIDE DEF P, W
<1>7. sent \in Seq(Bytes) /\ Len(sent) = k /\ SubSeq(peek, 1, k) = sent
  <2> DEFINE z == SubSeq(peek, 1, k)
  <2>1. /\ \A i \in 1 .. k : i \in 1 .. Len(peek) /\ i \in 1 .. Len(P)
        /\ 1 \in Int /\ k \in Int /\ 1 <= k /\ k - 1 + 1 = k
    BY <1>1, <1>4, <1>5
  <2>2. /\ \A i \in 1 .. k : peek[i] \in Bytes /\ P[i] \in Bytes
    BY <1>4, <1>5, <2>1
  <2>3. /\ z \in Seq(Bytes) /\ Len(z) = k /\ \A i \in 1 .. k : z[i] = peek[1 + i - 1]
    BY <2>1, <2>2, SubSeqProperties
  <2>4. /\ sent \in Seq(Bytes) /\ Len(sent) = k /\ \A i \in 1 .. k : sent[i] = P[1 + i - 1]
    BY <2>1, <2>2, SubSeqProperties
  <2>5. \A i \in 1 .. k : 1 + i - 1 = i
    OBVIOUS
  <2> HIDE DEF z, sent
  <2>6. \A i \in 1 .. k : z[i] = sent[i]
    BY <1>4, <2>1, <2>3, <2>4, <2>5
  <2>7. z = sent
    BY <2>3, <2>4, <2>6, SeqEqual
  <2>8. QED
    BY <2>4, <2>7 DEF z
<1>8. rest \in Seq(Bytes) /\ sent \o rest = P
  <2>1. /\ 1 \in 1 .. Len(P) + 1 /\ k \in 0 .. Len(P) /\ Len(P) \in k .. Len(P)
        /\ k + 1 \in Int /\ Len(P) \in Int
        /\ \A i \in k + 1 .. Len(P) : i \in 1 .. Len(P)
    BY <1>5
  <2>2. rest \in Seq(Bytes)
    <3>1. \A i \in k + 1 .. Len(P) : P[i] \in Bytes
      BY <1>5, <2>1
    <3>2. QED
      BY <2>1, <3>1, SubSeqProperties
  <2>3. sent \o rest = SubSeq(P, 1, Len(P))
    BY <1>5, <2>1, ConcatAdjacentSubSeq
  <2>4. SubSeq(P, 1, Len(P)) = P
    BY <1>5, SubSeqFull
  <2>5. QED
    BY <2>2, <2>3, <2>4
<1> HIDE DEF sent, rest
<1>9. wire' = wire \o sent /\ wire' \in Seq(Bytes) /\ Len(wire') = Len(wire) + k
  <2>1. wire \in Seq(Bytes) /\ sent \in Seq(Bytes) /\ Len(sent) = k
    BY <1>5, <1>7
  <2>2. wire \o sent \in Seq(Bytes) /\ Len(wire \o sent) = Len(wire) + Len(sent)
    BY <2>1, ConcatProperties
  <2>3. QED
    BY <1>1, <1>7, <2>1, <2>2
<1>10. Stream' = Stream
  <2>1. Stream' = (<<last>> \o (wire \o sent)) \o rest /\ Stream = W \o P
    BY <1>1, <1>6, <1>9 DEF Stream, W, P
  <2>2. <<last>> \in Seq(Bytes)
    BY Facts
  <2>3. <<last>> \o (wire \o sent) = W \o sent
    <3>1. wire \in Seq(Bytes) /\ sent \in Seq(Bytes)
      BY <1>5, <1>7
    <3>2. QED
      BY <2>2, <3>1, Regroup DEF W
  <2>4. (W \o sent) \o rest = W \o (sent \o rest)
    <3>1. W \in Seq(Bytes) /\ sent \in Seq(Bytes) /\ rest \in Seq(Bytes)
      BY <1>5, <1>7, <1>8
    <3>2. QED
      BY <3>1, Regroup
  <2>5. QED
    BY <1>8, <2>1, <2>3, <2>4
<1>11. OutputTypeOK'
  <2>1. Len(wire') <= Room /\ quiet' \in Ages
    BY <1>1, <1>5, <1>9, Facts DEF Ages
  <2>2. QED
    BY <1>1, <1>6, <1>9, <2>1 DEF OutputIInv, OutputTypeOK
<1>12. Closed' /\ Marked' /\ Coherent'
  BY <1>1, <1>2, <1>6, <1>10 DEF OutputIInv, Closed, Marked, Coherent, NotStalled
<1>13. Fifo!Send(k)
  <2>1. Len(wire) + k <= Room
    BY <1>1, <1>5, Facts
  <2>2. QED
    BY <1>1, <1>2, <1>6, <1>9, <2>1 DEF Fifo!Send, sent, rest, P
<1>14. [Fifo!FifoNext]_Fifo!fifoVars
  BY <1>5, <1>13 DEF Fifo!FifoNext, P
<1>15. QED
  BY <1>1, <1>11, <1>12, <1>14 DEF GoodStep, OutputIInv, Patient

(* EAGAIN marks the client; the mark is new, so no older than the silence. *)
LEMMA WouldBlockStep ==
  ASSUME OutputIInv, WouldBlock
  PROVE  GoodStep
<1> DEFINE v == IF queue.stalled = NotStalled THEN 0 ELSE queue.stalled
<1>1. /\ queue' = [queue EXCEPT !.stalled = v] /\ step' = [at |-> "read", out |-> FALSE]
      /\ UNCHANGED <<open, quiet, wire, last, garbled, torn>>
  BY DEF WouldBlock, Goto, Undisturbed
<1>2. v \in Ages /\ v <= quiet /\ quiet \in Ages
  BY Facts DEF OutputIInv, Marked, Ages, NotStalled
<1> HIDE DEF v
<1>3. /\ queue' \in Queues /\ queue'.stalled = v /\ Waiting(queue') = Waiting(queue)
  BY <1>1, <1>2, Facts DEF Queues, Waiting
<1>4. step' \in [at : Steps, out : BOOLEAN] /\ step'.at = "read"
  BY <1>1, Places DEF Steps
<1>5. QED
  BY <1>1, <1>2, <1>3, <1>4, KeepsBytes

(* The loop goes on without touching a byte.                               *)
LEMMA LoopStep ==
  ASSUME OutputIInv, Reach \/ Flushed \/ Iterated
  PROVE  GoodStep
<1>1. UNCHANGED <<queue, open, quiet, wire, last, garbled, torn>>
  BY DEF Reach, Flushed, Iterated, Undisturbed
<1>2. step' \in [at : Steps, out : BOOLEAN] /\ (step'.at = "flush" => open)
  BY Places DEF Reach, Flushed, Iterated, Goto, Steps
<1>3. quiet' \in Ages /\ queue'.stalled <= quiet'
  BY <1>1 DEF OutputIInv, OutputTypeOK, Marked
<1>4. QED
  BY <1>1, <1>2, <1>3, Facts, KeepsBytes

(* A failing send() or read() ends the client.                             *)
LEMMA LostStep ==
  ASSUME OutputIInv, Lost
  PROVE  GoodStep
<1>1. step.at # "poll" /\ Deleted /\ step' = [at |-> "read", out |-> FALSE]
  BY DEF Lost, Goto
<1>2. QED
  BY <1>1, Places, Deletes DEF Steps, Patient

(* The policy reply past the queue: whole, and between two messages, or it *)
(* is recorded as torn.                                                    *)
LEMMA PolicyStep ==
  ASSUME OutputIInv, PolicyReply
  PROVE  GoodStep
<1> DEFINE k == Min2(PolicyLen, Room - Len(wire))
           m == Message(PolicyLen)
           part == SubSeq(m, 1, k)
           W == <<last>> \o wire
           P == Pending
<1>1. /\ open /\ step.at = "read" /\ k > 0 /\ wire' = wire \o part
      /\ torn' = (torn \/ k < PolicyLen \/ (queue.len > 0 /\ queue.data[queue.head][2] # 1))
      /\ UNCHANGED <<queue, open, step, quiet, last, garbled>>
  BY DEF PolicyReply
<1>2. /\ m \in Seq(Bytes) /\ Len(m) = PolicyLen /\ m # <<>> /\ Runs(m) /\ m[1][2] = 1
      /\ PolicyLen \in Nat \ {0}
  <2>1. PolicyLen \in 1 .. MaxMsg \cup {PolicyLen}
    OBVIOUS
  <2>2. /\ m \in Seq(Bytes) /\ Len(m) = PolicyLen /\ PolicyLen \in Nat \ {0}
        /\ Runs(m) /\ m[1][2] = 1
    BY <2>1, MessageType, RunsMessage
  <2>3. m # <<>>
    <3> HIDE DEF m
    <3>1. QED
      BY <2>2
  <2>4. QED
    BY <2>2, <2>3
<1>3. k \in 1 .. PolicyLen /\ k <= Room - Len(wire)
  BY <1>1, <1>2, Facts DEF Min2
<1> HIDE DEF k, m
<1>4. part \in Seq(Bytes) /\ Len(part) = k /\ (k = PolicyLen => part = m)
  <2>1. /\ \A i \in 1 .. k : i \in 1 .. Len(m)
        /\ 1 \in Int /\ k \in Int /\ 1 <= k /\ k - 1 + 1 = k
    BY <1>2, <1>3
  <2>2. \A i \in 1 .. k : m[i] \in Bytes
    BY <1>2, <2>1
  <2>3. part \in Seq(Bytes) /\ Len(part) = k
    BY <2>1, <2>2, SubSeqProperties
  <2>4. k = PolicyLen => part = m
    BY <1>2, SubSeqFull
  <2>5. QED
    BY <2>3, <2>4
<1> HIDE DEF part
<1>5. /\ P \in Seq(Bytes) /\ Len(P) = queue.len /\ wire \in Seq(Bytes) /\ Len(wire) \in Nat
      /\ W \in Seq(Bytes) /\ W # <<>> /\ <<last>> \in Seq(Bytes)
  BY Facts
<1>6. Pending' = P
  BY <1>1 DEF Pending
<1>7. wire' \in Seq(Bytes) /\ Len(wire') = Len(wire) + k
  BY <1>1, <1>4, <1>5, ConcatProperties
<1>8. OutputTypeOK'
  <2>1. Len(wire') <= Room
    BY <1>3, <1>5, <1>7, Facts
  <2>2. torn' \in BOOLEAN
    BY <1>1, Zenon
  <2>3. QED
    BY <1>1, <1>7, <2>1, <2>2 DEF OutputIInv, OutputTypeOK
<1>9. Closed' /\ Marked'
  BY <1>1 DEF OutputIInv, Closed, Marked
<1>10. Coherent'
  <2>1. SUFFICES ASSUME ~torn' PROVE ~garbled' /\ Runs(Stream')
    BY DEF Coherent
  <2>2. /\ ~torn /\ k = PolicyLen /\ (queue.len > 0 => queue.data[queue.head][2] = 1)
        /\ ~garbled /\ Runs(Stream)
    <3>1. ~torn /\ ~(k < PolicyLen) /\ ~(queue.len > 0 /\ queue.data[queue.head][2] # 1)
      BY <1>1, <2>1, Zenon
    <3>2. k = PolicyLen
      BY <1>2, <1>3, <3>1
    <3>3. ~garbled /\ Runs(Stream)
      BY <3>1, Zenon DEF OutputIInv, Coherent
    <3>4. QED
      BY <3>1, <3>2, <3>3, Zenon
  <2>3. Stream = W \o P
    BY DEF Stream
  <2> HIDE DEF W, P
  <2>4. Stream' = (W \o m) \o P
    <3>1. Stream' = (<<last>> \o (wire \o m)) \o P
      BY <1>1, <1>4, <1>6, <2>2 DEF Stream
    <3>2. <<last>> \o (wire \o m) = W \o m
      <4>1. <<last>> \in Seq(Bytes) /\ wire \in Seq(Bytes) /\ m \in Seq(Bytes)
        BY <1>2, <1>5
      <4>2. QED
        BY <4>1, Regroup DEF W
    <3>3. QED
      BY <3>1, <3>2
  <2>5. W \o m \in Seq(Bytes) /\ W \o m # <<>>
    BY <1>2, <1>5, ConcatProperties, ConcatEqualIffEmpty
  <2>6. CASE P = <<>>
    <3>1. Stream = W /\ Stream' = W \o m
      BY <1>5, <2>3, <2>4, <2>5, <2>6, ConcatEmptySeq
    <3>2. QED
      BY <1>1, <1>2, <1>5, <2>2, <3>1, RunsConcat
  <2>7. CASE P # <<>>
    <3>1. P[1][2] = 1
      <4>1. queue.len > 0
        BY <1>5, <2>7, EmptySeq, Facts
      <4>2. P[1] = queue.data[queue.head]
        <5>1. queue.head \in 0 .. QueueSize - 1 /\ 1 \in 1 .. queue.len /\ 1 \in 1 .. QueueSize
              /\ queue.head + 1 - 1 = queue.head /\ QueueSize \in Nat
          BY <4>1, WaitingType, Facts
        <5>2. (queue.head + 1 - 1) % QueueSize = queue.head
          BY <5>1, ModInRange
        <5>3. P[1] = queue.data[(queue.head + 1 - 1) % QueueSize]
          BY <5>1 DEF P, Pending
        <5>4. QED
          BY <5>2, <5>3
      <4>3. QED
        BY <2>2, <4>1, <4>2
    <3>2. Runs(W) /\ Runs(P)
      BY <1>5, <2>2, <2>3, <2>7, <3>1, RunsSplit
    <3>3. Runs(W \o m)
      BY <1>2, <1>5, <3>2, RunsConcat
    <3>4. Runs((W \o m) \o P)
      BY <1>5, <2>5, <2>7, <3>1, <3>2, <3>3, RunsConcat
    <3>5. QED
      BY <1>1, <2>2, <2>4, <3>4
  <2>8. QED
    BY <2>6, <2>7
<1>11. Fifo!Bypass(k)
  <2>1. Len(wire) + k <= Room
    BY <1>3, <1>5, Facts
  <2>2. QED
    BY <1>1, <1>6, <2>1 DEF Fifo!Bypass, part, m
<1>12. [Fifo!FifoNext]_Fifo!fifoVars
  <2>1. k \in 1 .. Len(Message(PolicyLen))
    BY <1>2, <1>3 DEF m
  <2>2. QED
    BY <1>11, <2>1 DEF Fifo!FifoNext
<1>13. QED
  BY <1>1, <1>8, <1>9, <1>10, <1>12 DEF GoodStep, OutputIInv, Patient

(* The peer reads the next byte of the stream.                             *)
LEMMA PeerStep ==
  ASSUME OutputIInv, PeerReads
  PROVE  GoodStep
<1> DEFINE P == Pending
<1>1. /\ open /\ wire # <<>> /\ wire' = Tail(wire) /\ last' = Head(wire)
      /\ garbled' = (garbled \/ ~Follows(Head(wire), last))
      /\ UNCHANGED <<queue, open, step, torn, quiet>>
  BY DEF PeerReads
<1>2. /\ P \in Seq(Bytes) /\ wire \in Seq(Bytes) /\ last \in Bytes /\ <<last>> \in Seq(Bytes)
      /\ Len(wire) \in 0 .. Room /\ Room \in Nat
  BY Facts
<1>3. /\ Head(wire) \in Bytes /\ Tail(wire) \in Seq(Bytes) /\ Len(Tail(wire)) = Len(wire) - 1
      /\ wire = <<Head(wire)>> \o Tail(wire) /\ Head(wire) = wire[1]
      /\ <<Head(wire)>> \in Seq(Bytes)
  BY <1>1, <1>2
<1>4. Pending' = P
  BY <1>1 DEF Pending
<1>5. OutputTypeOK'
  <2>1. Len(wire') <= Room
    BY <1>1, <1>2, <1>3
  <2>2. garbled' \in BOOLEAN
    BY <1>1, Zenon
  <2>3. QED
    BY <1>1, <1>3, <2>1, <2>2 DEF OutputIInv, OutputTypeOK
<1>6. Closed' /\ Marked'
  BY <1>1 DEF OutputIInv, Closed, Marked
<1>7. Coherent'
  <2>1. SUFFICES ASSUME ~torn' PROVE ~garbled' /\ Runs(Stream')
    BY DEF Coherent
  <2>2. ~garbled /\ Runs(Stream)
    BY <1>1, <2>1 DEF OutputIInv, Coherent
  <2> DEFINE u == wire \o P
  <2>3. Stream = (<<last>> \o wire) \o P
    BY DEF Stream
  <2>4. Stream' = wire \o P
    BY <1>1, <1>3, <1>4 DEF Stream
  <2> HIDE DEF P
  <2>5. Stream = <<last>> \o u /\ u \in Seq(Bytes) /\ u # <<>>
    BY <1>1, <1>2, <2>3, ConcatAssociative, ConcatProperties, ConcatEqualIffEmpty
  <2>6. u[1] = Head(wire)
    <3>1. 1 \in 1 .. Len(wire) + Len(P) /\ 1 <= Len(wire)
      BY <1>1, <1>2, EmptySeq
    <3>2. QED
      BY <1>2, <1>3, <3>1, ConcatProperties
  <2> HIDE DEF u
  <2>7. Follows(u[1], last) /\ Runs(u)
    BY <1>2, <2>2, <2>5, RunsTail
  <2>8. QED
    BY <1>1, <2>2, <2>4, <2>6, <2>7 DEF u
<1>8. Fifo!Deliver
  BY <1>1, <1>4 DEF Fifo!Deliver
<1>9. QED
  BY <1>1, <1>5, <1>6, <1>7, <1>8 DEF GoodStep, OutputIInv, Patient, Fifo!FifoNext

(* A second makes the mark and the silence older alike.                    *)
LEMMA SecondStep ==
  ASSUME OutputIInv, Second
  PROVE  GoodStep
<1> DEFINE v == IF queue.stalled = NotStalled THEN queue.stalled ELSE Older(queue.stalled)
<1>1. /\ queue' = [queue EXCEPT !.stalled = v] /\ quiet' = Older(quiet)
      /\ UNCHANGED <<open, step, wire, last, garbled, torn>>
  BY DEF Second, Undisturbed
<1>2. v \in Ages \cup {NotStalled} /\ quiet' \in Ages /\ v <= quiet'
  <2>1. queue.stalled <= quiet
    BY DEF OutputIInv, Marked
  <2>2. quiet' \in Ages /\ quiet' >= 0 /\ quiet' = Older(quiet)
    BY <1>1, Facts DEF Older, Min2, Ages
  <2>3. CASE queue.stalled = NotStalled
    BY <2>2, <2>3, Facts DEF NotStalled, Ages
  <2>4. CASE queue.stalled # NotStalled
    <3>1. queue.stalled \in 0 .. Timeout
      BY <2>4, Facts DEF NotStalled
    <3>2. Older(queue.stalled) \in Ages /\ Older(queue.stalled) <= Older(quiet)
      BY <2>1, <3>1, Facts DEF Older, Min2, Ages
    <3>3. QED
      BY <2>2, <2>4, <3>2
  <2>5. QED
    BY <2>3, <2>4
<1> HIDE DEF v
<1>3. queue' \in Queues /\ queue'.stalled = v /\ Waiting(queue') = Waiting(queue)
  BY <1>1, <1>2, Facts DEF Queues, Waiting
<1>4. step' \in [at : Steps, out : BOOLEAN] /\ (step'.at = "flush" => open)
  BY <1>1, Facts DEF OutputIInv, Closed
<1>5. QED
  BY <1>1, <1>2, <1>3, <1>4, KeepsBytes

(* Every step, and the step that changes nothing.                          *)
LEMMA OutputStep ==
  ASSUME OutputIInv, [OutputNext]_outputVars
  PROVE  GoodStep
<1>1. CASE UNCHANGED outputVars
  <2>1. UNCHANGED <<queue, open, step, wire, last, garbled, torn, quiet>>
    BY <1>1 DEF outputVars
  <2>2. /\ step' \in [at : Steps, out : BOOLEAN] /\ (step'.at = "flush" => open)
        /\ quiet' \in Ages /\ queue'.stalled <= quiet'
    BY <2>1 DEF OutputIInv, OutputTypeOK, Closed, Marked
  <2>3. QED
    BY <2>1, <2>2, Facts, KeepsBytes
<1>2. CASE OutputNext
  BY <1>2, PollStep, AddClientStep, EnqueueStep, LoopStep, SendStep, WouldBlockStep, LostStep,
     PolicyStep, PeerStep, SecondStep DEF OutputNext
<1>3. QED
  BY <1>1, <1>2

(* The daemon starts with an empty ring in an empty slot.                  *)
LEMMA OutputStart == OutputInit => OutputIInv /\ Fifo!FifoInit
<1> SUFFICES ASSUME OutputInit PROVE OutputIInv /\ Fifo!FifoInit
  OBVIOUS
<1>1. /\ queue.len = 0 /\ queue.stalled = NotStalled /\ open = FALSE
      /\ step = [at |-> "poll", out |-> FALSE] /\ wire = <<>> /\ last = Whole
      /\ garbled = FALSE /\ torn = FALSE /\ quiet = 0
  BY DEF OutputInit
<1>2. queue \in Queues
  <2>1. 0 \in Ring /\ 0 \in 0 .. QueueSize
    BY OutputAssumption DEF Ring
  <2>2. QED
    BY <2>1 DEF OutputInit, Queues
<1>3. OutputTypeOK
  <2>1. 0 \in Ages /\ <<>> \in Seq(Bytes) /\ Len(<<>>) <= Room /\ step \in [at : Steps, out : BOOLEAN]
    BY <1>1, OutputAssumption DEF Ages, Steps
  <2>2. QED
    BY <1>1, <1>2, <2>1, ByteType DEF OutputTypeOK
<1>4. Pending = <<>>
  <2>1. Pending = Waiting(queue)
    BY DEF Pending, Waiting
  <2>2. QED
    BY <1>1, <1>2, <2>1, WaitingType
<1>5. Stream = <<Whole>>
  <2>1. Stream = (<<Whole>> \o <<>>) \o <<>>
    BY <1>1, <1>4 DEF Stream
  <2>2. <<Whole>> \in Seq(Bytes)
    BY ByteType
  <2>3. QED
    BY <2>1, <2>2, ConcatEmptySeq
<1>6. QED
  BY <1>1, <1>3, <1>4, <1>5, RunsMessage
     DEF OutputIInv, Closed, Marked, Coherent, NotStalled, Fifo!FifoInit

(* The invariant, for ever.                                                *)
LEMMA OutputInvariance == OutputSpec => []OutputIInv
<1>1. OutputIInv /\ [OutputNext]_outputVars => OutputIInv'
  BY OutputStep DEF GoodStep
<1>2. QED
  BY <1>1, OutputStart, PTL DEF OutputSpec

-----------------------------------------------------------------------------
(* Types of the ring: head and len stay in their ranges through every wrap *)
(* (mochad.c:160-216).                                                     *)
THEOREM OutputTypeCorrect == OutputSpec => []OutputTypeOK
<1>1. OutputIInv => OutputTypeOK
  BY DEF OutputIInv
<1>2. QED
  BY <1>1, OutputInvariance, PTL

(* The ring of client_output_enqueue(), _peek() and _consume() with the    *)
(* flush of the loop is a queue: bytes go out whole messages put in, in    *)
(* order, none lost and none twice, for every size of the ring, of the     *)
(* messages and of the kernel's buffer.                                    *)
THEOREM OutputRefinement == OutputSpec => ImplementsFifo
<1>1. OutputIInv /\ [OutputNext]_outputVars => [Fifo!FifoNext]_Fifo!fifoVars
  BY OutputStep DEF GoodStep
<1>2. OutputSpec => Fifo!FifoInit /\ [][Fifo!FifoNext]_Fifo!fifoVars
  BY <1>1, OutputStart, OutputInvariance, PTL DEF OutputSpec
<1>3. QED
  BY <1>2 DEF ImplementsFifo, Fifo!FifoSpec

(* What a peer reads is whole messages unless a policy reply, which        *)
(* send_all() sends past the queue, was cut short or met a message of      *)
(* which a part was sent: no full queue, no partial send() and no wrap     *)
(* tears a line.                                                           *)
THEOREM LinesAreWhole == OutputSpec => []OnlyPolicyTearsLines
<1>1. OutputIInv => OnlyPolicyTearsLines
  BY DEF OutputIInv, Coherent, OnlyPolicyTearsLines
<1>2. QED
  BY <1>1, OutputInvariance, PTL

(* disconnect_stalled_clients() drops nobody before its time-out of        *)
(* silence has run (mochad.c:764-794).                                     *)
THEOREM SlowKept == OutputSpec => SlowReadersAreKept
<1>1. OutputIInv /\ [OutputNext]_outputVars
        => [open /\ ~open' /\ step.at = "poll" => quiet >= Timeout]_outputVars
  BY OutputStep DEF GoodStep, Patient
<1>2. QED
  BY <1>1, OutputInvariance, PTL DEF OutputSpec, SlowReadersAreKept
=============================================================================
