------------------------- MODULE HttpDownloadProofs -------------------------
(***************************************************************************)
(* Proofs about Buffer, for any sizes and any bytes, and from them that    *)
(* HttpDownload writes the body in order, for heads and bodies of any size *)
(* that come in any pieces; then about the pool that it extends,           *)
(* PriorityThreadPool, for any number of workers and any tasks and levels: *)
(* no worker sleeps beside a task, and none sleeps when the pool is not    *)
(* started, so that stop() has nobody left to wake.                        *)
(***************************************************************************)
EXTENDS HttpDownload, FiniteSetTheorems, SequenceTheorems, TLAPS

(* A function on 1..n is a sequence of length n.                            *)
LEMMA FunctionIsSeq ==
    ASSUME NEW S, NEW n \in Nat, NEW f \in [1..n -> S]
    PROVE  f \in Seq(S) /\ Len(f) = n
<1>1. f \in Seq(S)
  BY SeqDef
<1>2. DOMAIN f = 1..n /\ DOMAIN f = 1..Len(f) /\ Len(f) \in Nat
  BY <1>1, LenProperties
<1> QED
  BY <1>1, <1>2

(* Concatenation is associative.                                            *)
LEMMA Associative ==
    \A s, t, u \in Seq(Nat) : (s \o t) \o u = s \o (t \o u)
BY ConcatAssociative, SMTT(20)

(* The fields of a buffer, and how its content is indexed.                  *)
LEMMA BufferFields ==
    ASSUME NEW b \in Buffers(Nat)
    PROVE  /\ b.data \in [1..Len(b.data) -> Nat] /\ Len(b.data) \in Nat
           /\ b.reader \in Nat /\ b.writer \in Nat /\ b.ok \in BOOLEAN
           /\ CheapPrepend <= b.reader /\ b.reader <= b.writer
           /\ b.writer <= Len(b.data)
           /\ Readable(b) \in Nat /\ Writable(b) \in Nat
<1>1. /\ b.data \in Seq(Nat) /\ b.reader \in Nat /\ b.writer \in Nat
      /\ b.ok \in BOOLEAN
      /\ CheapPrepend <= b.reader /\ b.reader <= b.writer
      /\ b.writer <= Len(b.data)
  BY DEF Buffers
<1>2. b.data \in [1..Len(b.data) -> Nat] /\ Len(b.data) \in Nat
  BY <1>1, LenProperties
<1> QED
  BY <1>1, <1>2 DEF Readable, Writable

(* The content of a buffer is a sequence of bytes.                          *)
LEMMA ContentType ==
    ASSUME NEW b \in Buffers(Nat)
    PROVE  /\ Peek(b) \in Seq(Nat) /\ Len(Peek(b)) = Readable(b)
           /\ \A i \in 1..Readable(b) : Peek(b)[i] = b.data[b.reader + i]
<1>1. ASSUME NEW i \in 1..Readable(b)
      PROVE  b.reader + i \in 1..Len(b.data)
  BY BufferFields DEF Readable
<1>2. \A i \in 1..Readable(b) : b.data[b.reader + i] \in Nat
  BY <1>1, BufferFields
<1>3. Peek(b) \in [1..Readable(b) -> Nat]
  BY <1>2 DEF Peek
<1> QED
  BY <1>3, BufferFields, FunctionIsSeq DEF Peek

(* When a record of these four fields is a buffer.                          *)
LEMMA IsBuffer ==
    ASSUME NEW n \in Nat, NEW d \in [1..n -> Nat], NEW r \in Nat, NEW w \in Nat,
           NEW k \in BOOLEAN, CheapPrepend <= r, r <= w, w <= n
    PROVE  [data |-> d, reader |-> r, writer |-> w, ok |-> k] \in Buffers(Nat)
<1>1. d \in Seq(Nat) /\ Len(d) = n
  BY FunctionIsSeq
<1> QED
  BY <1>1 DEF Buffers

(* std::copy() to beginWrite(): what fits is appended.                      *)
LEMMA WrittenAppends ==
    ASSUME NEW b \in Buffers(Nat), NEW s \in Seq(Nat), Len(s) <= Writable(b)
    PROVE  /\ Written(b, s) \in Buffers(Nat)
           /\ Written(b, s).ok = b.ok
           /\ Peek(Written(b, s)) = Peek(b) \o s
           /\ Writable(Written(b, s)) = Writable(b) - Len(s)
<1> DEFINE d == [i \in 1..Len(b.data) |->
                    IF i \in b.writer + 1..b.writer + Len(s) THEN s[i - b.writer]
                    ELSE b.data[i]]
           new == Written(b, s)
<1>1. Len(s) \in Nat /\ \A i \in 1..Len(s) : s[i] \in Nat
  BY LenProperties, ElementOfSeq
<1>2. d \in [1..Len(b.data) -> Nat]
  BY <1>1, BufferFields, SMTT(20)
<1>3. /\ new.data = d /\ new.reader = b.reader /\ new.writer = b.writer + Len(s)
      /\ new.ok = (b.ok /\ Len(s) <= Writable(b))
  BY DEF Written
<1>4. new \in Buffers(Nat)
  <2> DEFINE k == b.ok /\ Len(s) <= Writable(b)
             w == b.writer + Len(s)
  <2>1. k \in BOOLEAN
    OBVIOUS
  <2>2. w \in Nat /\ w <= Len(b.data) /\ b.reader <= w
    BY <1>1, BufferFields DEF Writable
  <2>3. new = [data |-> d, reader |-> b.reader, writer |-> w, ok |-> k]
    BY DEF Written
  <2> HIDE DEF d, k, w, new
  <2> QED
    BY <1>2, <2>1, <2>2, <2>3, BufferFields, IsBuffer
<1>5. Len(new.data) = Len(b.data)
  BY <1>2, <1>3, BufferFields, FunctionIsSeq
<1>6. Readable(new) = Readable(b) + Len(s) /\ Writable(new) = Writable(b) - Len(s)
  BY <1>1, <1>3, <1>5, BufferFields DEF Readable, Writable
<1>7. Peek(new) = Peek(b) \o s
  <2>1. /\ Peek(new) \in Seq(Nat) /\ Peek(b) \o s \in Seq(Nat)
        /\ Len(Peek(new)) = Readable(b) + Len(s)
        /\ Len(Peek(b) \o s) = Readable(b) + Len(s)
    BY <1>4, <1>6, ContentType, ConcatProperties
  <2>2. ASSUME NEW i \in 1..Readable(b) + Len(s)
        PROVE  Peek(new)[i] = (Peek(b) \o s)[i]
    <3>1. Peek(new)[i] = d[b.reader + i]
      BY <1>3, <1>4, <1>6, ContentType
    <3>2. (Peek(b) \o s)[i] =
             IF i <= Readable(b) THEN Peek(b)[i] ELSE s[i - Readable(b)]
      BY ContentType, ConcatProperties
    <3>3. b.reader + i \in 1..Len(b.data)
      BY <1>1, BufferFields, SMTT(20) DEF Readable, Writable
    <3>4. CASE i <= Readable(b)
      <4>1. b.reader + i \notin b.writer + 1..b.writer + Len(s)
        BY <3>4, <1>1, BufferFields, SMTT(20) DEF Readable
      <4>2. Peek(b)[i] = b.data[b.reader + i]
        BY <3>4, BufferFields, ContentType
      <4> QED
        BY <3>1, <3>2, <3>3, <3>4, <4>1, <4>2
    <3>5. CASE ~(i <= Readable(b))
      <4>1. /\ b.reader + i \in b.writer + 1..b.writer + Len(s)
            /\ b.reader + i - b.writer = i - Readable(b)
        <5>1. i \in Nat /\ i <= Readable(b) + Len(s) /\ i > Readable(b)
          BY <3>5, <1>1, BufferFields
        <5>2. Readable(b) = b.writer - b.reader
          BY DEF Readable
        <5>3. b.reader \in Nat /\ b.writer \in Nat /\ Len(s) \in Nat
          BY <1>1, BufferFields
        <5> HIDE DEF d, new
        <5> QED
          BY <5>1, <5>2, <5>3
      <4>2. d[b.reader + i] = s[b.reader + i - b.writer]
        <5>1. \A j \in 1..Len(b.data) :
                 j \in b.writer + 1..b.writer + Len(s) => d[j] = s[j - b.writer]
          OBVIOUS
        <5>2. /\ i \in Nat /\ b.reader \in Nat /\ b.writer \in Nat
              /\ Len(s) \in Nat /\ Len(b.data) \in Nat
          BY <1>1, BufferFields
        <5>3. b.reader + i \in b.writer + 1..b.writer + Len(s)
          BY <4>1
        <5> DEFINE r == b.reader
                   w == b.writer
                   L == Len(s)
                   N == Len(b.data)
        <5>4. /\ r \in Nat /\ w \in Nat /\ L \in Nat /\ N \in Nat
              /\ \A j \in 1..N : j \in w + 1..w + L => d[j] = s[j - w]
              /\ r + i \in 1..N /\ r + i \in w + 1..w + L
          BY <3>3, <5>1, <5>2, <5>3
        <5> HIDE DEF d, r, w, L, N
        <5>5. d[r + i] = s[r + i - w]
          BY <5>2, <5>4
        <5> QED
          BY <5>5 DEF r, w
      <4> HIDE DEF d, new
      <4>3. Peek(new)[i] = s[i - Readable(b)]
        BY <3>1, <4>1, <4>2
      <4> QED
        BY <3>2, <3>5, <4>3
    <3> QED
      BY <3>4, <3>5
  <2> QED
    BY <2>1, <2>2, SeqEqual
<1>8. new.ok = b.ok
  BY <1>3, BufferFields
<1> QED
  BY <1>4, <1>6, <1>7, <1>8

(* makeSpace(): the content stays, whether it is moved or the vector grows, *)
(* there is room for what comes, and the assert holds.                      *)
LEMMA ResizedKeeps ==
    ASSUME NEW b \in Buffers(Nat), NEW len \in Nat
    PROVE  /\ Resized(b, len) \in Buffers(Nat)
           /\ Resized(b, len).ok = b.ok
           /\ Peek(Resized(b, len)) = Peek(b)
           /\ Writable(Resized(b, len)) = len
<1> DEFINE n == b.writer + len
           d == [i \in 1..n |-> IF i <= Len(b.data) THEN b.data[i] ELSE 0]
           new == Resized(b, len)
<1>1. n \in Nat /\ b.writer <= n
  BY BufferFields
<1>2. d \in [1..n -> Nat]
  BY <1>1, BufferFields
<1>3. new = [data |-> d, reader |-> b.reader, writer |-> b.writer, ok |-> b.ok]
  <2>1. b = [data |-> b.data, reader |-> b.reader, writer |-> b.writer, ok |-> b.ok]
    BY DEF Buffers
  <2>2. new = [b EXCEPT !.data = d]
    BY DEF Resized
  <2> HIDE DEF d, new
  <2> QED
    BY <2>1, <2>2
<1>4. Len(d) = n
  BY <1>1, <1>2, FunctionIsSeq
<1>5. new \in Buffers(Nat)
  <2> HIDE DEF d, new, n
  <2> QED
    BY <1>1, <1>2, <1>3, BufferFields, IsBuffer
<1>6. Writable(new) = len
  BY <1>3, <1>4, BufferFields DEF Writable
<1>7. Peek(new) = Peek(b)
  <2>1. ASSUME NEW i \in 1..Readable(b)
        PROVE  d[b.reader + i] = b.data[b.reader + i]
    <3>1. b.reader + i \in 1..n /\ b.reader + i <= Len(b.data)
      BY BufferFields, SMTT(20) DEF Readable
    <3> QED
      BY <3>1
  <2>2. Readable(new) = Readable(b) /\ new.data = d /\ new.reader = b.reader
    BY <1>3 DEF Readable
  <2> HIDE DEF d, new
  <2> QED
    BY <2>1, <2>2 DEF Peek
<1> QED
  BY <1>3, <1>5, <1>6, <1>7

(* Moving the content to the front keeps it.                                *)
LEMMA MovedKeeps ==
    ASSUME NEW b \in Buffers(Nat), CheapPrepend < b.reader
    PROVE  /\ Moved(b) \in Buffers(Nat)
           /\ Moved(b).ok = b.ok
           /\ Peek(Moved(b)) = Peek(b)
           /\ Writable(Moved(b)) = Writable(b) + b.reader - CheapPrepend
<1> DEFINE C == CheapPrepend
           d == [i \in 1..Len(b.data) |->
                    IF i \in C + 1..C + Readable(b) THEN b.data[i - C + b.reader]
                    ELSE b.data[i]]
           w == C + Readable(b)
           k == b.ok /\ C < b.reader
           new == Moved(b)
<1>1. C \in Nat /\ w \in Nat /\ C <= w /\ w <= Len(b.data)
  BY BufferFields, BufferAssumption DEF Readable
<1>2. ASSUME NEW i \in 1..Readable(b)
      PROVE  /\ b.reader + i \in 1..Len(b.data)
             /\ C + i \in 1..Len(b.data)
             /\ C + i \in C + 1..C + Readable(b)
             /\ C + i - C + b.reader = b.reader + i
  <2>1. i \in Nat /\ 1 <= i /\ i <= b.writer - b.reader
    BY BufferFields DEF Readable
  <2>2. i <= Readable(b) /\ Readable(b) \in Nat /\ w = C + Readable(b)
    BY <2>1, BufferFields
  <2> HIDE DEF C, w
  <2>3. b.reader + i \in 1..Len(b.data)
    BY <2>1, BufferFields
  <2>4. C + i \in C + 1..C + Readable(b)
    BY <1>1, <2>1, <2>2
  <2>5. C + i \in 1..Len(b.data)
    BY <1>1, <2>1, <2>2, BufferFields
  <2>6. C + i - C + b.reader = b.reader + i
    BY <1>1, <2>1, BufferFields
  <2> QED
    BY <2>3, <2>4, <2>5, <2>6
<1>3. d \in [1..Len(b.data) -> Nat]
  <2>1. ASSUME NEW i \in C + 1..C + Readable(b)
        PROVE  b.data[i - C + b.reader] \in Nat
    <3>1. i - C + b.reader \in 1..Len(b.data)
      <4>1. /\ i \in Nat /\ C + 1 <= i /\ i <= C + (b.writer - b.reader)
            /\ b.reader \in Nat /\ b.writer \in Nat /\ Len(b.data) \in Nat
            /\ C \in Nat /\ b.writer <= Len(b.data)
        BY <1>1, BufferFields DEF Readable
      <4> HIDE DEF d, w, k, new, C
      <4> QED
        BY <4>1
    <3> QED
      BY <3>1, BufferFields
  <2> QED
    BY <2>1, BufferFields
<1>4. new = [data |-> d, reader |-> C, writer |-> w, ok |-> k] /\ k \in BOOLEAN
  BY DEF Moved
<1>5. new \in Buffers(Nat)
  <2>1. CheapPrepend <= C
    BY <1>1
  <2> HIDE DEF d, w, k, new, C
  <2> QED
    BY <1>1, <1>3, <1>4, <2>1, BufferFields, IsBuffer
<1>6. Len(d) = Len(b.data)
  BY <1>3, BufferFields, FunctionIsSeq
<1>7. Writable(new) = Writable(b) + b.reader - C
  <2>1. Writable(new) = Len(b.data) - w
    BY <1>4, <1>6 DEF Writable
  <2>2. w = C + (b.writer - b.reader) /\ Writable(b) = Len(b.data) - b.writer
    BY DEF Readable, Writable
  <2> HIDE DEF w, C, new
  <2> QED
    BY <1>1, <2>1, <2>2, BufferFields, SMTT(20)
<1>8. Peek(new) = Peek(b)
  <2>1. ASSUME NEW i \in 1..Readable(b)
        PROVE  d[C + i] = b.data[b.reader + i]
    <3>1. \A j \in 1..Len(b.data) :
             j \in C + 1..C + Readable(b) => d[j] = b.data[j - C + b.reader]
      OBVIOUS
    <3> HIDE DEF d, C
    <3>2. i \in Nat /\ b.reader \in Nat
      BY BufferFields
    <3>3. d[C + i] = b.data[C + i - C + b.reader]
      BY <1>1, <1>2, <3>1, <3>2
    <3> QED
      BY <1>2, <3>3
  <2>2. Readable(new) = Readable(b) /\ new.data = d /\ new.reader = C
    <3>1. new.writer - new.reader = Readable(b)
      BY <1>1, <1>4, BufferFields
    <3> QED
      BY <1>4, <3>1 DEF Readable
  <2> HIDE DEF d, new
  <2> QED
    BY <2>1, <2>2 DEF Peek
<1>9. new.ok = b.ok
  BY <1>4, BufferFields
<1> QED
  BY <1>5, <1>7, <1>8, <1>9

(* append(): the bytes follow the content.                                  *)
LEMMA AppendAppends ==
    ASSUME NEW b \in Buffers(Nat), NEW s \in Seq(Nat)
    PROVE  /\ AppendBytes(b, s) \in Buffers(Nat)
           /\ AppendBytes(b, s).ok = b.ok
           /\ Peek(AppendBytes(b, s)) = Peek(b) \o s
<1>1. Len(s) \in Nat
  BY LenProperties
<1>2. CASE Writable(b) < Len(s)
  <2> DEFINE c == MakeSpace(b, Len(s))
  <2>1. /\ c \in Buffers(Nat) /\ c.ok = b.ok /\ Peek(c) = Peek(b)
        /\ Len(s) <= Writable(c)
    <3>1. CASE Writable(b) + b.reader < Len(s) + CheapPrepend
      <4>1. c = Resized(b, Len(s))
        BY <3>1 DEF MakeSpace
      <4> HIDE DEF c
      <4> QED
        BY <1>1, <4>1, ResizedKeeps
    <3>2. CASE ~(Writable(b) + b.reader < Len(s) + CheapPrepend)
      <4>1. c = Moved(b)
        BY <3>2 DEF MakeSpace
      <4>2. CheapPrepend < b.reader /\ Len(s) <= Writable(b) + b.reader - CheapPrepend
        BY <1>1, <1>2, <3>2, BufferFields, BufferAssumption
      <4> HIDE DEF c
      <4> QED
        BY <4>1, <4>2, MovedKeeps
    <3> QED
      BY <3>1, <3>2
  <2>2. AppendBytes(b, s) = Written(c, s)
    BY <1>2 DEF AppendBytes
  <2> HIDE DEF c
  <2> QED
    BY <2>1, <2>2, WrittenAppends
<1>3. CASE ~(Writable(b) < Len(s))
  <2>1. AppendBytes(b, s) = Written(b, s) /\ Len(s) <= Writable(b)
    BY <1>1, <1>3, BufferFields DEF AppendBytes
  <2> QED
    BY <2>1, WrittenAppends
<1> QED
  BY <1>2, <1>3

(* readFd() appends what it read, whether it fits or goes over into the     *)
(* extra space, and no assert fails.                                        *)
THEOREM ReadAppends ==
    ASSUME NEW b \in Buffers(Nat), NEW s \in Seq(Nat)
    PROVE  /\ ReadFd(b, s) \in Buffers(Nat)
           /\ ReadFd(b, s).ok = b.ok
           /\ Peek(ReadFd(b, s)) = Peek(b) \o s
<1>1. Len(s) \in Nat /\ Writable(b) \in Nat
  BY LenProperties, BufferFields
<1>2. CASE Len(s) <= Writable(b)
  <2>1. ReadFd(b, s) = Written(b, s)
    BY <1>2 DEF ReadFd
  <2> QED
    BY <1>2, <2>1, WrittenAppends
<1>3. CASE ~(Len(s) <= Writable(b))
  <2> DEFINE n == Writable(b)
             s1 == SubSeq(s, 1, n)
             s2 == SubSeq(s, n + 1, Len(s))
             full == Written(b, s1)
  <2>1. s1 \in Seq(Nat) /\ Len(s1) = n /\ s2 \in Seq(Nat)
    <3>1. \A i \in 1..Len(s) : s[i] \in Nat
      BY ElementOfSeq
    <3>2. (\A i \in 1..n : s[i] \in Nat) /\ (\A i \in n + 1..Len(s) : s[i] \in Nat)
      BY <1>1, <1>3, <3>1
    <3> QED
      BY <1>1, <3>2, SubSeqProperties
  <2>2. s1 \o s2 = s
    <3>1. 1 \in 1..Len(s) + 1 /\ n \in 1 - 1..Len(s) /\ Len(s) \in n..Len(s)
      BY <1>1, <1>3
    <3> HIDE DEF n
    <3>2. SubSeq(s, 1, n) \o SubSeq(s, n + 1, Len(s)) = SubSeq(s, 1, Len(s))
      BY <3>1, ConcatAdjacentSubSeq
    <3> QED
      BY <3>2, SubSeqFull
  <2>3. full \in Buffers(Nat) /\ full.ok = b.ok /\ Peek(full) = Peek(b) \o s1
    <3>1. Len(s1) <= Writable(b)
      BY <1>1, <2>1
    <3> HIDE DEF s1
    <3> QED
      BY <2>1, <3>1, WrittenAppends
  <2>4. ReadFd(b, s) = AppendBytes(full, s2)
    BY <1>3 DEF ReadFd
  <2> HIDE DEF s1, s2, full, n
  <2>5. /\ ReadFd(b, s) \in Buffers(Nat) /\ ReadFd(b, s).ok = b.ok
        /\ Peek(ReadFd(b, s)) = (Peek(b) \o s1) \o s2
    BY <2>1, <2>3, <2>4, AppendAppends
  <2>6. (Peek(b) \o s1) \o s2 = Peek(b) \o s
    <3>1. Peek(b) \in Seq(Nat)
      BY ContentType
    <3>2. s1 \in Seq(Nat) /\ s2 \in Seq(Nat)
      BY <2>1
    <3>3. (Peek(b) \o s1) \o s2 = Peek(b) \o (s1 \o s2)
      BY <3>1, <3>2, Associative, Zenon
    <3> QED
      BY <2>2, <3>3
  <2> QED
    BY <2>5, <2>6
<1> QED
  BY <1>2, <1>3

(* retrieve() takes from the front.                                         *)
LEMMA RetrieveTakes ==
    ASSUME NEW b \in Buffers(Nat), NEW len \in 0..Readable(b)
    PROVE  /\ Retrieve(b, len) \in Buffers(Nat)
           /\ Retrieve(b, len).ok = b.ok
           /\ Peek(Retrieve(b, len)) = SubSeq(Peek(b), len + 1, Readable(b))
<1>1. /\ b = [data |-> b.data, reader |-> b.reader, writer |-> b.writer, ok |-> b.ok]
      /\ len \in Nat /\ len <= Readable(b)
  BY BufferFields DEF Buffers
<1>2. CASE len < Readable(b)
  <2> DEFINE r == b.reader + len
             new == Retrieve(b, len)
  <2>1. new = [data |-> b.data, reader |-> r, writer |-> b.writer, ok |-> b.ok]
    <3>1. new = [b EXCEPT !.reader = @ + len]
      BY <1>2 DEF Retrieve
    <3> HIDE DEF new
    <3> QED
      BY <1>1, <3>1
  <2>2. r \in Nat /\ CheapPrepend <= r /\ r <= b.writer
    BY <1>1, <1>2, BufferFields, BufferAssumption DEF Readable
  <2>3. new \in Buffers(Nat)
    <3> HIDE DEF r, new
    <3> QED
      BY <2>1, <2>2, BufferFields, IsBuffer
  <2>4. Readable(new) = Readable(b) - len
    BY <1>1, <2>1, BufferFields DEF Readable
  <2>5. /\ SubSeq(Peek(b), len + 1, Readable(b)) \in Seq(Nat)
        /\ Len(SubSeq(Peek(b), len + 1, Readable(b))) = Readable(b) - len
        /\ \A i \in 1..Readable(b) - len :
              SubSeq(Peek(b), len + 1, Readable(b))[i] = Peek(b)[len + i]
    <3>1. \A i \in len + 1..Readable(b) : Peek(b)[i] \in Nat
      BY <1>1, BufferFields, ContentType, ElementOfSeq
    <3>2. len + 1 \in Int /\ Readable(b) \in Int /\ len + 1 <= Readable(b)
          /\ Readable(b) - (len + 1) + 1 = Readable(b) - len
          /\ \A i \in 1..Readable(b) - len : len + 1 + i - 1 = len + i
      BY <1>1, <1>2, BufferFields
    <3> QED
      BY <3>1, <3>2, SubSeqProperties
  <2>6. ASSUME NEW i \in 1..Readable(b) - len
        PROVE  Peek(new)[i] = Peek(b)[len + i]
    <3>1. i \in 1..Readable(new) /\ len + i \in 1..Readable(b)
      BY <1>1, <2>4, BufferFields
    <3>2. Peek(b)[len + i] = b.data[b.reader + (len + i)]
      BY <3>1, ContentType
    <3>3. new.data = b.data /\ new.reader = r
      BY <2>1
    <3>4. r + i = b.reader + (len + i)
      BY <1>1, BufferFields
    <3> HIDE DEF new, r
    <3>5. Peek(new)[i] = b.data[r + i]
      BY <2>3, <3>1, <3>3, ContentType
    <3> QED
      BY <3>2, <3>4, <3>5
  <2>7. Peek(new) = SubSeq(Peek(b), len + 1, Readable(b))
    <3>1. Peek(new) \in Seq(Nat) /\ Len(Peek(new)) = Readable(b) - len
      BY <2>3, <2>4, ContentType
    <3> HIDE DEF new
    <3> QED
      BY <2>5, <2>6, <3>1, SeqEqual
  <2>8. new.ok = b.ok
    BY <2>1
  <2> QED
    BY <2>3, <2>7, <2>8
<1>3. CASE ~(len < Readable(b))
  <2> DEFINE new == Retrieve(b, len)
             C == CheapPrepend
             k == b.ok /\ len <= Readable(b)
  <2>1. len = Readable(b) /\ k = b.ok /\ k \in BOOLEAN
    BY <1>1, <1>3, BufferFields
  <2>2. new = [data |-> b.data, reader |-> C, writer |-> C, ok |-> k]
    <3>1. new = [RetrieveAll(b) EXCEPT !.ok = @ /\ len <= Readable(b)]
      BY <1>3 DEF Retrieve
    <3>2. RetrieveAll(b) = [b EXCEPT !.reader = C, !.writer = C]
      BY DEF RetrieveAll
    <3> HIDE DEF new, C
    <3>3. RetrieveAll(b) = [data |-> b.data, reader |-> C, writer |-> C, ok |-> b.ok]
      BY <1>1, <3>2
    <3> QED
      BY <3>1, <3>3
  <2>3. C \in Nat /\ C <= Len(b.data)
    BY BufferFields, BufferAssumption
  <2>4. new \in Buffers(Nat)
    <3>1. CheapPrepend <= C
      BY <2>3
    <3> HIDE DEF new, C, k
    <3> QED
      BY <2>1, <2>2, <2>3, <3>1, BufferFields, IsBuffer
  <2>5. Readable(new) = 0
    BY <2>2, <2>3 DEF Readable
  <2>6. Peek(new) = <<>>
    BY <2>4, <2>5, ContentType, EmptySeq
  <2>7. SubSeq(Peek(b), len + 1, Readable(b)) = <<>>
    BY <1>1, <2>1, BufferFields, SubSeqEmpty
  <2>8. new.ok = b.ok
    BY <2>1, <2>2
  <2> QED
    BY <2>4, <2>6, <2>7, <2>8
<1> QED
  BY <1>2, <1>3
(* A piece of the stream that follows what was read.                        *)
LEMMA NextPiece ==
    ASSUME NEW from \in 1..Len(Stream) + 1, NEW at \in from - 1..Len(Stream),
           NEW n \in Nat, at + n <= Len(Stream)
    PROVE  /\ SubSeq(Stream, at + 1, at + n) \in Seq(Nat)
           /\ SubSeq(Stream, from, at) \o SubSeq(Stream, at + 1, at + n)
                = SubSeq(Stream, from, at + n)
<1>1. Stream \in Seq(Nat) /\ Len(Stream) = HeadSize + BodySize
  BY HttpDownloadAssumption, FunctionIsSeq DEF Stream
<1>2. Len(Stream) \in Nat /\ at \in Int /\ at + 1 >= 1 /\ at + n \in at..Len(Stream)
  BY <1>1, HttpDownloadAssumption
<1>3. \A i \in at + 1..at + n : Stream[i] \in Nat
  BY <1>1, <1>2, ElementOfSeq
<1>4. SubSeq(Stream, at + 1, at + n) \in Seq(Nat)
  BY <1>2, <1>3, SubSeqProperties
<1> HIDE DEF Stream
<1>5. SubSeq(Stream, from, at) \o SubSeq(Stream, at + 1, at + n)
        = SubSeq(Stream, from, at + n)
  BY <1>1, <1>2, ConcatAdjacentSubSeq
<1> QED
  BY <1>4, <1>5

(* What the buffer and the file hold of the stream, before the head was     *)
(* handled and after it.                                                    *)
StreamInv ==
    /\ buffer \in Buffers(Nat)
    /\ buffer.ok
    /\ received \in 0..Len(Stream)
    /\ callback \in {"onMessage", "downloadFileThread"}
    /\ file \in Seq(Nat)
    /\ callback = "onMessage" =>
          file = <<>> /\ Peek(buffer) = SubSeq(Stream, 1, received)
    /\ callback = "downloadFileThread" =>
          /\ received >= HeadSize
          /\ file \o Peek(buffer) = SubSeq(Stream, HeadSize + 1, received)

(* A new buffer is one, and empty.                                          *)
LEMMA NewBufferIsEmpty ==
    NewBuffer \in Buffers(Nat) /\ NewBuffer.ok /\ Peek(NewBuffer) = <<>>
<1> DEFINE n == CheapPrepend + InitialSize
           d == [i \in 1..n |-> 0]
           C == CheapPrepend
           k == TRUE
<1>1. /\ n \in Nat /\ C \in Nat /\ C <= C /\ C <= n /\ CheapPrepend <= C
      /\ k \in BOOLEAN /\ k
  BY BufferAssumption
<1>2. d \in [1..n -> Nat]
  BY <1>1
<1>3. NewBuffer = [data |-> d, reader |-> C, writer |-> C, ok |-> k]
  BY DEF NewBuffer
<1> HIDE DEF n, d, C, k
<1>4. NewBuffer \in Buffers(Nat)
  BY <1>1, <1>2, <1>3, IsBuffer
<1>5. Readable(NewBuffer) = 0
  BY <1>1, <1>3 DEF Readable
<1>6. Peek(NewBuffer) = <<>>
  BY <1>4, <1>5, ContentType, EmptySeq
<1> QED
  BY <1>1, <1>3, <1>4, <1>6

(* At first nothing has arrived.                                            *)
LEMMA StreamInit == DownloadInit => StreamInv
<1> SUFFICES ASSUME DownloadInit PROVE StreamInv
  OBVIOUS
<1>1. Len(Stream) \in Nat
  BY HttpDownloadAssumption, FunctionIsSeq DEF Stream
<1>2. SubSeq(Stream, 1, 0) = <<>>
  BY SubSeqEmpty
<1>3. /\ buffer = NewBuffer /\ received = 0 /\ callback = "onMessage"
      /\ file = <<>>
  BY DEF DownloadInit
<1> QED
  BY <1>1, <1>2, <1>3, NewBufferIsEmpty, EmptySeq DEF StreamInv

(* The buffer after handleRead(): the content and the piece.                *)
LEMMA FilledHolds ==
    ASSUME StreamInv, NEW n \in Nat, Reads(n)
    PROVE  /\ received' = received + n /\ received' \in 0..Len(Stream)
           /\ SubSeq(Stream, received + 1, received + n) \in Seq(Nat)
           /\ Filled(n) \in Buffers(Nat) /\ Filled(n).ok
           /\ Peek(Filled(n)) = Peek(buffer)
                                \o SubSeq(Stream, received + 1, received + n)
<1>1. Len(Stream) \in Nat
  BY HttpDownloadAssumption, FunctionIsSeq DEF Stream
<1>2. received' = received + n /\ received + n <= Len(Stream) /\ received \in Nat
  BY <1>1 DEF Reads, StreamInv
<1>3. received' \in 0..Len(Stream)
  BY <1>1, <1>2
<1>4. 1 \in 1..Len(Stream) + 1 /\ received \in 1 - 1..Len(Stream)
  BY <1>1, <1>2
<1>5. SubSeq(Stream, received + 1, received + n) \in Seq(Nat)
  BY <1>2, <1>4, NextPiece
<1> QED
  BY <1>2, <1>3, <1>5, ReadAppends DEF Filled, StreamInv

(* Before the head was handled the buffer holds all that was read.          *)
LEMMA FilledFromStart ==
    ASSUME StreamInv, NEW n \in Nat, Reads(n), callback = "onMessage"
    PROVE  /\ Peek(Filled(n)) = SubSeq(Stream, 1, received')
           /\ Readable(Filled(n)) = received'
<1>1. Stream \in Seq(Nat) /\ Len(Stream) \in Nat
  BY HttpDownloadAssumption, FunctionIsSeq DEF Stream
<1>2. 1 \in 1..Len(Stream) + 1 /\ received \in 1 - 1..Len(Stream)
      /\ received + n <= Len(Stream)
  BY <1>1 DEF StreamInv, Reads
<1>3. Peek(Filled(n)) = SubSeq(Stream, 1, received')
  BY <1>2, NextPiece, FilledHolds DEF StreamInv
<1>4. \A i \in 1..received' : Stream[i] \in Nat
  BY <1>1, FilledHolds, ElementOfSeq
<1>5. Len(SubSeq(Stream, 1, received')) = received'
  BY <1>1, <1>4, FilledHolds, SubSeqProperties
<1> QED
  BY <1>3, <1>5, FilledHolds, ContentType

(* onMessage() takes the head off and begins the body.                      *)
LEMMA HandleHeadStep ==
    ASSUME StreamInv, NEW n \in Nat, HandleHead(n)
    PROVE  StreamInv'
<1> DEFINE b == Filled(n)
<1>1. /\ Reads(n) /\ callback = "onMessage" /\ Readable(b) >= HeadSize
      /\ buffer' = Retrieve(b, HeadSize) /\ callback' = "downloadFileThread"
      /\ file' = file
  BY DEF HandleHead
<1>2. /\ b \in Buffers(Nat) /\ b.ok /\ received' \in 0..Len(Stream)
      /\ Readable(b) = received' /\ Peek(b) = SubSeq(Stream, 1, received')
  BY <1>1, FilledHolds, FilledFromStart
<1>3. Stream \in Seq(Nat) /\ Len(Stream) \in Nat
  BY HttpDownloadAssumption, FunctionIsSeq DEF Stream
<1> HIDE DEF b
<1>4. HeadSize \in 0..Readable(b) /\ received' \in Nat
  BY <1>1, <1>2, <1>3, HttpDownloadAssumption
<1>5. /\ buffer' \in Buffers(Nat) /\ buffer'.ok
      /\ Peek(buffer') = SubSeq(SubSeq(Stream, 1, received'), HeadSize + 1, received')
  BY <1>1, <1>2, <1>4, RetrieveTakes
<1>6. SubSeq(SubSeq(Stream, 1, received'), HeadSize + 1, received')
        = SubSeq(Stream, HeadSize + 1, received')
  <2>1. CASE HeadSize = received'
    <3>1. HeadSize \in Int /\ HeadSize + 1 \in Int /\ HeadSize < HeadSize + 1
      BY HttpDownloadAssumption
    <3>2. \A s : SubSeq(s, HeadSize + 1, HeadSize) = <<>>
      BY <3>1, SubSeqEmpty
    <3> QED
      BY <2>1, <3>2
  <2>2. CASE HeadSize # received'
    <3> DEFINE r == received'
               h == HeadSize + 1
    <3>1. r \in Nat /\ h \in Nat /\ 1 <= h /\ h <= r /\ r <= Len(Stream)
      BY <1>2, <1>3, <1>4, <2>2
    <3> HIDE DEF r, h
    <3>2. /\ 1 \in 1..Len(Stream) /\ r \in 1..Len(Stream)
          /\ h \in 1..r - 1 + 1 /\ r \in 1..r - 1 + 1
      BY <1>3, <3>1
    <3>3. 1 + h - 1 = h /\ 1 + r - 1 = r
      BY <3>1
    <3>4. SubSeq(SubSeq(Stream, 1, r), h, r) = SubSeq(Stream, 1 + h - 1, 1 + r - 1)
      BY <1>3, <3>2, SubSeqOfSubSeq
    <3> QED
      BY <3>3, <3>4 DEF r, h
  <2> QED
    BY <2>1, <2>2
<1>7. file' = <<>> /\ Peek(buffer)' \in Seq(Nat)
  BY <1>1, <1>5, ContentType DEF StreamInv
<1>8. file' \o Peek(buffer)' = SubSeq(Stream, HeadSize + 1, received')
  BY <1>5, <1>6, <1>7, ConcatEmptySeq
<1> QED
  BY <1>1, <1>2, <1>4, <1>5, <1>7, <1>8, EmptySeq DEF StreamInv

(* A head that ends the program stays in the buffer.                        *)
LEMMA HandleHeadFailsStep ==
    ASSUME StreamInv, NEW n \in Nat, HandleHeadFails(n)
    PROVE  StreamInv'
<1>1. /\ Reads(n) /\ callback = "onMessage" /\ buffer' = Filled(n)
      /\ callback' = callback /\ file' = file
  BY DEF HandleHeadFails
<1> QED
  BY <1>1, FilledHolds, FilledFromStart DEF StreamInv

(* What downloadFileThread() is called with follows the file.               *)
LEMMA PieceFollows ==
    ASSUME StreamInv, NEW n \in Nat, Reads(n), callback = "downloadFileThread"
    PROVE  /\ received' \in 0..Len(Stream) /\ received' >= HeadSize
           /\ Filled(n) \in Buffers(Nat) /\ Filled(n).ok
           /\ file \o Peek(Filled(n)) = SubSeq(Stream, HeadSize + 1, received')
           /\ file \o Peek(Filled(n)) \in Seq(Nat)
<1> DEFINE b == Filled(n)
           piece == SubSeq(Stream, received + 1, received + n)
<1>1. received + n <= Len(Stream)
  BY DEF Reads
<1>2. /\ received' = received + n /\ received' \in 0..Len(Stream)
      /\ piece \in Seq(Nat)
      /\ b \in Buffers(Nat) /\ b.ok /\ Peek(b) = Peek(buffer) \o piece
  BY FilledHolds
<1>3. Len(Stream) \in Nat
  BY HttpDownloadAssumption, FunctionIsSeq DEF Stream
<1>4. SubSeq(Stream, HeadSize + 1, received) \o piece
        = SubSeq(Stream, HeadSize + 1, received')
  <2>1. /\ HeadSize + 1 \in 1..Len(Stream) + 1
        /\ received \in HeadSize + 1 - 1..Len(Stream)
        /\ received + n <= Len(Stream)
    BY <1>1, <1>2, <1>3, HttpDownloadAssumption DEF StreamInv
  <2>2. SubSeq(Stream, HeadSize + 1, received) \o SubSeq(Stream, received + 1, received + n)
          = SubSeq(Stream, HeadSize + 1, received + n)
    <3> DEFINE from == HeadSize + 1
    <3> HIDE DEF from
    <3>1. from \in 1..Len(Stream) + 1 /\ received \in from - 1..Len(Stream)
      BY <1>3, <2>1, HttpDownloadAssumption DEF from
    <3>2. SubSeq(Stream, from, received) \o SubSeq(Stream, received + 1, received + n)
            = SubSeq(Stream, from, received + n)
      BY <2>1, <3>1, NextPiece
    <3> QED
      BY <3>2 DEF from
  <2> QED
    BY <1>2, <2>2
<1> HIDE DEF b, piece
<1>5. file \in Seq(Nat) /\ Peek(buffer) \in Seq(Nat) /\ Peek(b) \in Seq(Nat)
  BY <1>2, ContentType DEF StreamInv
<1>6. file \o Peek(b) = (file \o Peek(buffer)) \o piece
  <2>1. (file \o Peek(buffer)) \o piece = file \o (Peek(buffer) \o piece)
    BY <1>2, <1>5, Associative, Zenon
  <2> QED
    BY <1>1, <1>2, <2>1
<1>7. /\ file \o Peek(b) = SubSeq(Stream, HeadSize + 1, received')
      /\ file \o Peek(b) \in Seq(Nat)
  BY <1>4, <1>5, <1>6, ConcatProperties, ZenonT(30) DEF StreamInv
<1>8. received' >= HeadSize
  BY <1>2, <1>3, HttpDownloadAssumption DEF StreamInv
<1> QED
  BY <1>2, <1>7, <1>8 DEF b

(* It moves that to the file.                                               *)
LEMMA DownloadFileStep ==
    ASSUME StreamInv, NEW n \in Nat, DownloadFile(n)
    PROVE  StreamInv'
<1> DEFINE b == Filled(n)
<1>1. /\ Reads(n) /\ callback = "downloadFileThread" /\ callback' = callback
      /\ file' = file \o Peek(b) /\ buffer' = Retrieve(b, Readable(b))
  BY DEF DownloadFile
<1>2. /\ received' \in 0..Len(Stream) /\ received' >= HeadSize
      /\ b \in Buffers(Nat) /\ b.ok
      /\ file' = SubSeq(Stream, HeadSize + 1, received') /\ file' \in Seq(Nat)
  BY <1>1, PieceFollows
<1> HIDE DEF b
<1>3. buffer' \in Buffers(Nat) /\ buffer'.ok /\ Peek(buffer') = <<>>
  <2>1. Readable(b) \in 0..Readable(b) /\ Readable(b) \in Nat
    BY <1>2, BufferFields
  <2>2. SubSeq(Peek(b), Readable(b) + 1, Readable(b)) = <<>>
    BY <2>1, SubSeqEmpty
  <2> QED
    BY <1>1, <1>2, <2>1, <2>2, RetrieveTakes
<1>4. file' \o Peek(buffer)' = SubSeq(Stream, HeadSize + 1, received')
  BY <1>2, <1>3, ConcatEmptySeq
<1> QED
  BY <1>1, <1>2, <1>3, <1>4 DEF StreamInv

(* When test.jpeg cannot be opened it stays in the buffer.                  *)
LEMMA OpenFailsStep ==
    ASSUME StreamInv, NEW n \in Nat, OpenFails(n)
    PROVE  StreamInv'
<1>1. /\ Reads(n) /\ callback = "downloadFileThread" /\ callback' = callback
      /\ file' = file /\ buffer' = Filled(n)
  BY DEF OpenFails
<1>2. /\ received' \in 0..Len(Stream) /\ received' >= HeadSize
      /\ buffer' \in Buffers(Nat) /\ buffer'.ok
      /\ file' \o Peek(buffer)' = SubSeq(Stream, HeadSize + 1, received')
  BY <1>1, PieceFollows
<1> QED
  BY <1>1, <1>2 DEF StreamInv

(* Only the loop's thread, in a callback, touches buffer and file.          *)
THEOREM StreamTheorem == DownloadSpec => []StreamInv
<1>1. StreamInv /\ [DownloadNext]_downloadVars => StreamInv'
  <2> SUFFICES ASSUME StreamInv, [DownloadNext]_downloadVars PROVE StreamInv'
    OBVIOUS
  <2>1. CASE UNCHANGED fileVars
    BY <2>1 DEF fileVars, StreamInv
  <2>2. ASSUME MainStep \/ MainWakesUp PROVE UNCHANGED fileVars
    BY <2>2 DEF MainStep, MainWakesUp, MainStartsPool, MainAddsTask, WaitForIp,
                StartClient, WaitForImage, DestroyClient, EndLoop, MainStopsPool, MainGoes
  <2>3. ASSUME NEW w \in 1..Workers, WorkerRuns(w) PROVE UNCHANGED fileVars
    BY <2>3 DEF WorkerRuns, LockUrl, TryLookUp, EndLookUp, LookUpGoes, PoolStep
  <2>4. ASSUME LoopStep PROVE StreamInv'
    <3>1. CASE ConnectionComes \/ ConnectionEnds \/ ForceCloseInLoop
      BY <2>1, <3>1 DEF ConnectionComes, ConnectionEnds, ForceCloseInLoop
    <3>2. ASSUME NEW n \in 1..InitialSize + ExtraSize + BodySize,
                 HandleHead(n) \/ HandleHeadFails(n) \/ OpenFails(n) \/ DownloadFile(n)
          PROVE  StreamInv'
      <4>1. n \in Nat
        BY BufferAssumption, HttpDownloadAssumption
      <4> QED
        BY <3>2, <4>1, HandleHeadStep, HandleHeadFailsStep, OpenFailsStep,
           DownloadFileStep
    <3> QED
      BY <2>4, <3>1, <3>2 DEF LoopStep
  <2>5. CASE UNCHANGED downloadVars
    BY <2>1, <2>5 DEF downloadVars
  <2> QED
    BY <2>1, <2>2, <2>3, <2>4, <2>5 DEF DownloadNext
<1> QED
  BY <1>1, StreamInit, PTL DEF DownloadSpec

(* The file and the buffer hold the body in order, and no assert of Buffer  *)
(* fails, for any sizes.                                                    *)
THEOREM BodyTheorem == DownloadSpec => []BodyIsInOrder
<1>1. StreamInv => BodyIsInOrder
  BY DEF StreamInv, BodyIsInOrder
<1> QED
  BY <1>1, StreamTheorem, PTL

-----------------------------------------------------------------------------
(* The thread pool, with any number of workers and any tasks and levels.    *)

(* Who has no thread: start() creates them in order and stop() joins them   *)
(* in order.                                                                *)
ThreadsInv ==
    /\ nth < Workers
    /\ ownerPc \in {"stopped", "started"} => nth = 0
    /\ ownerPc = "stopped" => \A w \in 1..Workers : pc[w] = "none"
    /\ ownerPc = "starting" => \A w \in nth + 1..Workers : pc[w] = "none"
    /\ ownerPc = "joining" => \A w \in 1..nth : pc[w] = "none"

(* Nobody sleeps in take() when the pool is not started.                    *)
StoppedWakes == At("asleep") # {} => isStarted

PoolIInv ==
    /\ TypeOK
    /\ ThreadsInv
    /\ IsFiniteSet(tasks)
    /\ StoppedWakes
    /\ NoLostTask

(* How many workers are somewhere is a number.                              *)
LEMMA AtFinite ==
    ASSUME NEW p
    PROVE  IsFiniteSet(At(p)) /\ Cardinality(At(p)) \in Nat
<1>1. IsFiniteSet(1..Workers)
  BY PriorityThreadPoolAssumption, FS_Interval
<1>2. IsFiniteSet(At(p))
  BY <1>1, FS_Subset DEF At
<1> QED
  BY <1>2, FS_CardinalityType

(* A worker that moves to a place joins the set of those that are there,    *)
(* and leaves the others.                                                   *)
LEMMA AtMoved ==
    ASSUME TypeOK, NEW w \in 1..Workers, NEW to \in WorkerPcs,
           pc' = [pc EXCEPT ![w] = to]
    PROVE  /\ pc' \in [1..Workers -> WorkerPcs]
           /\ \A p : At(p)' = IF p = to THEN At(p) \cup {w} ELSE At(p) \ {w}
BY DEF TypeOK, At

(* Nobody becomes notified by another's step, and one who becomes so is one *)
(* more.                                                                    *)
LEMMA NotifiedCounts ==
    ASSUME TypeOK, NEW w \in 1..Workers, NEW to \in WorkerPcs,
           pc' = [pc EXCEPT ![w] = to]
    PROVE  /\ to = "notified" /\ pc[w] # "notified" =>
                Cardinality(At("notified"))' = Cardinality(At("notified")) + 1
           /\ to # "notified" /\ pc[w] = "notified" =>
                Cardinality(At("notified"))' = Cardinality(At("notified")) - 1
           /\ to # "notified" /\ pc[w] # "notified" =>
                At("notified")' = At("notified")
<1>1. w \in At("notified") <=> pc[w] = "notified"
  BY DEF At
<1>2. CASE to = "notified" /\ pc[w] # "notified"
  <2>1. At("notified")' = At("notified") \cup {w}
    BY <1>2, AtMoved
  <2>2. Cardinality(At("notified") \cup {w}) = Cardinality(At("notified")) + 1
    BY <1>1, <1>2, AtFinite, FS_AddElement
  <2> QED
    BY <1>2, <2>1, <2>2
<1>3. CASE to # "notified" /\ pc[w] = "notified"
  <2>1. At("notified")' = At("notified") \ {w}
    BY <1>3, AtMoved
  <2>2. Cardinality(At("notified") \ {w}) = Cardinality(At("notified")) - 1
    BY <1>1, <1>3, AtFinite, FS_RemoveElement
  <2> QED
    BY <1>3, <2>1, <2>2
<1>4. CASE to # "notified" /\ pc[w] # "notified"
  <2>1. At("notified")' = At("notified") \ {w}
    BY <1>4, AtMoved
  <2> QED
    BY <1>1, <1>4, <2>1
<1> QED
  BY <1>2, <1>3, <1>4

(* start(): the new thread was none, so that no count of waiters changes.   *)
LEMMA StartStep == ASSUME PoolIInv, StartPool \/ CreateThread PROVE PoolIInv'
<1> USE PriorityThreadPoolAssumption
<1>1. CASE StartPool
  BY <1>1 DEF StartPool, PoolIInv, TypeOK, ThreadsInv, StoppedWakes, NoLostTask, At
<1>2. CASE CreateThread
  <2> DEFINE w == nth + 1
  <2>1. w \in 1..Workers /\ pc[w] = "none"
    BY <1>2 DEF CreateThread, PoolIInv, TypeOK, ThreadsInv
  <2>2. pc' = [pc EXCEPT ![w] = "loop"]
    BY <1>2 DEF CreateThread
  <2>3. TypeOK'
    BY <1>2, <2>1 DEF CreateThread, PoolIInv, TypeOK, ThreadsInv, WorkerPcs
  <2>4. ThreadsInv'
    BY <1>2, <2>1 DEF CreateThread, PoolIInv, TypeOK, ThreadsInv
  <2>5. At("asleep")' = At("asleep") /\ At("notified")' = At("notified")
    BY <2>1, <2>2 DEF At, PoolIInv, TypeOK
  <2>6. StoppedWakes' /\ NoLostTask' /\ IsFiniteSet(tasks)'
    BY <1>2, <2>5 DEF CreateThread, PoolIInv, StoppedWakes, NoLostTask
  <2> QED
    BY <2>3, <2>4, <2>6 DEF PoolIInv
<1> QED
  BY <1>1, <1>2

(* stop(): notifyAll() leaves nobody asleep; a joined thread was done.      *)
LEMMA StopStep == ASSUME PoolIInv, StopPool \/ JoinThread PROVE PoolIInv'
<1> USE PriorityThreadPoolAssumption
<1>1. CASE StopPool
  <2>1. TypeOK' /\ ThreadsInv'
    <3>1. pc' \in [1..Workers -> WorkerPcs]
      BY <1>1 DEF StopPool, NotifyAll, PoolIInv, TypeOK, WorkerPcs
    <3>2. TypeOK'
      BY <1>1, <3>1 DEF StopPool, PoolIInv, TypeOK
    <3>3. ThreadsInv'
      BY <1>1 DEF StopPool, PoolIInv, TypeOK, ThreadsInv
    <3> QED
      BY <3>2, <3>3
  <2>2. At("asleep")' = {}
    BY <1>1 DEF StopPool, NotifyAll, At, PoolIInv, TypeOK
  <2>3. IsFiniteSet(tasks)'
    BY <1>1 DEF StopPool, PoolIInv
  <2> QED
    BY <2>1, <2>2, <2>3 DEF PoolIInv, StoppedWakes, NoLostTask
<1>2. CASE JoinThread
  <2> DEFINE w == nth + 1
  <2>1. w \in 1..Workers /\ pc[w] = "done"
    BY <1>2 DEF JoinThread, PoolIInv, TypeOK, ThreadsInv
  <2>2. pc' = [pc EXCEPT ![w] = "none"]
    BY <1>2 DEF JoinThread
  <2>3. TypeOK'
    BY <1>2, <2>1 DEF JoinThread, PoolIInv, TypeOK, ThreadsInv, WorkerPcs
  <2>4. ThreadsInv'
    <3>1. \A v \in 1..nth + 1 : pc'[v] = "none"
      BY <1>2, <2>1, <2>2 DEF JoinThread, PoolIInv, TypeOK, ThreadsInv
    <3> QED
      BY <1>2, <2>1, <3>1 DEF JoinThread, PoolIInv, TypeOK, ThreadsInv
  <2>5. At("asleep")' = At("asleep") /\ At("notified")' = At("notified")
    BY <2>1, <2>2 DEF At, PoolIInv, TypeOK
  <2>6. StoppedWakes' /\ NoLostTask' /\ IsFiniteSet(tasks)'
    BY <1>2, <2>5 DEF JoinThread, PoolIInv, StoppedWakes, NoLostTask
  <2> QED
    BY <2>3, <2>4, <2>6 DEF PoolIInv
<1> QED
  BY <1>1, <1>2

(* A worker that moves from a place it can be at has a thread, and keeps    *)
(* the invariant about threads.                                             *)
LEMMA ThreadsStay ==
    ASSUME PoolIInv, NEW w \in 1..Workers, pc[w] # "none", NEW to \in WorkerPcs,
           pc' = [pc EXCEPT ![w] = to], UNCHANGED <<ownerPc, nth>>
    PROVE  ThreadsInv'
BY PriorityThreadPoolAssumption DEF PoolIInv, TypeOK, ThreadsInv

(* addTask(): the notify comes with the task.                               *)
LEMMA AddStep == ASSUME PoolIInv, NEW t \in Tasks, AddTask(t) PROVE PoolIInv'
<1>1. IsFiniteSet(tasks') /\ Cardinality(tasks') = Cardinality(tasks) + 1
  BY FS_AddElement DEF AddTask, PoolIInv
<1>2. CASE At("asleep") = {}
  BY <1>1, <1>2 DEF AddTask, PoolIInv, TypeOK, ThreadsInv, StoppedWakes, NoLostTask, At
<1>3. CASE At("asleep") # {}
  <2>1. PICK w \in At("asleep") : pc' = [pc EXCEPT ![w] = "notified"]
    BY <1>3 DEF AddTask
  <2>2. w \in 1..Workers /\ pc[w] = "asleep" /\ "notified" \in WorkerPcs
    BY <2>1 DEF At, WorkerPcs
  <2>3. TypeOK'
    BY <2>1, <2>2, AtMoved DEF AddTask, PoolIInv, TypeOK
  <2>4. ThreadsInv'
    BY <2>1, <2>2, ThreadsStay DEF AddTask
  <2>5. Cardinality(At("notified"))' = Cardinality(At("notified")) + 1
    BY <2>1, <2>2, NotifiedCounts DEF PoolIInv
  <2>6. NoLostTask'
    BY <1>1, <1>3, <2>5, AtFinite, FS_CardinalityType DEF PoolIInv, NoLostTask
  <2>7. StoppedWakes'
    BY <1>3 DEF AddTask, PoolIInv, StoppedWakes
  <2> QED
    BY <1>1, <2>3, <2>4, <2>6, <2>7 DEF PoolIInv
<1> QED
  BY <1>2, <1>3

(* A worker: who takes a task may have been the one that was notified.      *)
LEMMA WorkerStepKeeps ==
    ASSUME PoolIInv, NEW w \in 1..Workers, WorkerStep(w) \/ SpuriousWakeup(w)
    PROVE  PoolIInv'
<1> DEFINE to == pc'[w]
<1>1. /\ pc[w] \in WorkerPcs \ {"none", "done"}
      /\ to \in WorkerPcs \ {"none"}
      /\ pc' = [pc EXCEPT ![w] = to]
      /\ UNCHANGED <<isStarted, ownerPc, nth>>
  BY DEF WorkerStep, CheckStarted, TakeTask, WaitForTask, TakeNothing,
         ReturnFromTask, SpuriousWakeup, WorkerGoes, InTake, WorkerPcs, PoolIInv, TypeOK
<1>2. tasks' \subseteq tasks
  BY DEF WorkerStep, CheckStarted, TakeTask, WaitForTask, TakeNothing,
         ReturnFromTask, SpuriousWakeup
<1>3. IsFiniteSet(tasks')
  BY <1>2, FS_Subset DEF PoolIInv
<1>4. TypeOK'
  BY <1>1, <1>2, AtMoved DEF PoolIInv, TypeOK
<1>5. ThreadsInv'
  BY <1>1, ThreadsStay
<1>6. \A p : At(p)' = IF p = to THEN At(p) \cup {w} ELSE At(p) \ {w}
  BY <1>1, AtMoved DEF PoolIInv
<1>7. StoppedWakes'
  <2>1. CASE WaitForTask(w)
    BY <1>1, <2>1 DEF WaitForTask, StoppedWakes
  <2>2. CASE ~WaitForTask(w)
    <3>1. to # "asleep"
      BY <2>2 DEF WorkerStep, CheckStarted, TakeTask, TakeNothing, PoolIInv, TypeOK,
                  ReturnFromTask, SpuriousWakeup, WorkerGoes
    <3> QED
      BY <1>1, <1>6, <3>1 DEF PoolIInv, StoppedWakes
  <2> QED
    BY <2>1, <2>2
<1>8. NoLostTask'
  <2> USE AtFinite, FS_CardinalityType DEF PoolIInv, TypeOK
  <2>1. CASE CheckStarted(w) \/ ReturnFromTask(w)
    <3>1. pc[w] # "notified" /\ to \notin {"notified", "asleep"} /\ tasks' = tasks
      BY <2>1 DEF CheckStarted, ReturnFromTask, WorkerGoes
    <3> QED
      BY <1>1, <1>6, <3>1, NotifiedCounts DEF NoLostTask
  <2>2. CASE TakeTask(w)
    <3>1. PICK t \in tasks : tasks' = tasks \ {t}
      BY <2>2 DEF TakeTask, Top
    <3>2. Cardinality(tasks') = Cardinality(tasks) - 1
      BY <3>1, FS_RemoveElement
    <3>3. to = "task"
      BY <2>2 DEF TakeTask, WorkerGoes
    <3>4. Cardinality(At("notified"))' >= Cardinality(At("notified")) - 1
      BY <1>1, <3>3, NotifiedCounts
    <3>5. At("asleep")' = At("asleep") \ {w}
      BY <1>6, <3>3
    <3>6. /\ Cardinality(tasks) \in Nat /\ Cardinality(At("notified")) \in Nat
          /\ At("asleep")' # {} => At("asleep") # {}
      BY <3>5, AtFinite, FS_CardinalityType DEF PoolIInv
    <3>7. Cardinality(At("notified"))' \in Nat
      BY <1>6, <3>3, AtFinite, FS_RemoveElement, FS_CardinalityType
    <3> HIDE DEF to
    <3> QED
      BY <3>2, <3>4, <3>6, <3>7 DEF PoolIInv, NoLostTask
  <2>3. CASE WaitForTask(w)
    <3>1. tasks' = {}
      BY <2>3 DEF WaitForTask
    <3>2. Cardinality(At("notified"))' \in Nat
      BY <1>1, <1>6, AtFinite, FS_AddElement, FS_RemoveElement, FS_CardinalityType
    <3> QED
      BY <3>1, <3>2, FS_EmptySet DEF NoLostTask
  <2>4. CASE TakeNothing(w)
    <3>1. ~isStarted' /\ to # "asleep"
      BY <2>4, <1>1 DEF TakeNothing, WorkerGoes
    <3> QED
      BY <1>7, <3>1 DEF StoppedWakes, NoLostTask
  <2>5. CASE SpuriousWakeup(w)
    <3>1. pc[w] = "asleep" /\ to = "notified" /\ tasks' = tasks
      BY <2>5 DEF SpuriousWakeup, WorkerGoes
    <3>2. Cardinality(At("notified"))' = Cardinality(At("notified")) + 1
      BY <1>1, <3>1, NotifiedCounts
    <3> QED
      BY <1>6, <3>1, <3>2 DEF NoLostTask
  <2> QED
    BY <2>1, <2>2, <2>3, <2>4, <2>5 DEF WorkerStep
<1> QED
  BY <1>3, <1>4, <1>5, <1>7, <1>8 DEF PoolIInv

(* A pool that was never started has no tasks and nobody asleep.            *)
LEMMA PoolInit == Init => PoolIInv
<1> SUFFICES ASSUME Init PROVE PoolIInv
  OBVIOUS
<1>1. TypeOK
  <2>1. pc \in [1..Workers -> WorkerPcs]
    BY DEF Init, WorkerPcs
  <2>2. nth \in 0..Workers
    BY PriorityThreadPoolAssumption DEF Init
  <2> QED
    BY <2>1, <2>2 DEF Init, TypeOK
<1>2. ThreadsInv
  BY PriorityThreadPoolAssumption DEF Init, ThreadsInv
<1>3. At("asleep") = {}
  BY DEF Init, At
<1> QED
  BY <1>1, <1>2, <1>3, FS_EmptySet DEF Init, PoolIInv, StoppedWakes, NoLostTask

(* Every step of the pool keeps its invariant.                              *)
LEMMA PoolInvStep == PoolIInv /\ [Next]_vars => PoolIInv'
<1> SUFFICES ASSUME PoolIInv, [Next]_vars PROVE PoolIInv'
  OBVIOUS
<1>1. CASE UNCHANGED vars
  BY <1>1 DEF vars, PoolIInv, TypeOK, ThreadsInv, StoppedWakes, NoLostTask, At
<1> QED
  BY <1>1, StartStep, StopStep, AddStep, WorkerStepKeeps DEF Next

(* The invariant holds in every reachable state.                            *)
THEOREM PoolInductive == Spec => []PoolIInv
BY PoolInit, PoolInvStep, PTL DEF Spec

(* Every variable keeps its type, for any pool.                             *)
THEOREM PoolTypeTheorem == Spec => []TypeOK
<1>1. PoolIInv => TypeOK
  BY DEF PoolIInv
<1> QED
  BY <1>1, PoolInductive, PTL

(* No worker of the priority pool sleeps beside a task: while one does,     *)
(* every task has a worker that was notified for it.                        *)
THEOREM NoLostTaskTheorem == Spec => []NoLostTask
<1>1. PoolIInv => NoLostTask
  BY DEF PoolIInv
<1> QED
  BY <1>1, PoolInductive, PTL

(* stop() leaves no worker asleep in take(), and none falls asleep until    *)
(* the pool is started again.                                               *)
THEOREM StopTheorem == Spec => []StoppedWakes
<1>1. PoolIInv => StoppedWakes
  BY DEF PoolIInv
<1> QED
  BY <1>1, PoolInductive, PTL

(* The program uses its thread pool as PriorityThreadPool lets anyone: each *)
(* step is one of the pool or leaves it alone, so that what is proved of    *)
(* the pool holds here.                                                     *)
THEOREM PoolTheorem == DownloadSpec => Init /\ [][Next]_vars
<1>1. DownloadInit => Init
  BY DEF DownloadInit
<1>2. [DownloadNext]_downloadVars => [Next]_vars
  <2> SUFFICES ASSUME [DownloadNext]_downloadVars PROVE Next \/ UNCHANGED vars
    BY DEF vars
  <2>1. ASSUME MainStep \/ MainWakesUp PROVE Next \/ UNCHANGED vars
    BY <2>1, HttpDownloadAssumption
       DEF MainStep, MainWakesUp, MainStartsPool, MainAddsTask, WaitForIp,
           StartClient, WaitForImage, DestroyClient, EndLoop, MainStopsPool, Next
  <2>2. ASSUME NEW w \in 1..Workers, WorkerRuns(w)
        PROVE  Next \/ UNCHANGED vars
    BY <2>2 DEF WorkerRuns, LockUrl, TryLookUp, EndLookUp, LookUpGoes, PoolStep,
                Next, WorkerStep
  <2>3. ASSUME LoopStep PROVE UNCHANGED vars
    BY <2>3 DEF LoopStep, ConnectionComes, ConnectionEnds, ForceCloseInLoop,
                HandleHead, HandleHeadFails, OpenFails, DownloadFile, Reads
  <2>4. CASE UNCHANGED downloadVars
    BY <2>4 DEF downloadVars
  <2> QED
    BY <2>1, <2>2, <2>3, <2>4 DEF DownloadNext
<1> QED
  BY <1>1, <1>2, PTL DEF DownloadSpec

(* In the program, too, no worker sleeps beside a task, and none sleeps     *)
(* once the pool is being stopped.                                          *)
THEOREM ProgramTheorem == DownloadSpec => [](NoLostTask /\ StoppedWakes)
<1>1. PoolIInv => NoLostTask /\ StoppedWakes
  BY DEF PoolIInv
<1> QED
  BY <1>1, PoolTheorem, PoolInit, PoolInvStep, PTL

(* The types of main(), of the look-up and of the connection.               *)
ProgramTypes ==
    /\ mainPc \in MainPcs
    /\ lookPc \in {"lock", "looking", "done"}
    /\ tries \in 0..MaxTries
    /\ ip \in BOOLEAN
    /\ conn \in {"none", "up", "closing", "closed"}
    /\ downSize \in Nat
    /\ downLoaded \in BOOLEAN
    /\ fault \in Faults

(* Every step keeps them; what downloadFileThread() adds is a length.       *)
LEMMA ProgramTypesStep ==
    ASSUME StreamInv, ProgramTypes, [DownloadNext]_downloadVars
    PROVE  ProgramTypes'
<1>1. CASE MainStep \/ MainWakesUp
  BY <1>1 DEF MainStep, MainWakesUp, MainStartsPool, MainAddsTask, WaitForIp,
     StartClient, WaitForImage, DestroyClient, EndLoop, MainStopsPool, MainGoes, lookVars, fileVars,
     ProgramTypes, MainPcs
<1>2. ASSUME NEW w \in 1..Workers, WorkerRuns(w) PROVE ProgramTypes'
  <2>1. CASE LockUrl(w) \/ EndLookUp(w) \/ PoolStep(w)
    BY <2>1 DEF LockUrl, EndLookUp, LookUpGoes, PoolStep, lookVars, fileVars,
       ProgramTypes, MainPcs
  <2>2. CASE TryLookUp(w)
    <3>1. tries' \in 0..MaxTries
      BY <2>2, HttpDownloadAssumption DEF TryLookUp, ProgramTypes
    <3> QED
      BY <2>2, <3>1 DEF TryLookUp, LookUpGoes, fileVars, ProgramTypes
  <2> QED
    BY <1>2, <2>1, <2>2 DEF WorkerRuns
<1>3. CASE ConnectionComes \/ ConnectionEnds \/ ForceCloseInLoop
  BY <1>3 DEF ConnectionComes, ConnectionEnds, ForceCloseInLoop, lookVars, fileVars,
               ProgramTypes, Faults
<1>4. ASSUME NEW n \in 1..InitialSize + ExtraSize + BodySize,
             HandleHead(n) \/ HandleHeadFails(n) \/ OpenFails(n) \/ DownloadFile(n)
      PROVE  ProgramTypes'
  <2>1. CASE HandleHead(n) \/ HandleHeadFails(n) \/ OpenFails(n)
    BY <2>1 DEF HandleHead, HandleHeadFails, OpenFails, Reads, lookVars, ProgramTypes,
                Faults
  <2>2. CASE DownloadFile(n)
    <3>1. n \in Nat
      BY BufferAssumption, HttpDownloadAssumption
    <3>2. Readable(Filled(n)) \in Nat
      <4>1. Filled(n) \in Buffers(Nat)
        BY <2>2, <3>1, FilledHolds DEF DownloadFile
      <4> QED
        BY <4>1, BufferFields
    <3>3. downSize' \in Nat
      BY <2>2, <3>2 DEF DownloadFile, ProgramTypes
    <3> QED
      BY <2>2, <3>3 DEF DownloadFile, Reads, lookVars, ProgramTypes, MainPcs
  <2> QED
    BY <1>4, <2>1, <2>2
<1>5. CASE UNCHANGED downloadVars
  BY <1>5 DEF downloadVars, lookVars, fileVars, ProgramTypes
<1> QED
  BY <1>1, <1>2, <1>3, <1>4, <1>5 DEF DownloadNext, LoopStep

(* Type correctness of the program: domainToIpTask() tries no more often    *)
(* than it may, and no more is read than was sent.                          *)
THEOREM DownloadTypeTheorem == DownloadSpec => []DownloadTypeOK
<1>1. DownloadInit => ProgramTypes
  <2>1. 0 \in 0..MaxTries /\ 0 \in Nat
    BY HttpDownloadAssumption
  <2> QED
    BY <2>1 DEF DownloadInit, ProgramTypes, MainPcs, Faults
<1>2. StreamInv /\ ProgramTypes /\ [DownloadNext]_downloadVars => ProgramTypes'
  BY ProgramTypesStep
<1>3. PoolIInv /\ StreamInv /\ ProgramTypes => DownloadTypeOK
  BY DEF PoolIInv, StreamInv, ProgramTypes, DownloadTypeOK
<1> QED
  BY <1>1, <1>2, <1>3, StreamTheorem, PoolTheorem, PoolInit, PoolInvStep, PTL
     DEF DownloadSpec
=============================================================================
