----------------------------- MODULE Http_proofs -----------------------------
(***************************************************************************)
(* Proofs about Buffer and Http, for any scripts, files, sizes of the      *)
(* buffers and number of connections: the methods of Buffer keep the bytes *)
(* and their order, the parser sees what the client sent, and the client   *)
(* receives the responses as they were made, however writev cuts them.     *)
(***************************************************************************)
EXTENDS Http, SequenceTheorems, WellFoundedInduction, TLAPS

-----------------------------------------------------------------------------
(* buffer.cpp.                                                             *)

(* The shape of a buffer, as the provers like it.                          *)
LEMMA BufferShape ==
  ASSUME NEW S, NEW b, IsBuffer(b, S)
  PROVE  /\ b \in [buffer_ : Seq(S), readPos_ : Nat, writePos_ : Nat]
         /\ Len(b.buffer_) \in Nat
         /\ b.readPos_ <= b.writePos_ /\ b.writePos_ <= Len(b.buffer_)
         /\ ReadableBytes(b) \in Nat /\ WritableBytes(b) \in Nat
         /\ ReadableBytes(b) + b.readPos_ = b.writePos_
         /\ WritableBytes(b) + b.writePos_ = Len(b.buffer_)
  <1>1. Len(b.buffer_) \in Nat
    BY LenProperties DEF IsBuffer
  <1>2. b.readPos_ \in Nat /\ b.writePos_ \in Nat /\ b.buffer_ \in Seq(S)
        /\ b = [buffer_ |-> b.buffer_, readPos_ |-> b.readPos_, writePos_ |-> b.writePos_]
    BY DEF IsBuffer
  <1>3. b \in [buffer_ : Seq(S), readPos_ : Nat, writePos_ : Nat]
    BY <1>2
  <1> QED
    BY <1>1, <1>2, <1>3 DEF IsBuffer, ReadableBytes, WritableBytes

LEMMA IsBufferIf ==
  ASSUME NEW S, NEW s \in Seq(S), NEW r \in Nat, NEW w \in Nat, r <= w, w <= Len(s)
  PROVE  IsBuffer([buffer_ |-> s, readPos_ |-> r, writePos_ |-> w], S)
  BY DEF IsBuffer

LEMMA FilledFacts ==
  ASSUME NEW S, NEW n \in Nat, NUL \in S
  PROVE  Filled(n) \in Seq(S) /\ Len(Filled(n)) = n
  <1>1. Filled(n) \in [1..n -> S]
    BY DEF Filled
  <1>2. Filled(n) \in Seq(S)
    BY <1>1, SeqDef
  <1> QED
    BY <1>1, <1>2, LenProperties

(* A part of the vector.                                                   *)
LEMMA PartFacts ==
  ASSUME NEW S, NEW s \in Seq(S), NEW p \in Nat, NEW n \in Nat, p + n <= Len(s)
  PROVE  /\ SubSeq(s, p + 1, p + n) \in Seq(S)
         /\ Len(SubSeq(s, p + 1, p + n)) = n
         /\ \A i \in 1..n : SubSeq(s, p + 1, p + n)[i] = s[p + i]
  <1>0. Len(s) \in Nat
    BY LenProperties
  <1>1. \A i \in p + 1 .. p + n : s[i] \in S
    BY <1>0, ElementOfSeq
  <1>2. /\ SubSeq(s, p + 1, p + n) \in Seq(S)
        /\ Len(SubSeq(s, p + 1, p + n)) = IF p + 1 <= p + n THEN p + n - (p + 1) + 1 ELSE 0
        /\ \A i \in 1 .. p + n - (p + 1) + 1 : SubSeq(s, p + 1, p + n)[i] = s[p + 1 + i - 1]
    BY <1>1, SubSeqProperties, p + 1 \in Int, p + n \in Int
  <1> QED
    BY <1>2

LEMMA PrefixFacts ==
  ASSUME NEW S, NEW s \in Seq(S), NEW n \in Nat, n <= Len(s)
  PROVE  /\ SubSeq(s, 1, n) \in Seq(S)
         /\ Len(SubSeq(s, 1, n)) = n
         /\ \A i \in 1..n : SubSeq(s, 1, n)[i] = s[i]
  <1>1. \A i \in 1 .. n : s[i] \in S
    BY LenProperties, ElementOfSeq
  <1>2. /\ SubSeq(s, 1, n) \in Seq(S)
        /\ Len(SubSeq(s, 1, n)) = IF 1 <= n THEN n - 1 + 1 ELSE 0
        /\ \A i \in 1 .. n - 1 + 1 : SubSeq(s, 1, n)[i] = s[1 + i - 1]
    BY <1>1, SubSeqProperties, 1 \in Int, n \in Int
  <1> QED
    BY <1>2

LEMMA SuffixFacts ==
  ASSUME NEW S, NEW s \in Seq(S), NEW p \in Nat, p <= Len(s)
  PROVE  /\ SubSeq(s, p + 1, Len(s)) \in Seq(S)
         /\ Len(SubSeq(s, p + 1, Len(s))) = Len(s) - p
         /\ \A i \in 1..Len(s) - p : SubSeq(s, p + 1, Len(s))[i] = s[p + i]
  <1> DEFINE n == Len(s)
  <1>0. n \in Nat
    BY LenProperties
  <1>1. \A i \in p + 1 .. n : s[i] \in S
    BY <1>0, ElementOfSeq
  <1>2. n = Len(s)
    OBVIOUS
  <1> HIDE DEF n
  <1>3. /\ SubSeq(s, p + 1, n) \in Seq(S)
        /\ Len(SubSeq(s, p + 1, n)) = IF p + 1 <= n THEN n - (p + 1) + 1 ELSE 0
        /\ \A i \in 1 .. n - (p + 1) + 1 : SubSeq(s, p + 1, n)[i] = s[p + 1 + i - 1]
    BY <1>0, <1>1, SubSeqProperties, p + 1 \in Int, n \in Int
  <1> QED
    BY <1>0, <1>2, <1>3

LEMMA ConcatFacts ==
  ASSUME NEW S, NEW s1 \in Seq(S), NEW s2 \in Seq(S)
  PROVE  /\ s1 \o s2 \in Seq(S)
         /\ Len(s1 \o s2) = Len(s1) + Len(s2)
         /\ \A i \in 1..Len(s1) : (s1 \o s2)[i] = s1[i]
         /\ \A i \in 1..Len(s2) : (s1 \o s2)[Len(s1) + i] = s2[i]
  <1>1. /\ s1 \o s2 \in Seq(S)
        /\ Len(s1 \o s2) = Len(s1) + Len(s2)
        /\ \A i \in 1 .. Len(s1) + Len(s2) : (s1 \o s2)[i] =
              IF i <= Len(s1) THEN s1[i] ELSE s2[i - Len(s1)]
    BY ConcatProperties
  <1>2. Len(s1) \in Nat /\ Len(s2) \in Nat
    BY LenProperties
  <1>3. \A i \in 1..Len(s1) : (s1 \o s2)[i] = s1[i]
    BY <1>1, <1>2
  <1>4. ASSUME NEW i \in 1..Len(s2)
        PROVE  (s1 \o s2)[Len(s1) + i] = s2[i]
    <2>1. /\ Len(s1) + i \in 1 .. Len(s1) + Len(s2)
          /\ ~(Len(s1) + i <= Len(s1)) /\ Len(s1) + i - Len(s1) = i
      BY <1>2
    <2> QED
      BY <1>1, <2>1
  <1> QED
    BY <1>1, <1>3, <1>4

(* What is left of a part, or of a sequence, without its first elements.   *)
LEMMA DropOfPart ==
  ASSUME NEW S, NEW s \in Seq(S), NEW p \in Nat, NEW n \in Nat, NEW d \in 0..n, p + n <= Len(s)
  PROVE  SubSeq(SubSeq(s, p + 1, p + n), d + 1, n) = SubSeq(s, p + d + 1, p + n)
  <1> DEFINE a == SubSeq(s, p + 1, p + n)
             q == p + d
             m == n - d
  <1>1. a \in Seq(S) /\ Len(a) = n /\ \A i \in 1..n : a[i] = s[p + i]
    BY PartFacts
  <1>2. q \in Nat /\ m \in Nat /\ q + m = p + n /\ q + m <= Len(s) /\ d \in Nat /\ d <= n
    OBVIOUS
  <1>3. q = p + d /\ m = n - d
    OBVIOUS
  <1> HIDE DEF a, q, m
  <1>4. /\ SubSeq(a, d + 1, n) \in Seq(S) /\ Len(SubSeq(a, d + 1, n)) = m
        /\ \A i \in 1..m : SubSeq(a, d + 1, n)[i] = a[d + i]
    BY <1>1, <1>2, <1>3, SuffixFacts
  <1>5. /\ SubSeq(s, q + 1, q + m) \in Seq(S) /\ Len(SubSeq(s, q + 1, q + m)) = m
        /\ \A i \in 1..m : SubSeq(s, q + 1, q + m)[i] = s[q + i]
    BY <1>2, PartFacts
  <1>6. ASSUME NEW i \in 1..m
        PROVE  SubSeq(a, d + 1, n)[i] = SubSeq(s, q + 1, q + m)[i]
    <2>1. d + i \in 1..n /\ p + (d + i) = q + i
      BY <1>2, <1>3
    <2> QED
      BY <2>1, <1>1, <1>4, <1>5
  <1>7. SubSeq(a, d + 1, n) = SubSeq(s, q + 1, q + m)
    BY <1>4, <1>5, <1>6, SeqEqual
  <1>8. SubSeq(a, d + 1, n) = SubSeq(s, q + 1, p + n)
    BY <1>2, <1>7
  <1> QED
    BY <1>8 DEF a, q

LEMMA SplitFacts ==
  ASSUME NEW S, NEW s \in Seq(S), NEW n \in 0..Len(s)
  PROVE  /\ SubSeq(s, 1, n) \in Seq(S) /\ SubSeq(s, n + 1, Len(s)) \in Seq(S)
         /\ Len(SubSeq(s, 1, n)) = n /\ Len(SubSeq(s, n + 1, Len(s))) = Len(s) - n
         /\ SubSeq(s, 1, n) \o SubSeq(s, n + 1, Len(s)) = s
  <1>1. Len(s) \in Nat
    BY LenProperties
  <1>2. 1 \in 1..Len(s) + 1 /\ n \in 1 - 1 .. Len(s) /\ Len(s) \in n..Len(s) /\ n \in Nat
        /\ n <= Len(s)
    BY <1>1
  <1>3. SubSeq(s, 1, n) \o SubSeq(s, n + 1, Len(s)) = SubSeq(s, 1, Len(s))
    BY <1>2, ConcatAdjacentSubSeq
  <1>4. SubSeq(s, 1, Len(s)) = s
    BY SubSeqFull
  <1>5. SubSeq(s, 1, n) \in Seq(S) /\ Len(SubSeq(s, 1, n)) = n
    BY <1>2, PrefixFacts
  <1>6. SubSeq(s, n + 1, Len(s)) \in Seq(S) /\ Len(SubSeq(s, n + 1, Len(s))) = Len(s) - n
    BY <1>2, SuffixFacts
  <1> QED
    BY <1>3, <1>4, <1>5, <1>6

(* The first elements of s \o t are s.                                      *)
LEMMA BeginningFacts ==
  ASSUME NEW S, NEW s \in Seq(S), NEW t \in Seq(S)
  PROVE  Len(s) <= Len(s \o t) /\ s = SubSeq(s \o t, 1, Len(s))
  <1>1. /\ s \o t \in Seq(S) /\ Len(s \o t) = Len(s) + Len(t)
        /\ \A i \in 1..Len(s) : (s \o t)[i] = s[i]
    BY ConcatFacts
  <1>2. Len(s) \in Nat /\ Len(t) \in Nat
    BY LenProperties
  <1> DEFINE a == s \o t
             n == Len(s)
  <1>3. n <= Len(a)
    BY <1>1, <1>2
  <1>4. /\ a \in Seq(S) /\ n \in Nat /\ Len(s) = n /\ \A i \in 1..n : a[i] = s[i]
    BY <1>1, <1>2
  <1> HIDE DEF a, n
  <1>5. /\ SubSeq(a, 1, n) \in Seq(S) /\ Len(SubSeq(a, 1, n)) = n
        /\ \A i \in 1..n : SubSeq(a, 1, n)[i] = a[i]
    BY <1>3, <1>4, PrefixFacts
  <1>6. SubSeq(a, 1, n) = s
    BY <1>4, <1>5, SeqEqual
  <1> QED
    BY <1>3, <1>6 DEF a, n

(* Where a beginning of s \o t ends: within s, or within t.                 *)
LEMMA DropOfConcat ==
  ASSUME NEW S, NEW s \in Seq(S), NEW t \in Seq(S), NEW n \in 0..Len(s)
  PROVE  SubSeq(s, 1, n) \o (SubSeq(s, n + 1, Len(s)) \o t) = s \o t
  <1> DEFINE a == SubSeq(s, 1, n)
             c == SubSeq(s, n + 1, Len(s))
  <1>1. a \in Seq(S) /\ c \in Seq(S)
    BY SplitFacts
  <1>2. a \o c = s
    BY SplitFacts
  <1> HIDE DEF a, c
  <1>3. (a \o c) \o t = a \o (c \o t)
    BY <1>1, ConcatAssociative
  <1> QED
    BY <1>2, <1>3 DEF a, c

LEMMA DropOfConcat2 ==
  ASSUME NEW S, NEW s \in Seq(S), NEW t \in Seq(S), NEW n \in 0..Len(t)
  PROVE  (s \o SubSeq(t, 1, n)) \o SubSeq(t, n + 1, Len(t)) = s \o t
  <1> DEFINE a == SubSeq(t, 1, n)
             c == SubSeq(t, n + 1, Len(t))
  <1>1. a \in Seq(S) /\ c \in Seq(S)
    BY SplitFacts
  <1>2. a \o c = t
    BY SplitFacts
  <1> HIDE DEF a, c
  <1>3. (s \o a) \o c = s \o (a \o c)
    BY <1>1, ConcatAssociative
  <1> QED
    BY <1>2, <1>3 DEF a, c

LEMMA PairFacts ==
  ASSUME NEW a, NEW c
  PROVE  <<a>> \o <<c>> = <<a, c>>
  <1> DEFINE S == {a, c}
             s == <<a>> \o <<c>>
  <1>1. <<a>> \in Seq(S) /\ <<c>> \in Seq(S) /\ <<a, c>> \in Seq(S)
    OBVIOUS
  <1>2. Len(<<a>>) = 1 /\ Len(<<c>>) = 1 /\ Len(<<a, c>>) = 2 /\ <<a>>[1] = a /\ <<c>>[1] = c
        /\ <<a, c>>[1] = a /\ <<a, c>>[2] = c
    OBVIOUS
  <1>3. s \in Seq(S) /\ Len(s) = 2 /\ s[1] = a /\ s[2] = c
    <2> DEFINE u == <<a>>
               v == <<c>>
    <2>1. u \in Seq(S) /\ v \in Seq(S) /\ Len(u) = 1 /\ Len(v) = 1 /\ u[1] = a /\ v[1] = c
      BY <1>1, <1>2
    <2> HIDE DEF u, v, S
    <2>2. /\ u \o v \in Seq(S) /\ Len(u \o v) = Len(u) + Len(v)
          /\ \A i \in 1..Len(u) : (u \o v)[i] = u[i]
          /\ \A i \in 1..Len(v) : (u \o v)[Len(u) + i] = v[i]
      BY <2>1, ConcatFacts
    <2>3. (u \o v)[1] = u[1]
      BY <2>1, <2>2
    <2>4. (u \o v)[1 + 1] = v[1]
      BY <2>1, <2>2
    <2> QED
      BY <2>1, <2>2, <2>3, <2>4 DEF u, v
  <1> HIDE DEF s, S
  <1>4. \A i \in 1..Len(s) : s[i] = <<a, c>>[i]
    BY <1>2, <1>3
  <1>5. s = <<a, c>>
    BY <1>1, <1>2, <1>3, <1>4, SeqEqual
  <1> QED
    BY <1>5 DEF s

LEMMA ContentsFacts ==
  ASSUME NEW S, NEW b, IsBuffer(b, S)
  PROVE  /\ Contents(b) \in Seq(S)
         /\ Len(Contents(b)) = ReadableBytes(b)
         /\ \A i \in 1..ReadableBytes(b) : Contents(b)[i] = b.buffer_[b.readPos_ + i]
  <1>1. /\ b.buffer_ \in Seq(S) /\ b.readPos_ \in Nat /\ ReadableBytes(b) \in Nat
        /\ b.readPos_ + ReadableBytes(b) <= Len(b.buffer_)
    BY BufferShape
  <1> QED
    BY <1>1, PartFacts DEF Contents, BytesAt

(* Two buffers with the same bytes between their positions.                *)
LEMMA SameContents ==
  ASSUME NEW S, NEW b, NEW c \in Seq(S), IsBuffer(b, S), Len(c) = ReadableBytes(b),
         \A i \in 1..ReadableBytes(b) : b.buffer_[b.readPos_ + i] = c[i]
  PROVE  Contents(b) = c
  <1>1. Contents(b) \in Seq(S) /\ Len(Contents(b)) = Len(c)
    BY ContentsFacts
  <1>2. \A i \in 1..Len(Contents(b)) : Contents(b)[i] = c[i]
    BY ContentsFacts
  <1> QED
    BY <1>1, <1>2, SeqEqual

LEMMA BufferFacts ==
  ASSUME NEW S, NEW n \in Nat, NUL \in S
  PROVE  IsBuffer(Buffer(n), S) /\ ReadableBytes(Buffer(n)) = 0
  <1>0. Filled(n) \in Seq(S) /\ Len(Filled(n)) = n
    BY FilledFacts
  <1>1. Filled(n) \in Seq(S) /\ 0 \in Nat /\ 0 <= 0 /\ 0 <= Len(Filled(n))
    BY <1>0
  <1>2. IsBuffer(Buffer(n), S)
    BY <1>1, IsBufferIf DEF Buffer
  <1> QED
    BY <1>2 DEF Buffer, ReadableBytes

LEMMA RetrieveFacts ==
  ASSUME NEW S, NEW b, NEW len \in 0..ReadableBytes(b), IsBuffer(b, S)
  PROVE  /\ IsBuffer(Retrieve(b, len), S)
         /\ Retrieve(b, len).buffer_ = b.buffer_
         /\ Retrieve(b, len).readPos_ = b.readPos_ + len
         /\ ReadableBytes(Retrieve(b, len)) = ReadableBytes(b) - len
         /\ Contents(Retrieve(b, len)) = SubSeq(Contents(b), len + 1, ReadableBytes(b))
  <1> DEFINE c == Retrieve(b, len)
  <1>1. /\ c.buffer_ = b.buffer_ /\ c.readPos_ = b.readPos_ + len /\ c.writePos_ = b.writePos_
        /\ c = [buffer_ |-> c.buffer_, readPos_ |-> c.readPos_, writePos_ |-> c.writePos_]
    BY BufferShape DEF Retrieve
  <1>2. IsBuffer(c, S) /\ ReadableBytes(c) = ReadableBytes(b) - len
    BY <1>1, BufferShape DEF IsBuffer, ReadableBytes
  <1>3. ReadableBytes(b) \in Nat /\ Contents(b) \in Seq(S) /\ Len(Contents(b)) = ReadableBytes(b)
    BY BufferShape, ContentsFacts
  <1> DEFINE d == SubSeq(Contents(b), len + 1, len + (ReadableBytes(b) - len))
  <1>4. /\ d \in Seq(S) /\ Len(d) = ReadableBytes(b) - len
        /\ \A i \in 1..ReadableBytes(b) - len : d[i] = Contents(b)[len + i]
    <2>1. len \in Nat /\ ReadableBytes(b) - len \in Nat
          /\ len + (ReadableBytes(b) - len) <= Len(Contents(b))
      BY <1>3
    <2> QED
      BY <1>3, <2>1, PartFacts
  <1>5. \A i \in 1..ReadableBytes(c) : c.buffer_[c.readPos_ + i] = d[i]
    <2> SUFFICES ASSUME NEW i \in 1..ReadableBytes(b) - len
                 PROVE  b.buffer_[b.readPos_ + len + i] = d[i]
      BY <1>1, <1>2
    <2>1. len + i \in 1..ReadableBytes(b)
      BY <1>3
    <2>2. Contents(b)[len + i] = b.buffer_[b.readPos_ + (len + i)]
      BY <2>1, ContentsFacts
    <2>3. b.readPos_ + (len + i) = b.readPos_ + len + i
      BY BufferShape, <1>3
    <2>4. d[i] = Contents(b)[len + i]
      BY <1>4
    <2> QED
      BY <2>2, <2>3, <2>4
  <1>6. Contents(c) = d
    BY <1>2, <1>4, <1>5, SameContents
  <1> QED
    BY <1>1, <1>2, <1>3, <1>6

LEMMA MakeSpaceFacts ==
  ASSUME NEW S, NEW b, NEW len \in Nat, NUL \in S, IsBuffer(b, S), WritableBytes(b) < len
  PROVE  /\ IsBuffer(MakeSpace_(b, len), S)
         /\ WritableBytes(MakeSpace_(b, len)) >= len
         /\ ReadableBytes(MakeSpace_(b, len)) = ReadableBytes(b)
         /\ Contents(MakeSpace_(b, len)) = Contents(b)
  <1> DEFINE c == MakeSpace_(b, len)
             x == b.buffer_
             r == b.readPos_
             w == b.writePos_
             size == Len(x)
             k == ReadableBytes(b)
             n == w + len + 1 - size
             s == IF WritableBytes(b) + PrependableBytes(b) < len
                  THEN x \o Filled(n) ELSE Contents(b) \o SubSeq(x, k + 1, size)
             p == IF WritableBytes(b) + PrependableBytes(b) < len THEN r ELSE 0
  <1>1. c = [buffer_ |-> s, readPos_ |-> p, writePos_ |-> p + k]
    <2>1. b = [buffer_ |-> x, readPos_ |-> r, writePos_ |-> w] /\ k + r = w
          /\ k \in Nat /\ r \in Nat /\ w \in Nat
      BY BufferShape DEF IsBuffer
    <2>2. CASE WritableBytes(b) + PrependableBytes(b) < len
      <3>1. c = [b EXCEPT !.buffer_ = x \o Filled(n)]
        BY <2>2 DEF MakeSpace_
      <3>2. s = x \o Filled(n) /\ p = r /\ p + k = w
        BY <2>1, <2>2
      <3> HIDE DEF s, p, n, k, c
      <3> QED
        BY <2>1, <3>1, <3>2
    <2>3. CASE ~(WritableBytes(b) + PrependableBytes(b) < len)
      <3>1. c = [buffer_ |-> Contents(b) \o SubSeq(x, k + 1, size), readPos_ |-> 0,
                 writePos_ |-> k]
        BY <2>3 DEF MakeSpace_
      <3>2. s = Contents(b) \o SubSeq(x, k + 1, size) /\ p = 0 /\ p + k = k
        <4>1. s = Contents(b) \o SubSeq(x, k + 1, size)
          BY <2>3
        <4>2. p = 0
          BY <2>3
        <4> HIDE DEF s, p, k
        <4>3. p + k = k
          BY <2>1, <4>2
        <4> QED
          BY <4>1, <4>2, <4>3
      <3> HIDE DEF s, p, k, c
      <3> QED
        BY <3>1, <3>2
    <2> QED
      BY <2>2, <2>3
  <1>2. /\ x \in Seq(S) /\ size \in Nat /\ r \in Nat /\ w \in Nat /\ k \in Nat
        /\ r <= w /\ w <= size /\ k + r = w /\ WritableBytes(b) = size - w
        /\ PrependableBytes(b) = r /\ size = Len(x)
    BY BufferShape DEF WritableBytes, PrependableBytes
  <1>3. /\ Contents(b) \in Seq(S) /\ Len(Contents(b)) = k
        /\ \A i \in 1..k : Contents(b)[i] = x[r + i]
    BY ContentsFacts
  <1>4. /\ s \in Seq(S) /\ p \in Nat /\ p + k + len <= Len(s) /\ Len(s) \in Nat
        /\ \A i \in 1..k : s[p + i] = Contents(b)[i]
    <2>1. CASE WritableBytes(b) + PrependableBytes(b) < len
      <3>1. n \in Nat
        <4>1. (size - w) + r < len
          BY <1>2, <2>1
        <4> HIDE DEF x, r, w, size
        <4>2. w + len + 1 - size \in Nat
          BY <1>2, <4>1
        <4> QED
          BY <4>2
      <3> DEFINE y == Filled(n)
      <3>2. y \in Seq(S) /\ Len(y) = n
        BY <3>1, FilledFacts
      <3>3. s = x \o y /\ p = r
        BY <2>1
      <3>4. n = w + len + 1 - size
        OBVIOUS
      <3> HIDE DEF y, s, p, x, r, w, size, k, n
      <3>5. /\ x \o y \in Seq(S) /\ Len(x \o y) = size + n
            /\ \A i \in 1..size : (x \o y)[i] = x[i]
        <4>1. /\ x \o y \in Seq(S) /\ Len(x \o y) = Len(x) + Len(y)
              /\ \A i \in 1..Len(x) : (x \o y)[i] = x[i]
          <5>1. x \in Seq(S) /\ y \in Seq(S)
            BY <1>2, <3>2
          <5> QED
            BY <5>1, ConcatFacts
        <4> QED
          BY <4>1, <1>2, <3>2
      <3>6. \A i \in 1..k : r + i \in 1..size
        BY <1>2
      <3> QED
        BY <1>2, <1>3, <3>1, <3>3, <3>4, <3>5, <3>6
    <2>2. CASE ~(WritableBytes(b) + PrependableBytes(b) < len)
      <3> DEFINE y == SubSeq(x, k + 1, size)
      <3>1. s = Contents(b) \o y /\ p = 0
        BY <2>2
      <3> HIDE DEF s, p, x, r, w, size, k, n
      <3>2. y \in Seq(S) /\ Len(y) = size - k
        BY <1>2, SuffixFacts
      <3> HIDE DEF y
      <3>3. size - k \in Nat
        BY <1>2
      <3>4. /\ Contents(b) \o y \in Seq(S) /\ Len(Contents(b) \o y) = k + (size - k)
            /\ \A i \in 1..k : (Contents(b) \o y)[i] = Contents(b)[i]
        <4>1. LET a == Contents(b) IN
              /\ a \o y \in Seq(S) /\ Len(a \o y) = Len(a) + Len(y)
              /\ \A i \in 1..Len(a) : (a \o y)[i] = a[i]
          BY <1>3, <3>2, ConcatFacts
        <4> QED
          BY <4>1, <1>3, <3>2
      <3>5. k + len <= size /\ k + (size - k) = size
        BY <1>2, <2>2
      <3>6. s \in Seq(S) /\ Len(s) = size
        BY <3>1, <3>4, <3>5
      <3>7. p + k + len <= size /\ p \in Nat
        BY <1>2, <3>1, <3>5
      <3>8. \A i \in 1..k : s[p + i] = Contents(b)[i]
        <4>1. \A i \in 1..k : p + i = i
          BY <1>2, <3>1
        <4> HIDE DEF p
        <4>2. \A i \in 1..k : s[i] = Contents(b)[i]
          BY <3>1, <3>4
        <4> QED
          BY <4>1, <4>2
      <3> QED
        BY <1>2, <3>6, <3>7, <3>8
    <2> QED
      BY <2>1, <2>2
  <1> HIDE DEF s, p, x, r, w, size, k, n, c
  <1>5. /\ c.buffer_ = s /\ c.readPos_ = p /\ c.writePos_ = p + k
    BY <1>1
  <1>6. IsBuffer(c, S)
    <2>1. p + k \in Nat /\ p <= p + k /\ p + k <= Len(s)
      BY <1>2, <1>4
    <2> QED
      BY <1>1, <1>4, <2>1, IsBufferIf
  <1>7. ReadableBytes(c) = k
    BY <1>2, <1>4, <1>5 DEF ReadableBytes
  <1>8. WritableBytes(c) >= len
    BY <1>2, <1>4, <1>5 DEF WritableBytes
  <1>9. Contents(c) = Contents(b)
    BY <1>3, <1>4, <1>5, <1>6, <1>7, SameContents
  <1> QED
    BY <1>6, <1>7, <1>8, <1>9 DEF c, k

LEMMA EnsureWriteableFacts ==
  ASSUME NEW S, NEW b, NEW len \in Nat, NUL \in S, IsBuffer(b, S)
  PROVE  /\ IsBuffer(EnsureWriteable(b, len), S)
         /\ len <= WritableBytes(EnsureWriteable(b, len))
         /\ Contents(EnsureWriteable(b, len)) = Contents(b)
         /\ ReadableBytes(EnsureWriteable(b, len)) = ReadableBytes(b)
  <1>1. CASE WritableBytes(b) < len
    <2>1. WritableBytes(MakeSpace_(b, len)) \in Nat
      BY <1>1, MakeSpaceFacts, BufferShape
    <2> QED
      BY <1>1, <2>1, MakeSpaceFacts DEF EnsureWriteable
  <1>2. CASE ~(WritableBytes(b) < len)
    BY <1>2, BufferShape DEF EnsureWriteable
  <1> QED
    BY <1>1, <1>2

(* s is written behind what can be read, where there is room for it.       *)
LEMMA CopiedFacts ==
  ASSUME NEW S, NEW b, NEW s \in Seq(S), IsBuffer(b, S), Len(s) <= WritableBytes(b)
  PROVE  /\ IsBuffer(HasWritten(Copied(b, s), Len(s)), S)
         /\ Contents(HasWritten(Copied(b, s), Len(s))) = Contents(b) \o s
         /\ ReadableBytes(HasWritten(Copied(b, s), Len(s))) = ReadableBytes(b) + Len(s)
         /\ WritableBytes(HasWritten(Copied(b, s), Len(s))) = WritableBytes(b) - Len(s)
  <1> DEFINE c == HasWritten(Copied(b, s), Len(s))
             x == b.buffer_
             r == b.readPos_
             w == b.writePos_
             size == Len(x)
             k == ReadableBytes(b)
             m == Len(s)
             front == SubSeq(x, 1, w)
             back == SubSeq(x, w + m + 1, size)
             t == front \o s \o back
             d == Contents(b) \o s
  <1>1. c = [buffer_ |-> t, readPos_ |-> r, writePos_ |-> w + m]
    <2>1. b = [buffer_ |-> b.buffer_, readPos_ |-> b.readPos_, writePos_ |-> b.writePos_]
      BY DEF IsBuffer
    <2>2. Copied(b, s) = [buffer_ |-> t, readPos_ |-> r, writePos_ |-> w]
      <3>1. Copied(b, s) = [b EXCEPT !.buffer_ = t]
        BY DEF Copied
      <3> HIDE DEF t
      <3> QED
        BY <2>1, <3>1
    <2> HIDE DEF t, m
    <2> QED
      BY <2>2 DEF HasWritten, m
  <1>2. /\ x \in Seq(S) /\ size \in Nat /\ r \in Nat /\ w \in Nat /\ k \in Nat /\ m \in Nat
        /\ r <= w /\ w <= size /\ k + r = w /\ WritableBytes(b) = size - w
        /\ size = Len(x) /\ m = Len(s) /\ w + m <= size
    BY BufferShape, LenProperties DEF WritableBytes
  <1>3. /\ Contents(b) \in Seq(S) /\ Len(Contents(b)) = k
        /\ \A i \in 1..k : Contents(b)[i] = x[r + i]
    BY ContentsFacts
  <1> HIDE DEF x, r, w, size, k, m, c
  <1>4. /\ front \in Seq(S) /\ Len(front) = w
        /\ \A i \in 1..w : front[i] = x[i]
    BY <1>2, PrefixFacts
  <1>5. back \in Seq(S) /\ Len(back) = size - (w + m)
    <2>1. w + m \in Nat
      BY <1>2
    <2> QED
      BY <1>2, <2>1, SuffixFacts
  <1> HIDE DEF front, back
  <1>6. /\ front \o s \in Seq(S) /\ Len(front \o s) = w + m
        /\ \A i \in 1..w : (front \o s)[i] = front[i]
        /\ \A i \in 1..m : (front \o s)[w + i] = s[i]
    <2>1. /\ front \o s \in Seq(S) /\ Len(front \o s) = Len(front) + Len(s)
          /\ \A i \in 1..Len(front) : (front \o s)[i] = front[i]
          /\ \A i \in 1..Len(s) : (front \o s)[Len(front) + i] = s[i]
      <3>1. front \in Seq(S) /\ s \in Seq(S)
        BY <1>4
      <3> QED
        BY <3>1, ConcatFacts
    <2> QED
      BY <2>1, <1>2, <1>4
  <1>7. /\ t \in Seq(S) /\ Len(t) = (w + m) + (size - (w + m))
        /\ \A i \in 1..w + m : t[i] = (front \o s)[i]
    <2> DEFINE a == front \o s
    <2>1. a \in Seq(S) /\ Len(a) = w + m
      BY <1>6
    <2>2. t = a \o back
      OBVIOUS
    <2> HIDE DEF a, t
    <2>3. /\ a \o back \in Seq(S) /\ Len(a \o back) = Len(a) + Len(back)
          /\ \A i \in 1..Len(a) : (a \o back)[i] = a[i]
      BY <1>5, <2>1, ConcatFacts
    <2>4. t \in Seq(S) /\ Len(t) = (w + m) + (size - (w + m))
          /\ \A i \in 1..w + m : t[i] = a[i]
      BY <1>5, <2>1, <2>2, <2>3
    <2> QED
      BY <2>4 DEF a
  <1>8. /\ d \in Seq(S) /\ Len(d) = k + m
        /\ \A i \in 1..k : d[i] = Contents(b)[i]
        /\ \A i \in 1..m : d[k + i] = s[i]
    <2> DEFINE a == Contents(b)
    <2>1. /\ a \o s \in Seq(S) /\ Len(a \o s) = Len(a) + Len(s)
          /\ \A i \in 1..Len(a) : (a \o s)[i] = a[i]
          /\ \A i \in 1..Len(s) : (a \o s)[Len(a) + i] = s[i]
      <3>1. a \in Seq(S) /\ s \in Seq(S)
        BY <1>3
      <3> HIDE DEF a
      <3> QED
        BY <3>1, ConcatFacts
    <2> QED
      BY <2>1, <1>2, <1>3
  <1> HIDE DEF t, d
  <1>9. /\ c.buffer_ = t /\ c.readPos_ = r /\ c.writePos_ = w + m
    BY <1>1
  <1>10. IsBuffer(c, S)
    <2>1. w + m \in Nat /\ r <= w + m /\ w + m <= Len(t)
      BY <1>2, <1>7
    <2> QED
      BY <1>1, <1>2, <1>7, <2>1, IsBufferIf
  <1>11. ReadableBytes(c) = k + m /\ WritableBytes(c) = size - w - m
    <2>1. ReadableBytes(c) = w + m - r
      BY <1>2, <1>9 DEF ReadableBytes
    <2>2. WritableBytes(c) = Len(t) - (w + m)
      BY <1>9 DEF WritableBytes
    <2>3. w \in Nat /\ m \in Nat /\ size \in Nat /\ k \in Nat /\ r \in Nat /\ k + r = w
      BY <1>2
    <2>4. Len(t) = (w + m) + (size - (w + m))
      BY <1>7
    <2> QED
      BY <2>1, <2>2, <2>3, <2>4
  <1>12. ASSUME NEW i \in 1..k + m
         PROVE  t[r + i] = d[i]
    <2>1. CASE i \in 1..k
      <3>1. r + i \in 1..w /\ r + i \in 1..w + m
        BY <1>2, <2>1
      <3>2. t[r + i] = (front \o s)[r + i] /\ (front \o s)[r + i] = front[r + i]
        BY <3>1, <1>6, <1>7
      <3>3. front[r + i] = x[r + i]
        BY <3>1, <1>4
      <3>4. x[r + i] = Contents(b)[i] /\ Contents(b)[i] = d[i]
        BY <2>1, <1>3, <1>8
      <3> QED
        BY <3>2, <3>3, <3>4
    <2>2. CASE i \notin 1..k
      <3>1. i - k \in 1..m /\ r + i = w + (i - k) /\ i = k + (i - k) /\ r + i \in 1..w + m
        BY <1>2, <2>2
      <3>2. t[r + i] = (front \o s)[r + i]
        BY <3>1, <1>7
      <3>3. (front \o s)[w + (i - k)] = s[i - k] /\ d[k + (i - k)] = s[i - k]
        BY <3>1, <1>6, <1>8
      <3> QED
        BY <3>1, <3>2, <3>3
    <2> QED
      BY <2>1, <2>2
  <1>13. Contents(c) = d
    BY <1>8, <1>9, <1>10, <1>11, <1>12, SameContents
  <1> QED
    BY <1>2, <1>10, <1>11, <1>13 DEF d, c, k, m

LEMMA AppendFacts ==
  ASSUME NEW S, NEW b, NEW s \in Seq(S), NUL \in S, IsBuffer(b, S)
  PROVE  /\ IsBuffer(AppendBytes(b, s), S)
         /\ Contents(AppendBytes(b, s)) = Contents(b) \o s
         /\ ReadableBytes(AppendBytes(b, s)) = ReadableBytes(b) + Len(s)
  <1> DEFINE e == EnsureWriteable(b, Len(s))
  <1>1. Len(s) \in Nat
    BY LenProperties
  <1>2. /\ IsBuffer(e, S) /\ Len(s) <= WritableBytes(e) /\ Contents(e) = Contents(b)
        /\ ReadableBytes(e) = ReadableBytes(b)
    BY <1>1, EnsureWriteableFacts
  <1> HIDE DEF e
  <1>3. /\ IsBuffer(HasWritten(Copied(e, s), Len(s)), S)
        /\ Contents(HasWritten(Copied(e, s), Len(s))) = Contents(e) \o s
        /\ ReadableBytes(HasWritten(Copied(e, s), Len(s))) = ReadableBytes(e) + Len(s)
    BY <1>2, CopiedFacts
  <1> QED
    BY <1>2, <1>3 DEF AppendBytes, e

(* What readv() delivered, first where there was room, then from the stack. *)
LEMMA ReadFdFacts ==
  ASSUME NEW S, NEW b, NEW s \in Seq(S), NUL \in S, IsBuffer(b, S)
  PROVE  /\ IsBuffer(ReadFd(b, s), S)
         /\ Contents(ReadFd(b, s)) = Contents(b) \o s
         /\ ReadableBytes(ReadFd(b, s)) = ReadableBytes(b) + Len(s)
  <1> DEFINE w == WritableBytes(b)
  <1>1. w \in Nat /\ Len(s) \in Nat /\ ReadableBytes(b) \in Nat
    BY BufferShape, LenProperties
  <1>2. CASE Len(s) <= w
    BY <1>2, CopiedFacts DEF ReadFd
  <1>3. CASE ~(Len(s) <= w)
    <2> DEFINE s1 == SubSeq(s, 1, w)
               s2 == SubSeq(s, w + 1, Len(s))
               c == HasWritten(Copied(b, s1), w)
    <2>1. s1 \in Seq(S) /\ Len(s1) = w
      BY <1>1, <1>3, PrefixFacts
    <2>2. s2 \in Seq(S) /\ Len(s2) = Len(s) - w
      BY <1>1, <1>3, SuffixFacts
    <2>3. s1 \o s2 = s
      <3>1. 1 \in 1..Len(s) + 1 /\ w \in 1 - 1 .. Len(s) /\ Len(s) \in w..Len(s)
        BY <1>1, <1>3
      <3>2. s1 \o s2 = SubSeq(s, 1, Len(s))
        BY <3>1, ConcatAdjacentSubSeq
      <3> QED
        BY <3>2, SubSeqFull
    <2>4. ReadFd(b, s) = AppendBytes(c, s2)
      BY <1>3 DEF ReadFd
    <2> HIDE DEF s1, s2
    <2>5. /\ IsBuffer(c, S) /\ Contents(c) = Contents(b) \o s1
          /\ ReadableBytes(c) = ReadableBytes(b) + w
      <3>1. Len(s1) <= w
        BY <2>1, <1>1
      <3> QED
        BY <2>1, <3>1, CopiedFacts
    <2> HIDE DEF c
    <2>6. /\ IsBuffer(AppendBytes(c, s2), S)
          /\ Contents(AppendBytes(c, s2)) = Contents(c) \o s2
          /\ ReadableBytes(AppendBytes(c, s2)) = ReadableBytes(c) + Len(s2)
      BY <2>2, <2>5, AppendFacts
    <2>7. (Contents(b) \o s1) \o s2 = Contents(b) \o (s1 \o s2)
      <3> DEFINE a == Contents(b)
      <3>1. a \in Seq(S) /\ s1 \in Seq(S) /\ s2 \in Seq(S)
        BY <2>1, <2>2, ContentsFacts
      <3> HIDE DEF a
      <3>2. (a \o s1) \o s2 = a \o (s1 \o s2)
        BY <3>1, ConcatAssociative
      <3> QED
        BY <3>2 DEF a
    <2>8. ReadableBytes(b) + w + (Len(s) - w) = ReadableBytes(b) + Len(s)
      BY <1>1
    <2> QED
      BY <2>2, <2>3, <2>4, <2>5, <2>6, <2>7, <2>8
  <1> QED
    BY <1>2, <1>3

-----------------------------------------------------------------------------
(* The read side: what is left to parse.                                   *)

ReadInv ==
  /\ IsBuffer(readBuff_, Byte) /\ Wire \in Seq(Byte)
  /\ readN \in Nat /\ sentN \in Nat /\ readN <= sentN /\ sentN <= Len(Wire)
  /\ ReadableBytes(readBuff_) <= readN
  /\ ReadInOrder

LEMMA NulIsByte == NUL \in Byte
  BY DEF Byte

LEMMA RetrieveAllFacts ==
  ASSUME NEW S, NEW b, NUL \in S, IsBuffer(b, S)
  PROVE  IsBuffer(RetrieveAll(b), S) /\ ReadableBytes(RetrieveAll(b)) = 0
  <1>1. Len(b.buffer_) \in Nat
    BY BufferShape
  <1> QED
    BY <1>1, BufferFacts DEF RetrieveAll

(* An empty buffer is the end of whatever was read.                        *)
LEMMA EmptyInOrder ==
  ASSUME NEW S, NEW b, NEW s, NEW n \in Nat, IsBuffer(b, S), ReadableBytes(b) = 0
  PROVE  Contents(b) = SubSeq(s, n - ReadableBytes(b) + 1, n)
  <1>1. Contents(b) \in Seq(S) /\ Len(Contents(b)) = 0
    BY ContentsFacts
  <1>2. Contents(b) = << >>
    BY <1>1, EmptySeq
  <1>3. SubSeq(s, n + 1, n) = << >>
    BY SubSeqEmpty, n + 1 \in Int, n \in Int, n < n + 1
  <1> QED
    BY <1>2, <1>3

LEMMA ReadInvInit == Init => ReadInv
  <1> SUFFICES ASSUME Init PROVE ReadInv
    OBVIOUS
  <1>1. IsBuffer(readBuff_, Byte) /\ ReadableBytes(readBuff_) = 0
    BY NulIsByte, BufferFacts, SizesAssumption DEF Init
  <1>2. Wire = << >> /\ readN = 0 /\ sentN = 0
    BY DEF Init, Wire
  <1>3. Wire \in Seq(Byte) /\ Len(Wire) = 0
    BY <1>2, EmptySeq
  <1>4. ReadInOrder
    BY <1>1, <1>2, EmptyInOrder, 0 \in Nat DEF ReadInOrder
  <1> QED
    BY <1>1, <1>2, <1>3, <1>4 DEF ReadInv

LEMMA LeastNat ==
  ASSUME NEW T, T \subseteq Nat, T # {}
  PROVE  \E x \in T : \A y \in T : x <= y
  <1> DEFINE R == {ss \in Nat \X Nat : ss[1] < ss[2]}
  <1>1. IsWellFoundedOn(R, Nat)
    BY NatLessThanWellFounded DEF OpToRel
  <1>2. PICK x \in T : \A y \in T : ~ (<<y, x>> \in R)
    <2> HIDE DEF R
    <2> QED
      BY <1>1, WFMin
  <1>3. \A y \in T : ~(y < x)
    BY <1>2
  <1> QED
    BY <1>3

(* The first CRLF, if there is one, lies within what can be read.          *)
LEMMA LineEndFacts ==
  ASSUME NEW S, NEW b, IsBuffer(b, S)
  PROVE  LineEnd(b) = b.writePos_ \/ LineEnd(b) \in b.readPos_ .. b.writePos_ - 2
  <1> DEFINE ends == {p \in b.readPos_ .. b.writePos_ - 2 :
                        b.buffer_[p + 1] = "cr" /\ b.buffer_[p + 2] = "lf"}
  <1>1. CASE ends = {}
    BY <1>1 DEF LineEnd
  <1>2. CASE ends # {}
    <2>1. ends \subseteq Nat
      BY BufferShape
    <2>3. \E p \in ends : \A q \in ends : p <= q
      <3> HIDE DEF ends
      <3> QED
        BY <1>2, <2>1, LeastNat
    <2>4. (CHOOSE p \in ends : \A q \in ends : p <= q) \in ends
      BY <2>3
    <2>5. LineEnd(b) = CHOOSE p \in ends : \A q \in ends : p <= q
      BY <1>2 DEF LineEnd
    <2> QED
      BY <2>4, <2>5
  <1> QED
    BY <1>1, <1>2

(* A step that reads or parses.                                            *)

LEMMA ReadKeeps ==
  ASSUME ReadInv, NEW len \in Nat, readN + len <= sentN,
         readBuff_' = ReadFd(readBuff_, SubSeq(Wire, readN + 1, readN + len)),
         readN' = readN + len, UNCHANGED <<script, sentN>>
  PROVE  ReadInv'
  <1> DEFINE s == SubSeq(Wire, readN + 1, readN + len)
             k == ReadableBytes(readBuff_)
  <1>1. /\ IsBuffer(readBuff_, Byte) /\ Wire \in Seq(Byte) /\ Wire' = Wire
        /\ readN \in Nat /\ sentN \in Nat /\ sentN <= Len(Wire) /\ Len(Wire) \in Nat
        /\ k \in Nat /\ k <= readN
    BY BufferShape, LenProperties DEF ReadInv, Wire
  <1>2. s \in Seq(Byte) /\ Len(s) = len
    <2>1. readN + len <= Len(Wire)
      BY <1>1
    <2> QED
      BY <1>1, <2>1, PartFacts
  <1>3. SubSeq(Wire, readN - k + 1, readN) \o s = SubSeq(Wire, readN - k + 1, readN + len)
    <2> DEFINE m == readN - k + 1
               n == readN + len
    <2>1. m \in 1..Len(Wire) + 1 /\ readN \in m - 1 .. Len(Wire) /\ n \in readN..Len(Wire)
      BY <1>1
    <2> HIDE DEF m, n
    <2>2. SubSeq(Wire, m, readN) \o SubSeq(Wire, readN + 1, n) = SubSeq(Wire, m, n)
      BY <1>1, <2>1, ConcatAdjacentSubSeq
    <2> QED
      BY <2>2 DEF m, n
  <1> HIDE DEF s
  <1>4. /\ IsBuffer(readBuff_', Byte)
        /\ Contents(readBuff_') = Contents(readBuff_) \o s
        /\ ReadableBytes(readBuff_') = k + len
    BY <1>1, <1>2, NulIsByte, ReadFdFacts DEF s
  <1>5. Contents(readBuff_) = SubSeq(Wire, readN - k + 1, readN)
    BY DEF ReadInv, ReadInOrder
  <1>6. readN + len - (k + len) + 1 = readN - k + 1
    BY <1>1
  <1>7. ReadInOrder'
    <2>1. Contents(readBuff_') = SubSeq(Wire, readN - k + 1, readN + len)
      BY <1>3, <1>4, <1>5
    <2>2. readN' - ReadableBytes(readBuff_') + 1 = readN - k + 1
      <3> HIDE DEF k
      <3> QED
        BY <1>1, <1>4, <1>6
    <2> QED
      BY <1>1, <2>1, <2>2 DEF ReadInOrder
  <1> QED
    BY <1>1, <1>4, <1>7 DEF ReadInv

LEMMA RetrieveKeeps ==
  ASSUME ReadInv, NEW len \in 0..ReadableBytes(readBuff_),
         readBuff_' = Retrieve(readBuff_, len), UNCHANGED <<script, sentN, readN>>
  PROVE  ReadInv'
  <1> DEFINE k == ReadableBytes(readBuff_)
             p == readN - k
  <1>1. /\ IsBuffer(readBuff_, Byte) /\ Wire \in Seq(Byte) /\ Wire' = Wire
        /\ readN \in Nat /\ sentN \in Nat /\ readN <= sentN /\ sentN <= Len(Wire)
        /\ Len(Wire) \in Nat /\ k \in Nat /\ k <= readN /\ len \in 0..k
    BY BufferShape, LenProperties DEF ReadInv, Wire
  <1>2. /\ IsBuffer(readBuff_', Byte) /\ ReadableBytes(readBuff_') = k - len
        /\ Contents(readBuff_') = SubSeq(Contents(readBuff_), len + 1, k)
    BY <1>1, RetrieveFacts
  <1>3. Contents(readBuff_) = SubSeq(Wire, p + 1, readN)
    BY DEF ReadInv, ReadInOrder
  <1> HIDE DEF k
  <1>4. /\ p \in Nat /\ p + k = readN /\ p + k <= Len(Wire)
        /\ readN - (k - len) + 1 = p + len + 1 /\ k - len <= readN
    BY <1>1
  <1> HIDE DEF p
  <1>5. SubSeq(SubSeq(Wire, p + 1, p + k), len + 1, k) = SubSeq(Wire, p + len + 1, p + k)
    BY <1>1, <1>4, DropOfPart
  <1>6. Contents(readBuff_') = SubSeq(Wire, p + len + 1, readN)
    BY <1>2, <1>3, <1>4, <1>5
  <1>7. ReadInOrder'
    <2>1. readN' - ReadableBytes(readBuff_') + 1 = p + len + 1
      BY <1>1, <1>2, <1>4
    <2> QED
      BY <1>1, <1>6, <2>1 DEF ReadInOrder
  <1> QED
    BY <1>1, <1>2, <1>4, <1>7 DEF ReadInv

LEMMA ReadInvSame ==
  ASSUME ReadInv, UNCHANGED <<script, sentN, readN, readBuff_>>
  PROVE  ReadInv'
  BY DEF ReadInv, Wire, ReadInOrder

LEMMA ReadInvNext ==
  ASSUME ReadInv, [Next]_vars
  PROVE  ReadInv'
  <1>1. CASE init
    <2>1. script' \in Scripts \cup PoliteScripts \cup LaterScripts
      BY <1>1 DEF init
    <2>2. Wire' \in Seq(Byte) /\ Len(Wire') \in Nat
      BY <2>1, BytesAssumption, LenProperties DEF Wire
    <2>3. IsBuffer(readBuff_', Byte) /\ ReadableBytes(readBuff_') = 0
      BY <1>1, NulIsByte, RetrieveAllFacts DEF init, ReadInv
    <2>4. readN' = 0 /\ sentN' = 0
      BY <1>1 DEF init
    <2>5. ReadInOrder'
      BY <2>3, <2>4, EmptyInOrder, 0 \in Nat DEF ReadInOrder
    <2> QED
      BY <2>2, <2>3, <2>4, <2>5 DEF ReadInv
  <1>2. CASE read
    <2>1. CASE readN < sentN
      <3> DEFINE room == WritableBytes(readBuff_) + Stack
                 len == IF sentN - readN < room THEN sentN - readN ELSE room
      <3>1. readBuff_' = ReadFd(readBuff_, SubSeq(Wire, readN + 1, readN + len))
            /\ readN' = readN + len /\ UNCHANGED <<script, sentN>>
        BY <1>2, <2>1 DEF read, clientVars
      <3>2. WritableBytes(readBuff_) \in Nat /\ Stack \in Nat /\ readN \in Nat /\ sentN \in Nat
        BY BufferShape, SizesAssumption DEF ReadInv
      <3>3. len \in Nat /\ readN + len <= sentN
        BY <2>1, <3>2
      <3> HIDE DEF len
      <3> QED
        BY <3>1, <3>3, ReadKeeps
    <2>2. CASE ~(readN < sentN)
      BY <1>2, <2>2, ReadInvSame DEF read, clientVars
    <2> QED
      BY <2>1, <2>2
  <1>3. CASE parse
    <2> DEFINE b == readBuff_
               lineEnd == LineEnd(b)
    <2>1. UNCHANGED <<script, sentN, readN>>
      BY <1>3 DEF parse, clientVars
    <2>2. \/ readBuff_' = b
          \/ lineEnd # b.writePos_ /\ readBuff_' = RetrieveUntil(b, lineEnd + 2)
      BY <1>3 DEF parse
    <2>3. CASE readBuff_' = b
      BY <2>1, <2>3, ReadInvSame
    <2>4. CASE lineEnd # b.writePos_ /\ readBuff_' = RetrieveUntil(b, lineEnd + 2)
      <3>1. lineEnd \in b.readPos_ .. b.writePos_ - 2
        BY <2>4, LineEndFacts DEF ReadInv
      <3>2. /\ b.readPos_ \in Nat /\ b.writePos_ \in Nat
            /\ ReadableBytes(b) + b.readPos_ = b.writePos_ /\ ReadableBytes(b) \in Nat
        BY BufferShape DEF ReadInv
      <3> DEFINE e == lineEnd + 2
      <3>3. readBuff_' = RetrieveUntil(b, e)
        BY <2>4
      <3>4. e - b.readPos_ \in 0..ReadableBytes(b)
        <4> HIDE DEF lineEnd
        <4> QED
          BY <3>1, <3>2
      <3> HIDE DEF e
      <3>5. readBuff_' = Retrieve(b, e - b.readPos_)
        BY <3>3 DEF RetrieveUntil
      <3> QED
        BY <2>1, <3>4, <3>5, RetrieveKeeps
    <2> QED
      BY <2>2, <2>3, <2>4
  <1>4. CASE Send
    <2>1. UNCHANGED <<script, readN, readBuff_>> /\ sentN' \in sentN + 1 .. Len(Wire)
      BY <1>4 DEF Send, connVars
    <2>2. sentN \in Nat /\ readN \in Nat /\ Len(Wire) \in Nat
      BY LenProperties DEF ReadInv
    <2>3. sentN' \in Nat /\ readN <= sentN' /\ sentN' <= Len(Wire)
      BY <2>1, <2>2 DEF ReadInv
    <2> QED
      BY <2>1, <2>3 DEF ReadInv, Wire, ReadInOrder
  <1>5. CASE \/ CloseOnHup \/ DealRead_ \/ DealWrite_ \/ process \/ MakeResponse
             \/ AddStateLine_ \/ AddHeader_ \/ AddContent_ \/ Writev \/ WritevEnds
             \/ Quit \/ Receive \/ UNCHANGED vars
    <2>1. UNCHANGED <<script, sentN, readN, readBuff_>>
      BY <1>5 DEF CloseOnHup, DealRead_, DealWrite_, process, MakeResponse, AddStateLine_,
           AddHeader_, AddContent_, Writev, WritevEnds, Quit, Receive, vars, clientVars, connVars
    <2> QED
      BY <2>1, ReadInvSame
  <1> QED
    BY <1>1, <1>2, <1>3, <1>4, <1>5 DEF Next, Server

LEMMA ReadInvAlways == Spec => []ReadInv
  <1>1. ReadInv /\ [Next]_vars => ReadInv'
    BY ReadInvNext
  <1> QED
    BY <1>1, ReadInvInit, PTL DEF Spec

\* What is left to parse is the end of what was read, byte for byte, for any
\* requests and any sizes of the buffer and of the stack (buffer.cpp, parse).
THEOREM ReadInOrderAlways == Spec => []ReadInOrder
  <1>1. ReadInv => ReadInOrder
    BY DEF ReadInv
  <1> QED
    BY <1>1, ReadInvAlways, PTL

-----------------------------------------------------------------------------
(* The write side: what is left to send.                                   *)

Any == Byte \cup FileByte

Rest == IF iov_.cnt = 2
        THEN SubSeq(Data(iov_.file), iov_.base1 + 1, iov_.base1 + iov_.len1) ELSE << >>

(* The vectors are those of the buffer and of the mapped file.             *)
IovFits ==
  /\ iov_.len0 = ReadableBytes(writeBuff_)
  /\ iov_.len0 # 0 => iov_.base0 = writeBuff_.readPos_
  /\ iov_.cnt \in {1, 2}
  /\ iov_.cnt = 2 => /\ iov_.file # NoFile /\ iov_.file = response_.mmFile_
                     /\ iov_.file \in DOMAIN Files /\ Kind(iov_.file) # "none"
                     /\ iov_.base1 + iov_.len1 <= Len(Data(iov_.file))

WriteTypes ==
  /\ IsBuffer(writeBuff_, Byte)
  /\ iov_ = [base0 |-> iov_.base0, len0 |-> iov_.len0, file |-> iov_.file,
             base1 |-> iov_.base1, len1 |-> iov_.len1, cnt |-> iov_.cnt]
  /\ iov_.base0 \in Nat /\ iov_.len0 \in Nat /\ iov_.base1 \in Nat /\ iov_.len1 \in Nat
  /\ response_ = [code_ |-> response_.code_, path_ |-> response_.path_,
                  isKeepAlive_ |-> response_.isKeepAlive_, mmFile_ |-> response_.mmFile_]
  /\ got \in Seq(Any) /\ told \in Seq(Any)

LEMMA BytesAreAny ==
  ASSUME NEW b, IsBuffer(b, Byte)
  PROVE  Contents(b) \in Seq(Any)
  <1>1. Contents(b) \in Seq(Byte)
    BY ContentsFacts
  <1> QED
    BY <1>1, SeqMonotonic DEF Any

LEMMA DataIsAny ==
  ASSUME NEW p \in DOMAIN Files
  PROVE  Data(p) \in Seq(Any)
  <1>1. Data(p) \in Seq(FileByte)
    BY BytesAssumption
  <1> QED
    BY <1>1, SeqMonotonic DEF Any

LEMMA RestFacts ==
  ASSUME WriteTypes, IovFits
  PROVE  /\ Rest \in Seq(Any)
         /\ Len(Rest) = IF iov_.cnt = 2 THEN iov_.len1 ELSE 0
         /\ iov_.cnt = 2 => \A i \in 1..iov_.len1 : Rest[i] = Data(iov_.file)[iov_.base1 + i]
  <1>1. CASE iov_.cnt = 2
    <2> DEFINE d == Data(iov_.file)
               p == iov_.base1
               n == iov_.len1
    <2>1. d \in Seq(Any) /\ p \in Nat /\ n \in Nat /\ p + n <= Len(d)
      BY <1>1, DataIsAny DEF WriteTypes, IovFits
    <2>2. Rest = SubSeq(d, p + 1, p + n)
      BY <1>1 DEF Rest
    <2> HIDE DEF d, p, n
    <2>3. /\ SubSeq(d, p + 1, p + n) \in Seq(Any) /\ Len(SubSeq(d, p + 1, p + n)) = n
          /\ \A i \in 1..n : SubSeq(d, p + 1, p + n)[i] = d[p + i]
      BY <2>1, PartFacts
    <2>4. Rest \in Seq(Any) /\ Len(Rest) = n /\ \A i \in 1..n : Rest[i] = d[p + i]
      BY <2>2, <2>3
    <2> QED
      BY <1>1, <2>4 DEF d, p, n
  <1>2. CASE iov_.cnt # 2
    BY <1>2, EmptySeq DEF Rest
  <1> QED
    BY <1>1, <1>2

(* writev() takes what is left of the buffer and of the file.              *)
LEMMA GatheredFacts ==
  ASSUME WriteTypes, IovFits
  PROVE  /\ Gathered = Contents(writeBuff_) \o Rest
         /\ Gathered \in Seq(Any)
         /\ Len(Gathered) = iov_.len0 + (IF iov_.cnt = 2 THEN iov_.len1 ELSE 0)
         /\ Len(Contents(writeBuff_)) = iov_.len0
  <1> DEFINE head == BytesAt(writeBuff_, iov_.base0, iov_.len0)
             tail == [i \in 1..iov_.len1 |->
                        IF iov_.file # NoFile /\ iov_.file = response_.mmFile_
                           /\ iov_.base1 + i <= FileLen(iov_.file)
                        THEN Data(iov_.file)[iov_.base1 + i] ELSE NUL]
  <1>1. Gathered = head \o (IF iov_.cnt = 2 THEN tail ELSE << >>)
    BY DEF Gathered
  <1>2. head = Contents(writeBuff_)
    <2>1. CASE iov_.len0 = 0
      <3>1. head = << >>
        <4>1. iov_.base0 + 0 < iov_.base0 + 1 /\ iov_.base0 + 0 \in Int /\ iov_.base0 + 1 \in Int
          BY DEF WriteTypes
        <4> QED
          BY <2>1, <4>1, SubSeqEmpty DEF BytesAt
      <3>2. Contents(writeBuff_) \in Seq(Byte) /\ Len(Contents(writeBuff_)) = 0
        BY <2>1, ContentsFacts DEF WriteTypes, IovFits
      <3> QED
        BY <3>1, <3>2, EmptySeq
    <2>2. CASE iov_.len0 # 0
      BY <2>2 DEF IovFits, Contents
    <2> QED
      BY <2>1, <2>2
  <1>3. (IF iov_.cnt = 2 THEN tail ELSE << >>) = Rest
    <2>1. CASE iov_.cnt = 2
      <3>1. FileLen(iov_.file) = Len(Data(iov_.file)) /\ Len(Data(iov_.file)) \in Nat
        BY <2>1, DataIsAny, LenProperties DEF IovFits, FileLen
      <3>2. \A i \in 1..iov_.len1 : tail[i] = Data(iov_.file)[iov_.base1 + i]
        BY <2>1, <3>1 DEF IovFits, WriteTypes
      <3>3. Rest \in Seq(Any) /\ Len(Rest) = iov_.len1
            /\ \A i \in 1..iov_.len1 : Rest[i] = Data(iov_.file)[iov_.base1 + i]
        BY <2>1, RestFacts
      <3>4. Rest \in [1..iov_.len1 -> Any] /\ DOMAIN Rest = 1..iov_.len1
        BY <3>3, LenProperties
      <3>5. DOMAIN tail = 1..iov_.len1
        OBVIOUS
      <3>6. tail \in Seq(Any) /\ Len(tail) = iov_.len1
        <4>1. \A i \in 1..iov_.len1 : tail[i] \in Any
          BY <3>2, <3>3, <3>4
        <4> HIDE DEF tail
        <4>2. tail \in [1..iov_.len1 -> Any]
          BY <4>1, <3>5 DEF tail
        <4>3. iov_.len1 \in Nat
          BY DEF WriteTypes
        <4>4. tail \in Seq(Any)
          BY <4>2, <4>3, SeqDef
        <4> QED
          BY <3>5, <4>3, <4>4, LenProperties
      <3> HIDE DEF tail
      <3>7. tail = Rest
        BY <3>2, <3>3, <3>6, SeqEqual
      <3> QED
        BY <2>1, <3>7
    <2>2. CASE iov_.cnt # 2
      BY <2>2 DEF Rest
    <2> QED
      BY <2>1, <2>2
  <1> HIDE DEF head, tail
  <1>4. Contents(writeBuff_) \in Seq(Any) /\ Len(Contents(writeBuff_)) = iov_.len0
    BY BytesAreAny, ContentsFacts DEF WriteTypes, IovFits
  <1>5. Rest \in Seq(Any) /\ Len(Rest) = IF iov_.cnt = 2 THEN iov_.len1 ELSE 0
    BY RestFacts
  <1>6. /\ Contents(writeBuff_) \o Rest \in Seq(Any)
        /\ Len(Contents(writeBuff_) \o Rest) = Len(Contents(writeBuff_)) + Len(Rest)
    BY <1>4, <1>5, ConcatProperties
  <1> QED
    BY <1>1, <1>2, <1>3, <1>4, <1>5, <1>6

(* A sequence cut in two at len.                                           *)
LEMMA CutFacts ==
  ASSUME NEW S, NEW u \in Seq(S), NEW v \in Seq(S), NEW g, NEW len, u \o v = g, Len(u) = len
  PROVE  SubSeq(g, 1, len) = u
  BY BeginningFacts

(* What write() does after writev() took len bytes leaves the others.      *)
LEMMA AdvanceFacts ==
  ASSUME WriteTypes, IovFits, NEW len \in 1..Len(Gathered), Advance(len)
  PROVE  /\ IsBuffer(writeBuff_', Byte)
         /\ iov_' = [base0 |-> iov_'.base0, len0 |-> iov_'.len0, file |-> iov_'.file,
                     base1 |-> iov_'.base1, len1 |-> iov_'.len1, cnt |-> iov_'.cnt]
         /\ iov_'.base0 \in Nat /\ iov_'.len0 \in Nat /\ iov_'.base1 \in Nat /\ iov_'.len1 \in Nat
         /\ response_' = response_ => IovFits'
         /\ SubSeq(Gathered, 1, len) \in Seq(Any)
         /\ Contents(writeBuff_') \o Rest' \in Seq(Any)
         /\ SubSeq(Gathered, 1, len) \o (Contents(writeBuff_') \o Rest') = Gathered
  <1> DEFINE c == Contents(writeBuff_)
             k == iov_.len0
  <1>1. /\ iov_ = [base0 |-> iov_.base0, len0 |-> iov_.len0, file |-> iov_.file,
                   base1 |-> iov_.base1, len1 |-> iov_.len1, cnt |-> iov_.cnt]
        /\ iov_.base0 \in Nat /\ k \in Nat /\ iov_.base1 \in Nat /\ iov_.len1 \in Nat
        /\ IsBuffer(writeBuff_, Byte) /\ k = ReadableBytes(writeBuff_)
    BY DEF WriteTypes, IovFits
  <1>2. /\ Gathered = c \o Rest
        /\ Len(Gathered) = k + (IF iov_.cnt = 2 THEN iov_.len1 ELSE 0)
    BY GatheredFacts
  <1>3. c \in Seq(Any) /\ Rest \in Seq(Any)
    BY BytesAreAny, RestFacts DEF WriteTypes
  <1>4. Len(c) = k /\ Len(Rest) = IF iov_.cnt = 2 THEN iov_.len1 ELSE 0
    BY GatheredFacts, RestFacts
  <1>5. CASE len > k
    <2> DEFINE d == len - k
               n == iov_.len1
               u == c \o SubSeq(Rest, 1, d)
    <2>1. iov_.cnt = 2 /\ d \in 1..n /\ d \in 0..n /\ d \in Nat /\ n - d \in Nat /\ k + d = len
      BY <1>1, <1>2, <1>5
    <2>2. iov_' = [base0 |-> iov_.base0, len0 |-> 0, file |-> iov_.file,
                   base1 |-> iov_.base1 + d, len1 |-> n - d, cnt |-> iov_.cnt]
      BY <1>1, <1>5 DEF Advance
    <2>3. writeBuff_' = IF k # 0 THEN RetrieveAll(writeBuff_) ELSE writeBuff_
      BY <1>5 DEF Advance
    <2>4. IsBuffer(writeBuff_', Byte) /\ ReadableBytes(writeBuff_') = 0
      BY <1>1, <2>3, RetrieveAllFacts, NulIsByte
    <2>5. Contents(writeBuff_') = << >>
      <3>1. Contents(writeBuff_') \in Seq(Byte) /\ Len(Contents(writeBuff_')) = 0
        BY <2>4, ContentsFacts
      <3> QED
        BY <3>1, EmptySeq
    <2>6. /\ SubSeq(Rest, 1, d) \in Seq(Any) /\ SubSeq(Rest, d + 1, n) \in Seq(Any)
          /\ Len(SubSeq(Rest, 1, d)) = d
      <3>1. Len(Rest) = n /\ d \in 0..Len(Rest)
        BY <1>4, <2>1
      <3> HIDE DEF d, n
      <3>2. /\ SubSeq(Rest, 1, d) \in Seq(Any) /\ SubSeq(Rest, d + 1, Len(Rest)) \in Seq(Any)
            /\ Len(SubSeq(Rest, 1, d)) = d
        BY <1>3, <3>1, SplitFacts
      <3> QED
        BY <3>1, <3>2
    <2>7. Rest' = SubSeq(Rest, d + 1, n)
      <3> DEFINE f == Data(iov_.file)
                 p == iov_.base1
      <3>1. f \in Seq(Any) /\ p + n <= Len(f) /\ p \in Nat /\ n \in Nat
        BY <1>1, <2>1, DataIsAny DEF IovFits
      <3>2. Rest = SubSeq(f, p + 1, p + n)
        BY <2>1 DEF Rest
      <3>3. Rest' = SubSeq(f, p + d + 1, p + d + (n - d))
        BY <2>1, <2>2 DEF Rest, Data
      <3>4. p + d + (n - d) = p + n
        BY <2>1, <3>1
      <3> HIDE DEF f, p, n, d
      <3>5. SubSeq(SubSeq(f, p + 1, p + n), d + 1, n) = SubSeq(f, p + d + 1, p + n)
        BY <2>1, <3>1, DropOfPart
      <3> QED
        BY <3>2, <3>3, <3>4, <3>5
    <2>8. u \in Seq(Any) /\ Len(u) = len
      <3>1. u \in Seq(Any) /\ Len(u) = Len(c) + Len(SubSeq(Rest, 1, d))
        BY <1>3, <2>6, ConcatProperties
      <3> HIDE DEF u, d
      <3> QED
        BY <3>1, <1>4, <2>1, <2>6
    <2>9. u \o Rest' = Gathered
      <3>1. (c \o SubSeq(Rest, 1, d)) \o SubSeq(Rest, d + 1, Len(Rest)) = c \o Rest
        BY <1>3, <1>4, <2>1, DropOfConcat2
      <3> QED
        BY <3>1, <1>2, <1>4, <2>1, <2>7
    <2>n. n \in Nat
      BY <1>1
    <2>10. Rest' \in Seq(Any)
      BY <2>6, <2>7
    <2>11. Contents(writeBuff_') \o Rest' = Rest'
      BY <2>5, <2>10, ConcatEmptySeq
    <2> HIDE DEF u, d, n
    <2>12. SubSeq(Gathered, 1, len) = u
      BY <2>8, <2>9, <2>10, CutFacts, SMTT(30)
    <2>13. ASSUME response_' = response_ PROVE IovFits'
      <3>1. iov_.file # NoFile /\ iov_.file = response_.mmFile_ /\ iov_.file \in DOMAIN Files
            /\ Kind(iov_.file) # "none" /\ iov_.base1 + n <= Len(Data(iov_.file))
        BY <2>1 DEF IovFits, n
      <3>2. iov_.base1 + d + (n - d) <= Len(Data(iov_.file))
        <4>1. iov_.base1 + d + (n - d) = iov_.base1 + n
          BY <1>1, <2>1, <2>n
        <4> QED
          BY <3>1, <4>1
      <3> QED
        BY <2>1, <2>2, <2>4, <2>13, <3>1, <3>2 DEF IovFits, Kind, Data
    <2>14. iov_.base1 + d \in Nat
      BY <1>1, <2>1
    <2> QED
      BY <1>1, <2>1, <2>2, <2>4, <2>8, <2>9, <2>10, <2>11, <2>12, <2>13, <2>14
  <1>6. CASE ~(len > k)
    <2> DEFINE u == SubSeq(c, 1, len)
               v == SubSeq(c, len + 1, k)
    <2>1. len \in 0..k /\ len \in Nat /\ k - len \in Nat
      BY <1>1, <1>2, <1>6
    <2>2. iov_' = [base0 |-> iov_.base0 + len, len0 |-> k - len, file |-> iov_.file,
                   base1 |-> iov_.base1, len1 |-> iov_.len1, cnt |-> iov_.cnt]
      BY <1>1, <1>6 DEF Advance
    <2>3. writeBuff_' = Retrieve(writeBuff_, len)
      BY <1>6 DEF Advance
    <2>4. /\ IsBuffer(writeBuff_', Byte) /\ writeBuff_'.readPos_ = writeBuff_.readPos_ + len
          /\ ReadableBytes(writeBuff_') = k - len
          /\ Contents(writeBuff_') = v
      BY <1>1, <2>1, <2>3, RetrieveFacts
    <2>5. Rest' = Rest
      BY <2>2 DEF Rest, Data
    <2>6. u \in Seq(Any) /\ v \in Seq(Any) /\ Len(u) = len
      BY <1>3, <1>4, <2>1, SplitFacts
    <2>7. u \o (v \o Rest) = c \o Rest
      <3>1. SubSeq(c, 1, len) \o (SubSeq(c, len + 1, Len(c)) \o Rest) = c \o Rest
        BY <1>3, <1>4, <2>1, DropOfConcat
      <3> QED
        BY <3>1, <1>4
    <2>8. v \o Rest \in Seq(Any)
      BY <1>3, <2>6, ConcatProperties
    <2> HIDE DEF u, v
    <2>9. SubSeq(Gathered, 1, len) = u
      BY <1>2, <2>6, <2>7, <2>8, CutFacts
    <2>10. ASSUME response_' = response_ PROVE IovFits'
      <3>1. k - len # 0 => iov_.base0 = writeBuff_.readPos_
        BY <1>1, <2>1 DEF IovFits
      <3> QED
        BY <2>2, <2>4, <2>10, <3>1 DEF IovFits, Kind, Data
    <2>11. iov_.base0 + len \in Nat
      BY <1>1, <2>1
    <2> QED
      BY <1>1, <1>2, <2>1, <2>2, <2>4, <2>5, <2>6, <2>7, <2>8, <2>9, <2>10, <2>11
  <1> QED
    BY <1>5, <1>6

(* Where the object is in the life of a response.                          *)
Idle == {"in", "read", "process", "parse", "good", "bad"}
Making == {"AddStateLine_", "AddHeader_", "AddContent_"}
Sending == {"out", "write"}
Codes == {"200"} \cup DOMAIN CODE_PATH
KeepAliveByte == IF response_.isKeepAlive_ THEN "keep-alive" ELSE "close"

WriteInv ==
  /\ WriteTypes /\ ReceivedExact
  /\ pc \in Idle \cup Making \cup Sending \cup {"closed"}
  /\ pc \in Idle \cup Making => told = got
  /\ pc \in Idle \cup {"AddStateLine_"} => Contents(writeBuff_) = << >>
  /\ pc \in Making => response_.code_ \in Codes /\ response_.path_ # ""
  /\ pc = "AddHeader_" => Contents(writeBuff_) = <<response_.code_>>
  /\ pc = "AddContent_" => Contents(writeBuff_) = <<response_.code_, KeepAliveByte>>
  /\ pc \in Sending => IovFits /\ told = got \o (Contents(writeBuff_) \o Rest)

LEMMA EmptyContents ==
  ASSUME NEW S, NEW b, IsBuffer(b, S), ReadableBytes(b) = 0
  PROVE  Contents(b) = << >>
  <1>1. Contents(b) \in Seq(S) /\ Len(Contents(b)) = 0
    BY ContentsFacts
  <1> QED
    BY <1>1, EmptySeq

LEMMA NothingReceived ==
  ASSUME got = << >>, told = << >>
  PROVE  ReceivedExact
  <1>1. Len(<< >>) = 0 /\ << >> = SubSeq(<< >>, 1, 0)
    BY EmptySeq, SubSeqEmpty, 1 \in Int, 0 \in Int, 0 < 1
  <1> QED
    BY <1>1 DEF ReceivedExact

LEMMA WriteInvInit == Init => WriteInv
  <1> SUFFICES ASSUME Init PROVE WriteInv
    OBVIOUS
  <1>1. IsBuffer(writeBuff_, Byte)
    BY NulIsByte, BufferFacts, SizesAssumption DEF Init
  <1>2. got \in Seq(Any) /\ told \in Seq(Any)
    BY EmptySeq DEF Init
  <1>3. PICK garbage \in 0..1 :
          iov_ = [base0 |-> 0, len0 |-> 0, file |-> NoFile, base1 |-> 0, len1 |-> garbage, cnt |-> 0]
    BY DEF Init
  <1>4. WriteTypes
    <2>1. /\ iov_ = [base0 |-> iov_.base0, len0 |-> iov_.len0, file |-> iov_.file,
                     base1 |-> iov_.base1, len1 |-> iov_.len1, cnt |-> iov_.cnt]
          /\ iov_.base0 \in Nat /\ iov_.len0 \in Nat /\ iov_.base1 \in Nat /\ iov_.len1 \in Nat
      BY <1>3
    <2>2. response_ = [code_ |-> response_.code_, path_ |-> response_.path_,
                       isKeepAlive_ |-> response_.isKeepAlive_, mmFile_ |-> response_.mmFile_]
      BY DEF Init, NoResponse
    <2> QED
      BY <1>1, <1>2, <2>1, <2>2 DEF WriteTypes
  <1>5. pc = "closed" /\ got = << >> /\ told = << >>
    BY DEF Init
  <1> QED
    BY <1>4, <1>5, NothingReceived DEF WriteInv, Idle, Making, Sending

(* A step that leaves the response and the client alone.                   *)
LEMMA WriteInvSame ==
  ASSUME WriteInv, UNCHANGED <<writeBuff_, iov_, response_, got, told>>,
         \/ pc \in Idle /\ pc' \in Idle
         \/ pc \in Sending /\ pc' \in Sending
         \/ pc' = pc
  PROVE  WriteInv'
  <1>1. WriteTypes' /\ ReceivedExact' /\ (IovFits => IovFits') /\ Rest' = Rest
    BY DEF WriteInv, WriteTypes, ReceivedExact, IovFits, Rest, Kind, Data
  <1>2. Contents(writeBuff_') = Contents(writeBuff_) /\ KeepAliveByte' = KeepAliveByte
    BY DEF KeepAliveByte
  <1> QED
    BY <1>1, <1>2 DEF WriteInv, Idle, Making, Sending

(* Close() changes what is mapped only.                                    *)
LEMMA CloseKeeps ==
  ASSUME WriteTypes, Close, ReceivedExact', got' \in Seq(Any), told' \in Seq(Any),
         IsBuffer(writeBuff_', Byte),
         iov_' = [base0 |-> iov_'.base0, len0 |-> iov_'.len0, file |-> iov_'.file,
                  base1 |-> iov_'.base1, len1 |-> iov_'.len1, cnt |-> iov_'.cnt],
         iov_'.base0 \in Nat, iov_'.len0 \in Nat, iov_'.base1 \in Nat, iov_'.len1 \in Nat
  PROVE  WriteInv'
  <1>1. response_' = [code_ |-> response_.code_, path_ |-> response_.path_,
                      isKeepAlive_ |-> response_.isKeepAlive_, mmFile_ |-> NoFile]
    BY DEF WriteTypes, Close
  <1>2. WriteTypes'
    BY <1>1 DEF WriteTypes
  <1>3. pc' = "closed"
    BY DEF Close
  <1> QED
    BY <1>2, <1>3 DEF WriteInv, Idle, Making, Sending

LEMMA InitKeeps == ASSUME WriteInv, init PROVE WriteInv'
  <1>1. IsBuffer(writeBuff_', Byte) /\ ReadableBytes(writeBuff_') = 0
    BY NulIsByte, RetrieveAllFacts DEF init, WriteInv, WriteTypes
  <1>2. Contents(writeBuff_') = << >>
    BY <1>1, EmptyContents
  <1>3. got' = << >> /\ told' = << >> /\ pc' = "in" /\ UNCHANGED <<response_, iov_>>
    BY DEF init
  <1>4. got' \in Seq(Any) /\ told' \in Seq(Any)
    BY <1>3, EmptySeq
  <1>5. WriteTypes'
    BY <1>1, <1>3, <1>4 DEF WriteInv, WriteTypes
  <1>6. ReceivedExact'
    <2>1. Len(<< >>) = 0 /\ << >> = SubSeq(<< >>, 1, 0)
      BY EmptySeq, SubSeqEmpty, 1 \in Int, 0 \in Int, 0 < 1
    <2> QED
      BY <1>3, <2>1 DEF ReceivedExact
  <1> QED
    BY <1>2, <1>3, <1>5, <1>6 DEF WriteInv, Idle, Making, Sending

LEMMA MakeResponseKeeps == ASSUME WriteInv, MakeResponse PROVE WriteInv'
  <1> DEFINE p == request_.path_
             code == StatusOf(p, IF pc = "good" THEN "200" ELSE "400")
  <1>1. /\ response_'.code_ = code /\ response_'.path_ = ErrorHtml_(code, p)
        /\ response_' = [code_ |-> response_'.code_, path_ |-> response_'.path_,
                         isKeepAlive_ |-> response_'.isKeepAlive_, mmFile_ |-> response_'.mmFile_]
        /\ pc' = "AddStateLine_" /\ UNCHANGED <<writeBuff_, iov_, got, told>> /\ pc \in Idle
    BY DEF MakeResponse, Idle
  <1>2. code \in Codes
    BY DEF StatusOf, Codes, CODE_PATH
  <1>3. ErrorHtml_(code, p) # ""
    <2>1. CASE code \in DOMAIN CODE_PATH
      BY <2>1 DEF ErrorHtml_, CODE_PATH
    <2>2. CASE code \notin DOMAIN CODE_PATH
      <3>1. code = "200"
        BY <1>2, <2>2 DEF Codes
      <3>2. Kind(p) # "dir"
        BY <3>1 DEF StatusOf
      <3>3. p # ""
        BY <3>2 DEF Kind
      <3> QED
        BY <2>2, <3>3 DEF ErrorHtml_
    <2> QED
      BY <2>1, <2>2
  <1>4. WriteTypes' /\ ReceivedExact'
    BY <1>1 DEF WriteInv, WriteTypes, ReceivedExact
  <1> HIDE DEF code
  <1> QED
    BY <1>1, <1>2, <1>3, <1>4 DEF WriteInv, Idle, Making, Sending

(* The buffer with bytes appended.                                         *)
LEMMA AppendKeeps ==
  ASSUME WriteTypes, NEW s \in Seq(Byte), writeBuff_' = AppendBytes(writeBuff_, s)
  PROVE  IsBuffer(writeBuff_', Byte) /\ Contents(writeBuff_') = Contents(writeBuff_) \o s
  BY NulIsByte, AppendFacts DEF WriteTypes

LEMMA AddStateLineKeeps == ASSUME WriteInv, AddStateLine_ PROVE WriteInv'
  <1>1. /\ pc = "AddStateLine_" /\ pc' = "AddHeader_" /\ UNCHANGED <<response_, iov_, got, told>>
        /\ writeBuff_' = AppendBytes(writeBuff_, <<response_.code_>>)
    BY DEF AddStateLine_
  <1>2. <<response_.code_>> \in Seq(Byte)
    <2>1. response_.code_ \in Byte
      BY <1>1 DEF WriteInv, Making, Codes, Byte
    <2> QED
      BY <2>1
  <1>3. /\ IsBuffer(writeBuff_', Byte)
        /\ Contents(writeBuff_') = Contents(writeBuff_) \o <<response_.code_>>
    BY <1>1, <1>2, AppendKeeps DEF WriteInv
  <1>4. Contents(writeBuff_') = <<response_.code_>>
    BY <1>1, <1>2, <1>3, ConcatEmptySeq DEF WriteInv
  <1>5. WriteTypes' /\ ReceivedExact'
    BY <1>1, <1>3 DEF WriteInv, WriteTypes, ReceivedExact
  <1> QED
    BY <1>1, <1>4, <1>5 DEF WriteInv, Idle, Making, Sending

LEMMA AddHeaderKeeps == ASSUME WriteInv, AddHeader_ PROVE WriteInv'
  <1>1. /\ pc = "AddHeader_" /\ pc' = "AddContent_" /\ UNCHANGED <<response_, iov_, got, told>>
        /\ writeBuff_' = AppendBytes(writeBuff_, <<KeepAliveByte>>)
        /\ KeepAliveByte' = KeepAliveByte
    BY DEF AddHeader_, KeepAliveByte
  <1>2. <<KeepAliveByte>> \in Seq(Byte)
    BY DEF KeepAliveByte, Byte
  <1>3. /\ IsBuffer(writeBuff_', Byte)
        /\ Contents(writeBuff_') = Contents(writeBuff_) \o <<KeepAliveByte>>
    BY <1>1, <1>2, AppendKeeps DEF WriteInv
  <1>4. Contents(writeBuff_') = <<response_.code_, KeepAliveByte>>
    <2>1. Contents(writeBuff_) = <<response_.code_>>
      BY <1>1 DEF WriteInv
    <2> QED
      BY <1>3, <2>1, PairFacts
  <1>5. WriteTypes' /\ ReceivedExact'
    BY <1>1, <1>3 DEF WriteInv, WriteTypes, ReceivedExact
  <1> QED
    BY <1>1, <1>4, <1>5 DEF WriteInv, Idle, Making, Sending

LEMMA TripleFacts ==
  ASSUME NEW a, NEW c, NEW e
  PROVE  <<a, c>> \o <<e>> = <<a, c, e>>
  <1> DEFINE S == {a, c, e}
             u == <<a, c>>
             v == <<e>>
             t == <<a, c, e>>
  <1>1. u \in Seq(S) /\ v \in Seq(S) /\ t \in Seq(S)
    OBVIOUS
  <1>2. /\ Len(u) = 2 /\ Len(v) = 1 /\ Len(t) = 3
        /\ u[1] = a /\ u[2] = c /\ v[1] = e /\ t[1] = a /\ t[2] = c /\ t[3] = e
    OBVIOUS
  <1> HIDE DEF u, v, t, S
  <1>3. /\ u \o v \in Seq(S) /\ Len(u \o v) = Len(u) + Len(v)
        /\ \A i \in 1..Len(u) : (u \o v)[i] = u[i]
        /\ \A i \in 1..Len(v) : (u \o v)[Len(u) + i] = v[i]
    BY <1>1, ConcatFacts
  <1>4. (u \o v)[1] = a /\ (u \o v)[2] = c
    BY <1>2, <1>3
  <1>5. (u \o v)[2 + 1] = e
    BY <1>2, <1>3
  <1>6. Len(u \o v) = 3
    BY <1>2, <1>3
  <1>7. \A i \in 1..Len(u \o v) : (u \o v)[i] = t[i]
    BY <1>2, <1>4, <1>5, <1>6
  <1>8. u \o v = t
    BY <1>1, <1>2, <1>3, <1>6, <1>7, SeqEqual
  <1> QED
    BY <1>8 DEF u, v, t

LEMMA AddContentKeeps == ASSUME WriteInv, AddContent_ PROVE WriteInv'
  <1> DEFINE code == response_.code_
             path == response_.path_
  <1>1. PICK opened \in CanOpen(path) :
          /\ writeBuff_' = AppendBytes(writeBuff_, IF opened THEN <<"length">> ELSE <<"length", "error">>)
          /\ response_' = [response_ EXCEPT !.mmFile_ = IF opened THEN path ELSE NoFile]
          /\ iov_' = IovOf(writeBuff_', path, opened)
          /\ told' = told \o Due(response_, opened)
    BY DEF AddContent_
  <1>2. pc = "AddContent_" /\ pc' = "out" /\ got' = got
    BY DEF AddContent_
  <1>3. /\ WriteTypes /\ told = got /\ path # "" /\ code \in Codes
        /\ Contents(writeBuff_) = <<code, KeepAliveByte>>
    BY <1>2 DEF WriteInv, Making
  <1>4. /\ iov_ = [base0 |-> iov_.base0, len0 |-> iov_.len0, file |-> iov_.file,
                   base1 |-> iov_.base1, len1 |-> iov_.len1, cnt |-> iov_.cnt]
        /\ iov_.base1 \in Nat /\ iov_.len1 \in Nat
        /\ response_ = [code_ |-> code, path_ |-> path,
                        isKeepAlive_ |-> response_.isKeepAlive_, mmFile_ |-> response_.mmFile_]
        /\ got \in Seq(Any)
    BY <1>3 DEF WriteTypes
  <1>5. code \in Any /\ KeepAliveByte \in Any /\ "length" \in Any /\ "error" \in Any
    BY <1>3 DEF Any, Byte, Codes, KeepAliveByte
  <1>6. /\ <<code, KeepAliveByte>> \in Seq(Any) /\ <<"length">> \in Seq(Any)
        /\ <<"error">> \in Seq(Any) /\ <<code, KeepAliveByte, "length">> \in Seq(Any)
    BY <1>5
  <1>7. "length" \in Byte /\ "error" \in Byte
    BY DEF Byte
  <1>8. <<code, KeepAliveByte>> \o <<"length">> = <<code, KeepAliveByte, "length">>
    BY TripleFacts
  <1>9. CASE opened
    <2> DEFINE d == Data(path)
    <2>1. Kind(path) # "none" /\ path \in DOMAIN Files
      <3>1. Kind(path) # "none"
        BY <1>9 DEF CanOpen
      <3> QED
        BY <1>3, <3>1 DEF Kind
    <2>2. FileLen(path) = Len(d) /\ d \in Seq(Any) /\ Len(d) \in Nat
      BY <2>1, DataIsAny, LenProperties DEF FileLen
    <2>3. IsBuffer(writeBuff_', Byte) /\ Contents(writeBuff_') = <<code, KeepAliveByte, "length">>
      <3>1. <<"length">> \in Seq(Byte) /\ writeBuff_' = AppendBytes(writeBuff_, <<"length">>)
        BY <1>1, <1>7, <1>9
      <3> QED
        BY <1>3, <1>8, <3>1, AppendKeeps
    <2>4. iov_' = [base0 |-> writeBuff_'.readPos_, len0 |-> ReadableBytes(writeBuff_'),
                   file |-> path, base1 |-> 0, len1 |-> FileLen(path), cnt |-> 2]
      BY <1>1, <1>4, <1>9 DEF IovOf
    <2>5. response_' = [code_ |-> code, path_ |-> path,
                        isKeepAlive_ |-> response_.isKeepAlive_, mmFile_ |-> path]
      BY <1>1, <1>4, <1>9
    <2>6. Rest' = d
      <3>1. Rest' = SubSeq(d, 0 + 1, 0 + Len(d))
        BY <2>2, <2>4 DEF Rest, Data
      <3>2. 0 + 1 = 1 /\ 0 + Len(d) = Len(d)
        BY <2>2
      <3>3. SubSeq(d, 1, Len(d)) = d
        BY <2>2, SubSeqFull
      <3> QED
        BY <3>1, <3>2, <3>3
    <2>7. Due(response_, opened) = <<code, KeepAliveByte, "length">> \o d
      BY <1>9 DEF Due, KeepAliveByte
    <2>8. Due(response_, opened) = Contents(writeBuff_') \o Rest'
      BY <2>3, <2>6, <2>7
    <2>9. Due(response_, opened) \in Seq(Any)
      BY <1>6, <2>2, <2>7, ConcatProperties
    <2>10. told' = got \o Due(response_, opened) /\ told' \in Seq(Any)
      BY <1>1, <1>3, <1>4, <2>9, ConcatProperties
    <2>11. ReceivedExact'
      BY <1>2, <1>4, <2>9, <2>10, BeginningFacts DEF ReceivedExact
    <2>12. ReadableBytes(writeBuff_') \in Nat /\ writeBuff_'.readPos_ \in Nat
      BY <2>3, BufferShape
    <2>13. WriteTypes'
      BY <1>2, <1>4, <2>2, <2>3, <2>4, <2>5, <2>10, <2>12 DEF WriteTypes
    <2>14. 0 + Len(d) <= Len(d)
      BY <2>2
    <2>15. IovFits'
      BY <1>3, <2>1, <2>2, <2>4, <2>5, <2>14 DEF IovFits, Kind, Data, NoFile
    <2> QED
      BY <1>2, <2>8, <2>10, <2>11, <2>13, <2>15 DEF WriteInv, Idle, Making, Sending
  <1>10. CASE ~opened
    <2>1. <<"length">> \o <<"error">> = <<"length", "error">>
      BY PairFacts
    <2>2. IsBuffer(writeBuff_', Byte)
          /\ Contents(writeBuff_') = <<code, KeepAliveByte, "length">> \o <<"error">>
      <3>1. /\ <<"length", "error">> \in Seq(Byte)
            /\ writeBuff_' = AppendBytes(writeBuff_, <<"length", "error">>)
        BY <1>1, <1>7, <1>10
      <3>2. IsBuffer(writeBuff_', Byte)
            /\ Contents(writeBuff_') = <<code, KeepAliveByte>> \o <<"length", "error">>
        BY <1>3, <3>1, AppendKeeps
      <3>3. (<<code, KeepAliveByte>> \o <<"length">>) \o <<"error">>
              = <<code, KeepAliveByte>> \o (<<"length">> \o <<"error">>)
        BY <1>6, ConcatAssociative
      <3> QED
        BY <1>8, <2>1, <3>2, <3>3
    <2>3. iov_' = [base0 |-> writeBuff_'.readPos_, len0 |-> ReadableBytes(writeBuff_'),
                   file |-> iov_.file, base1 |-> iov_.base1, len1 |-> iov_.len1, cnt |-> 1]
      BY <1>1, <1>4, <1>10 DEF IovOf
    <2>4. response_' = [code_ |-> code, path_ |-> path,
                        isKeepAlive_ |-> response_.isKeepAlive_, mmFile_ |-> NoFile]
      BY <1>1, <1>4, <1>10
    <2>5. Rest' = << >>
      BY <2>3 DEF Rest
    <2>6. Due(response_, opened) = <<code, KeepAliveByte, "length">> \o <<"error">>
      BY <1>10 DEF Due, KeepAliveByte
    <2>7. Due(response_, opened) \in Seq(Any)
      BY <1>6, <2>6, ConcatProperties
    <2>8. Due(response_, opened) = Contents(writeBuff_') \o Rest'
      <3> DEFINE w == Contents(writeBuff_')
      <3>1. w \in Seq(Any) /\ w = Due(response_, opened)
        BY <2>2, <2>6, <2>7
      <3> HIDE DEF w
      <3>2. w \o << >> = w
        BY <3>1, ConcatEmptySeq
      <3> QED
        BY <2>5, <3>1, <3>2 DEF w
    <2>9. told' = got \o Due(response_, opened) /\ told' \in Seq(Any)
      BY <1>1, <1>3, <1>4, <2>7, ConcatProperties
    <2>10. ReceivedExact'
      BY <1>2, <1>4, <2>7, <2>9, BeginningFacts DEF ReceivedExact
    <2>11. ReadableBytes(writeBuff_') \in Nat /\ writeBuff_'.readPos_ \in Nat
      BY <2>2, BufferShape
    <2>12. WriteTypes'
      BY <1>2, <1>4, <2>2, <2>3, <2>4, <2>9, <2>11 DEF WriteTypes
    <2>13. IovFits'
      BY <2>3 DEF IovFits
    <2> QED
      BY <1>2, <2>8, <2>9, <2>10, <2>12, <2>13 DEF WriteInv, Idle, Making, Sending
  <1>11. opened \in BOOLEAN
    BY DEF CanOpen
  <1> QED
    BY <1>9, <1>10, <1>11

(* When write() has nothing left to send.                                  *)
LEMMA SentFacts ==
  WriteTypes /\ IovFits /\ ToWriteBytes(iov_) = 0
    => Contents(writeBuff_) = << >> /\ Rest = << >>
  <1> SUFFICES ASSUME WriteTypes, IovFits, ToWriteBytes(iov_) = 0
               PROVE  Contents(writeBuff_) = << >> /\ Rest = << >>
    OBVIOUS
  <1>1. iov_.len0 = 0 /\ iov_.len1 = 0
    BY DEF WriteTypes, ToWriteBytes
  <1>2. Contents(writeBuff_) = << >>
    BY <1>1, EmptyContents DEF WriteTypes, IovFits
  <1>3. Rest \in Seq(Any) /\ Len(Rest) = 0
    BY <1>1, RestFacts
  <1> QED
    BY <1>2, <1>3, EmptySeq

LEMMA SentNext ==
  (WriteTypes /\ IovFits /\ ToWriteBytes(iov_) = 0
     => Contents(writeBuff_) = << >> /\ Rest = << >>)'
  BY SentFacts, PTL

LEMMA WritevKeeps == ASSUME WriteInv, Writev PROVE WriteInv'
  <1>1. PICK len \in 1..Len(Gathered) :
          /\ got' = got \o SubSeq(Gathered, 1, len)
          /\ Advance(len)
          /\ IF isET \/ ToWriteBytes(iov_') > LowWater
             THEN pc' = "write" /\ UNCHANGED response_
             ELSE OnWrite_(ToWriteBytes(iov_'), FALSE)
    BY DEF Writev
  <1>2. pc = "write" /\ told' = told
    BY DEF Writev
  <1>3. /\ WriteTypes /\ IovFits /\ told = got \o (Contents(writeBuff_) \o Rest)
        /\ got \in Seq(Any) /\ told \in Seq(Any)
    BY <1>2 DEF WriteInv, WriteTypes, Sending
  <1> DEFINE u == SubSeq(Gathered, 1, len)
             v == Contents(writeBuff_') \o Rest'
  <1>4. /\ IsBuffer(writeBuff_', Byte)
        /\ iov_' = [base0 |-> iov_'.base0, len0 |-> iov_'.len0, file |-> iov_'.file,
                    base1 |-> iov_'.base1, len1 |-> iov_'.len1, cnt |-> iov_'.cnt]
        /\ iov_'.base0 \in Nat /\ iov_'.len0 \in Nat /\ iov_'.base1 \in Nat /\ iov_'.len1 \in Nat
        /\ response_' = response_ => IovFits'
        /\ u \in Seq(Any) /\ v \in Seq(Any) /\ u \o v = Gathered
    BY <1>1, <1>3, AdvanceFacts
  <1>5. told = got \o Gathered
    BY <1>3, GatheredFacts
  <1> HIDE DEF u, v
  <1>6. got' = got \o u
    BY <1>1 DEF u
  <1>7. got' \in Seq(Any) /\ told' = got' \o v
    <2>1. got \in Seq(Any) /\ u \in Seq(Any) /\ v \in Seq(Any)
      BY <1>3, <1>4
    <2>2. (got \o u) \o v = got \o (u \o v)
      BY <2>1, ConcatAssociative
    <2>3. got \o u \in Seq(Any)
      BY <2>1, ConcatProperties
    <2> QED
      BY <1>2, <1>4, <1>5, <1>6, <2>2, <2>3
  <1>8. ReceivedExact'
    BY <1>4, <1>7, BeginningFacts DEF ReceivedExact
  <1>9. told' \in Seq(Any)
    BY <1>2, <1>3
  <1>10. ASSUME response_' = response_ PROVE WriteTypes'
    BY <1>3, <1>4, <1>7, <1>9, <1>10 DEF WriteTypes
  <1>11. CASE pc' = "write" /\ UNCHANGED response_
    <2>1. IovFits' /\ WriteTypes'
      BY <1>4, <1>10, <1>11
    <2> QED
      BY <1>7, <1>8, <1>11, <2>1 DEF WriteInv, Idle, Making, Sending, v
  <1>12. CASE ToWriteBytes(iov_') = 0 /\ pc' = "process" /\ UNCHANGED response_
    <2>1. IovFits' /\ WriteTypes'
      BY <1>4, <1>10, <1>12
    <2>2. Contents(writeBuff_') = << >> /\ Rest' = << >>
      BY <1>12, <2>1, SentNext
    <2>3. v = << >> \o << >>
      BY <2>2 DEF v
    <2>4. << >> \o << >> = << >>
      BY EmptySeq, ConcatEmptySeq
    <2>5. told' = got'
      BY <1>7, <2>3, <2>4, ConcatEmptySeq
    <2> QED
      BY <1>8, <1>12, <2>1, <2>2, <2>5 DEF WriteInv, Idle, Making, Sending
  <1>13. CASE Close
    BY <1>3, <1>4, <1>7, <1>8, <1>9, <1>13, CloseKeeps
  <1> QED
    BY <1>1, <1>11, <1>12, <1>13 DEF OnWrite_

LEMMA WritevEndsKeeps == ASSUME WriteInv, WritevEnds PROVE WriteInv'
  <1>1. PICK again \in BOOLEAN : OnWrite_(ToWriteBytes(iov_), again)
    BY DEF WritevEnds
  <1>2. pc = "write" /\ UNCHANGED <<writeBuff_, iov_, got, told>>
    BY DEF WritevEnds
  <1>3. WriteTypes /\ IovFits /\ told = got \o (Contents(writeBuff_) \o Rest) /\ ReceivedExact
    BY <1>2 DEF WriteInv, Sending
  <1>4. CASE pc' = "out" /\ UNCHANGED response_
    BY <1>2, <1>4, WriteInvSame DEF Sending
  <1>5. CASE ToWriteBytes(iov_) = 0 /\ pc' = "process" /\ UNCHANGED response_
    <2>1. Contents(writeBuff_) = << >> /\ Rest = << >>
      BY <1>3, <1>5, SentFacts
    <2>2. << >> \o << >> = << >> /\ got \o << >> = got
      BY <1>3, EmptySeq, ConcatEmptySeq DEF WriteTypes
    <2>3. told' = got' /\ Contents(writeBuff_') = << >>
      BY <1>2, <1>3, <2>1, <2>2
    <2>4. WriteTypes' /\ ReceivedExact'
      BY <1>2, <1>3, <1>5 DEF WriteTypes, ReceivedExact
    <2> QED
      BY <1>5, <2>3, <2>4 DEF WriteInv, Idle, Making, Sending
  <1>6. CASE Close
    <2>1. ReceivedExact'
      BY <1>2, <1>3 DEF ReceivedExact
    <2> QED
      BY <1>2, <1>3, <1>6, <2>1, CloseKeeps DEF WriteTypes
  <1> QED
    BY <1>1, <1>4, <1>5, <1>6 DEF OnWrite_

LEMMA WriteInvNext == WriteInv /\ [Next]_vars => WriteInv'
  <1> SUFFICES ASSUME WriteInv, [Next]_vars PROVE WriteInv'
    OBVIOUS
  <1>1. CASE init
    BY <1>1, InitKeeps
  <1>2. CASE CloseOnHup
    <2>1. Close /\ UNCHANGED <<writeBuff_, iov_, got, told>>
      BY <1>2 DEF CloseOnHup
    <2>2. WriteTypes /\ ReceivedExact'
      BY <2>1 DEF WriteInv, ReceivedExact
    <2> QED
      BY <2>1, <2>2, CloseKeeps DEF WriteTypes
  <1>3. CASE DealRead_ \/ DealWrite_
    <2>1. \/ pc = "in" /\ pc' = "read"
          \/ pc = "out" /\ pc' = "write"
      BY <1>3 DEF DealRead_, DealWrite_
    <2>2. UNCHANGED <<writeBuff_, iov_, response_, got, told>>
      BY <1>3 DEF DealRead_, DealWrite_, connVars
    <2> QED
      BY <2>1, <2>2, WriteInvSame DEF Idle, Sending
  <1>4. CASE read
    <2>1. pc = "read" /\ UNCHANGED <<writeBuff_, iov_, got, told>>
      BY <1>4 DEF read
    <2>2. CASE pc' \in {"read", "process"} /\ UNCHANGED response_
      BY <2>1, <2>2, WriteInvSame DEF Idle
    <2>3. CASE Close
      <3>1. WriteTypes /\ ReceivedExact'
        BY <2>1 DEF WriteInv, ReceivedExact
      <3> QED
        BY <2>1, <2>3, <3>1, CloseKeeps DEF WriteTypes
    <2> QED
      BY <1>4, <2>2, <2>3 DEF read
  <1>5. CASE process \/ parse
    <2>1. pc \in Idle /\ UNCHANGED <<writeBuff_, iov_, response_, got, told>>
      BY <1>5 DEF process, parse, Idle
    <2>2. pc' \in Idle
      BY <1>5 DEF process, parse, Idle
    <2> QED
      BY <2>1, <2>2, WriteInvSame
  <1>6. CASE MakeResponse
    BY <1>6, MakeResponseKeeps
  <1>7. CASE AddStateLine_
    BY <1>7, AddStateLineKeeps
  <1>8. CASE AddHeader_
    BY <1>8, AddHeaderKeeps
  <1>9. CASE AddContent_
    BY <1>9, AddContentKeeps
  <1>10. CASE Writev
    BY <1>10, WritevKeeps
  <1>11. CASE WritevEnds
    BY <1>11, WritevEndsKeeps
  <1>12. CASE Send \/ Quit \/ Receive \/ UNCHANGED vars
    <2>1. UNCHANGED <<pc, writeBuff_, iov_, response_, got, told>>
      BY <1>12 DEF Send, Quit, Receive, vars, connVars
    <2> QED
      BY <2>1, WriteInvSame
  <1> QED
    BY <1>1, <1>2, <1>3, <1>4, <1>5, <1>6, <1>7, <1>8, <1>9, <1>10, <1>11, <1>12 DEF Next, Server

(* What the client has received is a beginning of the responses made for   *)
(* it, in every state of every instance: whatever the lengths that writev()*)
(* takes, the sizes of the buffers and the order in which the client sends,*)
(* receives and goes, write() repeats no byte and skips none.              *)
THEOREM ReceivedExactAlways == Spec => []ReceivedExact
  <1>1. WriteInv => ReceivedExact
    BY DEF WriteInv
  <1> QED
    BY WriteInvInit, WriteInvNext, <1>1, PTL DEF Spec

-----------------------------------------------------------------------------
(* What the request says of the connection, and what the response says.    *)

PCs == {"closed"} \cup Idle \cup Making \cup Sending

KeepInv ==
  /\ pc \in PCs /\ {polite, eof, full, isET} \subseteq BOOLEAN
  /\ request_ = [method_ |-> request_.method_, path_ |-> request_.path_,
                 version_ |-> request_.version_, header_ |-> request_.header_,
                 state_ |-> request_.state_]
  /\ pc = "parse" /\ request_.state_ = "REQUEST_LINE" => request_.header_ = {}
  /\ pc = "bad" => request_.header_ = {}
  /\ pc \in Idle /\ told # << >> => response_.isKeepAlive_
  /\ pc \in Making \cup Sending => response_.isKeepAlive_ = IsKeepAlive(request_)
  /\ pc \in Sending /\ iov_.cnt = 1 => response_.mmFile_ = NoFile

LEMMA KeepInvInit == Init => KeepInv
  <1> SUFFICES ASSUME Init PROVE KeepInv
    OBVIOUS
  <1>1. pc = "closed" /\ {polite, eof, full, isET} \subseteq BOOLEAN /\ request_ = RequestInit
    BY DEF Init
  <1> QED
    BY <1>1 DEF KeepInv, PCs, Idle, Making, Sending, RequestInit

LEMMA KeepInvSame ==
  ASSUME KeepInv, UNCHANGED <<request_, iov_, response_, told>>,
         {polite', eof', full', isET'} \subseteq BOOLEAN,
         \/ pc' = pc
         \/ pc = "in" /\ pc' = "read"
         \/ pc = "read" /\ pc' = "process"
         \/ pc \in Sending /\ pc' \in Sending
         \/ pc = "write" /\ pc' = "process" /\ IsKeepAlive(request_)
         \/ pc' = "closed"
  PROVE  KeepInv'
  <1>1. IsKeepAlive(request_)' = IsKeepAlive(request_)
    BY DEF IsKeepAlive
  <1> QED
    BY <1>1 DEF KeepInv, PCs, Idle, Making, Sending

LEMMA CloseKeepInv ==
  ASSUME KeepInv, Close, UNCHANGED request_, {polite', eof', full', isET'} \subseteq BOOLEAN
  PROVE  KeepInv'
  <1>1. pc' = "closed"
    BY DEF Close
  <1> QED
    BY <1>1 DEF KeepInv, PCs, Idle, Making, Sending

LEMMA ParseKeeps == ASSUME KeepInv, parse PROVE KeepInv'
  <1>1. /\ pc = "parse" /\ UNCHANGED <<iov_, response_, told, polite, eof, full, isET>>
    BY DEF parse, clientVars
  <1>2. CASE pc' = "bad" /\ request_.state_ = "REQUEST_LINE" /\ UNCHANGED request_
    BY <1>1, <1>2 DEF KeepInv, PCs, Idle, Making, Sending
  <1>3. CASE \E line : /\ pc' \in {"good", "parse"}
                       /\ \/ request_' = ParseRequestLine_(request_, line)
                          \/ /\ request_.state_ = "HEADERS"
                             /\ \/ request_' = ParseHeader_(request_, line)
                                \/ request_' = [ParseHeader_(request_, line) EXCEPT !.state_ = "FINISH"]
                          \/ \E verified \in BOOLEAN : request_' = ParseBody_(request_, verified)
    <2>1. PICK line : /\ pc' \in {"good", "parse"}
                      /\ \/ request_' = ParseRequestLine_(request_, line)
                         \/ /\ request_.state_ = "HEADERS"
                            /\ \/ request_' = ParseHeader_(request_, line)
                               \/ request_' = [ParseHeader_(request_, line) EXCEPT !.state_ = "FINISH"]
                         \/ \E verified \in BOOLEAN : request_' = ParseBody_(request_, verified)
      BY <1>3
    <2>2. request_ = [method_ |-> request_.method_, path_ |-> request_.path_,
                      version_ |-> request_.version_, header_ |-> request_.header_,
                      state_ |-> request_.state_]
      BY DEF KeepInv
    <2> DEFINE Shaped(r) == /\ r = [method_ |-> r.method_, path_ |-> r.path_, version_ |-> r.version_,
                                    header_ |-> r.header_, state_ |-> r.state_]
                            /\ r.state_ # "REQUEST_LINE"
    <2>3. Shaped(request_')
      <3>1. CASE request_' = ParseRequestLine_(request_, line)
        BY <2>2, <3>1 DEF ParseRequestLine_
      <3>2. CASE /\ request_.state_ = "HEADERS"
                 /\ \/ request_' = ParseHeader_(request_, line)
                    \/ request_' = [ParseHeader_(request_, line) EXCEPT !.state_ = "FINISH"]
        <4> DEFINE h == ParseHeader_(request_, line)
        <4>1. Shaped(h)
          <5>1. CASE IsHeader(line)
            <6>1. h = [request_ EXCEPT !.header_ = h.header_]
              BY <2>2, <5>1 DEF ParseHeader_
            <6> HIDE DEF h
            <6> QED
              BY <2>2, <3>2, <6>1
          <5>2. CASE ~IsHeader(line)
            BY <2>2, <5>2 DEF ParseHeader_
          <5> QED
            BY <5>1, <5>2
        <4> HIDE DEF h
        <4>2. request_' = h \/ request_' = [h EXCEPT !.state_ = "FINISH"]
          BY <3>2 DEF h
        <4> QED
          BY <4>1, <4>2
      <3>3. CASE \E verified \in BOOLEAN : request_' = ParseBody_(request_, verified)
        <4>1. PICK verified \in BOOLEAN : request_' = ParseBody_(request_, verified)
          BY <3>3
        <4> DEFINE p == ParsePost_(request_, verified)
        <4>2. request_' = [request_ EXCEPT !.path_ = p, !.state_ = "FINISH"]
          BY <4>1 DEF ParseBody_
        <4> HIDE DEF p
        <4> QED
          BY <2>2, <4>2
      <3> QED
        BY <2>1, <3>1, <3>2, <3>3
    <2> QED
      BY <1>1, <2>1, <2>3 DEF KeepInv, PCs, Idle, Making, Sending
  <1> QED
    BY <1>2, <1>3 DEF parse

LEMMA KeepInvNext == KeepInv /\ WriteInv /\ [Next]_vars => KeepInv'
  <1> SUFFICES ASSUME KeepInv, WriteInv, [Next]_vars PROVE KeepInv'
    OBVIOUS
  <1> USE DEF clientVars, connVars
  <1>1. CASE init
    <2>1. pc' = "in" /\ told' = << >> /\ polite' \in BOOLEAN /\ eof' = FALSE /\ full' = FALSE
          /\ UNCHANGED <<isET, request_>>
      BY <1>1 DEF init
    <2> QED
      BY <2>1 DEF KeepInv, PCs, Idle, Making, Sending
  <1>2. CASE CloseOnHup
    BY <1>2, CloseKeepInv DEF CloseOnHup, KeepInv
  <1>3. CASE DealRead_ \/ DealWrite_
    BY <1>3, KeepInvSame DEF DealRead_, DealWrite_, Sending, KeepInv
  <1>4. CASE read
    <2>1. /\ pc = "read" /\ UNCHANGED <<request_, iov_, told>>
          /\ {polite', eof', full', isET'} \subseteq BOOLEAN
      BY <1>4 DEF read, KeepInv
    <2>2. CASE pc' \in {"read", "process"} /\ UNCHANGED response_
      BY <2>1, <2>2, KeepInvSame
    <2>3. CASE Close
      BY <2>1, <2>3, CloseKeepInv
    <2> QED
      BY <1>4, <2>2, <2>3 DEF read
  <1>5. CASE process
    <2>1. /\ pc = "process" /\ request_' = RequestInit /\ pc' \in {"in", "parse"}
          /\ UNCHANGED <<polite, eof, full, isET, iov_, response_, told>>
      BY <1>5 DEF process
    <2> QED
      BY <2>1 DEF KeepInv, PCs, Idle, Making, Sending, RequestInit
  <1>6. CASE parse
    BY <1>6, ParseKeeps
  <1>7. CASE MakeResponse
    <2>1. /\ pc \in {"good", "bad"} /\ pc' = "AddStateLine_"
          /\ response_'.isKeepAlive_ = (pc = "good" /\ IsKeepAlive(request_))
          /\ UNCHANGED <<polite, eof, full, isET, request_, iov_, told>>
      BY <1>7 DEF MakeResponse
    <2>2. pc = "bad" => ~IsKeepAlive(request_)
      BY DEF KeepInv, IsKeepAlive
    <2>3. IsKeepAlive(request_)' = IsKeepAlive(request_)
      BY <2>1 DEF IsKeepAlive
    <2>4. response_'.isKeepAlive_ = IsKeepAlive(request_')
      BY <2>1, <2>2, <2>3 DEF IsKeepAlive
    <2> QED
      BY <2>1, <2>4 DEF KeepInv, PCs, Idle, Making, Sending
  <1>8. CASE AddStateLine_ \/ AddHeader_
    <2>1. /\ pc \in Making /\ pc' \in Making
          /\ UNCHANGED <<polite, eof, full, isET, request_, response_, iov_, told>>
      BY <1>8 DEF AddStateLine_, AddHeader_, Making
    <2>2. IsKeepAlive(request_)' = IsKeepAlive(request_)
      BY <2>1 DEF IsKeepAlive
    <2> QED
      BY <2>1, <2>2 DEF KeepInv, PCs, Idle, Making, Sending
  <1>9. CASE AddContent_
    <2>1. PICK opened \in CanOpen(response_.path_) :
            /\ response_' = [response_ EXCEPT !.mmFile_ = IF opened THEN response_.path_ ELSE NoFile]
            /\ iov_' = IovOf(writeBuff_', response_.path_, opened)
      BY <1>9 DEF AddContent_
    <2>2. /\ pc = "AddContent_" /\ pc' = "out"
          /\ UNCHANGED <<polite, eof, full, isET, request_>>
      BY <1>9 DEF AddContent_
    <2>3. /\ response_'.isKeepAlive_ = response_.isKeepAlive_
          /\ ~opened => response_'.mmFile_ = NoFile
      BY <2>1 DEF WriteInv, WriteTypes
    <2>4. opened => iov_'.cnt = 2
      BY <2>1 DEF IovOf, WriteInv, WriteTypes
    <2>5. response_'.isKeepAlive_ = IsKeepAlive(request_')
      BY <2>2, <2>3 DEF KeepInv, Making, IsKeepAlive
    <2>6. opened \in BOOLEAN
      BY DEF CanOpen
    <2> QED
      BY <2>2, <2>3, <2>4, <2>5, <2>6 DEF KeepInv, PCs, Idle, Making, Sending
  <1>10. CASE Writev
    <2>1. /\ pc = "write" /\ UNCHANGED <<request_, told, polite, eof, isET>>
          /\ full' \in BOOLEAN
      BY <1>10 DEF Writev
    <2>2. PICK len \in 1..Len(Gathered) :
            /\ Advance(len)
            /\ IF isET \/ ToWriteBytes(iov_') > LowWater
               THEN pc' = "write" /\ UNCHANGED response_
               ELSE OnWrite_(ToWriteBytes(iov_'), FALSE)
      BY <1>10 DEF Writev
    <2>3. iov_'.cnt = iov_.cnt
      BY <2>2 DEF Advance, WriteInv, WriteTypes
    <2>4. \/ pc' \in Sending /\ UNCHANGED response_
          \/ pc' = "process" /\ IsKeepAlive(request_) /\ UNCHANGED response_
          \/ Close
      BY <2>2 DEF OnWrite_, Sending
    <2>5. IsKeepAlive(request_)' = IsKeepAlive(request_)
      BY <2>1 DEF IsKeepAlive
    <2>6. CASE Close
      BY <2>1, <2>6, CloseKeepInv DEF KeepInv
    <2>7. CASE pc' \in Sending /\ UNCHANGED response_
      BY <2>1, <2>3, <2>5, <2>7 DEF KeepInv, PCs, Idle, Making, Sending
    <2>8. CASE pc' = "process" /\ IsKeepAlive(request_) /\ UNCHANGED response_
      BY <2>1, <2>5, <2>8 DEF KeepInv, PCs, Idle, Making, Sending
    <2> QED
      BY <2>4, <2>6, <2>7, <2>8
  <1>11. CASE WritevEnds
    <2>1. /\ pc = "write" /\ UNCHANGED <<request_, iov_, told, polite, eof, full, isET>>
      BY <1>11 DEF WritevEnds
    <2>2. PICK again \in BOOLEAN : OnWrite_(ToWriteBytes(iov_), again)
      BY <1>11 DEF WritevEnds
    <2>3. CASE Close
      BY <2>1, <2>3, CloseKeepInv DEF KeepInv
    <2>4. CASE ~Close
      <3>1. /\ UNCHANGED response_
            /\ pc' \in Sending \/ (pc' = "process" /\ IsKeepAlive(request_))
        BY <2>2, <2>4 DEF OnWrite_, Sending
      <3> QED
        BY <2>1, <3>1, KeepInvSame DEF KeepInv, Sending
    <2> QED
      BY <2>3, <2>4
  <1>12. CASE Send \/ Quit \/ Receive \/ UNCHANGED vars
    BY <1>12, KeepInvSame DEF Send, Quit, Receive, vars, KeepInv
  <1> QED
    BY <1>1, <1>2, <1>3, <1>4, <1>5, <1>6, <1>7, <1>8, <1>9, <1>10, <1>11, <1>12 DEF Next, Server

LEMMA KeepInvAlways == Spec => [](KeepInv /\ WriteInv)
  BY KeepInvInit, KeepInvNext, WriteInvInit, WriteInvNext, PTL DEF Spec

(* The types, and the assertions of buffer.cpp, for any scripts, files and *)
(* sizes: the positions stay in order and inside the vector, and the       *)
(* lengths that write() leaves in its vectors are never below zero.        *)
THEOREM TypeCorrect == Spec => []TypeOK
  <1>1. ReadInv /\ WriteInv /\ KeepInv => TypeOK
    <2> SUFFICES ASSUME ReadInv, WriteInv, KeepInv PROVE TypeOK
      OBVIOUS
    <2>1. pc \in {"closed", "in", "out", "read", "process", "parse", "good", "bad", "write",
                  "AddStateLine_", "AddHeader_", "AddContent_"}
          /\ {polite, eof, full, isET} \subseteq BOOLEAN
      BY DEF KeepInv, PCs, Idle, Making, Sending
    <2>2. 0 <= readN /\ readN <= sentN /\ sentN <= Len(Wire) /\ IsBuffer(readBuff_, Byte)
      BY DEF ReadInv
    <2>3. IsBuffer(writeBuff_, Byte) /\ iov_.len0 \in Nat /\ iov_.len1 \in Nat
      BY DEF WriteInv, WriteTypes
    <2>4. iov_.len0 >= 0 /\ iov_.len1 >= 0
      BY <2>3
    <2> QED
      BY <2>1, <2>2, <2>3, <2>4 DEF TypeOK
  <1> QED
    BY <1>1, ReadInvAlways, KeepInvAlways, PTL

(* A connection on which a response said "close" is never parsed again: the*)
(* answer and OnWrite_'s decision come from the same request, which process*)
(* does not reset in between; and a request refused by parse() has no      *)
(* header that could keep the connection.                                  *)
THEOREM CloseIsLastAlways == Spec => []CloseIsLast
  <1>1. KeepInv => CloseIsLast
    BY DEF KeepInv, CloseIsLast, Idle
  <1> QED
    BY <1>1, KeepInvAlways, PTL

(* With edge triggered connections the server does not close on a client   *)
(* that is there before the whole response is sent; and one that promised  *)
(* keep-alive is closed only when it had no file, whose vector was left    *)
(* from the response before (httpconn.cpp, write and ToWriteBytes).        *)
THEOREM ClosesWhenDoneAlways == Spec => ClosesWhenDone
  <1> DEFINE Done == pc # "closed" /\ pc' = "closed" /\ isET /\ ~eof =>
                       /\ got' = told'
                       /\ response_.isKeepAlive_ => response_.mmFile_ = NoFile
  <1>1. KeepInv /\ WriteInv /\ [Next]_vars => [Done]_vars
    <2> SUFFICES ASSUME KeepInv, WriteInv, Next, pc # "closed", pc' = "closed", isET, ~eof
                 PROVE  got' = told' /\ (response_.isKeepAlive_ => response_.mmFile_ = NoFile)
      OBVIOUS
    <2>1. WritevEnds
      BY DEF Next, Server, init, CloseOnHup, DealRead_, DealWrite_, read, process, parse,
             MakeResponse, AddStateLine_, AddHeader_, AddContent_, Writev, Send, Quit, Receive
    <2>2. /\ pc = "write" /\ got' = got /\ told' = told
          /\ \/ Gathered = << >> /\ OnWrite_(ToWriteBytes(iov_), FALSE)
             \/ Gathered # << >> /\ OnWrite_(ToWriteBytes(iov_), TRUE)
      BY <2>1 DEF WritevEnds
    <2>3. /\ WriteTypes /\ IovFits /\ told = got \o (Contents(writeBuff_) \o Rest)
          /\ got \in Seq(Any)
      BY <2>2 DEF WriteInv, WriteTypes, Sending
    <2>4. /\ Gathered = Contents(writeBuff_) \o Rest /\ Gathered \in Seq(Any)
          /\ Len(Gathered) = iov_.len0 + (IF iov_.cnt = 2 THEN iov_.len1 ELSE 0)
      BY <2>3, GatheredFacts
    <2>5. iov_.len0 \in Nat /\ iov_.len1 \in Nat /\ iov_.cnt \in {1, 2}
      BY <2>3 DEF WriteTypes, IovFits
    <2>6. CASE Gathered # << >>
      <3>1. Len(Gathered) # 0
        BY <2>4, <2>6, EmptySeq
      <3>2. ToWriteBytes(iov_) # 0
        BY <2>4, <2>5, <3>1 DEF ToWriteBytes
      <3> QED
        BY <2>2, <2>6, <3>2 DEF OnWrite_
    <2>7. CASE Gathered = << >>
      <3>1. got' = told'
        BY <2>2, <2>3, <2>4, <2>7, ConcatEmptySeq
      <3>2. ASSUME response_.isKeepAlive_ PROVE response_.mmFile_ = NoFile
        <4>1. IsKeepAlive(request_)
          BY <2>2, <3>2 DEF KeepInv, Sending
        <4>2. ToWriteBytes(iov_) # 0
          BY <2>2, <2>7, <4>1 DEF OnWrite_
        <4>3. Len(Gathered) = 0
          BY <2>7, EmptySeq
        <4>4. iov_.cnt = 1
          BY <2>4, <2>5, <4>2, <4>3 DEF ToWriteBytes
        <4> QED
          BY <2>2, <4>4 DEF KeepInv, Sending
      <3> QED
        BY <3>1, <3>2
    <2> QED
      BY <2>6, <2>7
  <1> QED
    BY <1>1, KeepInvAlways, PTL DEF Spec, ClosesWhenDone

=============================================================================
