----------------------------- MODULE HttpProofs -----------------------------
(***************************************************************************)
(* What holds of the Buffer of a connection, and of the HTTP server over   *)
(* it, for any sizes, any number of lines and any cuts of the stream.      *)
(***************************************************************************)
EXTENDS Http, SequenceTheorems, WellFoundedInduction, TLAPS

-----------------------------------------------------------------------------
(* Sequences of bytes                                                      *)

Byte == Kinds \cup {CR, LF, Stale}

\* SubSeq element by element.
LEMMA Part ==
  ASSUME NEW s \in Seq(Byte), NEW m \in Nat, NEW n \in Nat, m <= n, n <= Len(s)
  PROVE  LET t == SubSeq(s, m + 1, n) IN
         /\ t \in Seq(Byte) /\ Len(t) = n - m
         /\ \A i \in 1 .. n - m : t[i] = s[m + i]
<1>1. Len(s) \in Nat /\ \A i \in 1 .. Len(s) : s[i] \in Byte
  BY LenProperties, ElementOfSeq
<1>2. QED
  BY <1>1

\* Two sequences with the same elements are the same.
LEMMA Same ==
  ASSUME NEW s \in Seq(Byte), NEW t \in Seq(Byte), Len(s) = Len(t),
         \A i \in 1 .. Len(s) : s[i] = t[i]
  PROVE  s = t
BY SeqEqual

\* A concatenation element by element.
LEMMA Joined ==
  ASSUME NEW s \in Seq(Byte), NEW t \in Seq(Byte)
  PROVE  LET c == s \o t IN
         /\ c \in Seq(Byte) /\ Len(c) = Len(s) + Len(t) /\ Len(s) \in Nat /\ Len(t) \in Nat
         /\ \A i \in 1 .. Len(s) : c[i] = s[i]
         /\ \A i \in 1 .. Len(t) : c[Len(s) + i] = t[i]
         /\ \A i \in Len(s) + 1 .. Len(s) + Len(t) : c[i] = t[i - Len(s)]
<1>1. Len(s) \in Nat /\ Len(t) \in Nat
  BY LenProperties
<1>2. QED
  BY <1>1, ConcatProperties

\* The library's theorem, for bytes.
LEMMA Associates ==
  ASSUME NEW s \in Seq(Byte), NEW t \in Seq(Byte), NEW u \in Seq(Byte)
  PROVE  (s \o t) \o u = s \o (t \o u)
BY ConcatAssociative

\* The two sides of a cut.
LEMMA CutOK ==
  ASSUME NEW s \in Seq(Byte), NEW n \in Nat, n <= Len(s)
  PROVE  LET x == SubSeq(s, 1, n)
             y == SubSeq(s, n + 1, Len(s)) IN
         /\ x \in Seq(Byte) /\ y \in Seq(Byte)
         /\ Len(x) = n /\ Len(y) = Len(s) - n
         /\ \A i \in 1 .. n : x[i] = s[i]
         /\ \A i \in 1 .. Len(s) - n : y[i] = s[n + i]
         /\ x \o y = s
<1> DEFINE x == SubSeq(s, 1, n)
           y == SubSeq(s, n + 1, Len(s))
           c == x \o y
<1>1. Len(s) \in Nat
  BY LenProperties
<1>2. /\ x \in Seq(Byte) /\ Len(x) = n
      /\ \A i \in 1 .. n : x[i] = s[i]
  <2> DEFINE z == 0
             t == SubSeq(s, z + 1, n)
  <2>1. z \in Nat /\ z <= n
    OBVIOUS
  <2>2. t = x
    OBVIOUS
  <2>3. /\ t \in Seq(Byte) /\ Len(t) = n - z
        /\ \A i \in 1 .. n - z : t[i] = s[z + i]
    BY <2>1, Part
  <2> HIDE DEF x, t
  <2>4. QED
    BY <2>2, <2>3
<1>3. /\ y \in Seq(Byte) /\ Len(y) = Len(s) - n
      /\ \A i \in 1 .. Len(s) - n : y[i] = s[n + i]
  BY <1>1, Part
<1> HIDE DEF x, y
<1>4. /\ c \in Seq(Byte) /\ Len(c) = Len(x) + Len(y)
      /\ \A i \in 1 .. Len(x) : c[i] = x[i]
      /\ \A i \in Len(x) + 1 .. Len(x) + Len(y) : c[i] = y[i - Len(x)]
  BY <1>2, <1>3, Joined
<1> HIDE DEF c
<1>5. Len(c) = Len(s)
  BY <1>1, <1>2, <1>3, <1>4
<1>6. ASSUME NEW i \in 1 .. Len(c) PROVE c[i] = s[i]
  <2>1. CASE i \in 1 .. n
    BY <1>2, <1>4, <2>1
  <2>2. CASE i \in n + 1 .. Len(s)
    <3> DEFINE j == i - n
    <3>1. j \in 1 .. Len(s) - n /\ n + j = i /\ c[i] = y[j]
      BY <1>1, <1>2, <1>3, <1>4, <2>2
    <3> HIDE DEF j
    <3>2. QED
      BY <1>3, <3>1
  <2>3. QED
    BY <1>1, <1>5, <2>1, <2>2
<1>7. c = s
  BY <1>4, <1>5, <1>6, Same
<1>8. QED
  BY <1>2, <1>3, <1>7 DEF x, y, c

\* What is behind a position grows with the sequence.
LEMMA SuffixJoined ==
  ASSUME NEW s \in Seq(Byte), NEW t \in Seq(Byte), NEW m \in Nat, m <= Len(s)
  PROVE  SubSeq(s, m + 1, Len(s)) \o t = SubSeq(s \o t, m + 1, Len(s \o t))
<1> DEFINE x == SubSeq(s, m + 1, Len(s))
           c == s \o t
           l == x \o t
           r == SubSeq(c, m + 1, Len(c))
<1>1. /\ Len(s) \in Nat /\ Len(t) \in Nat /\ c \in Seq(Byte) /\ Len(c) = Len(s) + Len(t)
      /\ \A i \in 1 .. Len(s) : c[i] = s[i]
      /\ \A i \in Len(s) + 1 .. Len(s) + Len(t) : c[i] = t[i - Len(s)]
  BY Joined
<1>2. /\ x \in Seq(Byte) /\ Len(x) = Len(s) - m
      /\ \A i \in 1 .. Len(s) - m : x[i] = s[m + i]
  BY <1>1, Part
<1> HIDE DEF x, c
<1>3. /\ l \in Seq(Byte) /\ Len(l) = Len(x) + Len(t)
      /\ \A i \in 1 .. Len(x) : l[i] = x[i]
      /\ \A i \in Len(x) + 1 .. Len(x) + Len(t) : l[i] = t[i - Len(x)]
  BY <1>2, Joined
<1>4. /\ r \in Seq(Byte) /\ Len(r) = Len(c) - m
      /\ \A i \in 1 .. Len(c) - m : r[i] = c[m + i]
  <2>1. m <= Len(c) /\ Len(c) \in Nat /\ Len(c) <= Len(c)
    BY <1>1
  <2>2. QED
    BY <1>1, <2>1, Part
<1> HIDE DEF l, r
<1>5. ASSUME NEW i \in 1 .. Len(l) PROVE l[i] = r[i]
  <2> DEFINE j == m + i
  <2>1. i \in 1 .. Len(c) - m /\ r[i] = c[j]
    BY <1>1, <1>2, <1>3, <1>4
  <2>2. CASE i \in 1 .. Len(x)
    <3>1. i \in 1 .. Len(s) - m /\ j \in 1 .. Len(s)
      BY <1>1, <1>2, <2>2
    <3>2. QED
      BY <1>1, <1>2, <1>3, <2>1, <2>2, <3>1
  <2>3. CASE i \in Len(x) + 1 .. Len(x) + Len(t)
    <3>1. j \in Len(s) + 1 .. Len(s) + Len(t) /\ j - Len(s) = i - Len(x)
      BY <1>1, <1>2, <2>3
    <3> HIDE DEF j
    <3>2. QED
      BY <1>1, <1>3, <2>1, <2>3, <3>1
  <2>4. QED
    BY <1>2, <1>3, <2>2, <2>3, <1>1
<1>6. Len(l) = Len(r)
  BY <1>1, <1>2, <1>3, <1>4
<1>7. l = r
  BY <1>3, <1>4, <1>5, <1>6, Same
<1>8. QED
  BY <1>7 DEF l, r, x, c

\* A suffix of a suffix is a suffix.
LEMMA SuffixOfSuffix ==
  ASSUME NEW s \in Seq(Byte), NEW m \in Nat, m <= Len(s), NEW n \in Nat, n <= Len(s) - m
  PROVE  LET p == SubSeq(s, m + 1, Len(s)) IN
         SubSeq(p, n + 1, Len(p)) = SubSeq(s, m + n + 1, Len(s))
<1> DEFINE p == SubSeq(s, m + 1, Len(s))
           l == SubSeq(p, n + 1, Len(p))
           k == m + n
           r == SubSeq(s, k + 1, Len(s))
<1>1. Len(s) \in Nat /\ k \in Nat /\ k <= Len(s)
  BY LenProperties
<1>2. /\ p \in Seq(Byte) /\ Len(p) = Len(s) - m
      /\ \A i \in 1 .. Len(s) - m : p[i] = s[m + i]
  BY <1>1, Part
<1> HIDE DEF p
<1>3. /\ l \in Seq(Byte) /\ Len(l) = Len(p) - n
      /\ \A i \in 1 .. Len(p) - n : l[i] = p[n + i]
  <2>1. Len(p) \in Nat /\ n <= Len(p) /\ Len(p) <= Len(p)
    BY <1>1, <1>2
  <2>2. QED
    BY <1>2, <2>1, Part
<1>4. /\ r \in Seq(Byte) /\ Len(r) = Len(s) - k
      /\ \A i \in 1 .. Len(s) - k : r[i] = s[k + i]
  <2> HIDE DEF k
  <2>1. QED
    BY <1>1, Part
<1> HIDE DEF l, r
<1>5. ASSUME NEW i \in 1 .. Len(l) PROVE l[i] = r[i]
  <2>1. /\ i \in 1 .. Len(p) - n /\ i \in 1 .. Len(s) - k
        /\ n + i \in 1 .. Len(s) - m /\ m + (n + i) = k + i
    BY <1>1, <1>2, <1>3
  <2>2. QED
    BY <1>2, <1>3, <1>4, <2>1
<1>6. Len(l) = Len(r)
  BY <1>1, <1>2, <1>3, <1>4
<1>7. l = r
  BY <1>3, <1>4, <1>5, <1>6, Same
<1>8. k + 1 = m + n + 1
  OBVIOUS
<1>9. QED
  BY <1>7, <1>8 DEF l, r, p

\* What lies inside a sequence stays when more bytes follow.
LEMMA InsideKept ==
  ASSUME NEW s \in Seq(Byte), NEW t \in Seq(Byte), NEW m \in Nat, NEW n \in Nat,
         m <= n, n <= Len(s)
  PROVE  SubSeq(s \o t, m + 1, n) = SubSeq(s, m + 1, n)
<1> DEFINE c == s \o t
           l == SubSeq(c, m + 1, n)
           r == SubSeq(s, m + 1, n)
<1>1. /\ Len(s) \in Nat /\ Len(t) \in Nat /\ c \in Seq(Byte) /\ Len(c) = Len(s) + Len(t)
      /\ \A i \in 1 .. Len(s) : c[i] = s[i]
  BY Joined
<1> HIDE DEF c
<1>2. /\ l \in Seq(Byte) /\ Len(l) = n - m
      /\ \A i \in 1 .. n - m : l[i] = c[m + i]
  BY <1>1, Part
<1>3. /\ r \in Seq(Byte) /\ Len(r) = n - m
      /\ \A i \in 1 .. n - m : r[i] = s[m + i]
  BY Part
<1> HIDE DEF l, r
<1>4. ASSUME NEW i \in 1 .. Len(l) PROVE l[i] = r[i]
  <2>1. i \in 1 .. n - m /\ m + i \in 1 .. Len(s)
    BY <1>1, <1>2
  <2>2. QED
    BY <1>1, <1>2, <1>3, <2>1
<1>5. l = r
  BY <1>2, <1>3, <1>4, Same
<1>6. QED
  BY <1>5 DEF l, r, c

-----------------------------------------------------------------------------
(* Buffer.h                                                                *)

\* A Buffer with its cursors in order and inside the storage.
BufferOK(b) ==
    /\ b \in [buf : Seq(Byte), r : Nat, w : Nat]
    /\ b.r <= b.w /\ b.w <= Len(b.buf)

\* The bytes of s wait in b.
Holds(b, s) ==
    /\ BufferOK(b) /\ s \in Seq(Byte)
    /\ b.w = b.r + Len(s)
    /\ \A i \in 1 .. Len(s) : b.buf[b.r + i] = s[i]

\* The capacity is an int: the largest power of two that roundToPowerOfTwo returns.
Largest == 1073741824

\* memcpy inside the storage.
LEMMA CopyOK ==
  ASSUME NEW buf \in Seq(Byte), NEW data \in Seq(Byte), NEW at \in Nat,
         at + Len(data) <= Len(buf)
  PROVE  LET c == Copy(buf, at, data) IN
         /\ c \in Seq(Byte) /\ Len(c) = Len(buf)
         /\ \A i \in 1 .. Len(data) : c[at + i] = data[i]
         /\ \A i \in 1 .. at : c[i] = buf[i]
<1> DEFINE c == Copy(buf, at, data)
<1>1. /\ Len(buf) \in Nat /\ Len(data) \in Nat
      /\ DOMAIN buf = 1 .. Len(buf) /\ DOMAIN data = 1 .. Len(data)
      /\ \A i \in 1 .. Len(buf) : buf[i] \in Byte
      /\ \A i \in 1 .. Len(data) : data[i] \in Byte
  BY LenProperties, ElementOfSeq
<1>2. c = [i \in 1 .. Len(buf) |-> IF i - at \in 1 .. Len(data) THEN data[i - at] ELSE buf[i]]
  BY <1>1 DEF Copy
<1>3. c \in [1 .. Len(buf) -> Byte]
  BY <1>1, <1>2
<1>4. c \in Seq(Byte) /\ Len(c) = Len(buf)
  BY <1>1, <1>3
<1>5. ASSUME NEW i \in 1 .. Len(data) PROVE c[at + i] = data[i]
  <2>1. at + i \in 1 .. Len(buf) /\ at + i - at = i
    BY <1>1
  <2>2. QED
    BY <1>2, <2>1
<1>6. ASSUME NEW i \in 1 .. at PROVE c[i] = buf[i]
  <2>1. i \in 1 .. Len(buf) /\ i - at \notin 1 .. Len(data)
    BY <1>1
  <2>2. QED
    BY <1>2, <2>1
<1>7. QED
  BY <1>4, <1>5, <1>6

\* What waits is what lies between the cursors.
LEMMA ContentOK ==
  ASSUME NEW b, NEW s, Holds(b, s)
  PROVE  /\ Content(b) = s /\ unread(b) = Len(s) /\ Len(s) \in Nat
         /\ capacity(b) \in Nat /\ unwrite(b) \in Nat
<1>1. /\ b.buf \in Seq(Byte) /\ b.r \in Nat /\ b.w \in Nat /\ b.r <= b.w /\ b.w <= Len(b.buf)
      /\ s \in Seq(Byte) /\ b.w = b.r + Len(s)
      /\ \A i \in 1 .. Len(s) : b.buf[b.r + i] = s[i]
  BY DEF Holds, BufferOK
<1>2. Len(s) \in Nat /\ Len(b.buf) \in Nat
  BY <1>1, LenProperties
<1> DEFINE u == b.buf
           t == SubSeq(u, b.r + 1, b.w)
<1>3. /\ t \in Seq(Byte) /\ Len(t) = b.w - b.r
      /\ \A i \in 1 .. b.w - b.r : t[i] = u[b.r + i]
  BY <1>1, Part
<1>4. b.w - b.r = Len(s)
  BY <1>1, <1>2
<1> HIDE DEF t
<1>5. t = s
  BY <1>1, <1>3, <1>4, Same
<1>6. QED
  BY <1>1, <1>2, <1>4, <1>5 DEF t, Content, unread, capacity, unwrite

\* A Buffer given by its parts.
LEMMA HoldsAt ==
  ASSUME NEW u \in Seq(Byte), NEW r \in Nat, NEW w \in Nat, NEW s \in Seq(Byte),
         w = r + Len(s), w <= Len(u), \A i \in 1 .. Len(s) : u[r + i] = s[i]
  PROVE  Holds([buf |-> u, r |-> r, w |-> w], s)
<1>1. r <= w
  BY LenProperties
<1>2. QED
  BY <1>1 DEF Holds, BufferOK

\* The parts of a Buffer.
LEMMA PartsOf ==
  ASSUME NEW b, NEW s, Holds(b, s)
  PROVE  /\ b = [buf |-> b.buf, r |-> b.r, w |-> b.w]
         /\ b.buf \in Seq(Byte) /\ b.r \in Nat /\ b.w \in Nat
         /\ b.w <= Len(b.buf) /\ Len(b.buf) \in Nat
         /\ s \in Seq(Byte) /\ Len(s) \in Nat /\ b.w = b.r + Len(s)
         /\ \A i \in 1 .. Len(s) : b.buf[b.r + i] = s[i]
BY LenProperties DEF Holds, BufferOK

\* memmove to the front keeps what waits.
LEMMA GcOK ==
  ASSUME NEW b, NEW s, Holds(b, s)
  PROVE  Holds(gc(b), s) /\ gc(b).r = 0 /\ capacity(gc(b)) = capacity(b)
<1> DEFINE u == b.buf
           c == Copy(u, 0, s)
<1>1. /\ u \in Seq(Byte) /\ b.w <= Len(u) /\ b.r \in Nat /\ b.w = b.r + Len(s)
      /\ s \in Seq(Byte) /\ Len(s) \in Nat /\ Len(u) \in Nat
  BY PartsOf
<1>2. 0 + Len(s) <= Len(u) /\ Len(s) <= Len(u)
  BY <1>1
<1>3. c \in Seq(Byte) /\ Len(c) = Len(u) /\ \A i \in 1 .. Len(s) : c[0 + i] = s[i]
  BY <1>1, <1>2, CopyOK
<1>4. gc(b) = [buf |-> c, r |-> 0, w |-> Len(s)]
  BY ContentOK DEF gc
<1> HIDE DEF c
<1>5. Holds([buf |-> c, r |-> 0, w |-> Len(s)], s)
  <2> DEFINE z == 0
             n == Len(s)
  <2>1. z \in Nat /\ n \in Nat /\ n = z + Len(s) /\ n <= Len(c)
        /\ \A i \in 1 .. Len(s) : c[z + i] = s[i]
    BY <1>1, <1>2, <1>3
  <2> HIDE DEF z, n
  <2>2. Holds([buf |-> c, r |-> z, w |-> n], s)
    BY <1>1, <1>3, <2>1, HoldsAt
  <2>3. QED
    BY <2>2 DEF z, n
<1>6. QED
  BY <1>3, <1>4, <1>5 DEF capacity

\* A larger vector keeps what waits.
LEMMA ExpandOK ==
  ASSUME NEW b, NEW s, Holds(b, s), NEW size \in Nat, size >= capacity(b)
  PROVE  /\ Holds(expandTo(b, size), s) /\ capacity(expandTo(b, size)) = size
         /\ expandTo(b, size).w = b.w
<1> DEFINE u == b.buf
           v == [i \in 1 .. size |-> IF i <= Len(u) THEN u[i] ELSE Stale]
<1>1. /\ u \in Seq(Byte) /\ b.w <= Len(u) /\ b.r \in Nat /\ b.w \in Nat /\ b.w = b.r + Len(s)
      /\ s \in Seq(Byte) /\ Len(s) \in Nat /\ Len(u) \in Nat /\ size >= Len(u)
      /\ b = [buf |-> u, r |-> b.r, w |-> b.w]
      /\ \A i \in 1 .. Len(s) : u[b.r + i] = s[i]
  BY PartsOf DEF capacity
<1>2. \A i \in 1 .. Len(u) : u[i] \in Byte
  BY <1>1, ElementOfSeq
<1>3. Stale \in Byte
  BY DEF Byte
<1>4. v \in [1 .. size -> Byte]
  BY <1>1, <1>2, <1>3
<1>5. v \in Seq(Byte) /\ Len(v) = size
  BY <1>4
<1>6. ASSUME NEW i \in 1 .. Len(s) PROVE v[b.r + i] = s[i]
  <2>1. b.r + i \in 1 .. size /\ b.r + i <= Len(u)
    BY <1>1
  <2>2. QED
    BY <1>1, <2>1
<1>7. expandTo(b, size) = [buf |-> v, r |-> b.r, w |-> b.w]
  <2>1. v = [i \in 1 .. size |-> IF i <= capacity(b) THEN b.buf[i] ELSE Stale]
    BY DEF capacity
  <2>3. expandTo(b, size) = [b EXCEPT !.buf = v]
    BY <2>1, Zenon DEF expandTo
  <2> HIDE DEF u, v
  <2>4. b = [buf |-> u, r |-> b.r, w |-> b.w]
    BY <1>1
  <2>5. [b EXCEPT !.buf = v] = [buf |-> v, r |-> b.r, w |-> b.w]
    BY <2>4
  <2>6. QED
    BY <2>3, <2>5
<1> HIDE DEF v
<1>8. Holds([buf |-> v, r |-> b.r, w |-> b.w], s)
  <2>1. b.w <= Len(v)
    BY <1>1, <1>5
  <2>2. QED
    BY <1>1, <1>5, <1>6, <2>1, HoldsAt
<1>9. QED
  BY <1>5, <1>7, <1>8 DEF capacity

\* roundToPowerOfTwo returns no less than its argument, up to the largest of an int.
LEMMA RoundOK ==
  ASSUME NEW v \in Nat, v > 0, v <= Largest
  PROVE  roundToPowerOfTwo(v) \in Nat /\ roundToPowerOfTwo(v) >= v
<1> DEFINE P == {2 ^ i : i \in 0 .. 30}
<1>1. /\ 2 ^ 0 = 1 /\ 2 ^ 1 = 2 /\ 2 ^ 2 = 4 /\ 2 ^ 3 = 8
      /\ 2 ^ 4 = 16 /\ 2 ^ 5 = 32 /\ 2 ^ 6 = 64 /\ 2 ^ 7 = 128
      /\ 2 ^ 8 = 256 /\ 2 ^ 9 = 512 /\ 2 ^ 10 = 1024 /\ 2 ^ 11 = 2048
      /\ 2 ^ 12 = 4096 /\ 2 ^ 13 = 8192 /\ 2 ^ 14 = 16384 /\ 2 ^ 15 = 32768
      /\ 2 ^ 16 = 65536 /\ 2 ^ 17 = 131072 /\ 2 ^ 18 = 262144 /\ 2 ^ 19 = 524288
      /\ 2 ^ 20 = 1048576 /\ 2 ^ 21 = 2097152 /\ 2 ^ 22 = 4194304 /\ 2 ^ 23 = 8388608
      /\ 2 ^ 24 = 16777216 /\ 2 ^ 25 = 33554432 /\ 2 ^ 26 = 67108864 /\ 2 ^ 27 = 134217728
      /\ 2 ^ 28 = 268435456 /\ 2 ^ 29 = 536870912 /\ 2 ^ 30 = 1073741824
  BY SMT
<1>2. /\ 2 ^ 0 \in P /\ 2 ^ 1 \in P /\ 2 ^ 2 \in P /\ 2 ^ 3 \in P /\ 2 ^ 4 \in P /\ 2 ^ 5 \in P
      /\ 2 ^ 6 \in P /\ 2 ^ 7 \in P /\ 2 ^ 8 \in P /\ 2 ^ 9 \in P /\ 2 ^ 10 \in P /\ 2 ^ 11 \in P
      /\ 2 ^ 12 \in P /\ 2 ^ 13 \in P /\ 2 ^ 14 \in P /\ 2 ^ 15 \in P /\ 2 ^ 16 \in P /\ 2 ^ 17 \in P
      /\ 2 ^ 18 \in P /\ 2 ^ 19 \in P /\ 2 ^ 20 \in P /\ 2 ^ 21 \in P /\ 2 ^ 22 \in P /\ 2 ^ 23 \in P
      /\ 2 ^ 24 \in P /\ 2 ^ 25 \in P /\ 2 ^ 26 \in P /\ 2 ^ 27 \in P /\ 2 ^ 28 \in P /\ 2 ^ 29 \in P
      /\ 2 ^ 30 \in P
  BY SMT
<1>3. v <= 2 ^ 30
  BY SMT DEF Largest
<1> HIDE DEF P
<1>4. \E p \in P : v <= p /\ p < 2 * v
  BY <1>1, <1>2, <1>3, SMT
<1>5. ASSUME NEW i \in 0 .. 30 PROVE 2 ^ i \in Nat
  <2>1. /\ 2 ^ 0 \in Nat /\ 2 ^ 1 \in Nat /\ 2 ^ 2 \in Nat /\ 2 ^ 3 \in Nat /\ 2 ^ 4 \in Nat /\ 2 ^ 5 \in Nat
        /\ 2 ^ 6 \in Nat /\ 2 ^ 7 \in Nat /\ 2 ^ 8 \in Nat /\ 2 ^ 9 \in Nat /\ 2 ^ 10 \in Nat /\ 2 ^ 11 \in Nat
        /\ 2 ^ 12 \in Nat /\ 2 ^ 13 \in Nat /\ 2 ^ 14 \in Nat /\ 2 ^ 15 \in Nat /\ 2 ^ 16 \in Nat /\ 2 ^ 17 \in Nat
        /\ 2 ^ 18 \in Nat /\ 2 ^ 19 \in Nat /\ 2 ^ 20 \in Nat /\ 2 ^ 21 \in Nat /\ 2 ^ 22 \in Nat /\ 2 ^ 23 \in Nat
        /\ 2 ^ 24 \in Nat /\ 2 ^ 25 \in Nat /\ 2 ^ 26 \in Nat /\ 2 ^ 27 \in Nat /\ 2 ^ 28 \in Nat /\ 2 ^ 29 \in Nat
        /\ 2 ^ 30 \in Nat
    BY SMT
  <2>2. \/ i = 0 \/ i = 1 \/ i = 2 \/ i = 3 \/ i = 4 \/ i = 5 \/ i = 6 \/ i = 7 \/ i = 8 \/ i = 9
        \/ i = 10 \/ i = 11 \/ i = 12 \/ i = 13 \/ i = 14 \/ i = 15 \/ i = 16 \/ i = 17 \/ i = 18 \/ i = 19
        \/ i = 20 \/ i = 21 \/ i = 22 \/ i = 23 \/ i = 24 \/ i = 25 \/ i = 26 \/ i = 27 \/ i = 28 \/ i = 29
        \/ i = 30
    BY SMT
  <2>3. QED
    BY <2>1, <2>2, Zenon
<1>6. roundToPowerOfTwo(v) \in P /\ v <= roundToPowerOfTwo(v)
  BY <1>4 DEF roundToPowerOfTwo, P
<1>7. QED
  BY <1>5, <1>6 DEF P

\* gc(hint) makes room for hint bytes and keeps what waits.
LEMMA GcHintOK ==
  ASSUME NEW b, NEW s, Holds(b, s), NEW hint \in Nat, Len(s) + hint <= Largest
  PROVE  Holds(gcHint(b, hint), s) /\ hint <= unwrite(gcHint(b, hint))
<1> DEFINE c == gc(b)
           v == capacity(c) + hint - available(c)
           d == expandTo(c, roundToPowerOfTwo(v))
<1>1. Holds(c, s) /\ c.r = 0
  BY GcOK
<1>2. /\ unread(c) = Len(s) /\ Len(s) \in Nat /\ capacity(c) \in Nat /\ unwrite(c) \in Nat
      /\ unwrite(b) \in Nat
  BY <1>1, ContentOK
<1>3. c.w = Len(s)
  BY <1>1, <1>2, PartsOf
<1>4. /\ available(c) = capacity(c) - Len(s) /\ unwrite(c) = capacity(c) - Len(s)
  BY <1>2, <1>3 DEF available, unwrite
<1>5. gcHint(b, hint) = IF hint <= unwrite(b) THEN b
                        ELSE IF hint <= available(c) THEN c ELSE d
  BY DEF gcHint
<1> HIDE DEF c, d
<1>6. CASE hint <= unwrite(b)
  BY <1>5, <1>6
<1>7. CASE ~(hint <= unwrite(b)) /\ hint <= available(c)
  BY <1>1, <1>4, <1>5, <1>7
<1>8. CASE ~(hint <= unwrite(b)) /\ ~(hint <= available(c))
  <2>1. v = Len(s) + hint /\ v \in Nat /\ v > 0 /\ v <= Largest /\ v > capacity(c)
    BY <1>2, <1>4, <1>8
  <2> HIDE DEF v
  <2> DEFINE size == roundToPowerOfTwo(v)
  <2>2. size \in Nat /\ size >= v
    BY <2>1, RoundOK
  <2>3. d = expandTo(c, size)
    BY DEF d, v
  <2> HIDE DEF size
  <2>4. Holds(d, s) /\ capacity(d) = size /\ d.w = c.w
    <3>1. size >= capacity(c)
      BY <1>2, <2>1, <2>2
    <3>2. QED
      BY <1>1, <2>2, <2>3, <3>1, ExpandOK
  <2>5. hint <= unwrite(d)
    BY <1>2, <1>3, <2>1, <2>2, <2>4 DEF unwrite
  <2>6. QED
    BY <1>5, <1>8, <2>4, <2>5
<1>9. QED
  BY <1>6, <1>7, <1>8

\* Bytes written behind w, where there is room for them, wait behind the others.
LEMMA WrittenOK ==
  ASSUME NEW b, NEW s, Holds(b, s), NEW data \in Seq(Byte), Len(data) <= unwrite(b)
  PROVE  Holds(hasWritten([b EXCEPT !.buf = Copy(b.buf, b.w, data)], Len(data)), s \o data)
<1> DEFINE u == b.buf
           n == Len(data)
           c == Copy(u, b.w, data)
           t == s \o data
<1>1. /\ u \in Seq(Byte) /\ b.r \in Nat /\ b.w \in Nat /\ Len(u) \in Nat
      /\ s \in Seq(Byte) /\ Len(s) \in Nat /\ b.w = b.r + Len(s)
      /\ b = [buf |-> u, r |-> b.r, w |-> b.w]
      /\ \A i \in 1 .. Len(s) : u[b.r + i] = s[i]
  BY PartsOf
<1>2. n \in Nat /\ b.w + n <= Len(u)
  BY <1>1, LenProperties DEF unwrite, capacity
<1>3. /\ c \in Seq(Byte) /\ Len(c) = Len(u)
      /\ \A i \in 1 .. n : c[b.w + i] = data[i]
      /\ \A i \in 1 .. b.w : c[i] = u[i]
  BY <1>1, <1>2, CopyOK
<1>4. /\ t \in Seq(Byte) /\ Len(t) = Len(s) + n
      /\ \A i \in 1 .. Len(s) : t[i] = s[i]
      /\ \A i \in Len(s) + 1 .. Len(s) + n : t[i] = data[i - Len(s)]
  BY <1>1, Joined
<1>5. hasWritten([b EXCEPT !.buf = c], n) = [buf |-> c, r |-> b.r, w |-> b.w + n]
  <2>1. hasWritten([b EXCEPT !.buf = c], n)
            = [[b EXCEPT !.buf = c] EXCEPT !.w = [b EXCEPT !.buf = c].w + n]
    BY DEF hasWritten
  <2> HIDE DEF u, c
  <2>2. [b EXCEPT !.buf = c] = [buf |-> c, r |-> b.r, w |-> b.w]
    BY <1>1
  <2>3. QED
    BY <2>1, <2>2
<1> HIDE DEF c, t
<1>6. ASSUME NEW i \in 1 .. Len(t) PROVE c[b.r + i] = t[i]
  <2>1. CASE i <= Len(s)
    <3>1. i \in 1 .. Len(s) /\ b.r + i \in 1 .. b.w
      BY <1>1, <2>1
    <3>2. QED
      BY <1>1, <1>3, <1>4, <3>1
  <2>2. CASE ~(i <= Len(s))
    <3> DEFINE j == i - Len(s)
    <3>1. i \in Len(s) + 1 .. Len(s) + n /\ j \in 1 .. n /\ b.r + i = b.w + j
      BY <1>1, <1>2, <1>4, <2>2
    <3>2. t[i] = data[j]
      BY <1>4, <3>1
    <3> HIDE DEF j
    <3>3. c[b.w + j] = data[j]
      BY <1>3, <3>1
    <3>4. QED
      BY <3>1, <3>2, <3>3
  <2>3. QED
    BY <2>1, <2>2
<1> DEFINE w == b.w + n
<1>7. w \in Nat /\ w = b.r + Len(t) /\ w <= Len(c)
  BY <1>1, <1>2, <1>3, <1>4
<1> HIDE DEF w
<1>8. Holds([buf |-> c, r |-> b.r, w |-> w], t)
  BY <1>1, <1>3, <1>4, <1>6, <1>7, HoldsAt
<1>9. QED
  BY <1>5, <1>8 DEF c, t, w

\* append() puts its bytes behind what waits.
LEMMA AppendOK ==
  ASSUME NEW b, NEW s, Holds(b, s), NEW data \in Seq(Byte), Len(s) + Len(data) <= Largest
  PROVE  Holds(append(b, data), s \o data)
<1> DEFINE c == gcHint(b, Len(data))
<1>1. Len(data) \in Nat
  BY LenProperties
<1>2. Holds(c, s) /\ Len(data) <= unwrite(c)
  BY <1>1, GcHintOK
<1>3. append(b, data) = hasWritten([c EXCEPT !.buf = Copy(c.buf, c.w, data)], Len(data))
  BY DEF append
<1> HIDE DEF c
<1>4. QED
  BY <1>2, <1>3, WrittenOK

\* readFrom() puts the bytes of both vectors behind what waits, in order.
LEMMA ReadFromOK ==
  ASSUME NEW b, NEW s, Holds(b, s), NEW data \in Seq(Byte), Len(s) + Len(data) <= Largest
  PROVE  Holds(readFrom(b, data), s \o data)
<1> DEFINE limit == unwrite(b)
           n == IF Len(data) <= limit THEN Len(data) ELSE limit
           x == SubSeq(data, 1, n)
           y == SubSeq(data, n + 1, Len(data))
           c == hasWritten([b EXCEPT !.buf = Copy(b.buf, b.w, x)], n)
<1>1. limit \in Nat /\ Len(data) \in Nat /\ s \in Seq(Byte) /\ Len(s) \in Nat
  BY ContentOK, PartsOf, LenProperties
<1>2. n \in Nat /\ n <= Len(data) /\ n <= limit
  BY <1>1
<1>3. readFrom(b, data) = append(c, y)
  BY DEF readFrom
<1> HIDE DEF n
<1>4. x \in Seq(Byte) /\ Len(x) = n /\ x \o y = data
  BY <1>2, CutOK
<1>5. y \in Seq(Byte) /\ Len(y) = Len(data) - n
  BY <1>2, CutOK
<1> HIDE DEF x, y
<1>6. Holds(c, s \o x)
  BY <1>2, <1>4, WrittenOK
<1>7. /\ s \o x \in Seq(Byte) /\ Len(s \o x) = Len(s) + n
      /\ \A i \in 1 .. Len(s) : (s \o x)[i] = s[i]
      /\ \A i \in Len(s) + 1 .. Len(s) + n : (s \o x)[i] = x[i - Len(s)]
  BY <1>1, <1>4, Joined
<1> HIDE DEF c
<1>8. Holds(append(c, y), (s \o x) \o y)
  <2>1. Len(s \o x) + Len(y) <= Largest
    BY <1>1, <1>2, <1>5, <1>7
  <2>2. QED
    BY <1>5, <1>6, <2>1, AppendOK
<1>9. (s \o x) \o y = s \o (x \o y)
  <2>1. s \in Seq(Byte) /\ x \in Seq(Byte) /\ y \in Seq(Byte)
    BY <1>1, <1>4, <1>5
  <2>2. QED
    BY <2>1, Associates, Zenon
<1>10. QED
  BY <1>3, <1>4, <1>8, <1>9

\* hasRead() takes bytes from the front of what waits, also when it resets or compacts.
LEMMA HasReadOK ==
  ASSUME NEW b, NEW s, Holds(b, s), NEW n \in Nat, n <= Len(s)
  PROVE  Holds(hasRead(b, n), SubSeq(s, n + 1, Len(s)))
<1> DEFINE u == b.buf
           t == SubSeq(s, n + 1, Len(s))
           r == b.r + n
           c == [buf |-> u, r |-> r, w |-> b.w]
<1>1. /\ u \in Seq(Byte) /\ b.r \in Nat /\ b.w \in Nat /\ Len(u) \in Nat /\ b.w <= Len(u)
      /\ s \in Seq(Byte) /\ Len(s) \in Nat /\ b.w = b.r + Len(s)
      /\ b = [buf |-> u, r |-> b.r, w |-> b.w]
      /\ \A i \in 1 .. Len(s) : u[b.r + i] = s[i]
  BY PartsOf
<1>2. /\ t \in Seq(Byte) /\ Len(t) = Len(s) - n
      /\ \A i \in 1 .. Len(s) - n : t[i] = s[n + i]
  BY <1>1, Part
<1> HIDE DEF t
<1>3. [b EXCEPT !.r = @ + n] = c
  <2> HIDE DEF u
  <2>1. QED
    BY <1>1
<1>4. Holds(c, t)
  <2>1. ASSUME NEW i \in 1 .. Len(t) PROVE u[r + i] = t[i]
    <3>1. n + i \in 1 .. Len(s) /\ r + i = b.r + (n + i) /\ i \in 1 .. Len(s) - n
      BY <1>1, <1>2
    <3>2. QED
      BY <1>1, <1>2, <3>1
  <2>2. r \in Nat /\ b.w = r + Len(t)
    BY <1>1, <1>2
  <2> HIDE DEF u, r
  <2>3. QED
    BY <1>1, <1>2, <2>1, <2>2, HoldsAt
<1>5. hasRead(b, n) = reuseIfPossible(c)
  BY <1>3 DEF hasRead
<1>6. c.buf = u /\ c.r = r /\ c.w = b.w
  OBVIOUS
<1> HIDE DEF c
<1>7. Holds(gc(c), t)
  BY <1>4, GcOK
<1>8. ASSUME c.r = c.w PROVE Holds([c EXCEPT !.r = 0, !.w = 0], t)
  <2> DEFINE z == 0
  <2>1. Len(t) = 0
    <3>1. r = b.w /\ b.w = r + Len(t)
      BY <1>1, <1>2, <1>6, <1>8
    <3>2. QED
      BY <1>1, <1>2, <3>1
  <2>2. [c EXCEPT !.r = 0, !.w = 0] = [buf |-> u, r |-> z, w |-> z]
    <3> DEFINE d == b.w
               e == [c EXCEPT !.r = 0]
    <3> HIDE DEF u, r, d, e
    <3>1. c = [buf |-> u, r |-> r, w |-> d]
      BY DEF c, d
    <3>2. e = [buf |-> u, r |-> 0, w |-> d]
      BY <3>1 DEF e
    <3>3. [e EXCEPT !.w = 0] = [buf |-> u, r |-> 0, w |-> 0]
      BY <3>2
    <3>4. [c EXCEPT !.r = 0, !.w = 0] = [e EXCEPT !.w = 0]
      BY DEF e
    <3>5. QED
      BY <3>3, <3>4
  <2>3. z \in Nat /\ z = z + Len(t) /\ z <= Len(u) /\ \A i \in 1 .. Len(t) : u[z + i] = t[i]
    BY <1>1, <2>1
  <2> HIDE DEF z, u
  <2>4. Holds([buf |-> u, r |-> z, w |-> z], t)
    BY <1>1, <1>2, <2>3, HoldsAt
  <2>5. QED
    BY <2>2, <2>4
<1>9. Holds(reuseIfPossible(c), t)
  BY <1>4, <1>7, <1>8 DEF reuseIfPossible
<1>10. QED
  BY <1>5, <1>9 DEF t

-----------------------------------------------------------------------------
(* Lines and the parser                                                    *)

Less == OpToRel(<, Nat)

\* Membership in the relation of the library's theorems on well-founded relations.
LEMMA LessThan ==
  ASSUME NEW x \in Nat, NEW y \in Nat
  PROVE  <<y, x>> \in Less <=> y < x
BY DEF Less, OpToRel

\* A nonempty set of numbers has a lowest one.
LEMMA LowestExists ==
  ASSUME NEW S \in SUBSET Nat, S # {}
  PROVE  Min(S) \in S /\ \A y \in S : Min(S) <= y
<1>1. IsWellFoundedOn(Less, Nat)
  BY NatLessThanWellFounded DEF Less
<1>2. PICK x \in S : \A y \in S : ~(<<y, x>> \in Less)
  BY <1>1, WFMin
<1>3. ASSUME NEW y \in S PROVE x <= y
  <2>1. x \in Nat /\ y \in Nat
    OBVIOUS
  <2>2. ~(y < x)
    BY <1>2, <2>1, LessThan
  <2>3. QED
    BY <2>1, <2>2
<1>4. QED
  BY <1>3 DEF Min

\* A line: its text, if it has one, tells what it is, and CR LF end it.
LEMMA LineOK ==
  ASSUME TextLength \in Nat \ {0}, NEW kind \in Kinds
  PROVE  /\ Line(kind) \in Seq(Byte) /\ Len(Line(kind)) \in 2 .. TextLength + 2
         /\ Line(kind)[Len(Line(kind)) - 1] = CR /\ Line(kind)[Len(Line(kind))] = LF
         /\ \A i \in 1 .. Len(Line(kind)) - 2 : Line(kind)[i] = kind
         /\ kind # "empty" => Len(Line(kind)) > 2
         /\ kind = "empty" => Len(Line(kind)) = 2
         /\ kind # CR /\ CR # LF
<1> DEFINE n == IF kind = "empty" THEN 0 ELSE TextLength
           t == [i \in 1 .. n |-> kind]
           e == <<CR, LF>>
           l == t \o e
<1>1. n \in 0 .. TextLength /\ n \in Nat /\ (kind # "empty" => n > 0) /\ (kind = "empty" => n = 0)
  OBVIOUS
<1> HIDE DEF n
<1>2. kind \in Byte /\ CR \in Byte /\ LF \in Byte /\ kind # CR /\ CR # LF
  BY DEF Byte, Kinds, CR, LF
<1>3. t \in Seq(Byte) /\ Len(t) = n /\ \A i \in 1 .. n : t[i] = kind
  BY <1>1, <1>2
<1>4. e \in Seq(Byte) /\ Len(e) = 2 /\ e[1] = CR /\ e[2] = LF
  BY <1>2
<1> HIDE DEF t, e
<1>5. /\ l \in Seq(Byte) /\ Len(l) = Len(t) + Len(e)
      /\ \A i \in 1 .. Len(t) : l[i] = t[i]
      /\ \A i \in 1 .. Len(e) : l[Len(t) + i] = e[i]
  BY <1>3, <1>4, Joined
<1>6. l = Line(kind)
  BY DEF Line, l, t, e, n
<1> HIDE DEF l
<1>7. l[n + 1] = CR /\ l[n + 2] = LF
  BY <1>1, <1>3, <1>4, <1>5
<1>8. Len(l) = n + 2 /\ n + 2 - 1 = n + 1 /\ n + 2 - 2 = n
  BY <1>1, <1>3, <1>4, <1>5
<1>9. \A i \in 1 .. n : l[i] = kind
  BY <1>3, <1>5
<1>10. QED
  BY <1>1, <1>2, <1>5, <1>6, <1>7, <1>8, <1>9

\* std::find stops at the first CR.
LEMMA FindCrOK ==
  ASSUME NEW s \in Seq(Byte), HasLine(s)
  PROVE  /\ FindCr(s) \in 1 .. Len(s) - 1 /\ s[FindCr(s)] = CR
         /\ \A i \in 1 .. FindCr(s) - 1 : s[i] # CR
<1> DEFINE I == {i \in 1 .. Len(s) : s[i] = CR}
<1>1. Len(s) \in Nat /\ DOMAIN s = 1 .. Len(s)
  BY LenProperties
<1>2. FindCr(s) + 1 <= Len(s)
  BY DEF HasLine
<1>3. CR \in ToSet(s)
  BY <1>1, <1>2 DEF FindCr
<1>4. I # {} /\ I \in SUBSET Nat
  BY <1>1, <1>3 DEF ToSet
<1>5. FindCr(s) = Min(I)
  BY <1>3, <1>4 DEF FindCr, SelectInSeq
<1> HIDE DEF I
<1>6. FindCr(s) \in I /\ \A y \in I : FindCr(s) <= y
  BY <1>4, <1>5, LowestExists
<1>7. FindCr(s) \in 1 .. Len(s) /\ s[FindCr(s)] = CR
  BY <1>6 DEF I
<1>8. ASSUME NEW i \in 1 .. FindCr(s) - 1 PROVE s[i] # CR
  <2>1. i \in 1 .. Len(s) /\ ~(FindCr(s) <= i)
    BY <1>1, <1>7
  <2>2. QED
    BY <1>6, <2>1 DEF I
<1>9. QED
  BY <1>1, <1>2, <1>7, <1>8

\* parse() consumes one line or nothing, and is ready only with a request line.
LEMMA ParseOK ==
  ASSUME NEW s \in Seq(Byte)
  PROVE  /\ parse(s).consumes \in 0 .. Len(s)
         /\ parse(s).ready \in BOOLEAN /\ parse(s).bad \in BOOLEAN
         /\ parse(s).consumes # 0 => HasLine(s) /\ parse(s).consumes = FindCr(s) + 1
         /\ parse(s).ready => /\ HasLine(s) /\ parse(s).consumes = FindCr(s) + 1
                              /\ FindCr(s) # 1 /\ Version(s) # "UNKNOWN"
<1>1. Len(s) \in Nat
  BY LenProperties
<1>2. CASE HasLine(s)
  <2> DEFINE f == FindCr(s)
             none == [consumes |-> 0, ready |-> FALSE, bad |-> FALSE]
             wrong == [consumes |-> 0, ready |-> FALSE, bad |-> TRUE]
             next == [consumes |-> f + 1, ready |-> f # 1, bad |-> f = 1]
             last == [consumes |-> f + 1, ready |-> FALSE, bad |-> FALSE]
  <2>1. f \in 1 .. Len(s) - 1
    BY <1>2, FindCrOK
  <2>2. parseNextHeader(s, f + 1) = next
    BY <1>2 DEF parseNextHeader
  <2>3. parse(s) = IF f = 1 THEN none ELSE IF Version(s) = "UNKNOWN" THEN wrong
                   ELSE IF f + 1 < Len(s) THEN next ELSE last
    BY <1>2, <2>2 DEF parse, parseInit
  <2>4. f + 1 \in 0 .. Len(s)
    BY <1>1, <2>1
  <2> HIDE DEF f
  <2>5. CASE f = 1
    BY <1>1, <2>3, <2>5
  <2>6. CASE f # 1 /\ Version(s) = "UNKNOWN"
    BY <1>1, <2>3, <2>6
  <2>7. CASE f # 1 /\ Version(s) # "UNKNOWN" /\ f + 1 < Len(s)
    BY <1>2, <2>3, <2>4, <2>7 DEF f
  <2>8. CASE f # 1 /\ Version(s) # "UNKNOWN" /\ ~(f + 1 < Len(s))
    BY <1>2, <2>3, <2>4, <2>8 DEF f
  <2>9. QED
    BY <2>5, <2>6, <2>7, <2>8
<1>3. CASE ~HasLine(s)
  BY <1>1, <1>3 DEF parse, parseInit
<1>4. QED
  BY <1>2, <1>3

\* Where the lines of a stream begin, and where the last one ends.
Bounds(B, s) ==
    /\ B \in SUBSET (0 .. Len(s)) /\ Len(s) \in B
    /\ \A b \in B : \/ b = Len(s)
                    \/ \E kind \in Kinds :
                          /\ b + Len(Line(kind)) \in B
                          /\ \A i \in 1 .. Len(Line(kind)) : s[b + i] = Line(kind)[i]

\* One more line at the end of a stream.
LEMMA BoundsGrow ==
  ASSUME TextLength \in Nat \ {0}, NEW s \in Seq(Byte), NEW B, Bounds(B, s), NEW kind \in Kinds
  PROVE  Bounds(B \cup {Len(s \o Line(kind))}, s \o Line(kind))
<1> DEFINE l == Line(kind)
           t == s \o l
           C == B \cup {Len(t)}
<1>1. l \in Seq(Byte) /\ Len(l) \in Nat
  BY LineOK
<1>2. /\ t \in Seq(Byte) /\ Len(t) = Len(s) + Len(l) /\ Len(s) \in Nat
      /\ \A i \in 1 .. Len(s) : t[i] = s[i]
      /\ \A i \in 1 .. Len(l) : t[Len(s) + i] = l[i]
  <2> HIDE DEF l
  <2>1. QED
    BY <1>1, Joined
<1> HIDE DEF l, t
<1>3. C \in SUBSET (0 .. Len(t)) /\ Len(t) \in C
  <2>1. \A b \in B : b \in 0 .. Len(s)
    BY DEF Bounds
  <2>2. \A b \in 0 .. Len(s) : b \in 0 .. Len(t)
    BY <1>1, <1>2
  <2>3. Len(t) \in 0 .. Len(t)
    BY <1>1, <1>2
  <2>4. QED
    BY <2>1, <2>2, <2>3
<1>4. ASSUME NEW b \in C
      PROVE  \/ b = Len(t)
             \/ \E k \in Kinds : /\ b + Len(Line(k)) \in C
                                 /\ \A i \in 1 .. Len(Line(k)) : t[b + i] = Line(k)[i]
  <2>1. CASE b = Len(s)
    <3>1. b + Len(l) \in C /\ \A i \in 1 .. Len(l) : t[b + i] = l[i]
      BY <1>2, <2>1
    <3>2. QED
      BY <3>1 DEF l
  <2>2. CASE b \in B /\ b # Len(s)
    <3>1. PICK k \in Kinds : /\ b + Len(Line(k)) \in B
                             /\ \A i \in 1 .. Len(Line(k)) : s[b + i] = Line(k)[i]
      BY <2>2 DEF Bounds
    <3> DEFINE m == Line(k)
    <3>2. Len(m) \in Nat
      BY LineOK
    <3>3. b \in Nat /\ b + Len(m) <= Len(s)
      BY <1>2, <2>2, <3>1 DEF Bounds
    <3>4. b + Len(m) \in B /\ \A i \in 1 .. Len(m) : s[b + i] = m[i]
      BY <3>1
    <3> HIDE DEF m
    <3>5. ASSUME NEW i \in 1 .. Len(m) PROVE t[b + i] = m[i]
      <4>1. b + i \in 1 .. Len(s)
        BY <1>2, <3>2, <3>3
      <4>2. QED
        BY <1>2, <3>4, <4>1
    <3>6. b + Len(m) \in C /\ \A i \in 1 .. Len(m) : t[b + i] = m[i]
      BY <3>4, <3>5
    <3>7. QED
      BY <3>6 DEF m
  <2>3. QED
    BY <2>1, <2>2
<1>5. Bounds(C, t)
  BY <1>3, <1>4 DEF Bounds
<1>6. QED
  BY <1>5 DEF t, l

\* What a line of a kind means to the parser.
VersionOf(kind) == IF kind \in {"V10", "V11"} THEN kind ELSE "UNKNOWN"

\* The first line that the parser finds in what waits is the line of the stream that
\* begins there: the whole of it and no more.
LEMMA FirstLine ==
  ASSUME TextLength \in Nat \ {0}, NEW s \in Seq(Byte), NEW B, Bounds(B, s),
         NEW c \in B, NEW q \in Seq(Byte), c + Len(q) <= Len(s),
         \A i \in 1 .. Len(q) : q[i] = s[c + i],
         HasLine(q)
  PROVE  \E kind \in Kinds :
            /\ FindCr(q) + 1 = Len(Line(kind))
            /\ c + FindCr(q) + 1 \in B
            /\ \A i \in 1 .. FindCr(q) + 1 : q[i] = Line(kind)[i]
            /\ FindCr(q) # 1 => Version(q) = VersionOf(kind)
<1> DEFINE f == FindCr(q)
<1>1. /\ f \in 1 .. Len(q) - 1 /\ q[f] = CR
      /\ \A i \in 1 .. f - 1 : q[i] # CR
  BY FindCrOK
<1>2. Len(q) \in Nat /\ Len(s) \in Nat /\ c \in Nat
  BY LenProperties DEF Bounds
<1>3. PICK kind \in Kinds : /\ c + Len(Line(kind)) \in B
                            /\ \A i \in 1 .. Len(Line(kind)) : s[c + i] = Line(kind)[i]
  <2>1. c # Len(s)
    <3> HIDE DEF f
    <3>1. QED
      BY <1>1, <1>2
  <2>2. QED
    BY <2>1 DEF Bounds
<1> DEFINE l == Line(kind)
           n == Len(l)
<1>4. /\ n \in Nat /\ n >= 2 /\ l[n - 1] = CR
      /\ \A i \in 1 .. n - 2 : l[i] = kind
      /\ kind # CR
      /\ kind = "empty" => n = 2
  BY LineOK
<1>5. c + n \in B /\ \A i \in 1 .. n : s[c + i] = l[i]
  BY <1>3
<1> HIDE DEF f, l, n
<1>6. ASSUME NEW i \in Nat, 1 <= i, i <= n, i <= Len(q) PROVE q[i] = l[i]
  BY <1>2, <1>4, <1>5, <1>6
<1>7. ~(f < n - 1)
  <2>1. SUFFICES ASSUME f < n - 1 PROVE FALSE
    OBVIOUS
  <2>2. f \in 1 .. n - 2 /\ f \in Nat /\ 1 <= f /\ f <= n /\ f <= Len(q)
    BY <1>1, <1>2, <1>4, <2>1
  <2>3. q[f] = l[f] /\ l[f] = kind
    BY <1>4, <1>6, <2>2
  <2>4. QED
    BY <1>1, <1>4, <2>3
<1>8. ~(f > n - 1)
  <2> DEFINE j == n - 1
  <2>1. SUFFICES ASSUME f > n - 1 PROVE FALSE
    OBVIOUS
  <2>2. j \in 1 .. f - 1 /\ j \in Nat /\ 1 <= j /\ j <= n /\ j <= Len(q)
    BY <1>1, <1>2, <1>4, <2>1
  <2>3. l[j] = CR
    BY <1>4
  <2> HIDE DEF j
  <2>4. QED
    BY <1>1, <1>6, <2>2, <2>3
<1>9. f + 1 = n
  BY <1>1, <1>2, <1>4, <1>7, <1>8
<1>10. c + f + 1 \in B
  <2>1. c + f + 1 = c + n
    BY <1>1, <1>2, <1>9
  <2>2. QED
    BY <1>5, <2>1
<1>11. ASSUME NEW i \in 1 .. f + 1 PROVE q[i] = l[i]
  BY <1>1, <1>2, <1>6, <1>9
<1>12. ASSUME f # 1 PROVE Version(q) = VersionOf(kind)
  <2> DEFINE z == 1
  <2>1. z \in 1 .. f + 1 /\ z \in 1 .. n - 2
    BY <1>1, <1>2, <1>9, <1>12
  <2>2. q[z] = l[z] /\ l[z] = kind
    <3> HIDE DEF z
    <3>1. QED
      BY <1>4, <1>11, <2>1
  <2>3. Head(q) = q[1]
    BY HeadTailProperties, <1>1, <1>2
  <2>4. Head(q) = kind
    BY <2>2, <2>3
  <2>5. QED
    BY <2>4 DEF Version, VersionOf
<1>13. QED
  BY <1>9, <1>10, <1>11, <1>12 DEF f, l, n

-----------------------------------------------------------------------------
(* Answers                                                                 *)

Ans == [code : {"200", "400"}, close : BOOLEAN, from : Nat, to : Nat]

\* An answer to a request belongs to the request line between its two positions.
Honest(rec, a) ==
    a.code = "200" =>
        \E v \in {"V10", "V11"} :
            SubSeq(rec, a.from + 1, a.to) = Line(v)

\* The answers of a stream of which c bytes are consumed.
Kept(ans, rec, c, conn) ==
    /\ ans \in Seq(Ans)
    /\ \A i \in 1 .. Len(ans) :
          /\ ans[i].from <= ans[i].to /\ ans[i].to <= c
          /\ Honest(rec, ans[i])
          /\ ans[i].close => i = Len(ans) /\ ~conn
    /\ \A i, j \in 1 .. Len(ans) : i < j => ans[i].to <= ans[j].from

\* Bytes that arrive or are consumed, and a close, change nothing of past answers.
LEMMA KeptLater ==
  ASSUME NEW ans, NEW rec \in Seq(Byte), NEW c \in Nat, c <= Len(rec), NEW conn \in BOOLEAN,
         Kept(ans, rec, c, conn),
         NEW x \in Seq(Byte), NEW d \in Nat, c <= d, NEW still \in BOOLEAN, still => conn
  PROVE  Kept(ans, rec \o x, d, still)
<1>1. Len(ans) \in Nat /\ ans \in Seq(Ans) /\ Len(rec) \in Nat
  BY LenProperties DEF Kept
<1>2. ASSUME NEW i \in 1 .. Len(ans)
      PROVE  /\ ans[i].from <= ans[i].to /\ ans[i].to <= d
             /\ Honest(rec \o x, ans[i])
             /\ ans[i].close => i = Len(ans) /\ ~still
  <2> DEFINE a == ans[i]
             m == a.from
             n == a.to
  <2>1. a \in Ans
    BY <1>1
  <2>2. /\ m <= n /\ n <= c /\ Honest(rec, a) /\ (a.close => i = Len(ans) /\ ~conn)
    BY DEF Kept
  <2>3. m \in Nat /\ n \in Nat
    BY <2>1 DEF Ans
  <2> HIDE DEF m, n
  <2>4. n <= Len(rec) /\ n <= d
    BY <1>1, <2>2, <2>3
  <2>5. SubSeq(rec \o x, m + 1, n) = SubSeq(rec, m + 1, n)
    BY <2>2, <2>3, <2>4, InsideKept
  <2>6. Honest(rec \o x, a)
    BY <2>2, <2>5 DEF Honest, m, n
  <2>7. QED
    BY <2>2, <2>4, <2>6 DEF m, n
<1>3. \A i, j \in 1 .. Len(ans) : i < j => ans[i].to <= ans[j].from
  BY DEF Kept
<1>4. QED
  BY <1>1, <1>2, <1>3 DEF Kept

\* An answer to what was consumed last goes behind the others.
LEMMA KeptAppend ==
  ASSUME NEW ans, NEW rec, NEW c \in Nat, NEW d \in Nat, c <= d, Kept(ans, rec, c, TRUE),
         NEW a \in Ans, a.from = c, a.to = d, Honest(rec, a),
         NEW conn \in BOOLEAN, a.close => ~conn
  PROVE  Kept(Append(ans, a), rec, d, conn)
<1> DEFINE l == Append(ans, a)
           n == Len(ans)
<1>1. n \in Nat /\ ans \in Seq(Ans)
  BY LenProperties DEF Kept
<1>2. /\ l \in Seq(Ans) /\ Len(l) = n + 1 /\ l[n + 1] = a
      /\ \A i \in 1 .. n : l[i] = ans[i]
  BY <1>1, AppendProperties
<1>3. ASSUME NEW i \in 1 .. n
      PROVE  ans[i].from <= ans[i].to /\ ans[i].to <= c /\ Honest(rec, ans[i]) /\ ~ans[i].close
  BY DEF Kept
<1>4. ASSUME NEW i \in 1 .. n PROVE ans[i].from \in Nat /\ ans[i].to \in Nat
  <2>1. ans[i] \in Ans
    BY <1>1
  <2>2. QED
    BY <2>1 DEF Ans
<1>5. \A i, j \in 1 .. n : i < j => ans[i].to <= ans[j].from
  BY DEF Kept
<1> HIDE DEF l, n
<1>6. ASSUME NEW i \in 1 .. Len(l)
      PROVE  /\ l[i].from <= l[i].to /\ l[i].to <= d
             /\ Honest(rec, l[i])
             /\ l[i].close => i = Len(l) /\ ~conn
  <2>1. CASE i \in 1 .. n
    BY <1>2, <1>3, <1>4, <2>1
  <2>2. CASE i = n + 1
    BY <1>2, <2>2
  <2>3. QED
    BY <1>1, <1>2, <2>1, <2>2
<1>7. ASSUME NEW i \in 1 .. Len(l), NEW j \in 1 .. Len(l), i < j PROVE l[i].to <= l[j].from
  <2>1. i \in 1 .. n
    BY <1>1, <1>2, <1>7
  <2>2. CASE j \in 1 .. n
    BY <1>2, <1>5, <1>7, <2>1, <2>2
  <2>3. CASE j = n + 1
    BY <1>2, <1>3, <2>1, <2>3
  <2>4. QED
    BY <1>1, <1>2, <2>2, <2>3
<1>8. Kept(l, rec, d, conn)
  BY <1>2, <1>6, <1>7 DEF Kept
<1>9. QED
  BY <1>8 DEF l

-----------------------------------------------------------------------------
(* Invariant                                                               *)

HttpConstants ==
    /\ Size \in Nat \ {0} /\ TextLength \in Nat \ {0} /\ MaxLines \in Nat
    /\ Reads \in SUBSET Nat

\* All lines of a connection fit into the largest storage of a Buffer.
LinesFit == MaxLines * (TextLength + 2) <= Largest

\* What Http assumes of its constants.
LEMMA ConstantsOK == HttpConstants /\ LinesFit
<1>1. 2 ^ 30 = 1073741824
  BY SMT
<1>2. MaxLines * (TextLength + 2) <= 2 ^ 30
  BY HttpAssumption DEF HttpAssumption
<1>3. LinesFit
  BY <1>1, <1>2, SMT DEF LinesFit, Largest
<1>4. HttpConstants
  BY HttpAssumption DEF HttpAssumption, HttpConstants
<1>5. QED
  BY <1>3, <1>4

Pending == SubSeq(received, consumed + 1, Len(received))

HttpType ==
    /\ lines \in 0 .. MaxLines
    /\ wire \in Seq(Byte) /\ received \in Seq(Byte)
    /\ Len(received) + Len(wire) <= lines * (TextLength + 2)
    /\ consumed \in 0 .. Len(received) /\ connected \in BOOLEAN

\* The server is always between two lines of what the peer sent.
BetweenLines == \E B : consumed \in B /\ Bounds(B, received \o wire)

HttpInv ==
    /\ HttpType
    /\ Holds(input, Pending)
    /\ BetweenLines
    /\ Kept(answers, received, consumed, connected)

\* The peer sends a line.
LEMMA PeerKeeps ==
  ASSUME HttpConstants, HttpInv, Peer
  PROVE  HttpInv'
<1> USE DEF HttpConstants
<1>1. /\ lines < MaxLines /\ lines' = lines + 1
      /\ input' = input /\ connected' = connected /\ received' = received
      /\ consumed' = consumed /\ answers' = answers
  BY DEF Peer
<1>2. PICK kind \in Kinds : wire' = wire \o Line(kind)
  BY DEF Peer
<1> DEFINE l == Line(kind)
           s == received \o wire
           k == TextLength + 2
<1>3. l \in Seq(Byte) /\ Len(l) \in Nat /\ Len(l) <= k
  BY LineOK
<1>4. /\ wire \in Seq(Byte) /\ received \in Seq(Byte) /\ lines \in Nat /\ k \in Nat
      /\ Len(received) + Len(wire) <= lines * k
      /\ consumed \in 0 .. Len(received) /\ connected \in BOOLEAN
  BY DEF HttpInv, HttpType
<1>5. wire' = wire \o l /\ Len(wire) \in Nat /\ Len(received) \in Nat
  BY <1>2, <1>4, LenProperties
<1>6. wire' \in Seq(Byte) /\ Len(wire') = Len(wire) + Len(l) /\ s \in Seq(Byte)
  <2> HIDE DEF l
  <2>1. QED
    BY <1>3, <1>4, <1>5, Joined
<1>7. HttpType'
  <2>1. lines' \in 0 .. MaxLines
    BY <1>1, <1>4
  <2>2. Len(received') + Len(wire') <= lines' * (TextLength + 2)
    <3>1. lines' * k = lines * k + k
      <4> HIDE DEF k
      <4>1. QED
        BY <1>1, <1>4
    <3> HIDE DEF k, l
    <3>2. lines * k \in Nat
      BY <1>4
    <3>3. Len(received') + Len(wire') <= lines' * k
      <4> DEFINE p == lines * k
      <4> HIDE DEF p
      <4>1. lines' * k = p + k /\ p \in Nat /\ Len(received) + Len(wire) <= p
        BY <1>4, <3>1, <3>2 DEF p
      <4>2. QED
        BY <1>1, <1>3, <1>4, <1>5, <1>6, <4>1
    <3>4. QED
      BY <3>3 DEF k
  <2>3. QED
    BY <1>1, <1>4, <1>6, <2>1, <2>2 DEF HttpType
<1>8. Holds(input', Pending')
  BY <1>1 DEF HttpInv, Pending
<1>9. BetweenLines'
  <2>1. PICK B : consumed \in B /\ Bounds(B, s)
    BY DEF HttpInv, BetweenLines
  <2>2. Bounds(B \cup {Len(s \o l)}, s \o l)
    <3> HIDE DEF s
    <3>1. QED
      BY <1>6, <2>1, BoundsGrow
  <2>3. s \o l = received' \o wire'
    <3> HIDE DEF l
    <3>1. QED
      BY <1>1, <1>3, <1>4, <1>5, Associates
  <2>4. consumed' \in B \cup {Len(s \o l)}
    BY <1>1, <2>1
  <2>5. QED
    BY <2>2, <2>3, <2>4 DEF BetweenLines
<1>10. Kept(answers', received', consumed', connected')
  BY <1>1 DEF HttpInv
<1>11. QED
  BY <1>7, <1>8, <1>9, <1>10 DEF HttpInv

\* A message in its parts: what waits after the read, what the parser makes of it,
\* and the three ways to go on.
Bad(b, q) ==
    /\ input' = b /\ consumed' = consumed /\ connected' = FALSE
    /\ answers' = IF connected
                  THEN Append(answers, [code |-> "400", close |-> TRUE, from |-> consumed, to |-> consumed])
                  ELSE answers

Good(b, q) ==
    /\ input' = hasRead(b, parse(q).consumes) /\ consumed' = consumed + parse(q).consumes
    /\ \/ connected' = connected /\ answers' = answers
       \/ /\ parse(q).ready
          /\ \E closes \in BOOLEAN :
                /\ connected' = (connected /\ ~closes)
                /\ answers' = IF connected
                              THEN Append(answers, [code |-> "200", close |-> closes,
                                                    from |-> consumed, to |-> consumed'])
                              ELSE answers

\* What a message leaves on the wire, puts into the Buffer and does with the parser.
LEMMA MessageParts ==
  ASSUME HttpConstants, LinesFit, HttpInv, NEW n \in Nat, Message(n)
  PROVE  LET x == SubSeq(wire, 1, n)
             b == readFrom(input, x)
             q == SubSeq(received', consumed + 1, Len(received')) IN
         /\ n <= Len(wire) /\ lines' = lines
         /\ x \in Seq(Byte) /\ wire' \in Seq(Byte) /\ received' \in Seq(Byte)
         /\ received' = received \o x /\ received' \o wire' = received \o wire
         /\ Len(received') = Len(received) + n /\ Len(wire') = Len(wire) - n
         /\ Holds(b, q) /\ q \in Seq(Byte) /\ Len(q) = Len(received') - consumed
         /\ \A i \in 1 .. Len(q) : q[i] = received'[consumed + i]
         /\ Bad(b, q) \/ Good(b, q)
<1> USE DEF HttpConstants
<1> DEFINE x == SubSeq(wire, 1, n)
           y == SubSeq(wire, n + 1, Len(wire))
           b == readFrom(input, x)
           q == SubSeq(received', consumed + 1, Len(received'))
           k == TextLength + 2
<1>1. /\ n <= Len(wire) /\ wire' = y /\ received' = received \o x /\ lines' = lines
  BY DEF Message
<1>2. /\ wire \in Seq(Byte) /\ received \in Seq(Byte) /\ lines \in 0 .. MaxLines /\ k \in Nat
      /\ Len(received) + Len(wire) <= lines * k
      /\ consumed \in 0 .. Len(received) /\ connected \in BOOLEAN
      /\ Len(wire) \in Nat /\ Len(received) \in Nat
  BY LenProperties DEF HttpInv, HttpType
<1>3. /\ x \in Seq(Byte) /\ y \in Seq(Byte) /\ Len(x) = n /\ Len(y) = Len(wire) - n
      /\ x \o y = wire
  BY <1>1, <1>2, CutOK
<1>4. received' \in Seq(Byte) /\ Len(received') = Len(received) + n
  <2> HIDE DEF x
  <2>1. QED
    BY <1>1, <1>2, <1>3, Joined
<1>5. received' \o wire' = received \o wire
  <2> HIDE DEF x, y
  <2>1. (received \o x) \o y = received \o (x \o y)
    BY <1>2, <1>3, Associates
  <2>2. QED
    BY <1>1, <1>3, <2>1
<1>6. Len(received) + Len(wire) <= Largest
  <2>1. lines * k <= MaxLines * k
    <3> HIDE DEF k
    <3>1. lines \in Nat /\ MaxLines \in Nat /\ lines <= MaxLines
      BY <1>2
    <3>2. QED
      BY <1>2, <3>1
  <2>2. lines * k \in Nat /\ MaxLines * k \in Nat
    <3> HIDE DEF k
    <3>1. QED
      BY <1>2
  <2>3. MaxLines * k <= Largest
    BY DEF LinesFit
  <2> DEFINE p == lines * k
             r == MaxLines * k
  <2>4. p \in Nat /\ r \in Nat /\ p <= r /\ r <= Largest /\ Len(received) + Len(wire) <= p
    BY <1>2, <2>1, <2>2, <2>3
  <2> HIDE DEF p, r
  <2>5. QED
    BY <1>2, <2>4, SMT DEF Largest
<1>7. Holds(input, Pending) /\ Pending \in Seq(Byte) /\ Len(Pending) = Len(received) - consumed
  <2>1. consumed \in Nat /\ consumed <= Len(received)
    BY <1>2
  <2>2. QED
    BY <1>2, <2>1, Part DEF HttpInv, Pending
<1>8. Holds(b, Pending \o x)
  <2> HIDE DEF x
  <2>1. Len(Pending) + Len(x) <= Largest
    BY <1>1, <1>2, <1>3, <1>6, <1>7, SMT DEF Largest
  <2>2. QED
    BY <1>3, <1>7, <2>1, ReadFromOK
<1>9. Pending \o x = q
  <2> HIDE DEF x
  <2>1. consumed \in Nat /\ consumed <= Len(received)
    BY <1>2
  <2>2. QED
    BY <1>1, <1>2, <1>3, <2>1, SuffixJoined DEF Pending
<1>10. /\ q \in Seq(Byte) /\ Len(q) = Len(received') - consumed
       /\ \A i \in 1 .. Len(q) : q[i] = received'[consumed + i]
  <2> DEFINE e == Len(received')
             t == SubSeq(received', consumed + 1, e)
  <2>1. consumed \in Nat /\ e \in Nat /\ consumed <= e /\ e <= Len(received')
    BY <1>1, <1>2, <1>4
  <2>2. /\ t \in Seq(Byte) /\ Len(t) = e - consumed
        /\ \A i \in 1 .. e - consumed : t[i] = received'[consumed + i]
    <3> HIDE DEF e
    <3>1. QED
      BY <1>4, <2>1, Part
  <2> HIDE DEF t
  <2>3. t = q
    BY DEF t
  <2>4. QED
    BY <2>2, <2>3
<1>11. Holds(b, q) /\ Content(b) = q
  BY <1>8, <1>9, ContentOK
<1> DEFINE o == parse(Content(b))
<1>12. \/ /\ o.bad
          /\ Answer("400", TRUE, consumed, consumed)
          /\ input' = b /\ connected' = FALSE /\ UNCHANGED consumed
       \/ /\ ~o.bad
          /\ input' = hasRead(b, o.consumes)
          /\ consumed' = consumed + o.consumes
          /\ \/ ~o.ready /\ UNCHANGED <<connected, answers>>
             \/ /\ o.ready
                /\ \E closes \in BOOLEAN :
                      /\ Answer("200", closes, consumed, consumed')
                      /\ connected' = (connected /\ ~closes)
  BY Zenon DEF Message
<1> HIDE DEF b, q
<1>13. o = parse(q)
  BY <1>11
<1>14. Bad(b, q) \/ Good(b, q)
  <2>1. CASE /\ o.bad
             /\ Answer("400", TRUE, consumed, consumed)
             /\ input' = b /\ connected' = FALSE /\ UNCHANGED consumed
    BY <2>1, Zenon DEF Bad, Answer, Sends
  <2>2. CASE /\ ~o.bad
             /\ input' = hasRead(b, o.consumes)
             /\ consumed' = consumed + o.consumes
             /\ \/ ~o.ready /\ UNCHANGED <<connected, answers>>
                \/ /\ o.ready
                   /\ \E closes \in BOOLEAN :
                         /\ Answer("200", closes, consumed, consumed')
                         /\ connected' = (connected /\ ~closes)
    <3>1. input' = hasRead(b, parse(q).consumes) /\ consumed' = consumed + parse(q).consumes
      BY <1>13, <2>2
    <3>2. \/ connected' = connected /\ answers' = answers
          \/ /\ parse(q).ready
             /\ \E closes \in BOOLEAN :
                   /\ Answer("200", closes, consumed, consumed')
                   /\ connected' = (connected /\ ~closes)
      BY <1>11, <1>13, <2>2, Zenon
    <3>3. QED
      BY <3>1, <3>2, Zenon DEF Good, Answer, Sends
  <2>3. QED
    BY <1>12, <2>1, <2>2
<1>15. QED
  BY <1>1, <1>3, <1>4, <1>5, <1>10, <1>11, <1>14 DEF b, q

\* A line that makes the parser ready is the request line that the answer belongs to.
LEMMA ReadyHonest ==
  ASSUME TextLength \in Nat \ {0}, NEW rec \in Seq(Byte), NEW c \in Nat, NEW d \in Nat,
         c <= d, d <= Len(rec), NEW q,
         \A i \in 1 .. d - c : q[i] = rec[c + i],
         NEW kind \in Kinds, d - c = Len(Line(kind)),
         \A i \in 1 .. d - c : q[i] = Line(kind)[i],
         Version(q) = VersionOf(kind), Version(q) # "UNKNOWN",
         NEW a, a.from = c, a.to = d
  PROVE  Honest(rec, a)
<1> DEFINE l == Line(kind)
           t == SubSeq(rec, c + 1, d)
<1>1. kind \in {"V10", "V11"} /\ Version(q) = kind
  BY DEF VersionOf
<1>2. /\ t \in Seq(Byte) /\ Len(t) = d - c
      /\ \A i \in 1 .. d - c : t[i] = rec[c + i]
  BY Part
<1>3. l \in Seq(Byte) /\ Len(l) = d - c /\ \A i \in 1 .. d - c : q[i] = l[i]
  BY LineOK
<1> HIDE DEF t, l
<1>4. ASSUME NEW i \in 1 .. Len(t) PROVE t[i] = l[i]
  <2>1. i \in 1 .. d - c
    BY <1>2
  <2>2. t[i] = rec[c + i] /\ q[i] = l[i]
    BY <1>2, <1>3, <2>1
  <2>3. q[i] = rec[c + i]
    BY <2>1
  <2>4. QED
    BY <2>2, <2>3
<1>5. t = l
  BY <1>2, <1>3, <1>4, Same
<1>6. SubSeq(rec, a.from + 1, a.to) = Line(kind)
  BY <1>5 DEF t, l
<1>7. QED
  BY <1>1, <1>6 DEF Honest

\* Past answers after a message.
LEMMA PastKept ==
  ASSUME HttpInv, NEW x \in Seq(Byte), NEW d \in Nat, consumed <= d,
         NEW still \in BOOLEAN, still => connected
  PROVE  Kept(answers, received \o x, d, still)
<1>1. /\ received \in Seq(Byte) /\ consumed \in Nat /\ consumed <= Len(received)
      /\ connected \in BOOLEAN
  BY LenProperties DEF HttpInv, HttpType
<1>2. Kept(answers, received, consumed, connected)
  BY DEF HttpInv
<1>3. QED
  BY <1>1, <1>2, KeptLater

\* The server reads a message and handles it.
LEMMA MessageKeeps ==
  ASSUME HttpConstants, LinesFit, HttpInv, NEW n \in Nat, Message(n)
  PROVE  HttpInv'
<1> USE DEF HttpConstants
<1> DEFINE x == SubSeq(wire, 1, n)
           b == readFrom(input, x)
           q == SubSeq(received', consumed + 1, Len(received'))
           s == received \o wire
           p == parse(q)
           f == FindCr(q)
<1>1. /\ n <= Len(wire) /\ lines' = lines
      /\ x \in Seq(Byte) /\ wire' \in Seq(Byte) /\ received' \in Seq(Byte)
      /\ received' = received \o x /\ received' \o wire' = s
      /\ Len(received') = Len(received) + n /\ Len(wire') = Len(wire) - n
      /\ Holds(b, q) /\ q \in Seq(Byte) /\ Len(q) = Len(received') - consumed
      /\ \A i \in 1 .. Len(q) : q[i] = received'[consumed + i]
      /\ Bad(b, q) \/ Good(b, q)
  BY MessageParts
<1>2. /\ wire \in Seq(Byte) /\ received \in Seq(Byte) /\ lines \in 0 .. MaxLines
      /\ Len(received) + Len(wire) <= lines * (TextLength + 2)
      /\ consumed \in 0 .. Len(received) /\ consumed \in Nat /\ connected \in BOOLEAN
      /\ Len(wire) \in Nat /\ Len(received) \in Nat
  BY LenProperties DEF HttpInv, HttpType
<1> HIDE DEF x, b, q, s, p, f
<1>2a. received' \in Seq(Byte) /\ Len(received') = Len(received) + n /\ Len(received') \in Nat
  BY <1>1, <1>2
<1>2b. x \in Seq(Byte) /\ received' = received \o x
  BY <1>1
<1>2c. q \in Seq(Byte) /\ Len(q) = Len(received') - consumed
  BY <1>1
<1>3. PICK B : consumed \in B /\ Bounds(B, s)
  BY DEF HttpInv, BetweenLines, s
<1>4. s \in Seq(Byte) /\ consumed + Len(q) <= Len(s) /\ Len(q) \in Nat
      /\ \A i \in 1 .. Len(q) : q[i] = s[consumed + i]
  <2> DEFINE u == received'
             v == wire'
  <2>0. u \in Seq(Byte) /\ v \in Seq(Byte) /\ s = u \o v
    BY <1>1
  <2> HIDE DEF u, v
  <2>0a. /\ s \in Seq(Byte) /\ Len(s) = Len(u) + Len(v) /\ Len(v) \in Nat
         /\ \A i \in 1 .. Len(u) : s[i] = u[i]
     BY <2>0, Joined
  <2>1. /\ s \in Seq(Byte) /\ Len(s) = Len(received') + Len(wire') /\ Len(wire') \in Nat
        /\ \A i \in 1 .. Len(received') : s[i] = received'[i]
    BY <2>0a DEF u, v
  <2>2. ASSUME NEW i \in 1 .. Len(q) PROVE q[i] = s[consumed + i]
    <3>1. consumed + i \in 1 .. Len(received')
      BY <1>1, <1>2
    <3>2. QED
      BY <1>1, <2>1, <3>1
  <2>3. Len(q) = Len(received') - consumed /\ Len(received') = Len(received) + n
    BY <1>1
  <2>4. QED
    BY <1>2, <2>1, <2>2, <2>3
<1>5. ASSUME consumed' \in consumed .. Len(received'), connected' \in BOOLEAN PROVE HttpType'
  <2>1. Len(received') + Len(wire') = Len(received) + Len(wire)
    BY <1>1, <1>2
  <2>2. Len(received') + Len(wire') <= lines' * (TextLength + 2)
    <3> DEFINE m == lines * (TextLength + 2)
    <3>1. Len(received) + Len(wire) <= m /\ m = lines' * (TextLength + 2)
      BY <1>1, <1>2
    <3> HIDE DEF m
    <3>2. QED
      BY <2>1, <3>1
  <2>3. consumed' \in 0 .. Len(received')
    BY <1>2, <1>5
  <2>4. QED
    BY <1>1, <1>2, <1>5, <2>2, <2>3 DEF HttpType
<1>5a. ASSUME connected PROVE Kept(answers, received', consumed, TRUE)
  <2> DEFINE still == TRUE
  <2>1. still \in BOOLEAN /\ (still => connected) /\ consumed <= consumed
    BY <1>2, <1>5a
  <2> HIDE DEF still
  <2>2. Kept(answers, received \o x, consumed, still)
    BY <1>2, <1>2b, <2>1, PastKept
  <2>3. QED
    BY <1>2b, <2>2 DEF still
<1>6. CASE Bad(b, q)
  <2>1. /\ input' = b /\ consumed' = consumed /\ connected' = FALSE
        /\ answers' = IF connected
                      THEN Append(answers, [code |-> "400", close |-> TRUE,
                                            from |-> consumed, to |-> consumed])
                      ELSE answers
    BY <1>6 DEF Bad
  <2>2. HttpType'
    <3>1. consumed' \in consumed .. Len(received')
      BY <1>2, <1>2a, <2>1
    <3>2. connected' \in BOOLEAN
      BY <2>1
    <3>3. QED
      BY <1>5, <3>1, <3>2
  <2>3. Holds(input', Pending')
    BY <1>1, <2>1 DEF Pending, q
  <2>4. BetweenLines'
    BY <1>1, <1>3, <2>1 DEF BetweenLines
  <2>5. Kept(answers', received', consumed', connected')
    <3>1. CASE connected
      <4> DEFINE a == [code |-> "400", close |-> TRUE, from |-> consumed, to |-> consumed]
      <4>1. Kept(answers, received', consumed, TRUE)
        BY <1>5a, <3>1
      <4>2. a \in Ans /\ a.from = consumed /\ a.to = consumed /\ Honest(received', a)
        BY <1>2 DEF Ans, Honest
      <4>3. answers' = Append(answers, a)
        BY <2>1, <3>1
      <4> HIDE DEF a
      <4>4. Kept(Append(answers, a), received', consumed, FALSE)
        <5> DEFINE conn == FALSE
        <5>1. conn \in BOOLEAN /\ (a.close => ~conn) /\ consumed <= consumed
          BY <1>2
        <5> HIDE DEF conn
        <5>2. Kept(Append(answers, a), received', consumed, conn)
          BY <1>2, <4>1, <4>2, <5>1, KeptAppend
        <5>3. QED
          BY <5>2 DEF conn
      <4>5. QED
        BY <2>1, <4>3, <4>4
    <3>2. CASE ~connected
      <4>1. Kept(answers, received', consumed, FALSE)
        <5> DEFINE still == FALSE
        <5>1. still \in BOOLEAN /\ (still => connected) /\ consumed <= consumed
          BY <1>2
        <5> HIDE DEF still
        <5>2. Kept(answers, received \o x, consumed, still)
          BY <1>2, <1>2b, <5>1, PastKept
        <5>3. QED
          BY <1>2b, <5>2 DEF still
      <4>2. QED
        BY <2>1, <3>2, <4>1
    <3>3. QED
      BY <3>1, <3>2
  <2>6. QED
    BY <2>2, <2>3, <2>4, <2>5 DEF HttpInv
<1>7. CASE Good(b, q)
  <2>1. /\ input' = hasRead(b, p.consumes) /\ consumed' = consumed + p.consumes
        /\ \/ connected' = connected /\ answers' = answers
           \/ /\ p.ready
              /\ \E closes \in BOOLEAN :
                    /\ connected' = (connected /\ ~closes)
                    /\ answers' = IF connected
                                  THEN Append(answers, [code |-> "200", close |-> closes,
                                                        from |-> consumed, to |-> consumed'])
                                  ELSE answers
    BY <1>7 DEF Good, p
  <2>2. /\ p.consumes \in 0 .. Len(q)
        /\ p.consumes # 0 => HasLine(q) /\ p.consumes = f + 1
        /\ p.ready => /\ HasLine(q) /\ p.consumes = f + 1
                      /\ f # 1 /\ Version(q) # "UNKNOWN"
    BY <1>1, ParseOK DEF p, f
  <2>3. consumed' \in consumed .. Len(received') /\ consumed' \in Nat
    <3> DEFINE k == p.consumes
    <3>1. k \in 0 .. Len(q) /\ consumed' = consumed + k
      BY <2>1, <2>2
    <3> HIDE DEF k
    <3>2. QED
      BY <1>2, <1>4, <1>2a, <1>2c, <3>1
  <2>4. connected' \in BOOLEAN
    BY <1>2, <2>1
  <2>5. HttpType'
    BY <1>5, <2>3, <2>4
  <2>6. Holds(input', Pending')
    <3> DEFINE k == p.consumes
    <3>1. k \in Nat /\ k <= Len(q) /\ k <= Len(received') - consumed
          /\ consumed \in Nat /\ consumed <= Len(received')
      BY <1>1, <1>2, <1>4, <2>2
    <3>2. Holds(hasRead(b, k), SubSeq(q, k + 1, Len(q)))
      <4> HIDE DEF k
      <4>1. QED
        BY <1>1, <3>1, HasReadOK
    <3>3. SubSeq(q, k + 1, Len(q)) = SubSeq(received', consumed + k + 1, Len(received'))
      <4> HIDE DEF k
      <4>1. QED
        BY <1>2a, <3>1, SuffixOfSuffix DEF q
    <3>4. QED
      BY <2>1, <3>2, <3>3 DEF Pending
  <2>7. ASSUME HasLine(q)
        PROVE  \E kind \in Kinds :
                  /\ f + 1 = Len(Line(kind)) /\ consumed + f + 1 \in B
                  /\ \A i \in 1 .. f + 1 : q[i] = Line(kind)[i]
                  /\ f # 1 => Version(q) = VersionOf(kind)
    BY <1>2c, <1>3, <1>4, <2>7, FirstLine DEF f
  <2>8. BetweenLines'
    <3>1. CASE p.consumes = 0
      BY <1>1, <1>2, <1>3, <2>1, <3>1 DEF BetweenLines
    <3>2. CASE p.consumes # 0
      <4>1. HasLine(q) /\ p.consumes = f + 1
        BY <2>2, <3>2
      <4>2. consumed + f + 1 \in B
        BY <2>7, <4>1
      <4>3. FindCr(q) \in 1 .. Len(q) - 1
        BY <1>1, <4>1, FindCrOK
      <4>4. consumed + p.consumes = consumed + f + 1
        BY <1>2, <4>1, <4>3 DEF f
      <4>5. QED
        BY <1>1, <1>3, <2>1, <4>2, <4>4 DEF BetweenLines
    <3>3. QED
      BY <3>1, <3>2
  <2>9. Kept(answers', received', consumed', connected')
    <3>1. CASE answers' = answers
      <4>1. connected' => connected
        BY <1>2, <2>1
      <4>2. consumed <= consumed'
        BY <1>2, <2>3
      <4>3. Kept(answers, received \o x, consumed', connected')
        BY <1>1, <2>3, <2>4, <4>1, <4>2, PastKept
      <4>4. QED
        BY <1>1, <3>1, <4>3
    <3>2. CASE answers' # answers
      <4>1. connected /\ p.ready
        BY <2>1, <3>2
      <4>2. PICK closes \in BOOLEAN :
               /\ connected' = (connected /\ ~closes)
               /\ answers' = Append(answers, [code |-> "200", close |-> closes,
                                              from |-> consumed, to |-> consumed'])
        BY <2>1, <3>2
      <4> DEFINE a == [code |-> "200", close |-> closes, from |-> consumed, to |-> consumed']
      <4>3. HasLine(q) /\ p.consumes = f + 1 /\ f # 1 /\ Version(q) # "UNKNOWN"
        BY <2>2, <4>1
      <4>4. PICK kind \in Kinds :
               /\ f + 1 = Len(Line(kind))
               /\ \A i \in 1 .. f + 1 : q[i] = Line(kind)[i]
               /\ f # 1 => Version(q) = VersionOf(kind)
        BY <2>7, <4>3
      <4>5. closes \in BOOLEAN
        OBVIOUS
      <4>6. a \in Ans /\ a.from = consumed /\ a.to = consumed' /\ a.close = closes
        BY <1>2, <2>3, <4>5 DEF Ans
      <4>7. answers' = Append(answers, a)
        BY <4>2
      <4> HIDE DEF a
      <4>8. /\ consumed <= consumed' /\ consumed' <= Len(received')
            /\ consumed' - consumed = f + 1 /\ f + 1 <= Len(q)
        <5> DEFINE k == p.consumes
        <5>1. k \in 0 .. Len(q) /\ consumed' = consumed + k /\ k = f + 1
          BY <2>1, <2>2, <4>3
        <5> HIDE DEF k
        <5>2. Len(q) \in Nat /\ k \in Nat /\ k <= Len(q) /\ consumed' - consumed = k
          BY <1>2, <1>4, <5>1
        <5>3. consumed <= consumed' /\ consumed' <= Len(received')
          BY <1>2, <1>2a, <2>3
        <5>4. QED
          BY <5>1, <5>2, <5>3
      <4>9. Honest(received', a)
        <5>1. /\ \A i \in 1 .. consumed' - consumed : q[i] = received'[consumed + i]
              /\ \A i \in 1 .. consumed' - consumed : q[i] = Line(kind)[i]
              /\ consumed' - consumed = Len(Line(kind))
          <6>1. f + 1 \in Nat
            BY <1>2, <2>3, <4>8
          <6>2. \A i \in 1 .. f + 1 : i \in 1 .. Len(q)
            BY <1>4, <4>8, <6>1
          <6>3. QED
            BY <1>1, <4>4, <4>8, <6>2
        <5>2. Version(q) = VersionOf(kind) /\ Version(q) # "UNKNOWN"
          BY <4>3, <4>4
        <5>3. QED
          BY <1>1, <1>2, <2>3, <4>6, <4>8, <5>1, <5>2, ReadyHonest
      <4>10. Kept(answers, received', consumed, TRUE)
        BY <1>5a, <4>1
      <4>11. a.close => ~connected'
        BY <4>1, <4>2, <4>6
      <4>12. Kept(Append(answers, a), received', consumed', connected')
        BY <1>2, <2>3, <2>4, <4>6, <4>8, <4>9, <4>10, <4>11, KeptAppend
      <4>13. QED
        BY <4>7, <4>12
    <3>3. QED
      BY <3>1, <3>2
  <2>10. QED
    BY <2>5, <2>6, <2>8, <2>9 DEF HttpInv
<1>8. QED
  BY <1>1, <1>6, <1>7

-----------------------------------------------------------------------------
(* Theorems                                                                *)

\* Nothing was sent at first.
LEMMA InitHolds ==
  ASSUME HttpConstants, Init
  PROVE  HttpInv
<1> USE DEF HttpConstants
<1>1. /\ lines = 0 /\ wire = <<>> /\ input = Empty(Size) /\ connected = TRUE
      /\ received = <<>> /\ consumed = 0 /\ answers = <<>>
  BY DEF Init
<1> DEFINE e == <<>>
           u == [i \in 1 .. Size |-> Stale]
           z == 0
<1>2. e \in Seq(Byte) /\ Len(e) = 0 /\ e \in Seq(Ans)
  OBVIOUS
<1>3. HttpType
  <2>1. 0 * (TextLength + 2) = 0
    OBVIOUS
  <2>2. Len(received) + Len(wire) <= lines * (TextLength + 2)
    BY <1>1, <2>1
  <2>3. QED
    BY <1>1, <2>2 DEF HttpType
<1>4. Pending = e
  BY <1>1 DEF Pending
<1>5. Holds(input, Pending)
  <2>1. u \in Seq(Byte) /\ Len(u) = Size
    <3>1. u \in [1 .. Size -> Byte]
      BY DEF Byte
    <3>2. QED
      BY <3>1
  <2>2. input = [buf |-> u, r |-> z, w |-> z]
    BY <1>1 DEF Empty
  <2>3. z \in Nat /\ z = z + Len(e) /\ z <= Len(u) /\ \A i \in 1 .. Len(e) : u[z + i] = e[i]
    BY <1>2, <2>1
  <2> HIDE DEF e, u, z
  <2>4. Holds([buf |-> u, r |-> z, w |-> z], e)
    BY <1>2, <2>1, <2>3, HoldsAt
  <2>5. QED
    BY <1>4, <2>2, <2>4
<1>6. BetweenLines
  <2>1. received \o wire = e
    BY <1>1
  <2>2. Bounds({0}, e)
    BY DEF Bounds
  <2>3. consumed \in {0}
    BY <1>1
  <2>4. QED
    BY <2>1, <2>2, <2>3 DEF BetweenLines
<1>7. Kept(answers, received, consumed, connected)
  <2>1. answers = e
    BY <1>1
  <2> HIDE DEF e
  <2>2. Kept(e, received, consumed, connected)
    BY <1>2 DEF Kept
  <2>3. QED
    BY <2>1, <2>2
<1>8. QED
  BY <1>3, <1>5, <1>6, <1>7 DEF HttpInv

\* The input, the stream and the answers stay as the invariant says, whatever the peer
\* sends and however the messages cut it.
THEOREM HttpInvariant == Spec => []HttpInv
<1>1. Init => HttpInv
  BY InitHolds, ConstantsOK
<1>2. ASSUME HttpInv, [Next]_vars PROVE HttpInv'
  <2>1. CASE Peer
    BY <1>2, <2>1, PeerKeeps, ConstantsOK
  <2>2. ASSUME NEW n \in Reads, Message(n) PROVE HttpInv'
    <3>1. n \in Nat
      BY ConstantsOK DEF HttpConstants
    <3>2. QED
      BY <1>2, <2>2, <3>1, MessageKeeps, ConstantsOK
  <2>3. CASE UNCHANGED vars
    BY <1>2, <2>3 DEF vars, HttpInv, HttpType, Pending, BetweenLines
  <2>4. QED
    BY <1>2, <2>1, <2>2, <2>3 DEF Next
<1>3. QED
  BY <1>1, <1>2, PTL DEF Spec

\* The Buffer of a connection holds exactly the bytes that were read and not consumed,
\* in order, and its cursors stay inside its storage, for every size and every cut.
THEOREM InputKeptTheorem == Spec => []InputKept
<1>1. HttpInv => InputKept
  <2>1. SUFFICES ASSUME HttpInv PROVE InputKept
    OBVIOUS
  <2>2. Holds(input, Pending)
    BY <2>1 DEF HttpInv
  <2>3. Content(input) = Pending
    BY <2>2, ContentOK
  <2>4. input.r \in Nat /\ input.r <= input.w /\ input.w <= capacity(input)
    BY <2>2 DEF Holds, BufferOK, capacity
  <2>5. QED
    BY <2>3, <2>4 DEF InputKept, Pending
<1>2. QED
  BY <1>1, HttpInvariant, PTL

\* Every answer of the HTTP server belongs to one request line that arrived complete, in
\* the order of the lines; no line is answered twice and nothing follows an answer that closes.
THEOREM AnswersHonestTheorem == Spec => []AnswersHonest
<1>1. HttpInv => AnswersHonest
  <2>1. SUFFICES ASSUME HttpInv PROVE AnswersHonest
    OBVIOUS
  <2>2. Kept(answers, received, consumed, connected)
    BY <2>1 DEF HttpInv
  <2>3. DOMAIN answers = 1 .. Len(answers)
    BY <2>2, LenProperties DEF Kept
  <2>4. ASSUME NEW i \in DOMAIN answers
        PROVE  /\ answers[i].code = "200" =>
                      \E v \in {"V10", "V11"} :
                          SubSeq(received, answers[i].from + 1, answers[i].to) = Line(v)
               /\ answers[i].close => i = Len(answers) /\ ~connected
    BY <2>2, <2>3 DEF Kept, Honest
  <2>5. \A i, j \in DOMAIN answers : i < j => answers[i].to <= answers[j].from
    BY <2>2, <2>3 DEF Kept
  <2>6. QED
    BY <2>4, <2>5 DEF AnswersHonest
<1>2. QED
  BY <1>1, HttpInvariant, PTL

=============================================================================
