---------------------------- MODULE BerLinkProofs ----------------------------
(***************************************************************************)
(* Proofs about BerLink, for any sizes of the chunks and of the search and *)
(* any number of chunks and faults: the counts the test reports are        *)
(* deserved, and an intact chunk aligns the reader.                        *)
(*                                                                         *)
(* The argument follows the stream of bytes from the reader's buffer back  *)
(* to the writer's generator (Flow).  A byte there is as far ahead of its  *)
(* place as bytes were lost in front of it.                                *)
(***************************************************************************)
EXTENDS BerLink, DataLemmas

Byte == Nat \cup {Noise}

-----------------------------------------------------------------------------
(* Streams: functions on 1..m, whose byte at p is due at c + p - 1.         *)

NotAhead(f, m, c, l) == \A p \in 1..m : f[p] <= c + p - 1 + l

Punctual(f, m, c) == \A p \in 1..m : f[p] = c + p - 1

\* No byte is behind v, and none farther ahead than one that comes after it.
Rises(f, m, v) ==
  /\ \A p \in 1..m : f[p] # Noise => v + p - 1 <= f[p]
  /\ \A p, q \in 1..m :
       p < q /\ f[p] # Noise /\ f[q] # Noise => f[p] - p <= f[q] - q

\* What the link does to a stream f of m bytes.
Drops(g, f, m, q, n) ==
  \A p \in 1..(m - n) : g[p] = IF p < q THEN f[p] ELSE f[p + n]

Garbles(g, f, m, q) ==
  \A p \in 1..m : g[p] = IF p = q THEN Noise ELSE f[p]

Inserts(g, f, m, q) ==
  \A p \in 1..(m + 1) :
    g[p] = IF p < q THEN f[p] ELSE IF p = q THEN Noise ELSE f[p - 1]

\* The generator goes on from the last byte.
GoesOn(g, f, m, n) ==
  /\ \A p \in 1..m : g[p] = f[p]
  /\ \A k \in 1..n : g[m + k] = f[m] + k

\* The first n bytes are taken away.
MovesOn(g, f, m, n) == \A p \in 1..(m - n) : g[p] = f[p + n]

LEMMA DropsOf ==
  ASSUME NEW m \in Nat, NEW f, \A p \in 1..m : f[p] \in Byte, NEW n \in Nat, n <= m,
         NEW q \in Nat, NEW g, Drops(g, f, m, q, n),
         NEW c \in Nat, NEW l \in Nat, NEW v \in Nat
  PROVE  /\ NotAhead(f, m, c, l) => NotAhead(g, m - n, c, l + n)
         /\ Rises(f, m, v) => Rises(g, m - n, v)
<1>1. \A p \in 1..m : f[p] \in Int
  BY DEF Byte, Noise
<1>2. ASSUME NEW p \in 1..(m - n)
      PROVE  \/ p < q /\ p \in 1..m /\ g[p] = f[p]
             \/ ~(p < q) /\ p + n \in 1..m /\ g[p] = f[p + n]
  BY DEF Drops
<1>3. NotAhead(f, m, c, l) => NotAhead(g, m - n, c, l + n)
  BY <1>1, <1>2 DEF NotAhead
<1>4. ASSUME Rises(f, m, v) PROVE Rises(g, m - n, v)
  <2>1. \A p \in 1..(m - n) : g[p] # Noise => v + p - 1 <= g[p]
    BY <1>1, <1>2, <1>4 DEF Rises
  <2>2. ASSUME NEW p \in 1..(m - n), NEW r \in 1..(m - n),
               p < r, g[p] # Noise, g[r] # Noise
        PROVE  g[p] - p <= g[r] - r
    <3>1. CASE r < q
      BY <1>2, <1>4, <2>2, <3>1 DEF Rises
    <3>2. CASE ~(r < q) /\ p < q
      <4>1. p \in 1..m /\ r + n \in 1..m /\ p < r + n /\ g[p] = f[p] /\ g[r] = f[r + n]
        BY <1>2, <2>2, <3>2
      <4>2. f[p] - p <= f[r + n] - (r + n)
        BY <1>4, <2>2, <4>1 DEF Rises
      <4> QED
        BY <1>1, <4>1, <4>2
    <3>3. CASE ~(r < q) /\ ~(p < q)
      <4>1. /\ p + n \in 1..m /\ r + n \in 1..m /\ p + n < r + n
            /\ g[p] = f[p + n] /\ g[r] = f[r + n]
        BY <1>2, <2>2, <3>3
      <4>2. f[p + n] - (p + n) <= f[r + n] - (r + n)
        BY <1>4, <2>2, <4>1 DEF Rises
      <4> QED
        BY <1>1, <4>1, <4>2
    <3> QED
      BY <3>1, <3>2, <3>3
  <2> QED
    BY <2>1, <2>2 DEF Rises
<1> QED
  BY <1>3, <1>4

LEMMA GarblesOf ==
  ASSUME NEW m \in Nat, NEW f, \A p \in 1..m : f[p] \in Byte,
         NEW q \in Nat, NEW g, Garbles(g, f, m, q),
         NEW c \in Nat, NEW l \in Nat, NEW v \in Nat
  PROVE  /\ NotAhead(f, m, c, l) => NotAhead(g, m, c, l)
         /\ Rises(f, m, v) => Rises(g, m, v)
<1>1. \A p \in 1..m : f[p] \in Int /\ (g[p] = Noise \/ g[p] = f[p])
  BY DEF Byte, Noise, Garbles
<1>2. ASSUME NotAhead(f, m, c, l), NEW p \in 1..m PROVE g[p] <= c + p - 1 + l
  <2>1. Noise = -1 /\ f[p] <= c + p - 1 + l
    BY <1>2 DEF NotAhead, Noise
  <2> QED
    BY <1>1, <2>1
<1>3. Rises(f, m, v) => Rises(g, m, v)
  BY <1>1 DEF Rises
<1> QED
  BY <1>2, <1>3 DEF NotAhead

LEMMA InsertsOf ==
  ASSUME NEW m \in Nat, NEW f, \A p \in 1..m : f[p] \in Byte,
         NEW q \in 1..(m + 1), NEW g, Inserts(g, f, m, q),
         NEW c \in Nat, NEW l \in Nat
  PROVE  NotAhead(f, m, c, l) => NotAhead(g, m + 1, c, l)
<1>1. \A p \in 1..m : f[p] \in Int
  BY DEF Byte, Noise
<1> SUFFICES ASSUME NotAhead(f, m, c, l), NEW p \in 1..(m + 1)
             PROVE  g[p] <= c + p - 1 + l
  BY DEF NotAhead
<1>2. CASE p < q
  <2>1. p \in 1..m /\ g[p] = f[p]
    BY <1>2 DEF Inserts
  <2> QED
    BY <1>1, <2>1 DEF NotAhead
<1>3. CASE p = q
  BY <1>3 DEF Inserts, Noise
<1>4. CASE p > q
  <2>1. p - 1 \in 1..m /\ g[p] = f[p - 1]
    BY <1>4 DEF Inserts
  <2> QED
    BY <1>1, <2>1 DEF NotAhead
<1> QED
  BY <1>2, <1>3, <1>4

LEMMA GoesOnOf ==
  ASSUME NEW m \in Nat \ {0}, NEW f, \A p \in 1..m : f[p] \in Byte, f[m] \in Nat,
         NEW n \in Nat,
         NEW g, GoesOn(g, f, m, n), NEW c \in Nat, NEW l \in Nat, NEW v \in Nat
  PROVE  /\ NotAhead(f, m, c, l) => NotAhead(g, m + n, c, l)
         /\ Punctual(f, m, c) => Punctual(g, m + n, c)
         /\ Rises(f, m, v) => Rises(g, m + n, v)
<1>1. \A p \in 1..m : f[p] \in Int
  BY DEF Byte, Noise
<1>2. ASSUME NEW p \in 1..(m + n)
      PROVE  \/ p \in 1..m /\ g[p] = f[p]
             \/ p > m /\ g[p] = f[m] + (p - m)
  <2>1. p > m => p - m \in 1..n /\ m + (p - m) = p
    OBVIOUS
  <2> QED
    BY <2>1 DEF GoesOn
<1>3. m \in 1..m /\ f[m] # Noise
  BY DEF Noise
<1>4. NotAhead(f, m, c, l) => NotAhead(g, m + n, c, l)
  BY <1>1, <1>2, <1>3 DEF NotAhead
<1>5. Punctual(f, m, c) => Punctual(g, m + n, c)
  BY <1>1, <1>2, <1>3 DEF Punctual
<1>6. ASSUME Rises(f, m, v) PROVE Rises(g, m + n, v)
  <2>1. \A p \in 1..(m + n) : g[p] # Noise => v + p - 1 <= g[p]
    BY <1>1, <1>2, <1>3, <1>6 DEF Rises
  <2>2. ASSUME NEW p \in 1..(m + n), NEW r \in 1..(m + n),
               p < r, g[p] # Noise, g[r] # Noise
        PROVE  g[p] - p <= g[r] - r
    <3>1. CASE r \in 1..m
      BY <1>1, <1>2, <1>6, <2>2, <3>1 DEF Rises
    <3>2. CASE r > m /\ p \in 1..m
      <4>1. p = m \/ f[p] - p <= f[m] - m
        BY <1>2, <1>3, <1>6, <2>2, <3>2 DEF Rises
      <4> QED
        BY <1>1, <1>2, <2>2, <3>2, <4>1
    <3>3. CASE r > m /\ p > m
      BY <1>1, <1>2, <2>2, <3>3
    <3> QED
      BY <3>1, <3>2, <3>3
  <2> QED
    BY <2>1, <2>2 DEF Rises
<1> QED
  BY <1>4, <1>5, <1>6

\* A byte among those taken away was due at v + s: what follows it is not
\* behind that.
LEMMA MovesOnOf ==
  ASSUME NEW m \in Nat, NEW f, \A p \in 1..m : f[p] \in Byte, NEW n \in Nat, n <= m,
         NEW g, MovesOn(g, f, m, n), NEW c \in Nat, NEW l \in Nat,
         NEW v \in Nat, NEW s \in Nat
  PROVE  /\ NotAhead(f, m, c, l) => NotAhead(g, m - n, c + n, l)
         /\ Punctual(f, m, c) => Punctual(g, m - n, c + n)
         /\ Rises(f, m, v) /\ (s = 0 \/ \E i \in 1..n : f[i] = v + s + i - 1)
              => Rises(g, m - n, v + s + n)
<1>1. \A p \in 1..m : f[p] \in Int
  BY DEF Byte, Noise
<1>2. \A p \in 1..(m - n) : p + n \in 1..m /\ g[p] = f[p + n]
  BY DEF MovesOn
<1>3. NotAhead(f, m, c, l) => NotAhead(g, m - n, c + n, l)
  BY <1>1, <1>2 DEF NotAhead
<1>4. Punctual(f, m, c) => Punctual(g, m - n, c + n)
  BY <1>1, <1>2 DEF Punctual
<1>5. ASSUME Rises(f, m, v), s = 0 \/ \E i \in 1..n : f[i] = v + s + i - 1
      PROVE  Rises(g, m - n, v + s + n)
  <2>1. ASSUME NEW p \in 1..(m - n), g[p] # Noise
        PROVE  v + s + n + p - 1 <= g[p]
    <3>1. CASE s = 0
      BY <1>1, <1>2, <1>5, <2>1, <3>1 DEF Rises
    <3>2. ASSUME NEW i \in 1..n, f[i] = v + s + i - 1
          PROVE  v + s + n + p - 1 <= g[p]
      <4>1. i \in 1..m /\ i < p + n /\ f[i] # Noise
        BY <3>2 DEF Noise
      <4>2. f[i] - i <= f[p + n] - (p + n)
        BY <1>2, <1>5, <2>1, <4>1 DEF Rises
      <4> QED
        BY <1>1, <1>2, <3>2, <4>2
    <3> QED
      BY <1>5, <3>1, <3>2
  <2>2. ASSUME NEW p \in 1..(m - n), NEW r \in 1..(m - n),
               p < r, g[p] # Noise, g[r] # Noise
        PROVE  g[p] - p <= g[r] - r
    <3>1. f[p + n] - (p + n) <= f[r + n] - (r + n)
      BY <1>2, <1>5, <2>2 DEF Rises
    <3> QED
      BY <1>1, <1>2, <3>1
  <2> QED
    BY <2>1, <2>2 DEF Rises
<1> QED
  BY <1>3, <1>4, <1>5

-----------------------------------------------------------------------------
(* The stream of x, y, z and then e.                                        *)

Joined(x, y, z, e) ==
  [p \in 1..(Len(x) + Len(y) + Len(z) + 1) |->
     IF p <= Len(x) THEN x[p]
     ELSE IF p <= Len(x) + Len(y) THEN y[p - Len(x)]
     ELSE IF p <= Len(x) + Len(y) + Len(z) THEN z[p - Len(x) - Len(y)]
     ELSE e]

\* f is the stream of x, y and z, of a, b and c bytes, and e.
IsJoined(f, x, a, y, b, z, c, e) ==
  /\ a \in Nat /\ b \in Nat /\ c \in Nat
  /\ \A p \in 1..(a + b + c + 1) :
       f[p] = IF p <= a THEN x[p]
              ELSE IF p <= a + b THEN y[p - a]
              ELSE IF p <= a + b + c THEN z[p - a - b]
              ELSE e

LEMMA JoinedIs ==
  ASSUME NEW x \in Seq(Byte), NEW y \in Seq(Byte), NEW z \in Seq(Byte), NEW e \in Nat
  PROVE  /\ IsJoined(Joined(x, y, z, e), x, Len(x), y, Len(y), z, Len(z), e)
         /\ \A p \in 1..(Len(x) + Len(y) + Len(z) + 1) : Joined(x, y, z, e)[p] \in Byte
<1>1. /\ Len(x) \in Nat /\ Len(y) \in Nat /\ Len(z) \in Nat
      /\ \A p \in 1..Len(x) : x[p] \in Byte
      /\ \A p \in 1..Len(y) : y[p] \in Byte
      /\ \A p \in 1..Len(z) : z[p] \in Byte
  OBVIOUS
<1>2. e \in Byte
  BY DEF Byte
<1>3. IsJoined(Joined(x, y, z, e), x, Len(x), y, Len(y), z, Len(z), e)
  BY <1>1 DEF Joined, IsJoined
<1>4. \A p \in 1..(Len(x) + Len(y) + Len(z) + 1) : Joined(x, y, z, e)[p] \in Byte
  BY <1>1, <1>2 DEF Joined
<1> QED
  BY <1>3, <1>4

(* A fault in the third part, and in the second, is one in the whole.       *)
LEMMA FaultInThird ==
  ASSUME NEW x, NEW a, NEW y, NEW b, NEW z, NEW c, NEW e, NEW r, NEW d,
         NEW f, IsJoined(f, x, a, y, b, z, c, e),
         NEW g, IsJoined(g, x, a, y, b, r, d, e)
  PROVE  /\ \A n, q \in Nat :
              d = c - n /\ q \in 1..(d + 1) /\ Drops(r, z, c, q, n)
                => Drops(g, f, a + b + c + 1, a + b + q, n)
         /\ \A q \in Nat :
              d = c /\ q \in 1..c /\ Garbles(r, z, c, q)
                => Garbles(g, f, a + b + c + 1, a + b + q)
         /\ \A q \in Nat :
              d = c + 1 /\ q \in 1..(c + 1) /\ Inserts(r, z, c, q)
                => Inserts(g, f, a + b + c + 1, a + b + q)
<1>3. ASSUME NEW n \in Nat, NEW q \in Nat,
             d = c - n, q \in 1..(d + 1), Drops(r, z, c, q, n)
      PROVE  Drops(g, f, a + b + c + 1, a + b + q, n)
  BY <1>3 DEF Drops, IsJoined
<1>4. ASSUME NEW q \in Nat, d = c, q \in 1..c, Garbles(r, z, c, q)
      PROVE  Garbles(g, f, a + b + c + 1, a + b + q)
  BY <1>4 DEF Garbles, IsJoined
<1>5. ASSUME NEW q \in Nat, d = c + 1, q \in 1..(c + 1), Inserts(r, z, c, q)
      PROVE  Inserts(g, f, a + b + c + 1, a + b + q)
  BY <1>5 DEF Inserts, IsJoined
<1> QED
  BY <1>3, <1>4, <1>5

LEMMA FaultInSecond ==
  ASSUME NEW x, NEW a, NEW y, NEW b, NEW z, NEW c, NEW e, NEW r, NEW d,
         NEW f, IsJoined(f, x, a, y, b, z, c, e),
         NEW g, IsJoined(g, x, a, r, d, z, c, e)
  PROVE  /\ \A n, q \in Nat :
              d = b - n /\ q \in 1..(d + 1) /\ Drops(r, y, b, q, n)
                => Drops(g, f, a + b + c + 1, a + q, n)
         /\ \A q \in Nat :
              d = b /\ q \in 1..b /\ Garbles(r, y, b, q)
                => Garbles(g, f, a + b + c + 1, a + q)
         /\ \A q \in Nat :
              d = b + 1 /\ q \in 1..(b + 1) /\ Inserts(r, y, b, q)
                => Inserts(g, f, a + b + c + 1, a + q)
<1>3. ASSUME NEW n \in Nat, NEW q \in Nat,
             d = b - n, q \in 1..(d + 1), Drops(r, y, b, q, n)
      PROVE  Drops(g, f, a + b + c + 1, a + q, n)
  <2>1. a \in Nat /\ b \in Nat /\ c \in Nat /\ d \in Nat /\ a + d + c + 1 = a + b + c + 1 - n
    BY <1>3 DEF IsJoined
  <2>2. ASSUME NEW p \in 1..(a + b + c + 1 - n)
        PROVE  g[p] = IF p < a + q THEN f[p] ELSE f[p + n]
    <3>1. CASE p <= a
      BY <1>3, <2>1, <3>1 DEF IsJoined
    <3>2. CASE a < p /\ p <= a + d
      <4>1. p - a \in 1..(b - n) /\ g[p] = r[p - a]
        BY <1>3, <2>1, <3>2 DEF IsJoined
      <4>2. r[p - a] = IF p - a < q THEN y[p - a] ELSE y[p - a + n]
        BY <1>3, <4>1 DEF Drops
      <4>3. f[p] = y[p - a]
        BY <1>3, <2>1, <3>2 DEF IsJoined
      <4>4. p + n \in 1..(a + b + c + 1) /\ a < p + n /\ p + n <= a + b
        BY <1>3, <2>1, <3>2
      <4>5. f[p + n] = y[p + n - a]
        BY <4>4, <2>1 DEF IsJoined
      <4> QED
        BY <1>3, <2>1, <4>1, <4>2, <4>3, <4>5
    <3>3. CASE a + d < p
      <4>1. p + n \in 1..(a + b + c + 1) /\ a + b < p + n /\ ~(p < a + q)
        BY <1>3, <2>1, <3>3
      <4>2. g[p] = IF p <= a + d + c THEN z[p - a - d] ELSE e
        BY <1>3, <2>1, <3>3 DEF IsJoined
      <4>3. f[p + n] = IF p + n <= a + b + c THEN z[p + n - a - b] ELSE e
        BY <4>1, <2>1 DEF IsJoined
      <4> QED
        BY <1>3, <2>1, <4>1, <4>2, <4>3
    <3> QED
      BY <2>1, <3>1, <3>2, <3>3
  <2> QED
    BY <2>1, <2>2 DEF Drops
<1>4. ASSUME NEW q \in Nat, d = b, q \in 1..b, Garbles(r, y, b, q)
      PROVE  Garbles(g, f, a + b + c + 1, a + q)
  BY <1>4 DEF Garbles, IsJoined
<1>5. ASSUME NEW q \in Nat, d = b + 1, q \in 1..(b + 1), Inserts(r, y, b, q)
      PROVE  Inserts(g, f, a + b + c + 1, a + q)
  BY <1>5 DEF Inserts, IsJoined
<1> QED
  BY <1>3, <1>4, <1>5

-----------------------------------------------------------------------------
(* What arrives of a chunk.                                                 *)

(* Bytes that are left out, one that is changed, one that is put in.        *)
LEMMA CutOut ==
  ASSUME NEW s \in Seq(Byte), NEW chunk \in Seq(Byte),
         NEW n \in 1..Len(chunk), NEW i \in 1..(Len(chunk) - n + 1)
  PROVE  LET r == s \o SubSeq(chunk, 1, i - 1) \o SubSeq(chunk, i + n, Len(chunk))
         IN  /\ r \in Seq(Byte) /\ Len(r) = Len(s) + Len(chunk) - n
             /\ Drops(r, s \o chunk, Len(s) + Len(chunk), Len(s) + i, n)
<1> DEFINE front == SubSeq(chunk, 1, i - 1)
           m == i + n - 1
           rest == SubSeq(chunk, m + 1, Len(chunk))
           u == s \o front
           r == u \o rest
           w == s \o chunk
<1>1. /\ Len(s) \in Nat /\ Len(chunk) \in Nat
      /\ i - 1 \in 0..Len(chunk) /\ m \in 0..Len(chunk) /\ m + 1 = i + n
  OBVIOUS
<1> HIDE DEF m
<1>2. /\ front \in Seq(Byte) /\ Len(front) = i - 1
      /\ \A k \in 1..(i - 1) : front[k] = chunk[k]
  BY <1>1, TakeIs
<1>3. /\ rest \in Seq(Byte) /\ Len(rest) = Len(chunk) - m
      /\ \A k \in 1..(Len(chunk) - m) : rest[k] = chunk[k + m]
  BY <1>1, DropIs
<1> HIDE DEF front, rest
<1>a. front \in Seq(Byte) /\ rest \in Seq(Byte)
  BY <1>2, <1>3
<1>4. /\ u \in Seq(Byte) /\ Len(u) = Len(s) + Len(front)
      /\ \A k \in 1..Len(s) : u[k] = s[k]
      /\ \A k \in 1..Len(front) : u[Len(s) + k] = front[k]
  BY <1>a, JoinParts
<1> HIDE DEF u
<1>b. u \in Seq(Byte)
  BY <1>4
<1>5. /\ r \in Seq(Byte) /\ Len(r) = Len(u) + Len(rest)
      /\ \A k \in 1..Len(u) : r[k] = u[k]
      /\ \A k \in 1..Len(rest) : r[Len(u) + k] = rest[k]
  BY <1>a, <1>b, JoinParts
<1>6. /\ \A k \in 1..Len(s) : w[k] = s[k]
      /\ \A k \in 1..Len(chunk) : w[Len(s) + k] = chunk[k]
  BY JoinParts
<1> HIDE DEF r, w
<1>7. Len(r) = Len(s) + Len(chunk) - n
  <2>1. /\ Len(front) = i - 1 /\ Len(rest) = Len(chunk) - m
        /\ Len(u) = Len(s) + Len(front) /\ Len(r) = Len(u) + Len(rest)
    BY <1>2, <1>3, <1>4, <1>5
  <2>2. m = i + n - 1
    BY DEF m
  <2> QED
    BY <1>1, <2>1, <2>2
<1>8. ASSUME NEW p \in 1..(Len(s) + Len(chunk) - n)
      PROVE  r[p] = IF p < Len(s) + i THEN w[p] ELSE w[p + n]
  <2>1. CASE p <= Len(s)
    BY <1>1, <1>2, <1>4, <1>5, <1>6, <2>1
  <2>2. CASE Len(s) < p /\ p < Len(s) + i
    <3>1. p - Len(s) \in 1..(i - 1) /\ p = Len(s) + (p - Len(s))
      BY <1>1, <2>2
    <3>2. r[p] = u[p] /\ u[p] = front[p - Len(s)]
      BY <1>1, <1>2, <1>4, <1>5, <2>2, <3>1
    <3>3. p - Len(s) \in 1..Len(chunk)
      BY <1>1, <3>1
    <3>4. w[p] = chunk[p - Len(s)]
      BY <1>6, <3>1, <3>3
    <3> QED
      BY <1>2, <2>2, <3>1, <3>2, <3>4
  <2>3. CASE Len(s) + i <= p
    <3>1. /\ p - Len(u) \in 1..Len(rest) /\ p = Len(u) + (p - Len(u))
          /\ Len(u) = Len(s) + i - 1
      <4>1. \A a, b, c, d, e, f \in Nat :
              /\ a + i <= p /\ p <= a + b - n /\ c = i - 1 /\ f = i + n - 1
              /\ d = b - f /\ e = a + c
              => /\ p - e \in 1..d /\ p = e + (p - e) /\ e = a + i - 1
        OBVIOUS
      <4>2. /\ Len(front) \in Nat /\ Len(rest) \in Nat /\ Len(u) \in Nat /\ m \in Nat
            /\ Len(s) \in Nat /\ Len(chunk) \in Nat
        BY <1>1, <1>a, <1>b
      <4>3. /\ Len(front) = i - 1 /\ Len(rest) = Len(chunk) - m
            /\ Len(u) = Len(s) + Len(front)
        BY <1>2, <1>3, <1>4
      <4>4. m = i + n - 1
        BY DEF m
      <4>5. p <= Len(s) + Len(chunk) - n
        BY <1>1
      <4> QED
        BY <2>3, <4>1, <4>2, <4>3, <4>4, <4>5
    <3>2. r[p] = chunk[p - Len(u) + m]
      BY <1>3, <1>5, <3>1
    <3>3. /\ p - Len(u) + m \in 1..Len(chunk)
          /\ p + n = Len(s) + (p - Len(u) + m)
      BY <1>1, <2>3, <3>1 DEF m
    <3>4. w[p + n] = chunk[p - Len(u) + m]
      BY <1>6, <3>3
    <3> QED
      BY <1>1, <2>3, <3>2, <3>4
  <2> QED
    BY <1>1, <2>1, <2>2, <2>3
<1>9. r = s \o SubSeq(chunk, 1, i - 1) \o SubSeq(chunk, i + n, Len(chunk))
  BY <1>1 DEF r, u, front, rest
<1>10. Drops(r, w, Len(s) + Len(chunk), Len(s) + i, n)
  BY <1>8 DEF Drops
<1> QED
  BY <1>5, <1>7, <1>9, <1>10 DEF w

LEMMA Changed ==
  ASSUME NEW s \in Seq(Byte), NEW chunk \in Seq(Byte), NEW i \in 1..Len(chunk)
  PROVE  LET r == s \o [chunk EXCEPT ![i] = Noise]
         IN  /\ r \in Seq(Byte) /\ Len(r) = Len(s) + Len(chunk)
             /\ Garbles(r, s \o chunk, Len(s) + Len(chunk), Len(s) + i)
<1> DEFINE t == [chunk EXCEPT ![i] = Noise]
           r == s \o t
           w == s \o chunk
<1>1. Len(s) \in Nat /\ Len(chunk) \in Nat /\ Noise \in Byte
  BY DEF Byte
<1>2. /\ t \in Seq(Byte) /\ Len(t) = Len(chunk)
      /\ \A k \in 1..Len(chunk) : t[k] = IF k = i THEN Noise ELSE chunk[k]
  BY <1>1
<1> HIDE DEF t
<1>a. t \in Seq(Byte)
  BY <1>2
<1>3. /\ r \in Seq(Byte) /\ Len(r) = Len(s) + Len(t)
      /\ \A k \in 1..Len(s) : r[k] = s[k]
      /\ \A k \in 1..Len(t) : r[Len(s) + k] = t[k]
  BY <1>a, JoinParts
<1>4. /\ \A k \in 1..Len(s) : w[k] = s[k]
      /\ \A k \in 1..Len(chunk) : w[Len(s) + k] = chunk[k]
  BY JoinParts
<1> HIDE DEF r, w
<1>5. ASSUME NEW p \in 1..(Len(s) + Len(chunk))
      PROVE  r[p] = IF p = Len(s) + i THEN Noise ELSE w[p]
  <2>1. CASE p <= Len(s)
    BY <1>1, <1>3, <1>4, <2>1
  <2>2. CASE p > Len(s)
    <3>1. p - Len(s) \in 1..Len(chunk) /\ p = Len(s) + (p - Len(s))
      BY <1>1, <2>2
    <3> QED
      BY <1>1, <1>2, <1>3, <1>4, <3>1
  <2> QED
    BY <1>1, <2>1, <2>2
<1>6. Garbles(r, w, Len(s) + Len(chunk), Len(s) + i)
  BY <1>5 DEF Garbles
<1> QED
  BY <1>2, <1>3, <1>6 DEF r, w, t

LEMMA PutIn ==
  ASSUME NEW s \in Seq(Byte), NEW chunk \in Seq(Byte), NEW i \in 1..Len(chunk)
  PROVE  LET r == s \o InsertAt(chunk, i, Noise)
         IN  /\ r \in Seq(Byte) /\ Len(r) = Len(s) + Len(chunk) + 1
             /\ Inserts(r, s \o chunk, Len(s) + Len(chunk), Len(s) + i)
<1> DEFINE front == SubSeq(chunk, 1, i - 1)
           m == i - 1
           rest == SubSeq(chunk, m + 1, Len(chunk))
           one == <<Noise>>
           v == front \o one
           t == v \o rest
           r == s \o t
           w == s \o chunk
<1>1. /\ Len(s) \in Nat /\ Len(chunk) \in Nat /\ m \in 0..Len(chunk) /\ m + 1 = i
      /\ i - 1 \in 0..Len(chunk) /\ m = i - 1
  OBVIOUS
<1>0. one \in Seq(Byte) /\ Len(one) = 1 /\ one[1] = Noise
  BY DEF Byte
<1> HIDE DEF m, one
<1>2. /\ front \in Seq(Byte) /\ Len(front) = i - 1
      /\ \A k \in 1..(i - 1) : front[k] = chunk[k]
  BY <1>1, TakeIs
<1>3. /\ rest \in Seq(Byte) /\ Len(rest) = Len(chunk) - m
      /\ \A k \in 1..(Len(chunk) - m) : rest[k] = chunk[k + m]
  BY <1>1, DropIs
<1> HIDE DEF front, rest
<1>a. one \in Seq(Byte) /\ front \in Seq(Byte) /\ rest \in Seq(Byte)
  BY <1>0, <1>2, <1>3
<1>4. /\ v \in Seq(Byte) /\ Len(v) = Len(front) + Len(one)
      /\ \A k \in 1..Len(front) : v[k] = front[k]
      /\ \A k \in 1..Len(one) : v[Len(front) + k] = one[k]
  BY <1>a, JoinParts
<1> HIDE DEF v
<1>b. v \in Seq(Byte)
  BY <1>4
<1>5. /\ t \in Seq(Byte) /\ Len(t) = Len(v) + Len(rest)
      /\ \A k \in 1..Len(v) : t[k] = v[k]
      /\ \A k \in 1..Len(rest) : t[Len(v) + k] = rest[k]
  BY <1>a, <1>b, JoinParts
<1> HIDE DEF t
<1>c. t \in Seq(Byte)
  BY <1>5
<1>6. /\ r \in Seq(Byte) /\ Len(r) = Len(s) + Len(t)
      /\ \A k \in 1..Len(s) : r[k] = s[k]
      /\ \A k \in 1..Len(t) : r[Len(s) + k] = t[k]
  BY <1>c, JoinParts
<1>7. /\ \A k \in 1..Len(s) : w[k] = s[k]
      /\ \A k \in 1..Len(chunk) : w[Len(s) + k] = chunk[k]
  BY JoinParts
<1> HIDE DEF r, w
<1>8. Len(v) = i /\ Len(t) = Len(chunk) + 1
  BY <1>0, <1>1, <1>2, <1>3, <1>4, <1>5
<1>9. \A k \in 1..(Len(chunk) + 1) :
        t[k] = IF k < i THEN chunk[k] ELSE IF k = i THEN Noise ELSE chunk[k - 1]
  <2> SUFFICES ASSUME NEW k \in 1..(Len(chunk) + 1)
               PROVE  t[k] = IF k < i THEN chunk[k]
                             ELSE IF k = i THEN Noise ELSE chunk[k - 1]
    OBVIOUS
  <2>1. CASE k < i
    <3>1. k \in 1..(i - 1) /\ k \in 1..Len(front) /\ k \in 1..Len(v)
      BY <1>1, <1>2, <1>8, <2>1
    <3>2. t[k] = v[k] /\ v[k] = front[k] /\ front[k] = chunk[k]
      BY <1>2, <1>4, <1>5, <3>1
    <3> QED
      BY <2>1, <3>2
  <2>2. CASE k = i
    <3>1. one[1] = Noise /\ Len(front) + 1 = i /\ 1 \in 1..Len(one) /\ i \in 1..Len(v)
      BY <1>0, <1>1, <1>2, <1>8
    <3>2. v[i] = one[1] /\ t[i] = v[i]
      BY <1>4, <1>5, <3>1
    <3> QED
      BY <2>2, <3>1, <3>2
  <2>3. CASE k > i
    <3>1. k - i \in 1..Len(rest) /\ k = Len(v) + (k - i) /\ k - i + m = k - 1
      BY <1>1, <1>3, <1>8, <2>3
    <3>2. t[Len(v) + (k - i)] = rest[k - i] /\ rest[k - i] = chunk[k - i + m]
      BY <1>3, <1>5, <3>1
    <3>3. t[k] = chunk[k - 1]
      BY <3>1, <3>2
    <3> QED
      BY <2>3, <3>3
  <2> QED
    BY <2>1, <2>2, <2>3
<1>10. ASSUME NEW p \in 1..(Len(s) + Len(chunk) + 1)
       PROVE  r[p] = IF p < Len(s) + i THEN w[p]
                     ELSE IF p = Len(s) + i THEN Noise ELSE w[p - 1]
  <2>1. CASE p <= Len(s)
    <3>1. p \in 1..Len(s) /\ p < Len(s) + i
      BY <1>1, <2>1
    <3>2. r[p] = s[p] /\ w[p] = s[p]
      BY <1>6, <1>7, <3>1
    <3> QED
      BY <3>1, <3>2
  <2>2. CASE p > Len(s)
    <3> DEFINE k == p - Len(s)
    <3>1. k \in 1..(Len(chunk) + 1) /\ p = Len(s) + k /\ k \in 1..Len(t)
      BY <1>1, <1>8, <2>2
    <3>2. k > i => k - 1 \in 1..Len(chunk) /\ p - 1 = Len(s) + (k - 1)
      BY <1>1, <3>1
    <3> HIDE DEF k
    <3>3. r[p] = t[k]
      BY <1>6, <3>1
    <3>4. CASE k < i
      <4>1. k \in 1..Len(chunk)
        BY <1>1, <3>1, <3>4
      <4> QED
        BY <1>1, <1>7, <1>9, <3>1, <3>3, <3>4, <4>1
    <3>5. CASE k = i
      BY <1>1, <1>9, <3>1, <3>3, <3>5
    <3>6. CASE k > i
      BY <1>1, <1>7, <1>9, <3>1, <3>2, <3>3, <3>6
    <3> QED
      BY <3>1, <3>4, <3>5, <3>6
  <2> QED
    BY <1>1, <2>1, <2>2
<1>11. Inserts(r, w, Len(s) + Len(chunk), Len(s) + i)
  BY <1>10 DEF Inserts
<1>12. InsertAt(chunk, i, Noise) = t
  BY <1>1 DEF InsertAt, t, v, front, rest, one, m
<1> QED
  BY <1>6, <1>8, <1>11, <1>12 DEF r, w

-----------------------------------------------------------------------------
(* Counting errors and looking for the shift.                               *)

Expected(chunk, v, i) == chunk[i] = v + i - 1

LEMMA ErrorsCounted ==
  ASSUME NEW v, NEW chunk
  PROVE  LET bad == CountErrors(v, chunk)
         IN  /\ bad \in 0..ChunkSize
             /\ bad = 0 <=> \A i \in 1..ChunkSize : Expected(chunk, v, i)
             /\ bad = ChunkSize <=> \A i \in 1..ChunkSize : ~Expected(chunk, v, i)
<1> DEFINE all == 1..ChunkSize
           wrong == {i \in all : ~Expected(chunk, v, i)}
<1>1. IsFiniteSet(all) /\ Cardinality(all) = ChunkSize
  BY BerAssumption, FS_Interval
<1>2. wrong \subseteq all /\ wrong = {i \in 1..ChunkSize : chunk[i] # v + i - 1}
  BY DEF Expected
<1>3. (\A i \in all : Expected(chunk, v, i)) <=> wrong = {}
  OBVIOUS
<1>4. (\A i \in all : ~Expected(chunk, v, i)) <=> wrong = all
  OBVIOUS
<1>5. CountErrors(v, chunk) = Cardinality(wrong)
  BY <1>2 DEF CountErrors
<1> HIDE DEF all, wrong
<1>6. /\ IsFiniteSet(wrong) /\ Cardinality(wrong) <= ChunkSize
      /\ Cardinality(wrong) = ChunkSize => wrong = all
  BY <1>1, <1>2, FS_Subset
<1>7. Cardinality(wrong) \in Nat /\ (Cardinality(wrong) = 0 <=> wrong = {})
  BY <1>6, FS_CardinalityType, FS_EmptySet
<1>8. CountErrors(v, chunk) \in 0..ChunkSize
  BY <1>5, <1>6, <1>7, BerAssumption
<1>9. CountErrors(v, chunk) = 0 <=> \A i \in all : Expected(chunk, v, i)
  BY <1>3, <1>5, <1>7
<1>10. CountErrors(v, chunk) = ChunkSize <=> \A i \in all : ~Expected(chunk, v, i)
  BY <1>1, <1>4, <1>5, <1>6
<1> QED
  BY <1>8, <1>9, <1>10 DEF all

(* A chunk is only shifted to where some of its bytes are those expected.   *)
LEMMA ShiftMatches ==
  ASSUME NEW v \in Nat, NEW chunk
  PROVE  LET s == ResyncShift(v, chunk)
         IN  /\ s \in Nat
             /\ s = 0 \/ \E i \in 1..ChunkSize : Expected(chunk, v + s, i)
             /\ (\A i \in 1..ChunkSize : Expected(chunk, v, i)) => s = 0
<1> DEFINE Bad(s) == CountErrors(v + s, chunk)
           best == {s \in Tried(v, chunk) :
                      \A other \in Tried(v, chunk) : Bad(s) <= Bad(other)}
           useful == {s \in best : Bad(s) < Bad(0) /\ RateBelow(Bad(s), 15)}
           lost0 == Desynchronised(Bad(0))
           shift == ResyncShift(v, chunk)
<1>1. shift = IF lost0 /\ useful # {} THEN Min(useful) ELSE 0
  BY DEF ResyncShift
<1>2. useful \in SUBSET Nat
  BY BerAssumption DEF Tried
<1>3. \A s \in useful : Bad(s) < Bad(0)
  OBVIOUS
<1>4. Bad(0) \in 0..ChunkSize /\ Bad(0) = CountErrors(v, chunk)
  BY ErrorsCounted
<1>5. lost0 => Bad(0) * 50 > 15 * ChunkSize
  BY DEF Desynchronised
<1>6. ASSUME NEW s \in useful
      PROVE  \E i \in 1..ChunkSize : Expected(chunk, v + s, i)
  <2>1. Bad(s) \in 0..ChunkSize /\ Bad(s) # ChunkSize
    BY <1>3, <1>4, <1>6, ErrorsCounted, BerAssumption
  <2> QED
    BY <2>1, ErrorsCounted
<1>7. (\A i \in 1..ChunkSize : Expected(chunk, v, i)) => Bad(0) = 0
  BY <1>4, ErrorsCounted
<1> HIDE DEF Bad, best, useful, lost0, shift
<1>8. lost0 /\ useful # {} => shift \in useful
  BY <1>1, <1>2, MinExists
<1>9. Bad(0) = 0 => ~lost0
  BY <1>5, BerAssumption
<1>10. shift \in Nat
  BY <1>1, <1>2, <1>8
<1>11. shift = 0 \/ \E i \in 1..ChunkSize : Expected(chunk, v + shift, i)
  BY <1>1, <1>6, <1>8
<1>12. (\A i \in 1..ChunkSize : Expected(chunk, v, i)) => shift = 0
  BY <1>1, <1>7, <1>9
<1> QED
  BY <1>10, <1>11, <1>12 DEF shift

(* The search finds an intact chunk within its limit.                       *)
LEMMA ShiftFinds ==
  ASSUME NEW v \in Nat, NEW chunk, NEW d \in 0..SearchLimit,
         \A i \in 1..ChunkSize : chunk[i] = v + d + i - 1
  PROVE  ResyncShift(v, chunk) = d
<1> DEFINE Bad(s) == CountErrors(v + s, chunk)
           tried == Tried(v, chunk)
           best == {s \in tried : \A other \in tried : Bad(s) <= Bad(other)}
           useful == {s \in best : Bad(s) < Bad(0) /\ RateBelow(Bad(s), 15)}
<1>1. ResyncShift(v, chunk)
        = IF Desynchronised(Bad(0)) /\ useful # {} THEN Min(useful) ELSE 0
  BY DEF ResyncShift
<1>2. d \in Nat /\ ChunkSize \in Nat \ {0} /\ SearchLimit \in Nat
  BY BerAssumption
<1>3. Bad(d) = 0
  <2>1. \A i \in 1..ChunkSize : Expected(chunk, v + d, i)
    BY DEF Expected
  <2> QED
    BY <2>1, ErrorsCounted
<1>4. ASSUME NEW s \in Nat, s # d PROVE Bad(s) = ChunkSize
  <2>1. \A i \in 1..ChunkSize : ~Expected(chunk, v + s, i)
    BY <1>2, <1>4 DEF Expected
  <2> QED
    BY <2>1, ErrorsCounted
<1>5. tried = {s \in 1..SearchLimit :
                 \A earlier \in 1..s - 1 : ~RateBelow(Bad(earlier), 5)}
  BY DEF Tried
<1> HIDE DEF Bad, tried
<1>6. CASE d = 0
  <2>1. ~Desynchronised(Bad(0))
    BY <1>2, <1>3, <1>6 DEF Desynchronised
  <2> QED
    BY <1>1, <1>6, <2>1
<1>7. CASE d # 0
  <2>1. Bad(0) = ChunkSize /\ Desynchronised(Bad(0))
    BY <1>2, <1>4, <1>7 DEF Desynchronised
  <2>2. RateBelow(Bad(d), 5) /\ RateBelow(Bad(d), 15)
    BY <1>2, <1>3 DEF RateBelow
  <2>3. \A s \in Nat : s # d => ~RateBelow(Bad(s), 5)
    BY <1>2, <1>4 DEF RateBelow
  <2>4. d \in tried
    BY <1>2, <1>5, <1>7, <2>3
  <2>5. \A s \in tried : s \in Nat /\ Bad(d) <= Bad(s)
    BY <1>2, <1>3, <1>4, <1>5
  <2>6. d \in useful
    BY <1>2, <1>3, <2>1, <2>2, <2>4, <2>5
  <2>7. \A s \in useful : s = d
    BY <1>2, <1>3, <1>4, <2>4, <2>5
  <2> HIDE DEF useful
  <2>8. Min(useful) = d
    BY <1>2, <2>6, <2>7, MinIs
  <2> QED
    BY <1>1, <2>1, <2>6, <2>8
<1> QED
  BY <1>6, <1>7

-----------------------------------------------------------------------------
(* What the link does to the stream keeps what is said of it.  l bytes are  *)
(* lost before and l1 after, and so for the inserted bytes and the faults.  *)

Keeps(f, m, l, i, k, g, m1, l1, i1, k1) ==
  /\ m1 \in Nat /\ l1 \in Nat /\ i1 \in Nat /\ k1 \in Nat
  /\ l <= l1 /\ i <= i1 /\ k <= k1 /\ m1 + i <= m + i1
  /\ k1 = 0 => l1 = l /\ i1 = i
  /\ \A p \in 1..m1 : g[p] \in Byte
  /\ \A c \in Nat : NotAhead(f, m, c, l) => NotAhead(g, m1, c, l1)
  /\ k1 = 0 => \A c \in Nat : Punctual(f, m, c) => Punctual(g, m1, c)
  /\ i1 = 0 => \A v \in Nat : Rises(f, m, v) => Rises(g, m1, v)

(* A part of the stream, from its front, with more bytes lost elsewhere.    *)
LEMMA FrontKeeps ==
  ASSUME NEW m \in Nat, NEW f, \A p \in 1..m : f[p] \in Byte,
         NEW m1 \in Nat, m1 <= m, NEW g, \A p \in 1..m1 : g[p] = f[p],
         NEW l \in Nat, NEW i \in Nat, NEW k \in Nat,
         NEW l1 \in Nat, NEW i1 \in Nat, NEW k1 \in Nat,
         l <= l1, i <= i1, k <= k1, k1 = 0 => l1 = l /\ i1 = i
  PROVE  Keeps(f, m, l, i, k, g, m1, l1, i1, k1)
<1>1. \A p \in 1..m1 : p \in 1..m /\ f[p] \in Int /\ g[p] \in Byte
  BY DEF Byte, Noise
<1>2. \A c \in Nat : NotAhead(f, m, c, l) => NotAhead(g, m1, c, l1)
  BY <1>1 DEF NotAhead
<1>3. \A c \in Nat : Punctual(f, m, c) => Punctual(g, m1, c)
  BY <1>1 DEF Punctual
<1>4. \A v \in Nat : Rises(f, m, v) => Rises(g, m1, v)
  BY <1>1 DEF Rises
<1> QED
  BY <1>1, <1>2, <1>3, <1>4 DEF Keeps

\* The link has made the stream g out of f.
Struck(f, m, l, i, g, m1, l1, i1) ==
  \/ \E n, q \in Nat :
       n <= m /\ m1 = m - n /\ Drops(g, f, m, q, n) /\ l1 = l + n /\ i1 = i
  \/ \E q \in Nat : m1 = m /\ Garbles(g, f, m, q) /\ l1 = l /\ i1 = i
  \/ \E q \in 1..(m + 1) : m1 = m + 1 /\ Inserts(g, f, m, q) /\ l1 = l /\ i1 = i + 1

LEMMA StruckKeeps ==
  ASSUME NEW m \in Nat, NEW f, \A p \in 1..m : f[p] \in Byte,
         NEW m1 \in Nat, NEW g, \A p \in 1..m1 : g[p] \in Byte,
         NEW l \in Nat, NEW i \in Nat, NEW k \in Nat, NEW l1, NEW i1,
         Struck(f, m, l, i, g, m1, l1, i1)
  PROVE  Keeps(f, m, l, i, k, g, m1, l1, i1, k + 1)
<1>1. CASE \E n, q \in Nat :
             n <= m /\ m1 = m - n /\ Drops(g, f, m, q, n) /\ l1 = l + n /\ i1 = i
  <2>1. PICK n \in Nat, q \in Nat :
          n <= m /\ m1 = m - n /\ Drops(g, f, m, q, n) /\ l1 = l + n /\ i1 = i
    BY <1>1
  <2>2. \A c, v \in Nat : /\ NotAhead(f, m, c, l) => NotAhead(g, m1, c, l1)
                          /\ Rises(f, m, v) => Rises(g, m1, v)
    BY <2>1, DropsOf
  <2> QED
    BY <2>1, <2>2 DEF Keeps
<1>2. CASE \E q \in Nat : m1 = m /\ Garbles(g, f, m, q) /\ l1 = l /\ i1 = i
  <2>1. PICK q \in Nat : m1 = m /\ Garbles(g, f, m, q) /\ l1 = l /\ i1 = i
    BY <1>2
  <2>2. \A c, v \in Nat : /\ NotAhead(f, m, c, l) => NotAhead(g, m1, c, l1)
                          /\ Rises(f, m, v) => Rises(g, m1, v)
    BY <2>1, GarblesOf
  <2> QED
    BY <2>1, <2>2 DEF Keeps
<1>3. CASE \E q \in 1..(m + 1) :
             m1 = m + 1 /\ Inserts(g, f, m, q) /\ l1 = l /\ i1 = i + 1
  <2>1. PICK q \in 1..(m + 1) :
          m1 = m + 1 /\ Inserts(g, f, m, q) /\ l1 = l /\ i1 = i + 1
    BY <1>3
  <2>2. \A c \in Nat : NotAhead(f, m, c, l) => NotAhead(g, m1, c, l1)
    BY <2>1, InsertsOf
  <2> QED
    BY <2>1, <2>2 DEF Keeps
<1> QED
  BY <1>1, <1>2, <1>3 DEF Struck

\* What Arrives says, of values.
Delivers(r, on, chunk, l, i, k, l1, i1, k1) ==
  \/ r = on \o chunk /\ l1 = l /\ i1 = i /\ k1 = k
  \/ /\ k1 = k + 1
     /\ \/ \E n \in 1..MaxBurst : \E j \in 1..ChunkSize - n + 1 :
             /\ r = on \o SubSeq(chunk, 1, j - 1) \o SubSeq(chunk, j + n, ChunkSize)
             /\ l1 = l + n /\ i1 = i
        \/ \E j \in 1..ChunkSize :
             r = on \o [chunk EXCEPT ![j] = Noise] /\ l1 = l /\ i1 = i
        \/ \E j \in 1..ChunkSize :
             r = on \o InsertAt(chunk, j, Noise) /\ l1 = l /\ i1 = i + 1

\* r is the sequence w of m bytes, or what is left of it after a fault.
Lands(r, w, m, l, i, k, l1, i1, k1) ==
  /\ r \in Seq(Byte)
  /\ \/ r = w /\ l1 = l /\ i1 = i /\ k1 = k
     \/ /\ k1 = k + 1
        /\ \/ \E n, q \in Nat :
                /\ n <= ChunkSize /\ Len(r) = m - n /\ q \in 1..(Len(r) + 1)
                /\ Drops(r, w, m, q, n) /\ l1 = l + n /\ i1 = i
           \/ \E q \in Nat :
                /\ Len(r) = m /\ q \in 1..m
                /\ Garbles(r, w, m, q) /\ l1 = l /\ i1 = i
           \/ \E q \in Nat :
                /\ Len(r) = m + 1 /\ q \in 1..(m + 1)
                /\ Inserts(r, w, m, q) /\ l1 = l /\ i1 = i + 1

LEMMA DeliversStruck ==
  ASSUME NEW on \in Seq(Byte), NEW chunk \in Seq(Byte), Len(chunk) = ChunkSize,
         NEW r, NEW l \in Nat, NEW i \in Nat, NEW k \in Nat, NEW l1, NEW i1, NEW k1,
         Delivers(r, on, chunk, l, i, k, l1, i1, k1)
  PROVE  Lands(r, on \o chunk, Len(on) + ChunkSize, l, i, k, l1, i1, k1)
<1> DEFINE w == on \o chunk
           m == Len(on) + ChunkSize
<1>0. /\ ChunkSize \in Nat \ {0} /\ MaxBurst \in 1..ChunkSize
      /\ Len(on) \in Nat /\ m \in Nat /\ w \in Seq(Byte)
  BY BerAssumption, JoinParts
<1>1. CASE r = on \o chunk /\ l1 = l /\ i1 = i /\ k1 = k
  BY <1>0, <1>1 DEF Lands
<1>2. ASSUME k1 = k + 1, NEW n \in 1..MaxBurst, NEW j \in 1..ChunkSize - n + 1,
             r = on \o SubSeq(chunk, 1, j - 1) \o SubSeq(chunk, j + n, ChunkSize),
             l1 = l + n /\ i1 = i
      PROVE  /\ r \in Seq(Byte)
             /\ \E b, q \in Nat :
                  /\ b <= ChunkSize /\ Len(r) = m - b /\ q \in 1..(Len(r) + 1)
                  /\ Drops(r, w, m, q, b) /\ l1 = l + b /\ i1 = i
  <2>1. n \in 1..Len(chunk) /\ j \in 1..(Len(chunk) - n + 1)
    BY <1>0
  <2>2. /\ r \in Seq(Byte) /\ Len(r) = m - n
        /\ Drops(r, w, m, Len(on) + j, n)
    <3> DEFINE u == on \o SubSeq(chunk, 1, j - 1) \o SubSeq(chunk, j + n, Len(chunk))
    <3>1. /\ u \in Seq(Byte) /\ Len(u) = Len(on) + Len(chunk) - n
          /\ Drops(u, on \o chunk, Len(on) + Len(chunk), Len(on) + j, n)
      BY <2>1, CutOut
    <3>2. r = u
      BY <1>2
    <3> HIDE DEF u
    <3> QED
      BY <3>1, <3>2
  <2>3. /\ n \in Nat /\ Len(on) + j \in Nat /\ n <= ChunkSize
        /\ Len(on) + j \in 1..(m - n + 1)
    BY <1>0
  <2> HIDE DEF w, m
  <2> QED
    BY <1>2, <2>2, <2>3
<1>3. ASSUME k1 = k + 1, NEW j \in 1..ChunkSize,
             r = on \o [chunk EXCEPT ![j] = Noise], l1 = l /\ i1 = i
      PROVE  /\ r \in Seq(Byte)
             /\ \E q \in Nat : /\ Len(r) = m /\ q \in 1..m
                               /\ Garbles(r, w, m, q) /\ l1 = l /\ i1 = i
  <2>1. r \in Seq(Byte) /\ Len(r) = m /\ Garbles(r, w, m, Len(on) + j)
    BY <1>3, Changed
  <2>2. Len(on) + j \in Nat /\ Len(on) + j \in 1..m
    BY <1>0
  <2> HIDE DEF w, m
  <2> QED
    BY <1>3, <2>1, <2>2
<1>4. ASSUME k1 = k + 1, NEW j \in 1..ChunkSize,
             r = on \o InsertAt(chunk, j, Noise), l1 = l /\ i1 = i + 1
      PROVE  /\ r \in Seq(Byte)
             /\ \E q \in Nat : /\ Len(r) = m + 1 /\ q \in 1..(m + 1)
                               /\ Inserts(r, w, m, q) /\ l1 = l /\ i1 = i + 1
  <2>1. r \in Seq(Byte) /\ Len(r) = m + 1 /\ Inserts(r, w, m, Len(on) + j)
    BY <1>4, PutIn
  <2>2. Len(on) + j \in Nat /\ Len(on) + j \in 1..(m + 1)
    BY <1>0
  <2> HIDE DEF w, m
  <2> QED
    BY <1>4, <2>1, <2>2
<1> HIDE DEF w, m
<1>5. CASE r # on \o chunk \/ l1 # l \/ i1 # i \/ k1 # k
  <2>1. Lands(r, w, m, l, i, k, l1, i1, k1)
    BY <1>2, <1>3, <1>4, <1>5 DEF Delivers, Lands, w
  <2> QED
    BY <2>1 DEF w, m
<1> QED
  BY <1>1, <1>5

(* A delivery at the end of the third part, and of the second.              *)
LEMMA DeliveredLast ==
  ASSUME NEW x \in Seq(Byte), NEW y \in Seq(Byte), NEW e \in Nat,
         NEW on \in Seq(Byte), NEW chunk \in Seq(Byte), Len(chunk) = ChunkSize,
         NEW r, NEW l \in Nat, NEW i \in Nat, NEW k \in Nat, NEW l1, NEW i1, NEW k1,
         Delivers(r, on, chunk, l, i, k, l1, i1, k1)
  PROVE  /\ r \in Seq(Byte)
         /\ Keeps(Joined(x, y, on \o chunk, e), Len(x) + Len(y) + Len(on) + ChunkSize + 1,
                  l, i, k,
                  Joined(x, y, r, e), Len(x) + Len(y) + Len(r) + 1, l1, i1, k1)
<1> DEFINE w == on \o chunk
           d == Len(on) + ChunkSize
           a == Len(x)
           b == Len(y)
           f == Joined(x, y, w, e)
           g == Joined(x, y, r, e)
           m == a + b + d + 1
           m1 == a + b + Len(r) + 1
<1>1. /\ w \in Seq(Byte) /\ Len(w) = d /\ d \in Nat
      /\ a \in Nat /\ b \in Nat /\ ChunkSize \in Nat
  <2>1. w \in Seq(Byte) /\ Len(w) = Len(on) + Len(chunk)
    BY JoinParts
  <2> HIDE DEF w
  <2> QED
    BY <2>1, BerAssumption
<1>6. Lands(r, w, d, l, i, k, l1, i1, k1)
  BY DeliversStruck
<1>2. r \in Seq(Byte) /\ Len(r) \in Nat
  BY <1>6 DEF Lands
<1> HIDE DEF w
<1>3. IsJoined(f, x, a, y, b, w, d, e) /\ \A p \in 1..m : f[p] \in Byte
  BY <1>1, JoinedIs
<1>4. IsJoined(g, x, a, y, b, r, Len(r), e) /\ \A p \in 1..m1 : g[p] \in Byte
  BY <1>2, JoinedIs
<1>5. m \in Nat /\ m1 \in Nat
  BY <1>1, <1>2
<1> HIDE DEF f, g, a, b, d
<1>7. ASSUME r = w, l1 = l /\ i1 = i /\ k1 = k
      PROVE  Keeps(f, m, l, i, k, g, m1, l1, i1, k1)
  <2>1. f = g /\ m1 = m
    BY <1>1, <1>7 DEF f, g
  <2> HIDE DEF m, m1
  <2>2. m <= m /\ l <= l /\ i <= i /\ k <= k
    BY <1>5
  <2>3. Keeps(f, m, l, i, k, f, m, l, i, k)
    BY <1>3, <1>5, <2>2, FrontKeeps
  <2> QED
    BY <1>7, <2>1, <2>3
<1>8. ASSUME k1 = k + 1, ~(r = w /\ l1 = l /\ i1 = i /\ k1 = k)
      PROVE  Keeps(f, m, l, i, k, g, m1, l1, i1, k1)
  <2>1. Struck(f, m, l, i, g, m1, l1, i1)
    <3>1. ASSUME NEW n \in Nat, NEW q \in Nat,
                 n <= ChunkSize, Len(r) = d - n, q \in 1..(Len(r) + 1),
                 Drops(r, w, d, q, n), l1 = l + n /\ i1 = i
          PROVE  Struck(f, m, l, i, g, m1, l1, i1)
      <4>1. Drops(g, f, m, a + b + q, n)
        BY <1>3, <1>4, <3>1, FaultInThird
      <4>2. a + b + q \in Nat /\ n <= m /\ m1 = m - n
        BY <1>1, <1>2, <3>1
      <4> QED
        BY <3>1, <4>1, <4>2 DEF Struck
    <3>2. ASSUME NEW q \in Nat, Len(r) = d, q \in 1..d,
                 Garbles(r, w, d, q), l1 = l /\ i1 = i
          PROVE  Struck(f, m, l, i, g, m1, l1, i1)
      <4>1. Garbles(g, f, m, a + b + q)
        BY <1>3, <1>4, <3>2, FaultInThird
      <4>2. a + b + q \in Nat /\ m1 = m
        BY <1>1, <3>2
      <4> QED
        BY <3>2, <4>1, <4>2 DEF Struck
    <3>3. ASSUME NEW q \in Nat, Len(r) = d + 1, q \in 1..(d + 1),
                 Inserts(r, w, d, q), l1 = l /\ i1 = i + 1
          PROVE  Struck(f, m, l, i, g, m1, l1, i1)
      <4>1. Inserts(g, f, m, a + b + q)
        BY <1>3, <1>4, <3>3, FaultInThird
      <4>2. a + b + q \in 1..(m + 1) /\ m1 = m + 1
        BY <1>1, <3>3
      <4> QED
        BY <3>3, <4>1, <4>2 DEF Struck
    <3> QED
      BY <1>6, <1>8, <3>1, <3>2, <3>3 DEF Lands
  <2> HIDE DEF m, m1
  <2>2. Keeps(f, m, l, i, k, g, m1, l1, i1, k + 1)
    BY <1>3, <1>4, <1>5, <2>1, StruckKeeps
  <2> QED
    BY <1>8, <2>2
<1>9. Keeps(f, m, l, i, k, g, m1, l1, i1, k1)
  BY <1>6, <1>7, <1>8 DEF Lands
<1>10. m = Len(x) + Len(y) + Len(on) + ChunkSize + 1
  BY <1>1 DEF a, b, d
<1> HIDE DEF m
<1> QED
  BY <1>2, <1>9, <1>10 DEF f, g, w, a, b, m1

LEMMA DeliveredMiddle ==
  ASSUME NEW x \in Seq(Byte), NEW z \in Seq(Byte), NEW e \in Nat,
         NEW on \in Seq(Byte), NEW chunk \in Seq(Byte), Len(chunk) = ChunkSize,
         NEW r, NEW l \in Nat, NEW i \in Nat, NEW k \in Nat, NEW l1, NEW i1, NEW k1,
         Delivers(r, on, chunk, l, i, k, l1, i1, k1)
  PROVE  /\ r \in Seq(Byte)
         /\ Keeps(Joined(x, on \o chunk, z, e), Len(x) + Len(on) + ChunkSize + Len(z) + 1,
                  l, i, k,
                  Joined(x, r, z, e), Len(x) + Len(r) + Len(z) + 1, l1, i1, k1)
<1> DEFINE w == on \o chunk
           d == Len(on) + ChunkSize
           a == Len(x)
           b == Len(z)
           f == Joined(x, w, z, e)
           g == Joined(x, r, z, e)
           m == a + d + b + 1
           m1 == a + Len(r) + b + 1
<1>1. /\ w \in Seq(Byte) /\ Len(w) = d /\ d \in Nat
      /\ a \in Nat /\ b \in Nat /\ ChunkSize \in Nat
  <2>1. w \in Seq(Byte) /\ Len(w) = Len(on) + Len(chunk)
    BY JoinParts
  <2> HIDE DEF w
  <2> QED
    BY <2>1, BerAssumption
<1>6. Lands(r, w, d, l, i, k, l1, i1, k1)
  BY DeliversStruck
<1>2. r \in Seq(Byte) /\ Len(r) \in Nat
  BY <1>6 DEF Lands
<1> HIDE DEF w
<1>3. IsJoined(f, x, a, w, d, z, b, e) /\ \A p \in 1..m : f[p] \in Byte
  BY <1>1, JoinedIs
<1>4. IsJoined(g, x, a, r, Len(r), z, b, e) /\ \A p \in 1..m1 : g[p] \in Byte
  BY <1>2, JoinedIs
<1>5. m \in Nat /\ m1 \in Nat
  BY <1>1, <1>2
<1> HIDE DEF f, g, a, b, d
<1>7. ASSUME r = w, l1 = l /\ i1 = i /\ k1 = k
      PROVE  Keeps(f, m, l, i, k, g, m1, l1, i1, k1)
  <2>1. f = g /\ m1 = m
    BY <1>1, <1>7 DEF f, g
  <2> HIDE DEF m, m1
  <2>2. m <= m /\ l <= l /\ i <= i /\ k <= k
    BY <1>5
  <2>3. Keeps(f, m, l, i, k, f, m, l, i, k)
    BY <1>3, <1>5, <2>2, FrontKeeps
  <2> QED
    BY <1>7, <2>1, <2>3
<1>8. ASSUME k1 = k + 1, ~(r = w /\ l1 = l /\ i1 = i /\ k1 = k)
      PROVE  Keeps(f, m, l, i, k, g, m1, l1, i1, k1)
  <2>1. Struck(f, m, l, i, g, m1, l1, i1)
    <3>1. ASSUME NEW n \in Nat, NEW q \in Nat,
                 n <= ChunkSize, Len(r) = d - n, q \in 1..(Len(r) + 1),
                 Drops(r, w, d, q, n), l1 = l + n /\ i1 = i
          PROVE  Struck(f, m, l, i, g, m1, l1, i1)
      <4>1. Drops(g, f, m, a + q, n)
        BY <1>3, <1>4, <3>1, FaultInSecond
      <4>2. a + q \in Nat /\ n <= m /\ m1 = m - n
        BY <1>1, <1>2, <3>1
      <4> QED
        BY <3>1, <4>1, <4>2 DEF Struck
    <3>2. ASSUME NEW q \in Nat, Len(r) = d, q \in 1..d,
                 Garbles(r, w, d, q), l1 = l /\ i1 = i
          PROVE  Struck(f, m, l, i, g, m1, l1, i1)
      <4>1. Garbles(g, f, m, a + q)
        BY <1>3, <1>4, <3>2, FaultInSecond
      <4>2. a + q \in Nat /\ m1 = m
        BY <1>1, <3>2
      <4> QED
        BY <3>2, <4>1, <4>2 DEF Struck
    <3>3. ASSUME NEW q \in Nat, Len(r) = d + 1, q \in 1..(d + 1),
                 Inserts(r, w, d, q), l1 = l /\ i1 = i + 1
          PROVE  Struck(f, m, l, i, g, m1, l1, i1)
      <4>1. Inserts(g, f, m, a + q)
        BY <1>3, <1>4, <3>3, FaultInSecond
      <4>2. a + q \in 1..(m + 1) /\ m1 = m + 1
        BY <1>1, <3>3
      <4> QED
        BY <3>3, <4>1, <4>2 DEF Struck
    <3> QED
      BY <1>6, <1>8, <3>1, <3>2, <3>3 DEF Lands
  <2> HIDE DEF m, m1
  <2>2. Keeps(f, m, l, i, k, g, m1, l1, i1, k + 1)
    BY <1>3, <1>4, <1>5, <2>1, StruckKeeps
  <2> QED
    BY <1>8, <2>2
<1>9. Keeps(f, m, l, i, k, g, m1, l1, i1, k1)
  BY <1>6, <1>7, <1>8 DEF Lands
<1>10. m = Len(x) + Len(on) + ChunkSize + Len(z) + 1
  BY <1>1 DEF a, b, d
<1> HIDE DEF m
<1> QED
  BY <1>2, <1>9, <1>10 DEF f, g, w, a, b, m1

-----------------------------------------------------------------------------
(* The states.                                                              *)

BerTypeOK ==
  /\ link \in LinkTypes /\ open \in BOOLEAN /\ failed \in BOOLEAN /\ stop \in BOOLEAN
  /\ main \in {"spawnWriter", "spawnReader", "watch", "close", "join", "done"}
  /\ writer \in {"none", "start", "send", "count", "done"}
  /\ reader \in {"none", "start", "recv", "check", "done"}
  /\ echo \in {"relay", "done"}
  /\ written \in Nat /\ verifier \in Nat
  /\ sent \in Nat /\ checked \in Nat /\ errors \in Nat /\ resyncs \in Nat
  /\ faults \in Nat /\ lost \in Nat /\ inserted \in Nat
  /\ buffer \in Seq(Byte) /\ back \in Seq(Byte) /\ outward \in Seq(Byte)
  /\ Len(buffer) = IF reader = "check" THEN ChunkSize ELSE 0
  /\ failed => back = <<>> /\ outward = <<>>
  /\ main = "spawnWriter" => writer = "none"
  /\ main \in {"spawnWriter", "spawnReader"} => reader = "none"

\* What the writer sends still comes back to the reader.
Alive == echo = "relay" /\ ~failed

Flow == Joined(buffer, back, outward, written)
FullSize == Len(buffer) + Len(back) + Len(outward) + 1
FlowSize == IF Alive THEN FullSize ELSE Len(buffer) + Len(back)

(* The inductive invariant, of a stream f of m bytes.                       *)
DeservedBy(f, m) ==
  /\ NotAhead(f, m, checked, lost)
  /\ resyncs + checked <= verifier /\ verifier <= checked + lost

CleanBy(f, m) ==
  faults = 0 =>
    /\ lost = 0 /\ inserted = 0 /\ errors = 0
    /\ Punctual(f, m, checked)

AlignedBy(f, m) == inserted = 0 => Rises(f, m, verifier)

Deserved == DeservedBy(Flow, FlowSize)
Clean == CleanBy(Flow, FlowSize)
Aligned == AlignedBy(Flow, FlowSize)

\* The last byte of a stream that is alive is not written yet.
Counted ==
  /\ checked + FlowSize <= written + inserted + (IF Alive THEN 1 ELSE 0)
  /\ written = sent + IF writer = "count" THEN ChunkSize ELSE 0

(* The variables of the stream, and those that only steps of the link, the  *)
(* writer's sending and the reader's receiving and checking change.         *)
flowVars == <<buffer, back, outward, written, echo, failed, faults, lost, inserted>>
countVars == <<verifier, checked, errors, resyncs>>

LEMMA Lengths ==
  ASSUME BerTypeOK
  PROVE  /\ Len(buffer) \in Nat /\ Len(back) \in Nat /\ Len(outward) \in Nat
         /\ FullSize \in Nat \ {0} /\ FlowSize \in Nat /\ FlowSize <= FullSize
         /\ \A p \in 1..FullSize : Flow[p] \in Byte
         /\ \A p \in 1..FlowSize : Flow[p] \in Byte
<1>1. /\ Len(buffer) \in Nat /\ Len(back) \in Nat /\ Len(outward) \in Nat
      /\ \A p \in 1..FullSize : Flow[p] \in Byte
  BY JoinedIs DEF BerTypeOK, Flow, FullSize
<1>2. FullSize \in Nat \ {0} /\ FlowSize \in Nat /\ FlowSize <= FullSize
  BY <1>1 DEF FullSize, FlowSize
<1> QED
  BY <1>1, <1>2

LEMMA ArrivesIs ==
  /\ \A chunk : Arrives(outward, chunk) =>
       Delivers(outward', outward, chunk, lost, inserted, faults,
                lost', inserted', faults')
  /\ \A chunk : Arrives(back, chunk) =>
       Delivers(back', back, chunk, lost, inserted, faults,
                lost', inserted', faults')
BY DEF Arrives, Delivers

(* The writer's chunk goes on from what it has sent.                        *)
LEMMA SendingFlow ==
  ASSUME BerTypeOK, WriterSends
  PROVE  /\ outward' \in Seq(Byte)
         /\ \E h : /\ GoesOn(h, Flow, FullSize, ChunkSize)
                   /\ Keeps(h, FullSize + ChunkSize, lost, inserted, faults,
                            Flow', FullSize', lost', inserted', faults')
<1> DEFINE chunk == [i \in 1..ChunkSize |-> written + i - 1]
           new == outward \o chunk
           h == Joined(buffer, back, new, written + ChunkSize)
<1>1. /\ buffer \in Seq(Byte) /\ back \in Seq(Byte) /\ outward \in Seq(Byte)
      /\ written \in Nat /\ written + ChunkSize \in Nat /\ ChunkSize \in Nat \ {0}
      /\ lost \in Nat /\ inserted \in Nat /\ faults \in Nat
  BY BerAssumption DEF BerTypeOK
<1>2. /\ chunk \in Seq(Byte) /\ Len(chunk) = ChunkSize
      /\ \A i \in 1..ChunkSize : chunk[i] = written + i - 1
  BY <1>1 DEF Byte
<1>3. /\ buffer' = buffer /\ back' = back /\ written' = written + ChunkSize
      /\ Arrives(outward, chunk)
  BY DEF WriterSends
<1> HIDE DEF chunk
<1>4. Delivers(outward', outward, chunk, lost, inserted, faults,
               lost', inserted', faults')
  BY <1>3, ArrivesIs
<1>5. /\ outward' \in Seq(Byte)
      /\ Keeps(h, Len(buffer) + Len(back) + Len(outward) + ChunkSize + 1,
               lost, inserted, faults,
               Joined(buffer, back, outward', written + ChunkSize),
               Len(buffer) + Len(back) + Len(outward') + 1, lost', inserted', faults')
  BY <1>1, <1>2, <1>4, DeliveredLast
<1>6. /\ Flow' = Joined(buffer, back, outward', written + ChunkSize)
      /\ FullSize' = Len(buffer) + Len(back) + Len(outward') + 1
  BY <1>3 DEF Flow, FullSize
<1>7. FullSize + ChunkSize = Len(buffer) + Len(back) + Len(outward) + ChunkSize + 1
  BY <1>1, Lengths DEF FullSize
<1>8. /\ new \in Seq(Byte) /\ Len(new) = Len(outward) + Len(chunk)
      /\ \A i \in 1..Len(outward) : new[i] = outward[i]
      /\ \A i \in 1..Len(chunk) : new[Len(outward) + i] = chunk[i]
  <2>1. chunk \in Seq(Byte) /\ outward \in Seq(Byte)
    BY <1>1, <1>2
  <2> QED
    BY <2>1, JoinParts
<1>9. GoesOn(h, Flow, FullSize, ChunkSize)
  <2> DEFINE a == Len(buffer)
             b == Len(back)
             c == Len(outward)
  <2>1. IsJoined(Flow, buffer, a, back, b, outward, c, written)
    BY <1>1, JoinedIs DEF Flow
  <2>2. IsJoined(h, buffer, a, back, b, new, Len(new), written + ChunkSize)
    BY <1>1, <1>8, JoinedIs
  <2>3. /\ Len(new) = c + ChunkSize
        /\ \A i \in 1..c : new[i] = outward[i]
        /\ \A i \in 1..ChunkSize : new[c + i] = written + i - 1
    BY <1>2, <1>8
  <2>4. FullSize = a + b + c + 1
    BY DEF FullSize
  <2> HIDE DEF a, b, c, h, new
  <2>5. a \in Nat /\ b \in Nat /\ c \in Nat
    BY <2>1 DEF IsJoined
  <2>6. ASSUME NEW p \in 1..FullSize PROVE h[p] = Flow[p]
    <3>1. CASE p <= a + b + c
      <4>1. p > a + b => p - a - b \in 1..c
        BY <2>5, <3>1
      <4> QED
        BY <1>1, <2>1, <2>2, <2>3, <2>4, <3>1, <4>1 DEF IsJoined
    <3>2. CASE p = a + b + c + 1
      <4>1. p - a - b = c + 1 /\ 1 \in 1..ChunkSize /\ p \in 1..(a + b + c + ChunkSize + 1)
        BY <1>1, <2>5, <3>2
      <4>2. new[c + 1] = written
        BY <1>1, <2>3, <4>1
      <4>3. h[p] = new[p - a - b]
        BY <1>1, <2>2, <2>3, <2>5, <3>2, <4>1 DEF IsJoined
      <4>4. Flow[p] = written
        BY <2>1, <2>5, <3>2 DEF IsJoined
      <4> QED
        BY <4>1, <4>2, <4>3, <4>4
    <3> QED
      BY <2>4, <2>5, <3>1, <3>2
  <2>7. Flow[FullSize] = written
    BY <2>1, <2>4, <2>5 DEF IsJoined
  <2>8. ASSUME NEW k \in 1..ChunkSize PROVE h[FullSize + k] = written + k
    <3>1. CASE k < ChunkSize
      <4>1. /\ FullSize + k - a - b = c + (k + 1) /\ k + 1 \in 1..ChunkSize
            /\ FullSize + k \in 1..(a + b + c + ChunkSize + 1)
            /\ FullSize + k > a + b /\ FullSize + k <= a + b + (c + ChunkSize)
        BY <1>1, <2>4, <2>5, <3>1
      <4>2. new[c + (k + 1)] = written + (k + 1) - 1
        BY <2>3, <4>1
      <4>3. h[FullSize + k] = new[FullSize + k - a - b]
        BY <1>1, <2>2, <2>3, <2>4, <2>5, <4>1 DEF IsJoined
      <4> QED
        BY <1>1, <4>1, <4>2, <4>3
    <3>2. CASE k = ChunkSize
      BY <1>1, <2>2, <2>3, <2>4, <2>5, <3>2 DEF IsJoined
    <3> QED
      BY <1>1, <3>1, <3>2
  <2> QED
    BY <2>6, <2>7, <2>8 DEF GoesOn
<1> HIDE DEF h
<1> QED
  BY <1>5, <1>6, <1>7, <1>9

(* The receiver relays the first chunk on its way.                          *)
LEMMA RelayingFlow ==
  ASSUME BerTypeOK, EchoRelays
  PROVE  /\ back' \in Seq(Byte) /\ outward' \in Seq(Byte) /\ Alive
         /\ Keeps(Flow, FullSize, lost, inserted, faults,
                  Flow', FullSize', lost', inserted', faults')
<1> DEFINE chunk == SubSeq(outward, 1, ChunkSize)
           rest == SubSeq(outward, ChunkSize + 1, Len(outward))
           new == back \o chunk
           h == Joined(buffer, new, rest, written)
<1>1. /\ buffer \in Seq(Byte) /\ back \in Seq(Byte) /\ outward \in Seq(Byte)
      /\ written \in Nat /\ ChunkSize \in Nat \ {0} /\ Len(outward) >= ChunkSize
      /\ lost \in Nat /\ inserted \in Nat /\ faults \in Nat
      /\ ChunkSize \in 0..Len(outward) /\ Len(outward) \in Nat
  BY BerAssumption DEF BerTypeOK, EchoRelays
<1>2. Alive
  <2>1. outward # <<>>
    BY <1>1
  <2> QED
    BY <2>1 DEF BerTypeOK, EchoRelays, Alive
<1>3. /\ buffer' = buffer /\ outward' = rest /\ written' = written
      /\ Arrives(back, chunk)
  BY DEF EchoRelays, threads
<1>4. /\ chunk \in Seq(Byte) /\ Len(chunk) = ChunkSize
      /\ \A k \in 1..ChunkSize : chunk[k] = outward[k]
  BY <1>1, TakeIs
<1>5. /\ rest \in Seq(Byte) /\ Len(rest) = Len(outward) - ChunkSize
      /\ \A k \in 1..(Len(outward) - ChunkSize) : rest[k] = outward[k + ChunkSize]
  BY <1>1, DropIs
<1> HIDE DEF chunk, rest
<1>6. Delivers(back', back, chunk, lost, inserted, faults, lost', inserted', faults')
  BY <1>3, ArrivesIs
<1>7. /\ back' \in Seq(Byte)
      /\ Keeps(h, Len(buffer) + Len(back) + ChunkSize + Len(rest) + 1,
               lost, inserted, faults,
               Joined(buffer, back', rest, written),
               Len(buffer) + Len(back') + Len(rest) + 1, lost', inserted', faults')
  BY <1>1, <1>4, <1>5, <1>6, DeliveredMiddle
<1>8. /\ Flow' = Joined(buffer, back', rest, written)
      /\ FullSize' = Len(buffer) + Len(back') + Len(rest) + 1
  BY <1>3 DEF Flow, FullSize
<1>9. FullSize = Len(buffer) + Len(back) + ChunkSize + Len(rest) + 1
  BY <1>1, <1>5, Lengths DEF FullSize
<1>10. /\ new \in Seq(Byte) /\ Len(new) = Len(back) + Len(chunk)
       /\ \A i \in 1..Len(back) : new[i] = back[i]
       /\ \A i \in 1..Len(chunk) : new[Len(back) + i] = chunk[i]
  <2>1. chunk \in Seq(Byte) /\ back \in Seq(Byte)
    BY <1>1, <1>4
  <2> QED
    BY <2>1, JoinParts
<1>11. ASSUME NEW p \in 1..FullSize PROVE h[p] = Flow[p]
  <2> DEFINE a == Len(buffer)
             b == Len(back)
             c == Len(outward)
             d == Len(rest)
  <2>1. IsJoined(Flow, buffer, a, back, b, outward, c, written)
    BY <1>1, JoinedIs DEF Flow
  <2>2. IsJoined(h, buffer, a, new, Len(new), rest, d, written)
    BY <1>1, <1>5, <1>10, JoinedIs
  <2>3. /\ Len(new) = b + ChunkSize /\ d = c - ChunkSize
        /\ \A i \in 1..b : new[i] = back[i]
        /\ \A i \in 1..ChunkSize : new[b + i] = outward[i]
        /\ \A i \in 1..d : rest[i] = outward[i + ChunkSize]
    BY <1>4, <1>5, <1>10
  <2>4. FullSize = a + b + c + 1
    BY DEF FullSize
  <2> HIDE DEF a, b, c, d, h, new
  <2>5. a \in Nat /\ b \in Nat /\ c \in Nat /\ d \in Nat
    BY <2>1, <2>2 DEF IsJoined
  <2>6. CASE p <= a + b
    <3>1. p > a => p - a \in 1..b
      BY <2>5, <2>6
    <3> QED
      BY <1>1, <2>1, <2>2, <2>3, <2>4, <2>5, <2>6, <3>1 DEF IsJoined
  <2>7. CASE a + b < p /\ p <= a + b + ChunkSize
    <3>1. p - a - b \in 1..ChunkSize /\ p - a = b + (p - a - b)
      BY <1>1, <2>5, <2>7
    <3>2. new[p - a] = outward[p - a - b]
      BY <2>3, <3>1
    <3>3. p <= a + b + c /\ p \in 1..(a + b + c + 1)
      BY <1>1, <2>3, <2>4, <2>5, <2>7
    <3>4. Flow[p] = outward[p - a - b]
      BY <2>1, <2>5, <2>7, <3>3 DEF IsJoined
    <3>5. h[p] = new[p - a]
      BY <1>1, <2>2, <2>3, <2>5, <2>7, <3>3 DEF IsJoined
    <3> QED
      BY <3>2, <3>4, <3>5
  <2>8. CASE a + b + ChunkSize < p /\ p <= a + b + c
    <3>1. /\ p - a - (b + ChunkSize) \in 1..d
          /\ p - a - (b + ChunkSize) + ChunkSize = p - a - b
          /\ p \in 1..(a + b + c + 1)
      BY <1>1, <2>3, <2>5, <2>8
    <3>2. rest[p - a - (b + ChunkSize)] = outward[p - a - b]
      BY <2>3, <3>1
    <3>3. h[p] = rest[p - a - (b + ChunkSize)]
      BY <1>1, <2>2, <2>3, <2>5, <2>8, <3>1 DEF IsJoined
    <3>4. Flow[p] = outward[p - a - b]
      BY <1>1, <2>1, <2>5, <2>8, <3>1 DEF IsJoined
    <3> QED
      BY <3>2, <3>3, <3>4
  <2>9. CASE p = a + b + c + 1
    <3>1. h[p] = written
      BY <1>1, <2>2, <2>3, <2>5, <2>9 DEF IsJoined
    <3>2. Flow[p] = written
      BY <2>1, <2>5, <2>9 DEF IsJoined
    <3> QED
      BY <3>1, <3>2
  <2> QED
    BY <1>1, <2>4, <2>5, <2>6, <2>7, <2>8, <2>9
<1>12. /\ DOMAIN h = 1..FullSize /\ DOMAIN Flow = 1..FullSize
       /\ h = [p \in DOMAIN h |-> h[p]] /\ Flow = [p \in DOMAIN Flow |-> Flow[p]]
  <2>1. DOMAIN h = 1..(Len(buffer) + Len(new) + Len(rest) + 1)
    BY DEF Joined
  <2>2. DOMAIN Flow = 1..(Len(buffer) + Len(back) + Len(outward) + 1)
    BY DEF Joined, Flow
  <2>3. Len(buffer) + Len(new) + Len(rest) + 1 = FullSize
    BY <1>1, <1>4, <1>9, <1>10, Lengths
  <2>4. h = [p \in DOMAIN h |-> h[p]]
    BY DEF Joined
  <2>5. Flow = [p \in DOMAIN Flow |-> Flow[p]]
    BY DEF Joined, Flow
  <2> QED
    BY <2>1, <2>2, <2>3, <2>4, <2>5 DEF FullSize
<1> HIDE DEF h
<1>13. h = Flow
  BY <1>11, <1>12
<1> QED
  BY <1>2, <1>3, <1>5, <1>7, <1>8, <1>9, <1>13

(* The reader takes the first chunk into its buffer: the stream is the same. *)
LEMMA ReceivingFlow ==
  ASSUME BerTypeOK, ReaderReceives
  PROVE  /\ buffer' \in Seq(Byte) /\ Len(buffer') = ChunkSize /\ back' \in Seq(Byte)
         /\ Len(buffer) = 0 /\ Len(back') = Len(back) - ChunkSize
         /\ FlowSize' = FlowSize /\ (Alive' <=> Alive)
         /\ \A p \in 1..FlowSize : Flow'[p] = Flow[p]
<1> DEFINE chunk == SubSeq(back, 1, ChunkSize)
           rest == SubSeq(back, ChunkSize + 1, Len(back))
           a == Len(buffer)
           b == Len(back)
           c == Len(outward)
           d == Len(rest)
           g == Joined(chunk, rest, outward, written)
<1>1. /\ buffer \in Seq(Byte) /\ back \in Seq(Byte) /\ outward \in Seq(Byte)
      /\ written \in Nat /\ ChunkSize \in Nat \ {0}
      /\ ChunkSize \in 0..Len(back) /\ Len(back) \in Nat
      /\ Len(buffer) = 0
  BY BerAssumption DEF BerTypeOK, ReaderReceives
<1>2. /\ chunk \in Seq(Byte) /\ Len(chunk) = ChunkSize
      /\ \A k \in 1..ChunkSize : chunk[k] = back[k]
  BY <1>1, TakeIs
<1>3. /\ rest \in Seq(Byte) /\ d = b - ChunkSize
      /\ \A k \in 1..(b - ChunkSize) : rest[k] = back[k + ChunkSize]
  BY <1>1, DropIs
<1>4. /\ buffer' = chunk /\ back' = rest /\ outward' = outward /\ written' = written
      /\ echo' = echo /\ failed' = failed
  BY DEF ReaderReceives
<1> HIDE DEF chunk, rest
<1>5. IsJoined(Flow, buffer, a, back, b, outward, c, written)
  BY <1>1, JoinedIs DEF Flow
<1>6. IsJoined(g, chunk, ChunkSize, rest, d, outward, c, written)
  BY <1>1, <1>2, <1>3, JoinedIs
<1>7. Flow' = g
  BY <1>4 DEF Flow
<1>8. a = 0 /\ b \in Nat /\ c \in Nat /\ d \in Nat /\ FullSize = a + b + c + 1
  BY <1>1, <1>5, <1>6 DEF IsJoined, FullSize
<1>9. Alive' <=> Alive
  BY <1>4 DEF Alive
<1>10. FlowSize' = FlowSize
  <2>1. FullSize' = ChunkSize + d + c + 1
    BY <1>2, <1>4 DEF FullSize
  <2>2. Len(buffer') + Len(back') = ChunkSize + d
    BY <1>2, <1>4
  <2>3. FlowSize' = IF Alive' THEN FullSize' ELSE Len(buffer') + Len(back')
    BY DEF FlowSize
  <2>4. FlowSize = IF Alive THEN FullSize ELSE a + b
    BY DEF FlowSize
  <2>5. ChunkSize + d + c + 1 = FullSize /\ ChunkSize + d = a + b
    BY <1>1, <1>3, <1>8
  <2> QED
    BY <1>9, <2>1, <2>2, <2>3, <2>4, <2>5
<1> HIDE DEF a, b, c, d, g
<1>11. ASSUME NEW p \in 1..FullSize PROVE g[p] = Flow[p]
  <2>1. CASE p <= ChunkSize
    <3>1. p \in 1..ChunkSize /\ p <= b
      BY <1>1, <1>8, <2>1 DEF b
    <3> QED
      BY <1>1, <1>2, <1>3, <1>5, <1>6, <1>8, <3>1 DEF IsJoined
  <2>2. CASE ChunkSize < p /\ p <= b
    <3>1. p - ChunkSize \in 1..(b - ChunkSize) /\ p - ChunkSize + ChunkSize = p
      BY <1>1, <1>8, <2>2
    <3>2. rest[p - ChunkSize] = back[p]
      BY <1>3, <3>1
    <3>3. g[p] = rest[p - ChunkSize]
      BY <1>1, <1>3, <1>6, <1>8, <2>2 DEF IsJoined
    <3>4. Flow[p] = back[p]
      BY <1>1, <1>5, <1>8, <2>2 DEF IsJoined
    <3> QED
      BY <3>2, <3>3, <3>4
  <2>3. CASE b < p
    <3>1. ChunkSize + d = b /\ p - ChunkSize - d = p - b
      BY <1>1, <1>3, <1>8
    <3>2. g[p] = IF p <= b + c THEN outward[p - b] ELSE written
      BY <1>1, <1>6, <1>8, <2>3, <3>1 DEF IsJoined
    <3>3. Flow[p] = IF p <= b + c THEN outward[p - b] ELSE written
      BY <1>1, <1>5, <1>8, <2>3 DEF IsJoined
    <3> QED
      BY <3>2, <3>3
  <2> QED
    BY <1>1, <1>8, <2>1, <2>2, <2>3 DEF b
<1>12. \A p \in 1..FlowSize : p \in 1..FullSize
  BY Lengths
<1> QED
  BY <1>1, <1>2, <1>3, <1>4, <1>7, <1>9, <1>10, <1>11, <1>12 DEF b, d

(* The reader has compared its buffer: the stream moves on by a chunk.      *)
LEMMA CheckingFlow ==
  ASSUME BerTypeOK, ReaderChecks
  PROVE  /\ buffer' = <<>> /\ ChunkSize <= FlowSize
         /\ FlowSize' = FlowSize - ChunkSize /\ (Alive' <=> Alive)
         /\ MovesOn(Flow', Flow, FlowSize, ChunkSize)
         /\ \A i \in 1..ChunkSize : Flow[i] = buffer[i]
<1> DEFINE b == Len(back)
           c == Len(outward)
           g == Joined(<<>>, back, outward, written)
<1>1. /\ buffer \in Seq(Byte) /\ back \in Seq(Byte) /\ outward \in Seq(Byte)
      /\ <<>> \in Seq(Byte) /\ Len(<<>>) = 0
      /\ written \in Nat /\ ChunkSize \in Nat \ {0} /\ Len(buffer) = ChunkSize
  BY BerAssumption DEF BerTypeOK, ReaderChecks
<1>2. /\ buffer' = <<>> /\ back' = back /\ outward' = outward /\ written' = written
      /\ echo' = echo /\ failed' = failed
  BY DEF ReaderChecks, wire
<1>3. IsJoined(Flow, buffer, ChunkSize, back, b, outward, c, written)
  BY <1>1, JoinedIs DEF Flow
<1>4. IsJoined(g, <<>>, 0, back, b, outward, c, written)
  BY <1>1, JoinedIs
<1>5. Flow' = g
  BY <1>2 DEF Flow
<1>6. b \in Nat /\ c \in Nat /\ FullSize = ChunkSize + b + c + 1
  BY <1>1, <1>3 DEF IsJoined, FullSize
<1>7. Alive' <=> Alive
  BY <1>2 DEF Alive
<1>8. FlowSize' = FlowSize - ChunkSize /\ ChunkSize <= FlowSize
  <2>1. FullSize' = 0 + b + c + 1
    BY <1>1, <1>2 DEF FullSize
  <2>2. (Len(buffer) + Len(back))' = 0 + b
    BY <1>1, <1>2
  <2> QED
    BY <1>1, <1>6, <1>7, <2>1, <2>2 DEF FlowSize
<1> HIDE DEF b, c, g
<1>9. ASSUME NEW p \in 1..(FullSize - ChunkSize) PROVE g[p] = Flow[p + ChunkSize]
  <2> DEFINE q == p + ChunkSize
  <2>1. /\ q \in 1..(ChunkSize + b + c + 1) /\ ~(q <= ChunkSize)
        /\ p \in 1..(0 + b + c + 1) /\ ~(p <= 0) /\ q - ChunkSize = p
        /\ (q <= ChunkSize + b <=> p <= 0 + b) /\ p - 0 = p
        /\ (q <= ChunkSize + b + c <=> p <= 0 + b + c)
        /\ q - ChunkSize - b = p - 0 - b
    BY <1>1, <1>6
  <2> HIDE DEF q
  <2>2. Flow[q] = IF p <= 0 + b THEN back[p]
                  ELSE IF p <= 0 + b + c THEN outward[p - 0 - b] ELSE written
    BY <1>3, <2>1 DEF IsJoined
  <2>3. g[p] = IF p <= 0 + b THEN back[p]
               ELSE IF p <= 0 + b + c THEN outward[p - 0 - b] ELSE written
    BY <1>4, <2>1 DEF IsJoined
  <2> QED
    BY <2>2, <2>3 DEF q
<1>10. FlowSize <= FullSize /\ FlowSize \in Nat /\ FullSize \in Nat
  BY Lengths
<1>11. MovesOn(g, Flow, FlowSize, ChunkSize)
  BY <1>1, <1>9, <1>10 DEF MovesOn
<1>12. \A i \in 1..ChunkSize : Flow[i] = buffer[i]
  BY <1>1, <1>3, <1>6 DEF IsJoined
<1> QED
  BY <1>2, <1>5, <1>7, <1>8, <1>11, <1>12

(* What was on its way is cut off when a call fails or the receiver ends,   *)
(* and what the writer sends to nobody is not part of the stream.           *)
LEMMA CuttingFlow ==
  ASSUME BerTypeOK, LinkFails \/ EchoEnds \/ (WriterSends /\ ~Alive)
  PROVE  /\ FlowSize' \in Nat /\ FlowSize' <= FlowSize /\ ~Alive'
         /\ Len(buffer') + Len(back') <= Len(buffer) + Len(back)
         /\ \A p \in 1..FlowSize' : Flow'[p] = Flow[p]
<1> DEFINE a == Len(buffer)
           b == Len(back)
           c == Len(outward)
<1>1. /\ buffer \in Seq(Byte) /\ back \in Seq(Byte) /\ outward \in Seq(Byte)
      /\ <<>> \in Seq(Byte) /\ Len(<<>>) = 0
      /\ written \in Nat /\ ChunkSize \in Nat \ {0} /\ written + ChunkSize \in Nat
  BY BerAssumption DEF BerTypeOK
<1>2. /\ buffer' = buffer /\ (back' = back \/ back' = <<>>)
      /\ ~Alive'
      /\ written' \in {written, written + ChunkSize} /\ outward' \in Seq(Byte)
  <2>1. CASE LinkFails
    BY <1>1, <2>1 DEF LinkFails, threads, Alive
  <2>2. CASE EchoEnds
    BY <1>1, <2>2 DEF EchoEnds, threads, Alive
  <2>3. CASE WriterSends /\ ~Alive
    <3>1. outward' \in Seq(Byte)
      BY <2>3, SendingFlow
    <3> QED
      BY <2>3, <3>1 DEF WriterSends, Alive
  <2> QED
    BY <2>1, <2>2, <2>3
<1>3. back' \in Seq(Byte) /\ written' \in Nat
  BY <1>1, <1>2
<1>4. /\ a \in Nat /\ b \in Nat /\ Len(back') \in Nat
      /\ Len(back') <= b /\ (Len(back') = b \/ Len(back') = 0)
      /\ buffer' = buffer
  BY <1>1, <1>2
<1>5. FlowSize' = a + Len(back')
  BY <1>2 DEF FlowSize
<1>6. FlowSize \in Nat /\ a + b <= FlowSize /\ FullSize = a + b + c + 1 /\ c \in Nat
  BY <1>1, Lengths DEF FlowSize, FullSize
<1>7. ASSUME NEW p \in 1..(a + Len(back')) PROVE Flow'[p] = Flow[p]
  <2>1. IsJoined(Flow, buffer, a, back, b, outward, c, written)
    BY <1>1, JoinedIs DEF Flow
  <2>2. IsJoined(Flow', buffer, a, back', Len(back'), outward', Len(outward'), written')
    BY <1>1, <1>2, <1>3, JoinedIs DEF Flow
  <2> HIDE DEF a, b, c
  <2>3. CASE p <= a
    BY <1>6, <2>1, <2>2, <2>3 DEF IsJoined
  <2>4. CASE a < p
    <3>1. back' = back /\ Len(back') = b
      <4>1. back' # <<>>
        BY <1>1, <1>4, <2>4
      <4> QED
        BY <1>2, <4>1 DEF b
    <3> QED
      BY <1>4, <1>6, <2>1, <2>2, <2>4, <3>1 DEF IsJoined
  <2> QED
    BY <1>4, <2>3, <2>4
<1> QED
  BY <1>1, <1>2, <1>4, <1>5, <1>6, <1>7

-----------------------------------------------------------------------------
(* The types.                                                               *)

LEMMA WireKept ==
  ASSUME BerTypeOK, EchoRelays \/ WriterSends
  PROVE  /\ outward' \in Seq(Byte) /\ back' \in Seq(Byte)
         /\ lost' \in Nat /\ inserted' \in Nat /\ faults' \in Nat
         /\ lost <= lost' /\ inserted <= inserted' /\ faults <= faults'
         /\ faults' = 0 => lost' = lost /\ inserted' = inserted
<1>1. CASE EchoRelays
  BY <1>1, RelayingFlow DEF Keeps
<1>2. CASE WriterSends
  <2>1. outward' \in Seq(Byte) /\ back' \in Seq(Byte)
    BY <1>2, SendingFlow DEF WriterSends, BerTypeOK
  <2>2. PICK h : Keeps(h, FullSize + ChunkSize, lost, inserted, faults,
                       Flow', FullSize', lost', inserted', faults')
    BY <1>2, SendingFlow
  <2> QED
    BY <2>1, <2>2 DEF Keeps
<1> QED
  BY <1>1, <1>2

(* What the reader does with the chunk it has received.                     *)
LEMMA CheckingCounts ==
  ASSUME BerTypeOK, ReaderChecks
  PROVE  \E s, bad \in Nat :
           /\ s = ResyncShift(verifier, buffer)
           /\ bad = CountErrors(verifier + s, buffer)
           /\ verifier' = verifier + s + ChunkSize
           /\ errors' = errors + bad
           /\ resyncs' = resyncs + (IF s > 0 THEN 1 ELSE 0)
           /\ checked' = checked + ChunkSize
<1> DEFINE s == ResyncShift(verifier, buffer)
           bad == CountErrors(verifier + s, buffer)
<1>1. verifier \in Nat
  BY DEF BerTypeOK
<1>2. s \in Nat
  BY <1>1, ShiftMatches
<1>3. bad \in Nat
  BY ErrorsCounted, BerAssumption
<1>4. /\ verifier' = verifier + s + ChunkSize
      /\ errors' = errors + bad
      /\ resyncs' = resyncs + (IF s > 0 THEN 1 ELSE 0)
      /\ checked' = checked + ChunkSize
  BY DEF ReaderChecks
<1> HIDE DEF s
<1>5. bad = CountErrors(verifier + s, buffer)
  OBVIOUS
<1> HIDE DEF bad
<1> QED
  BY <1>2, <1>3, <1>4, <1>5 DEF s

LEMMA BerTypeStep ==
  ASSUME BerTypeOK, [BerNext]_berVars
  PROVE  BerTypeOK'
<1> USE BerAssumption
<1>1. CASE EchoRelays
  <2>1. /\ outward' \in Seq(Byte) /\ back' \in Seq(Byte)
        /\ lost' \in Nat /\ inserted' \in Nat /\ faults' \in Nat /\ Alive
    BY <1>1, WireKept, RelayingFlow
  <2> QED
    BY <1>1, <2>1 DEF EchoRelays, BerTypeOK, threads, counts, Alive
<1>2. CASE WriterStarts
  BY <1>2 DEF WriterStarts, BerTypeOK, counts, wire
<1>3. CASE WriterSends
  <2>1. /\ outward' \in Seq(Byte) /\ back' \in Seq(Byte)
        /\ lost' \in Nat /\ inserted' \in Nat /\ faults' \in Nat
    BY <1>3, WireKept
  <2> QED
    BY <1>3, <2>1 DEF WriterSends, Usable, BerTypeOK, counts
<1>4. CASE WriterFails
  BY <1>4 DEF WriterFails, BerTypeOK, counts, wire
<1>5. CASE WriterCounts
  BY <1>5 DEF WriterCounts, BerTypeOK, wire
<1>6. CASE ReaderStarts
  BY <1>6 DEF ReaderStarts, BerTypeOK, counts, wire
<1>7. CASE ReaderReceives
  <2>1. /\ buffer' \in Seq(Byte) /\ Len(buffer') = ChunkSize /\ back' \in Seq(Byte)
    BY <1>7, ReceivingFlow
  <2>2. reader' = "check" /\ failed' = FALSE
    BY <1>7 DEF ReaderReceives, Usable, BerTypeOK
  <2> QED
    BY <1>7, <2>1, <2>2 DEF ReaderReceives, BerTypeOK, counts
<1>8. CASE ReaderFails
  BY <1>8 DEF ReaderFails, BerTypeOK, counts, wire
<1>9. CASE ReaderChecks
  <2>1. verifier' \in Nat /\ errors' \in Nat /\ resyncs' \in Nat /\ checked' \in Nat
    <3>1. \A s, bad \in Nat :
            /\ verifier + s + ChunkSize \in Nat /\ errors + bad \in Nat
            /\ resyncs + (IF s > 0 THEN 1 ELSE 0) \in Nat
            /\ checked + ChunkSize \in Nat
      BY DEF BerTypeOK
    <3> QED
      BY <1>9, <3>1, CheckingCounts
  <2>2. buffer' \in Seq(Byte) /\ Len(buffer') = 0
    BY <1>9, CheckingFlow
  <2>3. reader' # "check" /\ reader' \in {"recv", "done"}
    BY <1>9 DEF ReaderChecks
  <2> QED
    BY <1>9, <2>1, <2>2, <2>3 DEF ReaderChecks, BerTypeOK, wire
<1>10. CASE SpawnWriter
  BY <1>10 DEF SpawnWriter, BerTypeOK, counts, wire
<1>11. CASE SpawnReader
  BY <1>11 DEF SpawnReader, BerTypeOK, counts, wire
<1>12. CASE WatchThreads
  BY <1>12 DEF WatchThreads, BerTypeOK, counts, wire
<1>13. CASE CloseLink
  BY <1>13 DEF CloseLink, BerTypeOK, counts, wire
<1>14. CASE JoinBer
  BY <1>14 DEF JoinBer, BerTypeOK, counts, wire
<1>15. CASE LinkFails
  BY <1>15 DEF LinkFails, BerTypeOK, threads, counts
<1>16. CASE EchoEnds
  BY <1>16 DEF EchoEnds, BerTypeOK, threads, counts
<1>17. CASE UNCHANGED berVars
  BY <1>17 DEF berVars, BerTypeOK, threads, counts, wire
<1> QED
  BY <1>1, <1>2, <1>3, <1>4, <1>5, <1>6, <1>7, <1>8, <1>9, <1>10, <1>11, <1>12,
     <1>13, <1>14, <1>15, <1>16, <1>17 DEF BerNext, BerSteps

-----------------------------------------------------------------------------
(* The steps and the invariant.                                             *)

BerIInv == BerTypeOK /\ Deserved /\ Clean /\ Counted /\ Aligned

LEMMA KeptParts ==
  ASSUME BerTypeOK, NEW f, NEW m, DeservedBy(f, m), CleanBy(f, m), AlignedBy(f, m),
         Keeps(f, m, lost, inserted, faults,
               Flow', FlowSize', lost', inserted', faults'),
         UNCHANGED countVars
  PROVE  (Deserved /\ Clean /\ Aligned)'
<1>1. /\ checked \in Nat /\ verifier \in Nat /\ lost \in Nat /\ inserted \in Nat
      /\ faults \in Nat
  BY DEF BerTypeOK
<1>2. /\ checked' = checked /\ verifier' = verifier
      /\ errors' = errors /\ resyncs' = resyncs
  BY DEF countVars
<1>3. /\ lost' \in Nat /\ inserted' \in Nat /\ faults' \in Nat
      /\ lost <= lost' /\ inserted <= inserted' /\ faults <= faults'
      /\ faults' = 0 => lost' = lost /\ inserted' = inserted
  BY DEF Keeps
<1>4. faults' = 0 => faults = 0
  BY <1>1, <1>3
<1>5. inserted' = 0 => inserted = 0
  BY <1>1, <1>3
<1>6. verifier <= checked + lost => verifier <= checked + lost'
  <2>1. \A a, b, c, d \in Nat : c <= d /\ a <= b + c => a <= b + d
    OBVIOUS
  <2>2. lost' \in Nat /\ lost <= lost'
    BY <1>3
  <2> QED
    BY <1>1, <2>1, <2>2
<1>7. Deserved'
  <2>1. NotAhead(Flow', FlowSize', checked, lost')
    BY <1>1 DEF Keeps, DeservedBy
  <2> QED
    BY <1>2, <1>6, <2>1 DEF Deserved, DeservedBy
<1>8. Clean'
  <2>1. faults' = 0 => Punctual(Flow', FlowSize', checked)
    BY <1>1, <1>4 DEF Keeps, CleanBy
  <2> QED
    BY <1>2, <1>3, <1>4, <2>1 DEF Clean, CleanBy
<1>9. Aligned'
  <2>1. inserted' = 0 => Rises(Flow', FlowSize', verifier)
    BY <1>1, <1>5 DEF Keeps, AlignedBy
  <2> QED
    BY <1>2, <2>1 DEF Aligned, AlignedBy
<1> QED
  BY <1>7, <1>8, <1>9

LEMMA LastByte ==
  ASSUME BerTypeOK
  PROVE  Flow[FullSize] = written
<1>1. IsJoined(Flow, buffer, Len(buffer), back, Len(back), outward, Len(outward), written)
  BY JoinedIs DEF BerTypeOK, Flow
<1> QED
  BY <1>1 DEF IsJoined, FullSize

LEMMA RelayingKeeps ==
  ASSUME BerIInv, EchoRelays, BerTypeOK'
  PROVE  (Deserved /\ Clean /\ Counted /\ Aligned)'
<1>0. BerTypeOK /\ Deserved /\ Clean /\ Counted /\ Aligned
  BY DEF BerIInv
<1>1. Alive /\ Alive' /\ FlowSize = FullSize /\ FlowSize' = FullSize'
  BY <1>0, RelayingFlow DEF EchoRelays, Alive, FlowSize
<1>2. Keeps(Flow, FlowSize, lost, inserted, faults,
            Flow', FlowSize', lost', inserted', faults')
  BY <1>0, <1>1, RelayingFlow
<1>3. UNCHANGED <<countVars, written, sent, writer>>
  BY DEF EchoRelays, countVars, threads, counts
<1>4. (Deserved /\ Clean /\ Aligned)'
  BY <1>0, <1>2, <1>3, KeptParts DEF Deserved, Clean, Aligned
<1>5. FlowSize' + inserted <= FlowSize + inserted'
  BY <1>2 DEF Keeps
<1>6. FlowSize \in Nat /\ FlowSize' \in Nat /\ inserted' \in Nat
  BY <1>0, <1>2, Lengths DEF Keeps
<1>7. checked' + FlowSize' <= written' + inserted' + 1
  <2>1. checked + FlowSize <= written + inserted + 1
    BY <1>0, <1>1 DEF Counted
  <2>2. checked \in Nat /\ written \in Nat /\ inserted \in Nat
    BY <1>0 DEF BerTypeOK
  <2>3. checked' = checked /\ written' = written
    BY <1>3 DEF countVars
  <2>4. \A k, m, w, i, m1, i1 \in Nat :
          k + m <= w + i + 1 /\ m1 + i <= m + i1 => k + m1 <= w + i1 + 1
    OBVIOUS
  <2>5. checked + FlowSize' <= written + inserted' + 1
    BY <1>5, <1>6, <2>1, <2>2, <2>4
  <2> QED
    BY <2>3, <2>5
<1>8. written' = sent' + (IF writer' = "count" THEN ChunkSize ELSE 0)
  BY <1>0, <1>3 DEF Counted
<1>9. Counted'
  BY <1>1, <1>7, <1>8 DEF Counted
<1> QED
  BY <1>4, <1>9

LEMMA SendingKeeps ==
  ASSUME BerIInv, WriterSends, Alive
  PROVE  (Deserved /\ Clean /\ Counted /\ Aligned)'
<1>0. BerTypeOK /\ Deserved /\ Clean /\ Counted /\ Aligned
  BY DEF BerIInv
<1>1. Alive' /\ FlowSize = FullSize /\ FlowSize' = FullSize'
  BY DEF WriterSends, Alive, FlowSize
<1>2. /\ UNCHANGED countVars /\ checked' = checked /\ sent' = sent
      /\ written' = written + ChunkSize /\ writer = "send" /\ writer' = "count"
  BY DEF WriterSends, countVars, counts
<1>3. PICK h : /\ GoesOn(h, Flow, FullSize, ChunkSize)
               /\ Keeps(h, FullSize + ChunkSize, lost, inserted, faults,
                        Flow', FullSize', lost', inserted', faults')
  BY <1>0, SendingFlow
<1>4. /\ FullSize \in Nat \ {0} /\ \A p \in 1..FullSize : Flow[p] \in Byte
      /\ Flow[FullSize] \in Nat /\ ChunkSize \in Nat
      /\ checked \in Nat /\ lost \in Nat /\ verifier \in Nat
  <2>1. Flow[FullSize] = written
    BY <1>0, LastByte
  <2> QED
    BY <1>0, <2>1, Lengths, BerAssumption DEF BerTypeOK
<1>5. /\ NotAhead(Flow, FullSize, checked, lost)
           => NotAhead(h, FullSize + ChunkSize, checked, lost)
      /\ Punctual(Flow, FullSize, checked) => Punctual(h, FullSize + ChunkSize, checked)
      /\ Rises(Flow, FullSize, verifier) => Rises(h, FullSize + ChunkSize, verifier)
  BY <1>3, <1>4, GoesOnOf
<1>6. /\ DeservedBy(h, FullSize + ChunkSize) /\ CleanBy(h, FullSize + ChunkSize)
      /\ AlignedBy(h, FullSize + ChunkSize)
  BY <1>0, <1>1, <1>5
     DEF Deserved, DeservedBy, Clean, CleanBy, Aligned, AlignedBy
<1>7. (Deserved /\ Clean /\ Aligned)'
  BY <1>0, <1>1, <1>2, <1>3, <1>6, KeptParts
<1>8. Counted'
  <2>1. \A k, m, w, i, m1, i1, n \in Nat :
          k + m <= w + i + 1 /\ m1 + i <= m + n + i1 => k + m1 <= w + n + i1 + 1
    OBVIOUS
  <2>2. checked + FullSize <= written + inserted + 1 /\ written = sent
    BY <1>0, <1>1, <1>2 DEF Counted, BerTypeOK
  <2>3. /\ FullSize' \in Nat /\ inserted' \in Nat
        /\ FullSize' + inserted <= FullSize + ChunkSize + inserted'
    BY <1>3 DEF Keeps
  <2>4. checked \in Nat /\ written \in Nat /\ inserted \in Nat
    BY <1>0 DEF BerTypeOK
  <2>5. checked + FullSize' <= written + ChunkSize + inserted' + 1
    BY <1>4, <2>1, <2>2, <2>3, <2>4
  <2>6. (checked + FlowSize)' <= (written + inserted)' + 1
    BY <1>1, <1>2, <2>5
  <2>7. written' = sent' + ChunkSize
    BY <1>2, <2>2
  <2> QED
    BY <1>1, <1>2, <2>6, <2>7 DEF Counted
<1> QED
  BY <1>7, <1>8

LEMMA CuttingKeeps ==
  ASSUME BerIInv, LinkFails \/ EchoEnds \/ (WriterSends /\ ~Alive)
  PROVE  (Deserved /\ Clean /\ Counted /\ Aligned)'
<1>0. BerTypeOK /\ Deserved /\ Clean /\ Counted /\ Aligned
  BY DEF BerIInv
<1>1. /\ lost' \in Nat /\ inserted' \in Nat /\ faults' \in Nat
      /\ lost <= lost' /\ inserted <= inserted' /\ faults <= faults'
      /\ faults' = 0 => lost' = lost /\ inserted' = inserted
  <2>1. CASE WriterSends
    BY <1>0, <2>1, WireKept
  <2>2. CASE LinkFails
    BY <1>0, <2>2 DEF LinkFails, BerTypeOK
  <2>3. CASE EchoEnds
    BY <1>0, <2>3 DEF EchoEnds, BerTypeOK
  <2> QED
    BY <2>1, <2>2, <2>3
<1>2. /\ FlowSize \in Nat /\ \A p \in 1..FlowSize : Flow[p] \in Byte
      /\ lost \in Nat /\ inserted \in Nat /\ faults \in Nat
  BY <1>0, Lengths DEF BerTypeOK
<1>3. /\ FlowSize' \in Nat /\ FlowSize' <= FlowSize /\ ~Alive'
      /\ \A p \in 1..FlowSize' : Flow'[p] = Flow[p]
  BY <1>0, CuttingFlow
<1>4. Keeps(Flow, FlowSize, lost, inserted, faults,
            Flow', FlowSize', lost', inserted', faults')
  BY <1>1, <1>2, <1>3, FrontKeeps
<1>5. /\ UNCHANGED countVars /\ checked' = checked /\ sent' = sent
      /\ \/ written' = written /\ writer' = writer
         \/ written' = written + ChunkSize /\ writer = "send" /\ writer' = "count"
  BY DEF LinkFails, EchoEnds, WriterSends, countVars, counts, threads
<1>6. (Deserved /\ Clean /\ Aligned)'
  BY <1>0, <1>4, <1>5, KeptParts DEF Deserved, Clean, Aligned
<1>7. Counted'
  <2>1. \A k, m, w, i, m1, w1, i1 \in Nat :
          k + m <= w + i /\ m1 <= m /\ w <= w1 /\ i <= i1 => k + m1 <= w1 + i1
    OBVIOUS
  <2>2. checked \in Nat /\ written \in Nat /\ sent \in Nat /\ ChunkSize \in Nat
    BY <1>0, BerAssumption DEF BerTypeOK
  <2>3. written' \in Nat /\ written <= written'
    BY <1>5, <2>2
  <2>4. /\ FlowSize' <= Len(buffer) + Len(back)
        /\ Len(buffer) + Len(back) \in Nat
        /\ checked + (Len(buffer) + Len(back)) <= written + inserted
    <3>1. Len(buffer) \in Nat /\ Len(back) \in Nat /\ Len(outward) \in Nat
      BY <1>0, Lengths
    <3>2. FlowSize' = Len(buffer') + Len(back')
      BY <1>3 DEF FlowSize
    <3>3. FlowSize' <= Len(buffer) + Len(back)
      BY <1>0, <3>2, CuttingFlow
    <3>4. checked + FlowSize <= written + inserted + (IF Alive THEN 1 ELSE 0)
      BY <1>0 DEF Counted
    <3>5. FlowSize = IF Alive THEN Len(buffer) + Len(back) + Len(outward) + 1
                     ELSE Len(buffer) + Len(back)
      BY DEF FlowSize, FullSize
    <3> DEFINE s == Len(buffer) + Len(back)
    <3>6. s \in Nat
      BY <3>1
    <3> HIDE DEF s
    <3>7. checked + s <= written + inserted
      <4>1. CASE Alive
        <5>1. FlowSize = s + (Len(outward) + 1)
          BY <3>1, <3>5, <4>1 DEF s
        <5>2. checked + FlowSize <= written + inserted + 1
          BY <3>4, <4>1
        <5>3. \A k, n, o, w, i \in Nat :
                k + (n + (o + 1)) <= w + i + 1 => k + n <= w + i
          OBVIOUS
        <5> QED
          BY <1>2, <2>2, <3>1, <3>6, <5>1, <5>2, <5>3
      <4>2. CASE ~Alive
        <5>1. FlowSize = s
          BY <3>1, <3>5, <4>2 DEF s
        <5>2. checked + FlowSize <= written + inserted + 0
          BY <3>4, <4>2
        <5>3. \A w, i \in Nat : w + i + 0 = w + i
          OBVIOUS
        <5> QED
          BY <1>2, <2>2, <5>1, <5>2, <5>3
      <4> QED
        BY <4>1, <4>2
    <3> QED
      BY <3>3, <3>6, <3>7 DEF s
  <2>5. checked + FlowSize' <= written' + inserted'
    <3> DEFINE s == Len(buffer) + Len(back)
    <3> HIDE DEF s
    <3>1. s \in Nat /\ FlowSize' <= s /\ checked + s <= written + inserted
      BY <2>4 DEF s
    <3> QED
      BY <1>1, <1>2, <1>3, <2>1, <2>2, <2>3, <3>1
  <2>6. written' = sent' + (IF writer' = "count" THEN ChunkSize ELSE 0)
    BY <1>0, <1>5, <2>2 DEF Counted
  <2>7. (checked + FlowSize <= written + inserted + (IF Alive THEN 1 ELSE 0))'
    <3>1. written' + inserted' + 0 = written' + inserted'
      BY <1>1, <2>3
    <3> QED
      BY <1>3, <1>5, <2>5, <3>1
  <2> QED
    BY <2>6, <2>7 DEF Counted
<1> QED
  BY <1>6, <1>7

LEMMA ReceivingKeeps ==
  ASSUME BerIInv, ReaderReceives
  PROVE  (Deserved /\ Clean /\ Counted /\ Aligned)'
<1>0. BerTypeOK /\ Deserved /\ Clean /\ Counted /\ Aligned
  BY DEF BerIInv
<1>1. /\ UNCHANGED <<countVars, lost, inserted, faults, written, sent, writer>>
      /\ checked' = checked
  BY DEF ReaderReceives, countVars, counts
<1>2. /\ FlowSize \in Nat /\ \A p \in 1..FlowSize : Flow[p] \in Byte
      /\ lost \in Nat /\ inserted \in Nat /\ faults \in Nat
  BY <1>0, Lengths DEF BerTypeOK
<1>3. /\ FlowSize' = FlowSize /\ (Alive' <=> Alive)
      /\ \A p \in 1..FlowSize : Flow'[p] = Flow[p]
  BY <1>0, ReceivingFlow
<1>4. Keeps(Flow, FlowSize, lost, inserted, faults,
            Flow', FlowSize', lost', inserted', faults')
  <2>1. FlowSize <= FlowSize /\ lost <= lost /\ inserted <= inserted /\ faults <= faults
    BY <1>2
  <2>2. Keeps(Flow, FlowSize, lost, inserted, faults,
              Flow', FlowSize, lost, inserted, faults)
    BY <1>2, <1>3, <2>1, FrontKeeps
  <2> QED
    BY <1>1, <1>3, <2>2
<1>5. (Deserved /\ Clean /\ Aligned)'
  BY <1>0, <1>1, <1>4, KeptParts DEF Deserved, Clean, Aligned
<1>6. Counted'
  BY <1>0, <1>1, <1>3 DEF Counted
<1> QED
  BY <1>5, <1>6

LEMMA CheckingKeeps ==
  ASSUME BerIInv, ReaderChecks
  PROVE  (Deserved /\ Clean /\ Counted /\ Aligned)'
<1>0. BerTypeOK /\ Deserved /\ Clean /\ Counted /\ Aligned
  BY DEF BerIInv
<1>1. /\ lost' = lost /\ inserted' = inserted /\ faults' = faults
      /\ written' = written /\ sent' = sent /\ writer' = writer
  BY DEF ReaderChecks, wire
<1>2. /\ FlowSize \in Nat /\ \A p \in 1..FlowSize : Flow[p] \in Byte
      /\ lost \in Nat /\ inserted \in Nat /\ faults \in Nat /\ checked \in Nat
      /\ verifier \in Nat /\ resyncs \in Nat /\ errors \in Nat /\ written \in Nat
      /\ ChunkSize \in Nat \ {0}
  BY <1>0, Lengths, BerAssumption DEF BerTypeOK
<1>3. /\ ChunkSize <= FlowSize /\ FlowSize' = FlowSize - ChunkSize /\ (Alive' <=> Alive)
      /\ MovesOn(Flow', Flow, FlowSize, ChunkSize)
      /\ \A i \in 1..ChunkSize : Flow[i] = buffer[i]
  BY <1>0, CheckingFlow
<1>4. PICK s, bad \in Nat :
        /\ s = ResyncShift(verifier, buffer)
        /\ bad = CountErrors(verifier + s, buffer)
        /\ verifier' = verifier + s + ChunkSize
        /\ errors' = errors + bad
        /\ resyncs' = resyncs + (IF s > 0 THEN 1 ELSE 0)
        /\ checked' = checked + ChunkSize
  BY <1>0, CheckingCounts
<1>5. /\ NotAhead(Flow, FlowSize, checked, lost)
      /\ resyncs + checked <= verifier /\ verifier <= checked + lost
  BY <1>0 DEF Deserved, DeservedBy
<1>6. s = 0 \/ \E i \in 1..ChunkSize : Flow[i] = verifier + s + i - 1
  <2>1. s = 0 \/ \E i \in 1..ChunkSize : Expected(buffer, verifier + s, i)
    BY <1>2, <1>4, ShiftMatches
  <2> QED
    BY <1>3, <2>1 DEF Expected
<1>7. /\ NotAhead(Flow, FlowSize, checked, lost)
           => NotAhead(Flow', FlowSize - ChunkSize, checked + ChunkSize, lost)
      /\ Punctual(Flow, FlowSize, checked)
           => Punctual(Flow', FlowSize - ChunkSize, checked + ChunkSize)
      /\ Rises(Flow, FlowSize, verifier)
           => Rises(Flow', FlowSize - ChunkSize, verifier + s + ChunkSize)
  BY <1>2, <1>3, <1>4, <1>6, MovesOnOf
<1>8. verifier + s <= checked + lost
  <2>1. CASE s = 0
    BY <1>2, <1>5, <2>1
  <2>2. ASSUME NEW i \in 1..ChunkSize, Flow[i] = verifier + s + i - 1
        PROVE  verifier + s <= checked + lost
    <3>1. i \in 1..FlowSize
      BY <1>2, <1>3
    <3>2. verifier + s + i - 1 <= checked + i - 1 + lost
      BY <1>5, <2>2, <3>1 DEF NotAhead
    <3> QED
      BY <1>2, <3>2
  <2> QED
    BY <1>6, <2>1, <2>2
<1>9. Deserved'
  <2>1. verifier' <= checked' + lost'
    BY <1>1, <1>2, <1>4, <1>8
  <2>2. resyncs' + checked' <= verifier'
    <3>1. (IF s > 0 THEN 1 ELSE 0) <= s /\ (IF s > 0 THEN 1 ELSE 0) \in Nat
      OBVIOUS
    <3>2. \A r, k, v, e, n \in Nat : r + k <= v /\ e <= s => r + e + (k + n) <= v + s + n
      OBVIOUS
    <3> QED
      BY <1>2, <1>4, <1>5, <3>1, <3>2
  <2>3. NotAhead(Flow', FlowSize', checked', lost')
    BY <1>1, <1>3, <1>4, <1>5, <1>7
  <2> QED
    BY <2>1, <2>2, <2>3 DEF Deserved, DeservedBy
<1>10. Clean'
  <2> SUFFICES ASSUME faults = 0
               PROVE  /\ lost = 0 /\ inserted = 0 /\ errors' = 0
                      /\ Punctual(Flow', FlowSize - ChunkSize, checked + ChunkSize)
    BY <1>1, <1>3, <1>4 DEF Clean, CleanBy
  <2>1. lost = 0 /\ inserted = 0 /\ errors = 0 /\ Punctual(Flow, FlowSize, checked)
    BY <1>0 DEF Clean, CleanBy
  <2>2. verifier = checked
    BY <1>2, <1>5, <2>1
  <2>3. \A i \in 1..ChunkSize : Expected(buffer, verifier, i)
    <3>1. \A i \in 1..ChunkSize : i \in 1..FlowSize
      BY <1>2, <1>3
    <3> QED
      BY <1>3, <2>1, <2>2, <3>1 DEF Punctual, Expected
  <2>4. s = 0
    BY <1>2, <1>4, <2>3, ShiftMatches
  <2>5. bad = 0
    BY <1>2, <1>4, <2>3, <2>4, ErrorsCounted
  <2> QED
    BY <1>4, <1>7, <2>1, <2>5
<1>11. Counted'
  <2>1. checked + FlowSize <= written + inserted + (IF Alive THEN 1 ELSE 0)
    BY <1>0 DEF Counted
  <2>2. checked' + FlowSize' = checked + FlowSize
    BY <1>2, <1>3, <1>4
  <2> QED
    BY <1>0, <1>1, <1>3, <2>1, <2>2 DEF Counted
<1>12. Aligned'
  BY <1>0, <1>1, <1>3, <1>4, <1>7 DEF Aligned, AlignedBy
<1> QED
  BY <1>9, <1>10, <1>11, <1>12

(* A step that neither moves bytes nor counts what has come back.           *)
LEMMA IdleKeeps ==
  ASSUME BerIInv, UNCHANGED <<flowVars, countVars>>,
         \/ UNCHANGED sent /\ (writer = "count" <=> writer' = "count")
         \/ writer = "count" /\ writer' # "count" /\ sent' = sent + ChunkSize
  PROVE  (Deserved /\ Clean /\ Counted /\ Aligned)'
<1>0. BerTypeOK /\ Deserved /\ Clean /\ Counted /\ Aligned
  BY DEF BerIInv
<1>1. Flow' = Flow /\ FlowSize' = FlowSize /\ (Alive' <=> Alive)
  BY DEF flowVars, Flow, FlowSize, FullSize, Alive
<1>2. /\ lost' = lost /\ inserted' = inserted /\ faults' = faults /\ written' = written
      /\ verifier' = verifier /\ checked' = checked /\ errors' = errors
      /\ resyncs' = resyncs
  BY DEF flowVars, countVars
<1>3. Deserved' /\ Clean' /\ Aligned'
  BY <1>0, <1>1, <1>2 DEF Deserved, DeservedBy, Clean, CleanBy, Aligned, AlignedBy
<1>4. written' = sent' + (IF writer' = "count" THEN ChunkSize ELSE 0)
  BY <1>0, <1>2, BerAssumption DEF Counted, BerTypeOK
<1>5. Counted'
  BY <1>0, <1>1, <1>2, <1>4 DEF Counted
<1> QED
  BY <1>3, <1>5

LEMMA BerInitially == BerInit => BerIInv
<1> SUFFICES ASSUME BerInit PROVE BerIInv
  OBVIOUS
<1>1. BerTypeOK
  <2>1. <<>> \in Seq(Byte) /\ Len(<<>>) = 0
    OBVIOUS
  <2>2. buffer = <<>> /\ back = <<>> /\ outward = <<>>
    BY DEF BerInit
  <2>3. /\ buffer \in Seq(Byte) /\ back \in Seq(Byte) /\ outward \in Seq(Byte)
        /\ Len(buffer) = 0
    BY <2>1, <2>2
  <2>4. /\ failed = FALSE /\ reader = "none" /\ writer = "none" /\ main = "spawnWriter"
        /\ echo = "relay" /\ link \in LinkTypes /\ open = TRUE /\ stop = FALSE
    BY DEF BerInit
  <2>5. /\ written = 0 /\ verifier = 0 /\ sent = 0 /\ checked = 0 /\ errors = 0
        /\ resyncs = 0 /\ faults = 0 /\ lost = 0 /\ inserted = 0
    BY DEF BerInit
  <2> QED
    BY <2>3, <2>4, <2>5 DEF BerTypeOK
<1>2. Alive /\ FullSize = 1 /\ FlowSize = 1
  BY DEF BerInit, Alive, FullSize, FlowSize
<1>3. Flow[1] = 0
  BY <1>1, <1>2, LastByte DEF BerInit
<1>4. NotAhead(Flow, 1, 0, 0) /\ Punctual(Flow, 1, 0) /\ Rises(Flow, 1, 0)
  BY <1>3 DEF NotAhead, Punctual, Rises
<1>5. /\ checked = 0 /\ verifier = 0 /\ resyncs = 0 /\ errors = 0 /\ lost = 0
      /\ inserted = 0 /\ written = 0 /\ sent = 0 /\ writer = "none"
  BY DEF BerInit
<1>6. Deserved /\ Clean /\ Aligned
  BY <1>2, <1>4, <1>5
     DEF Deserved, DeservedBy, Clean, CleanBy, Aligned, AlignedBy
<1>7. Counted
  BY <1>2, <1>5 DEF Counted
<1> QED
  BY <1>1, <1>6, <1>7 DEF BerIInv

LEMMA BerIInvStep ==
  ASSUME BerIInv, [BerNext]_berVars
  PROVE  BerIInv'
<1>0. BerTypeOK'
  BY BerTypeStep DEF BerIInv
<1>1. CASE EchoRelays
  BY <1>0, <1>1, RelayingKeeps DEF BerIInv
<1>2. CASE WriterSends /\ Alive
  BY <1>0, <1>2, SendingKeeps DEF BerIInv
<1>3. CASE LinkFails \/ EchoEnds \/ (WriterSends /\ ~Alive)
  BY <1>0, <1>3, CuttingKeeps DEF BerIInv
<1>4. CASE ReaderReceives
  BY <1>0, <1>4, ReceivingKeeps DEF BerIInv
<1>5. CASE ReaderChecks
  BY <1>0, <1>5, CheckingKeeps DEF BerIInv
<1>6. ASSUME \/ WriterStarts \/ WriterFails \/ WriterCounts
             \/ ReaderStarts \/ ReaderFails \/ UNCHANGED berVars
             \/ SpawnWriter \/ SpawnReader \/ WatchThreads \/ CloseLink \/ JoinBer
      PROVE  /\ UNCHANGED <<flowVars, countVars>>
             /\ \/ UNCHANGED sent /\ (writer = "count" <=> writer' = "count")
                \/ writer = "count" /\ writer' # "count" /\ sent' = sent + ChunkSize
  <2> USE DEF flowVars, countVars, wire, counts
  <2>1. CASE WriterStarts
    BY <2>1 DEF WriterStarts
  <2>2. CASE WriterFails
    BY <2>2 DEF WriterFails
  <2>3. CASE WriterCounts
    BY <2>3 DEF WriterCounts
  <2>4. CASE ReaderStarts
    BY <2>4 DEF ReaderStarts
  <2>5. CASE ReaderFails
    BY <2>5 DEF ReaderFails
  <2>6. CASE UNCHANGED berVars
    BY <2>6 DEF berVars, threads
  <2>7. CASE SpawnWriter
    BY <2>7 DEF SpawnWriter, BerIInv, BerTypeOK
  <2>8. CASE SpawnReader
    BY <2>8 DEF SpawnReader
  <2>9. CASE WatchThreads
    BY <2>9 DEF WatchThreads
  <2>10. CASE CloseLink
    BY <2>10 DEF CloseLink
  <2>11. CASE JoinBer
    BY <2>11 DEF JoinBer
  <2> QED
    BY <1>6, <2>1, <2>2, <2>3, <2>4, <2>5, <2>6, <2>7, <2>8, <2>9, <2>10, <2>11
<1>7. CASE \/ WriterStarts \/ WriterFails \/ WriterCounts
           \/ ReaderStarts \/ ReaderFails \/ UNCHANGED berVars
           \/ SpawnWriter \/ SpawnReader \/ WatchThreads \/ CloseLink \/ JoinBer
  BY <1>0, <1>6, <1>7, IdleKeeps DEF BerIInv
<1> QED
  BY <1>1, <1>2, <1>3, <1>4, <1>5, <1>7 DEF BerNext, BerSteps

(***************************************************************************)
(* The reader counts no more resynchronisations than bytes were lost, no   *)
(* errors on a link without faults, and is ahead of the writer's count by  *)
(* at most one chunk and what the link inserted: sender_ber_reader_thread  *)
(* and sender_ber_writer_thread, whatever the link loses, damages or       *)
(* inserts, and whenever it fails.                                         *)
(***************************************************************************)
THEOREM CountsDeserved == BerSpec => []CountsAreDeserved
<1>1. BerInit => BerIInv
  BY BerInitially
<1>2. BerIInv /\ [BerNext]_berVars => BerIInv'
  BY BerIInvStep
<1>3. BerIInv => CountsAreDeserved
  <2> SUFFICES ASSUME BerIInv PROVE CountsAreDeserved
    OBVIOUS
  <2>1. /\ checked \in Nat /\ verifier \in Nat /\ lost \in Nat /\ inserted \in Nat
        /\ resyncs \in Nat /\ sent \in Nat /\ written \in Nat /\ ChunkSize \in Nat
        /\ FlowSize \in Nat
    BY Lengths, BerAssumption DEF BerIInv, BerTypeOK
  <2>2. resyncs + checked <= verifier /\ verifier <= checked + lost
    BY DEF BerIInv, Deserved, DeservedBy
  <2>3. resyncs <= lost
    BY <2>1, <2>2
  <2>4. faults = 0 => errors = 0
    BY DEF BerIInv, Clean, CleanBy
  <2>5. checked <= written + inserted
    <3>1. checked + FlowSize <= written + inserted + (IF Alive THEN 1 ELSE 0)
      BY DEF BerIInv, Counted
    <3>2. Alive => FlowSize > 0
      BY Lengths DEF BerIInv, FlowSize
    <3>3. \A k, m, w, i \in Nat : k + m <= w + i + 1 /\ m > 0 => k <= w + i
      OBVIOUS
    <3>4. \A k, m, w, i \in Nat : k + m <= w + i + 0 => k <= w + i
      OBVIOUS
    <3>5. CASE Alive
      BY <2>1, <3>1, <3>2, <3>3, <3>5
    <3>6. CASE ~Alive
      BY <2>1, <3>1, <3>4, <3>6
    <3> QED
      BY <3>5, <3>6
  <2>6. written <= sent + ChunkSize
    BY <2>1 DEF BerIInv, Counted
  <2>7. checked <= sent + ChunkSize + inserted
    BY <2>1, <2>5, <2>6
  <2> QED
    BY <2>3, <2>4, <2>7 DEF CountsAreDeserved
<1> QED
  BY <1>1, <1>2, <1>3, PTL DEF BerSpec

LEMMA IntactIsAligned ==
  ASSUME BerIInv, ReaderChecks, Intact(buffer), inserted = 0, lost <= SearchLimit
  PROVE  verifier' = buffer[ChunkSize] + 1
<1>0. BerTypeOK /\ Deserved /\ Aligned
  BY DEF BerIInv
<1>1. /\ FlowSize \in Nat /\ \A p \in 1..FlowSize : Flow[p] \in Byte
      /\ verifier \in Nat /\ checked \in Nat /\ lost \in Nat /\ resyncs \in Nat
      /\ ChunkSize \in Nat \ {0} /\ SearchLimit \in Nat
  BY <1>0, Lengths, BerAssumption DEF BerTypeOK
<1>2. ChunkSize <= FlowSize /\ \A i \in 1..ChunkSize : Flow[i] = buffer[i]
  BY <1>0, CheckingFlow
<1> DEFINE first == buffer[1]
           d == first - verifier
<1>3. 1 \in 1..FlowSize /\ Flow[1] = first
  BY <1>1, <1>2
<1>4. first \in Nat /\ first # Noise
  BY <1>1, <1>3 DEF Byte, Intact
<1>5. verifier + 1 - 1 <= first
  BY <1>0, <1>3, <1>4 DEF Aligned, AlignedBy, Rises
<1>6. first <= checked + 1 - 1 + lost
  BY <1>0, <1>3 DEF Deserved, DeservedBy, NotAhead
<1>7. resyncs + checked <= verifier
  BY <1>0 DEF Deserved, DeservedBy
<1>8. d \in 0..SearchLimit
  BY <1>1, <1>4, <1>5, <1>6, <1>7
<1>9. \A i \in 1..ChunkSize : buffer[i] = first + i - 1
  BY DEF Intact
<1> HIDE DEF first
<1>10. \A i \in 1..ChunkSize : buffer[i] = verifier + d + i - 1
  BY <1>1, <1>4, <1>9
<1>11. verifier + d = first
  BY <1>1, <1>4
<1> HIDE DEF d
<1>12. ResyncShift(verifier, buffer) = d
  BY <1>1, <1>8, <1>10, ShiftFinds
<1>13. verifier' = verifier + d + ChunkSize
  BY <1>12 DEF ReaderChecks
<1>14. ChunkSize \in 1..ChunkSize
  BY <1>1
<1>15. buffer[ChunkSize] = first + ChunkSize - 1
  BY <1>9, <1>14
<1> QED
  BY <1>1, <1>4, <1>11, <1>13, <1>15

(***************************************************************************)
(* Whenever the reader compares a chunk that arrived undamaged, it expects *)
(* the next byte of the stream afterwards, if the link has inserted none   *)
(* and lost no more bytes than the search in                               *)
(* sender_ber_reader_thread looks ahead.                                   *)
(***************************************************************************)
THEOREM IntactChunksRealign == BerSpec => IntactChunkRealigns
<1> DEFINE A == reader = "check" /\ reader' # "check" /\ Intact(buffer)
                  /\ inserted = 0 /\ lost <= SearchLimit
                  => verifier' = buffer[ChunkSize] + 1
<1>1. BerInit => BerIInv
  BY BerInitially
<1>2. BerIInv /\ [BerNext]_berVars => BerIInv'
  BY BerIInvStep
<1>3. BerIInv /\ [BerNext]_berVars => [A]_berVars
  <2> SUFFICES ASSUME BerIInv, BerNext, reader = "check", reader' # "check",
                      Intact(buffer), inserted = 0, lost <= SearchLimit
               PROVE  verifier' = buffer[ChunkSize] + 1
    OBVIOUS
  <2>1. main # "spawnReader"
    BY DEF BerIInv, BerTypeOK
  <2>2. ReaderChecks
    BY <2>1 DEF BerNext, BerSteps, EchoRelays, WriterStarts, WriterSends, WriterFails,
       WriterCounts, ReaderStarts, ReaderReceives, ReaderFails, SpawnWriter,
       SpawnReader, WatchThreads, CloseLink, JoinBer, LinkFails, EchoEnds, threads
  <2> QED
    BY <2>2, IntactIsAligned
<1> QED
  BY <1>1, <1>2, <1>3, PTL DEF BerSpec, IntactChunkRealigns
=============================================================================
