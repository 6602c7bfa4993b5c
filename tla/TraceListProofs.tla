--------------------------- MODULE TraceListProofs --------------------------
(***************************************************************************)
(* Theorems about TraceList, for any number of identifiers and any records *)
(* in any order: mstl3_addmsr() called over and over.                      *)
(***************************************************************************)
EXTENDS TraceList, SequenceTheorems, FiniteSetTheorems, WellFoundedInduction, TLAPS

-----------------------------------------------------------------------------
(* Smallest and largest numbers, and sequences with an element more or     *)
(* less.                                                                   *)

LEMMA SmallestIs ==
    ASSUME NEW T, T \subseteq Nat, T # {}
    PROVE  Min(T) \in T /\ \A x \in T : Min(T) <= x
<1> DEFINE Less == {z \in Nat \X Nat : z[1] < z[2]}
<1>1. IsWellFoundedOn(Less, Nat)
  BY NatLessThanWellFounded, Zenon DEF OpToRel
<1> HIDE DEF Less
<1>2. PICK x \in T : \A y \in T : ~ (<<y, x>> \in Less)
  BY <1>1, WFMin, Zenon
<1>3. ASSUME NEW y \in T
      PROVE  x <= y
  <2>1. <<y, x>> \in Less <=> y < x
    BY DEF Less
  <2> QED
    BY <1>2, <2>1
<1> QED
  BY <1>3 DEF Min

LEMMA LargestIs ==
    ASSUME NEW b \in Nat, NEW T, T \subseteq 0..b, T # {}
    PROVE  Max(T) \in T /\ \A x \in T : x <= Max(T)
<1> DEFINE U == {b - x : x \in T}
<1>1. U \subseteq Nat /\ U # {}
  <2>1. \A x \in T : b - x \in Nat
    OBVIOUS
  <2> QED
    BY <2>1
<1>2. Min(U) \in U /\ \A x \in U : Min(U) <= x
  BY <1>1, SmallestIs
<1>3. PICK z \in T : Min(U) = b - z
  BY <1>2
<1>4. \A x \in T : x <= z
  BY <1>2, <1>3
<1> QED
  BY <1>4 DEF Max

\* What is at a place when e was put in at c, and when the one at c was taken.
LEMMA InsertedIs ==
    ASSUME NEW X, NEW S \in Seq(X), NEW e \in X, NEW c \in 1..Len(S)+1
    PROVE  /\ InsertAt(S, c, e) \in Seq(X) /\ Len(InsertAt(S, c, e)) = Len(S) + 1
           /\ \A x \in 1..Len(S)+1 :
                InsertAt(S, c, e)[x] = IF x < c THEN S[x] ELSE IF x = c THEN e ELSE S[x-1]
<1> DEFINE l == SubSeq(S, 1, c-1)
           r == SubSeq(S, c, Len(S))
<1>1. Len(S) \in Nat /\ c \in Int /\ \A x \in 1..Len(S) : S[x] \in X
  BY LenProperties, ElementOfSeq
<1>2. /\ l \in Seq(X) /\ Len(l) = c - 1 /\ \A x \in 1..c-1 : l[x] = S[x]
  BY <1>1, SubSeqProperties
<1>3. /\ r \in Seq(X) /\ Len(r) = Len(S) - c + 1 /\ \A x \in 1..Len(S)-c+1 : r[x] = S[c+x-1]
  BY <1>1, SubSeqProperties
<1> HIDE DEF l, r
<1>4. <<e>> \in Seq(X) /\ Len(<<e>>) = 1 /\ <<e>>[1] = e
  OBVIOUS
<1> DEFINE le == l \o <<e>>
<1>5. /\ le \in Seq(X) /\ Len(le) = c
      /\ \A x \in 1..c : le[x] = IF x < c THEN S[x] ELSE e
  <2>1. /\ le \in Seq(X) /\ Len(le) = Len(l) + 1
        /\ \A x \in 1..Len(l)+1 : le[x] = IF x <= Len(l) THEN l[x] ELSE <<e>>[x - Len(l)]
    BY <1>2, <1>4, ConcatProperties
  <2> HIDE DEF le
  <2> QED
    BY <1>1, <1>2, <1>4, <2>1
<1> HIDE DEF le
<1>6. /\ le \o r \in Seq(X) /\ Len(le \o r) = Len(le) + Len(r)
      /\ \A x \in 1..Len(le)+Len(r) :
            (le \o r)[x] = IF x <= Len(le) THEN le[x] ELSE r[x - Len(le)]
  BY <1>3, <1>5, ConcatProperties
<1>7. InsertAt(S, c, e) = le \o r
  BY DEF InsertAt, le, l, r
<1>8. ASSUME NEW x \in 1..Len(S)+1, x > c
      PROVE  r[x - c] = S[x-1]
  <2>1. x - c \in 1..Len(S)-c+1 /\ c + (x - c) - 1 = x - 1
    BY <1>1, <1>8
  <2> QED
    BY <1>3, <2>1
<1>9. ASSUME NEW x \in 1..Len(S)+1
      PROVE  (le \o r)[x] = IF x < c THEN S[x] ELSE IF x = c THEN e ELSE S[x-1]
  BY <1>1, <1>3, <1>5, <1>6, <1>8
<1> QED
  BY <1>1, <1>3, <1>5, <1>6, <1>7, <1>9

LEMMA RemovedIs ==
    ASSUME NEW X, NEW S \in Seq(X), NEW c \in 1..Len(S)
    PROVE  /\ RemoveAt(S, c) \in Seq(X) /\ Len(RemoveAt(S, c)) = Len(S) - 1
           /\ \A x \in 1..Len(S)-1 : RemoveAt(S, c)[x] = IF x < c THEN S[x] ELSE S[x+1]
<1> DEFINE l == SubSeq(S, 1, c-1)
           r == SubSeq(S, c+1, Len(S))
<1>1. Len(S) \in Nat /\ c \in Int /\ \A x \in 1..Len(S) : S[x] \in X
  BY LenProperties, ElementOfSeq
<1>2. /\ l \in Seq(X) /\ Len(l) = c - 1 /\ \A x \in 1..c-1 : l[x] = S[x]
  BY <1>1, SubSeqProperties
<1>3. /\ r \in Seq(X) /\ Len(r) = Len(S) - c /\ \A x \in 1..Len(S)-c : r[x] = S[c+x]
  <2>1. /\ r \in Seq(X) /\ Len(r) = IF c+1 <= Len(S) THEN Len(S) - (c+1) + 1 ELSE 0
        /\ \A x \in 1..Len(S)-(c+1)+1 : r[x] = S[(c+1)+x-1]
    BY <1>1, SubSeqProperties
  <2> HIDE DEF r
  <2> QED
    BY <1>1, <2>1
<1> HIDE DEF l, r
<1>6. /\ l \o r \in Seq(X) /\ Len(l \o r) = Len(l) + Len(r)
      /\ \A x \in 1..Len(l)+Len(r) : (l \o r)[x] = IF x <= Len(l) THEN l[x] ELSE r[x - Len(l)]
  BY <1>2, <1>3, ConcatProperties
<1>7. RemoveAt(S, c) = l \o r
  BY DEF RemoveAt, l, r
<1>8. ASSUME NEW x \in 1..Len(S)-1, x >= c
      PROVE  r[x - (c-1)] = S[x+1]
  <2>1. x - (c-1) \in 1..Len(S)-c /\ c + (x - (c-1)) = x + 1
    BY <1>1, <1>8
  <2> QED
    BY <1>3, <2>1
<1>9. ASSUME NEW x \in 1..Len(S)-1
      PROVE  (l \o r)[x] = IF x < c THEN S[x] ELSE S[x+1]
  BY <1>1, <1>2, <1>3, <1>6, <1>8
<1> QED
  BY <1>1, <1>2, <1>3, <1>6, <1>7, <1>9

\* T has the elements of S, each as often, in some order.
Rearranged(T, S) ==
    /\ Len(T) = Len(S)
    /\ \E f \in [1..Len(S) -> 1..Len(S)] :
          /\ \A x, y \in 1..Len(S) : f[x] = f[y] => x = y
          /\ \A z \in 1..Len(S) : \E x \in 1..Len(S) : f[x] = z
          /\ \A x \in 1..Len(S) : T[x] = S[f[x]]

\* The loops that move a segment to its place do no more than that.
LEMMA SettledIs ==
    ASSUME NEW X, NEW S \in Seq(X), NEW k \in 1..Len(S)
    PROVE  Settled(S, k) \in Seq(X) /\ Rearranged(Settled(S, k), S)
<1> DEFINE n    == Len(S)
           s    == S[k]
           rest == RemoveAt(S, k)
           Ds   == {j \in k..Len(S) : j = Len(S) \/ ~Behind(s, rest[j])}
           Us   == {j \in 1..k : j = 1 \/ ~Behind(rest[j-1], s)}
           down == Min(Ds)
           up   == Max(Us)
           c    == IF down > k THEN down ELSE up
<1>1. n \in Nat /\ k \in 1..n /\ s \in X
  BY LenProperties, ElementOfSeq
<1>2. down \in k..n
  <2>1. Ds \subseteq Nat /\ n \in Ds
    BY <1>1
  <2>2. down \in Ds
    <3> HIDE DEF Ds
    <3> QED
      BY <2>1, SmallestIs
  <2> QED
    BY <2>2
<1>3. up \in 1..k
  <2>1. Us \subseteq 0..k /\ 1 \in Us /\ k \in Nat
    BY <1>1
  <2>2. up \in Us
    <3> HIDE DEF Us
    <3> QED
      BY <2>1, LargestIs
  <2> QED
    BY <2>2
<1>4. Settled(S, k) = InsertAt(rest, c, s)
  BY DEF Settled
<1>5. c \in 1..n
  <2> HIDE DEF down, up, n
  <2> QED
    BY <1>1, <1>2, <1>3
<1>6. /\ rest \in Seq(X) /\ Len(rest) = n - 1
      /\ \A x \in 1..n-1 : rest[x] = IF x < k THEN S[x] ELSE S[x+1]
  BY <1>1, RemovedIs
<1> HIDE DEF c, rest, n
<1>7. /\ InsertAt(rest, c, s) \in Seq(X) /\ Len(InsertAt(rest, c, s)) = n
      /\ \A x \in 1..n :
           InsertAt(rest, c, s)[x] = IF x < c THEN rest[x] ELSE IF x = c THEN s ELSE rest[x-1]
  <2>1. c \in 1..Len(rest)+1 /\ Len(rest) + 1 = n
    BY <1>1, <1>5, <1>6
  <2> HIDE DEF s
  <2>2. /\ InsertAt(rest, c, s) \in Seq(X) /\ Len(InsertAt(rest, c, s)) = Len(rest) + 1
        /\ \A x \in 1..Len(rest)+1 :
           InsertAt(rest, c, s)[x] = IF x < c THEN rest[x] ELSE IF x = c THEN s ELSE rest[x-1]
    <3>1. rest \in Seq(X) /\ s \in X
      BY <1>1, <1>6
    <3> QED
      BY <2>1, <3>1, InsertedIs, SMTT(30)
  <2> QED
    BY <2>1, <2>2
<1> DEFINE f == [x \in 1..n |-> IF x = c THEN k
                                ELSE IF x < c THEN (IF x < k THEN x ELSE x + 1)
                                ELSE (IF x - 1 < k THEN x - 1 ELSE x)]
<1>8. f \in [1..n -> 1..n]
  BY <1>1, <1>5
<1>9. \A x, y \in 1..n : f[x] = f[y] => x = y
  BY <1>1, <1>5
<1>10. ASSUME NEW z \in 1..n
       PROVE  \E x \in 1..n : f[x] = z
  <2>1. CASE z = k
    <3>1. c \in 1..n /\ f[c] = z
      BY <1>5, <2>1
    <3> QED
      BY <3>1
  <2>2. CASE z < k
    <3>1. CASE z < c
      <4>1. f[z] = z
        BY <1>1, <1>5, <2>2, <3>1
      <4> QED
        BY <4>1
    <3>2. CASE ~(z < c)
      <4>1. z + 1 \in 1..n /\ f[z + 1] = z
        BY <1>1, <1>5, <2>2, <3>2
      <4> QED
        BY <4>1
    <3> QED
      BY <3>1, <3>2
  <2>3. CASE z > k
    <3>1. CASE z - 1 < c
      <4>1. z - 1 \in 1..n /\ f[z - 1] = z
        BY <1>1, <1>5, <2>3, <3>1
      <4> QED
        BY <4>1
    <3>2. CASE ~(z - 1 < c)
      <4>1. f[z] = z
        BY <1>1, <1>5, <2>3, <3>2
      <4> QED
        BY <4>1
    <3> QED
      BY <3>1, <3>2
  <2> QED
    BY <1>1, <2>1, <2>2, <2>3
<1>11. ASSUME NEW x \in 1..n
       PROVE  InsertAt(rest, c, s)[x] = S[f[x]]
  <2>1. CASE x = c
    BY <1>7, <2>1
  <2>2. CASE x < c
    <3>1. x \in 1..n-1
      BY <1>1, <1>5, <2>2
    <3> QED
      BY <1>6, <1>7, <2>2, <3>1
  <2>3. CASE x > c
    <3>1. x - 1 \in 1..n-1 /\ (x - 1) + 1 = x
      BY <1>1, <1>5, <2>3
    <3>2. InsertAt(rest, c, s)[x] = rest[x-1]
      BY <1>7, <1>5, <2>3
    <3>3. rest[x-1] = IF x - 1 < k THEN S[x-1] ELSE S[x]
      BY <1>6, <3>1
    <3> QED
      BY <1>5, <2>3, <3>2, <3>3
  <2> QED
    BY <1>5, <2>1, <2>2, <2>3
<1> HIDE DEF f
<1> QED
  <2> HIDE DEF s
  <2> DEFINE T == InsertAt(rest, c, s)
  <2>1. T \in Seq(X) /\ Len(T) = n
    BY <1>7
  <2>2. /\ f \in [1..n -> 1..n]
        /\ \A x, y \in 1..n : f[x] = f[y] => x = y
        /\ \A z \in 1..n : \E x \in 1..n : f[x] = z
        /\ \A x \in 1..n : T[x] = S[f[x]]
    BY <1>8, <1>9, <1>10, <1>11 DEF s
  <2>3. n = Len(S) /\ Settled(S, k) = T
    BY <1>4 DEF n, s
  <2> HIDE DEF T
  <2>4. /\ f \in [1..Len(S) -> 1..Len(S)]
        /\ \A x, y \in 1..Len(S) : f[x] = f[y] => x = y
        /\ \A z \in 1..Len(S) : \E x \in 1..Len(S) : f[x] = z
        /\ \A x \in 1..Len(S) : T[x] = S[f[x]]
        /\ Len(T) = Len(S)
    BY <2>1, <2>2, <2>3
  <2>5. Rearranged(T, S)
    BY <2>4, Zenon DEF Rearranged
  <2> QED
    BY <2>1, <2>3, <2>5, Zenon

-----------------------------------------------------------------------------
(* What a segment is, given the records g that were handed over.           *)

SegmentOf == [start : Int, end : Int, per : Nat, type : SampleTypes,
              numsamples : Nat, data : Seq(Nat)]

\* Record r is one of the identifier and of the kind of segment s.
OfKind(r, s, sid) ==
    /\ r.sid = sid /\ r.n <= s.numsamples
    /\ r.n > 0 => s.type = r.type

\* The rates of its records, as periods.
Pers(s, g) == {g[s.data[x]].per : x \in 1..Len(s.data)}

Good(s, g, sid) ==
    /\ s \in SegmentOf /\ Len(s.data) > 0 /\ s.start <= s.end
    /\ \A x \in 1..Len(s.data) : s.data[x] \in 1..Len(g) /\ OfKind(g[s.data[x]], s, sid)
    /\ s.start = g[s.data[1]].start /\ s.end = EndOf(g[s.data[Len(s.data)]])
    /\ \A x \in 2..Len(s.data) : Adjoins(g[s.data[x-1]], g[s.data[x]])
    /\ s.per \in Pers(s, g) /\ Linked(Pers(s, g))

\* A record is in a segment, once.
In(s, key) == \E x \in 1..Len(s.data) : s.data[x] = key
Once(s) == \A x, y \in 1..Len(s.data) : s.data[x] = s.data[y] => x = y

\* One more record is handed over.
Handed(m, g, h) ==
    /\ g \in Seq(Record) /\ m \in Record /\ m.key = Len(g) + 1
    /\ h = Append(g, m)

LEMMA HandedIs ==
    ASSUME NEW m, NEW g, NEW h, Handed(m, g, h)
    PROVE  /\ h \in Seq(Record) /\ Len(g) \in Nat /\ Len(h) = Len(g) + 1
           /\ \A x \in 1..Len(g) : h[x] = g[x] /\ g[x] \in Record
           /\ h[m.key] = m /\ m.key \in 1..Len(h) /\ m.key \notin 1..Len(g)
           /\ m \in Record /\ m.key = Len(g) + 1
<1>1. g \in Seq(Record) /\ m \in Record /\ h = Append(g, m) /\ m.key = Len(g) + 1
  BY DEF Handed
<1>2. Len(g) \in Nat /\ \A x \in 1..Len(g) : g[x] \in Record
  BY <1>1, LenProperties, ElementOfSeq
<1>3. /\ h \in Seq(Record) /\ Len(h) = Len(g) + 1 /\ h[Len(g) + 1] = m
      /\ \A x \in 1..Len(g) : h[x] = g[x]
  BY <1>1, AppendProperties
<1> QED
  BY <1>1, <1>2, <1>3

LEMMA RecordIs ==
    ASSUME NEW m \in Record
    PROVE  /\ m.sid \in Sids /\ m.start \in Int /\ m.n \in Nat /\ m.per \in Nat
           /\ m.type \in SampleTypes /\ m.key \in Nat /\ EndOf(m) \in Int /\ m.start <= EndOf(m)
<1>1. /\ m.sid \in Sids /\ m.start \in Int /\ m.n \in Nat /\ m.per \in Nat
      /\ m.type \in SampleTypes /\ m.key \in Nat
  BY DEF Record
<1>2. EndOf(m) \in Int /\ m.start <= EndOf(m)
  <2>1. (m.n - 1) * m.per \in Int
    BY <1>1
  <2>2. ASSUME m.n > 0
        PROVE  (m.n - 1) * m.per >= 0
    <3>1. \A i, j \in Nat : i * j >= 0
      OBVIOUS
    <3>2. m.n - 1 \in Nat
      BY <1>1, <2>2
    <3> QED
      BY <1>1, <3>1, <3>2
  <2> QED
    BY <1>1, <2>1, <2>2 DEF EndOf
<1> QED
  BY <1>1, <1>2

\* Half a period of tolerance cannot undo the order of two that fit.
LEMMA FitsIs ==
    ASSUME NEW m \in Record, NEW s \in SegmentOf, RateFits(m, s)
    PROVE  /\ FitsAfter(m, s)  => s.end < m.start
           /\ FitsBefore(m, s) => EndOf(m) < s.start
<1>1. /\ m.start \in Int /\ m.per \in Nat /\ EndOf(m) \in Int
      /\ s.start \in Int /\ s.end \in Int /\ m.per # 0
  BY RecordIs DEF SegmentOf, RateFits, Near
<1>2. Tol(m) \in Int /\ Tol(m) < m.per
  BY <1>1 DEF Tol
<1> QED
  BY <1>1, <1>2 DEF FitsAfter, FitsBefore, Fits

\* Rates that are linked stay so with others that one of them leads to.
LEMMA LinkedAlone == \A a : Linked({a})
BY DEF Linked

LEMMA LinkedTogether ==
    ASSUME NEW R, NEW Q, Linked(R), Linked(Q), NEW a \in R, NEW b \in Q,
           Near(a, b) \/ Near(b, a)
    PROVE  Linked(R \union Q)
<1>1. SUFFICES ASSUME NEW X \in SUBSET (R \union Q), X # {}, X # R \union Q
               PROVE  \E c \in X, d \in (R \union Q) \ X : Near(c, d) \/ Near(d, c)
  BY DEF Linked
<1>2. ASSUME NEW P, P = R \/ P = Q, X \intersect P # {}, X \intersect P # P
      PROVE  \E c \in X, d \in (R \union Q) \ X : Near(c, d) \/ Near(d, c)
  <2>1. PICK c \in X \intersect P, d \in P \ (X \intersect P) : Near(c, d) \/ Near(d, c)
    BY <1>2 DEF Linked
  <2> QED
    BY <1>2, <2>1
<1>3. CASE X \intersect R = R /\ X \intersect Q = {}
  BY <1>3
<1>4. CASE X \intersect R = {} /\ X \intersect Q = Q
  BY <1>4
<1>5. \/ X \intersect R # {} /\ X \intersect R # R
      \/ X \intersect Q # {} /\ X \intersect Q # Q
      \/ X \intersect R = R /\ X \intersect Q = {}
      \/ X \intersect R = {} /\ X \intersect Q = Q
  BY <1>1
<1> QED
  BY <1>2, <1>3, <1>4, <1>5

\* What was good stays so, and the new record is not in it.
LEMMA GoodLater ==
    ASSUME NEW m, NEW g, NEW h, Handed(m, g, h), NEW s, NEW sid, Good(s, g, sid)
    PROVE  Good(s, h, sid) /\ ~In(s, m.key)
<1>1. /\ s \in SegmentOf /\ Len(s.data) > 0 /\ s.data \in Seq(Nat) /\ Len(s.data) \in Nat
      /\ s.start <= s.end
      /\ \A x \in 1..Len(s.data) : s.data[x] \in 1..Len(g) /\ OfKind(g[s.data[x]], s, sid)
  BY LenProperties DEF Good, SegmentOf
<1>2. \A x \in 1..Len(s.data) : h[s.data[x]] = g[s.data[x]] /\ s.data[x] \in 1..Len(h)
  BY <1>1, HandedIs
<1>3. 1 \in 1..Len(s.data) /\ Len(s.data) \in 1..Len(s.data)
  BY <1>1
<1>4. s.start = h[s.data[1]].start /\ s.end = EndOf(h[s.data[Len(s.data)]])
  BY <1>2, <1>3 DEF Good
<1>5. ASSUME NEW x \in 2..Len(s.data)
      PROVE  Adjoins(h[s.data[x-1]], h[s.data[x]])
  <2>1. x \in 1..Len(s.data) /\ x - 1 \in 1..Len(s.data)
    BY <1>1
  <2> QED
    BY <1>2, <2>1 DEF Good
<1>6. Good(s, h, sid)
  <2>1. Pers(s, h) = Pers(s, g)
    BY <1>2 DEF Pers
  <2> QED
    BY <1>1, <1>2, <1>4, <1>5, <2>1 DEF Good
<1>7. ~In(s, m.key)
  BY <1>1, HandedIs DEF In
<1> QED
  BY <1>6, <1>7

\* A segment of the new record alone.
LEMMA NewIs ==
    ASSUME NEW m, NEW g, NEW h, Handed(m, g, h)
    PROVE  /\ Good(NewSegment(m), h, m.sid) /\ Once(NewSegment(m))
           /\ \A key : In(NewSegment(m), key) <=> key = m.key
<1> DEFINE s == NewSegment(m)
<1>1. /\ h[m.key] = m /\ m.key \in 1..Len(h) /\ m \in Record /\ m.key \in Nat
      /\ m.start \in Int /\ m.n \in Nat /\ m.per \in Nat /\ m.type \in SampleTypes
      /\ EndOf(m) \in Int /\ m.start <= EndOf(m)
  BY HandedIs, RecordIs
<1>2. <<m.key>> \in Seq(Nat) /\ Len(<<m.key>>) = 1 /\ <<m.key>>[1] = m.key
  BY <1>1
<1>3. /\ s.start = m.start /\ s.end = EndOf(m) /\ s.per = m.per /\ s.type = m.type
      /\ s.numsamples = m.n /\ s.data = <<m.key>> /\ s \in SegmentOf
  BY <1>1, <1>2 DEF NewSegment, SegmentOf
<1> HIDE DEF s
<1>4. Len(s.data) = 1 /\ s.data[1] = m.key
  BY <1>2, <1>3
<1>5. OfKind(m, s, m.sid)
  BY <1>1, <1>3 DEF OfKind
<1>6. Good(s, h, m.sid)
  <2>1. Pers(s, h) = {m.per}
    BY <1>1, <1>4 DEF Pers
  <2>2. s.per \in Pers(s, h) /\ Linked(Pers(s, h))
    BY <1>3, <2>1, LinkedAlone
  <2> QED
    BY <1>1, <1>3, <1>4, <1>5, <2>2 DEF Good
<1>7. Once(s) /\ \A key : In(s, key) <=> key = m.key
  BY <1>4 DEF Once, In
<1> QED
  BY <1>6, <1>7 DEF s

\* The record joins the segment at its end.
LEMMA ToEndIs ==
    ASSUME NEW m, NEW g, NEW h, Handed(m, g, h),
           NEW s, Good(s, g, m.sid), Once(s),
           FitsAfter(m, s), RateFits(m, s), TypeFits(m.type, m.n, s)
    PROVE  /\ Good(AddedToEnd(m, s), h, m.sid) /\ Once(AddedToEnd(m, s))
           /\ \A key : In(AddedToEnd(m, s), key) <=> In(s, key) \/ key = m.key
<1> DEFINE t == AddedToEnd(m, s)
           n == Len(s.data)
<1>1. /\ h[m.key] = m /\ m.key \in 1..Len(h) /\ m \in Record /\ m.key \in Nat
      /\ m.start \in Int /\ m.n \in Nat /\ m.per \in Nat /\ m.type \in SampleTypes
      /\ EndOf(m) \in Int
  BY HandedIs, RecordIs
<1>2. Good(s, h, m.sid) /\ ~In(s, m.key)
  BY GoodLater
<1>3. /\ s \in SegmentOf /\ s.data \in Seq(Nat) /\ n \in Nat /\ n > 0
      /\ s.numsamples \in Nat /\ s.start \in Int /\ s.per \in Nat /\ s.type \in SampleTypes
      /\ s.end = EndOf(h[s.data[n]])
      /\ \A x \in 1..n : s.data[x] \in 1..Len(h) /\ OfKind(h[s.data[x]], s, m.sid)
  BY <1>2, LenProperties DEF Good, SegmentOf
<1>4. /\ t.start = s.start /\ t.end = EndOf(m) /\ t.per = s.per /\ t.type = s.type
      /\ t.numsamples = s.numsamples + m.n /\ t.data = Append(s.data, m.key)
      /\ t \in SegmentOf
  <2>1. Append(s.data, m.key) \in Seq(Nat) /\ s.numsamples + m.n \in Nat
    BY <1>1, <1>3, AppendProperties, SMTT(30)
  <2>2. t = [s EXCEPT !.end = EndOf(m), !.numsamples = s.numsamples + m.n,
                      !.data = Append(s.data, m.key)]
    BY DEF AddedToEnd
  <2> HIDE DEF t
  <2> QED
    BY <1>1, <1>3, <2>1, <2>2 DEF SegmentOf
<1>5. /\ Len(t.data) = n + 1 /\ t.data[n + 1] = m.key
      /\ \A x \in 1..n : t.data[x] = s.data[x]
  <2> DEFINE d == s.data
  <2>1. d \in Seq(Nat) /\ m.key \in Nat /\ t.data = Append(d, m.key) /\ n = Len(d)
    BY <1>1, <1>3, <1>4
  <2> HIDE DEF t, n, d
  <2>2. /\ Len(t.data) = Len(d) + 1 /\ t.data[Len(d) + 1] = m.key
        /\ \A x \in 1..Len(d) : t.data[x] = d[x]
    BY <2>1, AppendProperties
  <2> QED
    BY <2>1, <2>2 DEF d
<1> HIDE DEF t, n
<1>0. /\ n \in Nat /\ n > 0 /\ m.n \in Nat /\ s.numsamples \in Nat
      /\ t.per = s.per /\ t.type = s.type /\ t.numsamples = s.numsamples + m.n
  BY <1>1, <1>3, <1>4
<1>6. OfKind(m, t, m.sid)
  BY <1>0 DEF OfKind, TypeFits
<1>7. ASSUME NEW x \in 1..n
      PROVE  OfKind(h[s.data[x]], t, m.sid)
  <2> DEFINE r == h[s.data[x]]
  <2>1. r \in Record
    BY <1>3, HandedIs, ElementOfSeq
  <2>2. r.n \in Nat /\ OfKind(r, s, m.sid)
    BY <1>3, <2>1, RecordIs
  <2> HIDE DEF r
  <2>3. r.n <= t.numsamples
    BY <1>0, <2>2 DEF OfKind
  <2>4. OfKind(r, t, m.sid)
    BY <1>0, <2>2, <2>3 DEF OfKind
  <2> QED
    BY <2>4 DEF r
<1>8. \A x \in 1..n+1 : t.data[x] \in 1..Len(h) /\ OfKind(h[t.data[x]], t, m.sid)
  <2>1. \A x \in 1..n+1 : x \in 1..n \/ x = n + 1
    BY <1>3
  <2> QED
    BY <1>1, <1>3, <1>5, <1>6, <1>7, <2>1
<1>9. Adjoins(h[s.data[n]], m)
  BY <1>3 DEF FitsAfter, Adjoins
<1>10. ASSUME NEW x \in 2..n+1
       PROVE  Adjoins(h[t.data[x-1]], h[t.data[x]])
  <2>1. CASE x = n + 1
    <3>1. x - 1 = n /\ n \in 1..n
      BY <1>3, <2>1
    <3>2. h[t.data[x]] = m /\ t.data[n] = s.data[n]
      BY <1>1, <1>5, <2>1, <3>1
    <3> QED
      BY <1>9, <3>1, <3>2
  <2>2. CASE x \in 2..n
    <3>1. t.data[x] = s.data[x] /\ t.data[x-1] = s.data[x-1]
      <4>1. x \in 1..n /\ x - 1 \in 1..n
        BY <1>3, <2>2
      <4> QED
        BY <1>5, <4>1
    <3> QED
      BY <1>2, <1>4, <2>2, <3>1 DEF Good, n
  <2> QED
    BY <1>3, <2>1, <2>2
<1>15. t.per \in Pers(t, h) /\ Linked(Pers(t, h))
  <2>1. Pers(t, h) = Pers(s, h) \union {m.per}
    <3>1. ASSUME NEW x \in 1..n+1
          PROVE  h[t.data[x]].per \in Pers(s, h) \union {m.per}
      <4>1. x \in 1..n \/ x = n + 1
        BY <1>3
      <4> QED
        BY <1>1, <1>5, <4>1 DEF Pers, n
    <3>2. ASSUME NEW x \in 1..n
          PROVE  h[s.data[x]].per \in Pers(t, h)
      <4>1. x \in 1..n+1
        BY <1>3
      <4> QED
        BY <1>5, <4>1 DEF Pers
    <3>3. m.per \in Pers(t, h)
      <4>1. n + 1 \in 1..n+1
        BY <1>3
      <4> QED
        BY <1>1, <1>5, <4>1 DEF Pers
    <3> QED
      BY <1>5, <3>1, <3>2, <3>3 DEF Pers, n
  <2>2. s.per \in Pers(s, h) /\ Linked(Pers(s, h)) /\ Linked({m.per}) /\ m.per \in {m.per}
    BY <1>2, LinkedAlone DEF Good
  <2>3. Linked(Pers(s, h) \union {m.per})
    BY <2>2, LinkedTogether DEF RateFits
  <2> QED
    BY <1>4, <2>1, <2>2, <2>3
<1>11. Good(t, h, m.sid)
  <2>1. t.start = h[t.data[1]].start
    BY <1>2, <1>3, <1>4, <1>5, SMTT(30) DEF Good
  <2>2. t.end = EndOf(h[t.data[n+1]])
    BY <1>1, <1>4, <1>5
  <2>3. Len(t.data) = n + 1 /\ n + 1 > 0 /\ t \in SegmentOf
    BY <1>3, <1>4, <1>5
  <2>4. t.start <= t.end
    <3>1. s.start <= s.end /\ s.end < m.start /\ m.start <= EndOf(m) /\ s.end \in Int
      BY <1>1, <1>3, FitsIs, RecordIs DEF Good, SegmentOf
    <3> QED
      BY <1>1, <1>3, <1>4, <3>1
  <2> QED
    BY <1>5, <1>8, <1>10, <1>15, <2>1, <2>2, <2>3, <2>4 DEF Good
<1>12. \A x \in 1..n+1 : x \in 1..n \/ x = n + 1
  BY <1>3
<1>13. \A key : In(t, key) <=> In(s, key) \/ key = m.key
  <2>1. n + 1 \in 1..n+1 /\ \A x \in 1..n : x \in 1..n+1
    BY <1>3
  <2> QED
    BY <1>5, <1>12, <2>1 DEF In, n
<1>14. Once(t)
  <2>1. \A x \in 1..n : s.data[x] # m.key
    BY <1>2 DEF In, n
  <2> QED
    BY <1>5, <1>12, <2>1 DEF Once, n
<1> QED
  BY <1>11, <1>13, <1>14 DEF t

\* The record joins the segment at its start.
LEMMA ToStartIs ==
    ASSUME NEW m, NEW g, NEW h, Handed(m, g, h),
           NEW s, Good(s, g, m.sid), Once(s),
           FitsBefore(m, s), RateFits(m, s), TypeFits(m.type, m.n, s)
    PROVE  /\ Good(AddedToStart(m, s), h, m.sid) /\ Once(AddedToStart(m, s))
           /\ \A key : In(AddedToStart(m, s), key) <=> In(s, key) \/ key = m.key
<1> DEFINE t == AddedToStart(m, s)
           n == Len(s.data)
<1>1. /\ h[m.key] = m /\ m.key \in 1..Len(h) /\ m \in Record /\ m.key \in Nat
      /\ m.start \in Int /\ m.n \in Nat /\ m.per \in Nat /\ m.type \in SampleTypes
      /\ EndOf(m) \in Int
  BY HandedIs, RecordIs
<1>2. Good(s, h, m.sid) /\ ~In(s, m.key)
  BY GoodLater
<1>3. /\ s \in SegmentOf /\ s.data \in Seq(Nat) /\ n \in Nat /\ n > 0
      /\ s.numsamples \in Nat /\ s.end \in Int /\ s.per \in Nat /\ s.type \in SampleTypes
      /\ s.start = h[s.data[1]].start /\ s.end = EndOf(h[s.data[n]])
      /\ \A x \in 1..n : s.data[x] \in 1..Len(h) /\ OfKind(h[s.data[x]], s, m.sid)
  BY <1>2, LenProperties DEF Good, SegmentOf
<1>4. /\ t.start = m.start /\ t.end = s.end /\ t.per = s.per /\ t.type = s.type
      /\ t.numsamples = s.numsamples + m.n /\ t.data = <<m.key>> \o s.data
      /\ t \in SegmentOf
  <2>1. <<m.key>> \o s.data \in Seq(Nat) /\ s.numsamples + m.n \in Nat
    BY <1>1, <1>3, ConcatProperties, SMTT(30)
  <2>2. t = [s EXCEPT !.start = m.start, !.numsamples = s.numsamples + m.n,
                      !.data = <<m.key>> \o s.data]
    BY DEF AddedToStart
  <2> HIDE DEF t
  <2> QED
    BY <1>1, <1>3, <2>1, <2>2 DEF SegmentOf
<1>5. /\ Len(t.data) = n + 1 /\ t.data[1] = m.key
      /\ \A x \in 1..n : t.data[x + 1] = s.data[x]
  <2> DEFINE one == <<m.key>>
  <2>1. one \in Seq(Nat) /\ Len(one) = 1 /\ one[1] = m.key
    BY <1>1
  <2> HIDE DEF one
  <2>2. /\ Len(one \o s.data) = 1 + n
        /\ \A x \in 1..1+n : (one \o s.data)[x] = IF x <= 1 THEN one[x] ELSE s.data[x-1]
    <3>1. s.data \in Seq(Nat) /\ n = Len(s.data)
      BY <1>3
    <3> HIDE DEF n
    <3>2. /\ Len(one \o s.data) = Len(one) + Len(s.data)
          /\ \A x \in 1..Len(one)+Len(s.data) :
               (one \o s.data)[x] = IF x <= Len(one) THEN one[x] ELSE s.data[x - Len(one)]
      BY <2>1, <3>1, ConcatProperties
    <3> QED
      BY <2>1, <3>1, <3>2
  <2>3. t.data = one \o s.data
    BY <1>4 DEF one
  <2>4. n \in Nat
    BY <1>3
  <2> HIDE DEF t, n
  <2>5. \A x \in 1..n : x + 1 \in 1..1+n /\ ~(x + 1 <= 1) /\ (x + 1) - 1 = x
    BY <2>4
  <2>6. 1 \in 1..1+n /\ 1 + n = n + 1
    BY <2>4
  <2>7. t.data[1] = m.key
    BY <2>1, <2>2, <2>3, <2>6
  <2>8. \A x \in 1..n : t.data[x + 1] = s.data[x]
    BY <2>2, <2>3, <2>5
  <2> QED
    BY <2>2, <2>3, <2>6, <2>7, <2>8
<1> HIDE DEF t, n
<1>0. /\ n \in Nat /\ n > 0 /\ m.n \in Nat /\ s.numsamples \in Nat
      /\ t.per = s.per /\ t.type = s.type /\ t.numsamples = s.numsamples + m.n
  BY <1>1, <1>3, <1>4
<1>6. OfKind(m, t, m.sid)
  BY <1>0 DEF OfKind, TypeFits
<1>7. ASSUME NEW x \in 1..n
      PROVE  OfKind(h[s.data[x]], t, m.sid)
  <2> DEFINE r == h[s.data[x]]
  <2>1. r \in Record
    BY <1>3, HandedIs, ElementOfSeq, ZenonT(40)
  <2>2. r.n \in Nat /\ OfKind(r, s, m.sid)
    BY <1>3, <2>1, RecordIs
  <2> HIDE DEF r
  <2>3. r.n <= t.numsamples
    BY <1>0, <2>2 DEF OfKind
  <2>4. OfKind(r, t, m.sid)
    BY <1>0, <2>2, <2>3 DEF OfKind
  <2> QED
    BY <2>4 DEF r
<1>8. ASSUME NEW x \in 1..n+1
      PROVE  x = 1 \/ (x - 1 \in 1..n /\ t.data[x] = s.data[x-1])
  <2>1. x = 1 \/ (x - 1 \in 1..n /\ (x - 1) + 1 = x)
    BY <1>0
  <2> QED
    BY <1>5, <2>1
<1>9. \A x \in 1..n+1 : t.data[x] \in 1..Len(h) /\ OfKind(h[t.data[x]], t, m.sid)
  BY <1>1, <1>3, <1>5, <1>6, <1>7, <1>8
<1>10. ASSUME NEW x \in 2..n+1
       PROVE  Adjoins(h[t.data[x-1]], h[t.data[x]])
  <2>1. CASE x = 2
    <3>1. t.data[2] = s.data[1] /\ t.data[1] = m.key /\ 2 - 1 = 1
      BY <1>0, <1>5
    <3>2. Adjoins(m, h[s.data[1]])
      BY <1>3 DEF FitsBefore, Adjoins
    <3> QED
      BY <1>1, <2>1, <3>1, <3>2
  <2>2. CASE x > 2
    <3>1. x - 1 \in 2..n /\ x \in 1..n+1 /\ x - 1 \in 1..n+1 /\ (x - 1) - 1 \in 1..n
      BY <1>0, <2>2
    <3>2. t.data[x] = s.data[x-1] /\ t.data[x-1] = s.data[(x-1)-1]
      BY <1>8, <2>2, <3>1
    <3> QED
      BY <1>2, <1>4, <3>1, <3>2 DEF Good, n
  <2> QED
    BY <1>0, <2>1, <2>2
<1>14. t.per \in Pers(t, h) /\ Linked(Pers(t, h))
  <2>1. Pers(t, h) = Pers(s, h) \union {m.per}
    <3>1. ASSUME NEW x \in 1..n+1
          PROVE  h[t.data[x]].per \in Pers(s, h) \union {m.per}
      BY <1>1, <1>5, <1>8 DEF Pers, n
    <3>2. ASSUME NEW x \in 1..n
          PROVE  h[s.data[x]].per \in Pers(t, h)
      <4>1. x + 1 \in 1..n+1
        BY <1>0
      <4> QED
        BY <1>5, <4>1 DEF Pers
    <3>3. m.per \in Pers(t, h)
      <4>1. 1 \in 1..n+1
        BY <1>0
      <4> QED
        BY <1>1, <1>5, <4>1 DEF Pers
    <3> QED
      BY <1>5, <3>1, <3>2, <3>3 DEF Pers, n
  <2>2. s.per \in Pers(s, h) /\ Linked(Pers(s, h)) /\ Linked({m.per}) /\ m.per \in {m.per}
    BY <1>2, LinkedAlone DEF Good
  <2>3. Linked(Pers(s, h) \union {m.per})
    BY <2>2, LinkedTogether DEF RateFits
  <2> QED
    BY <1>4, <2>1, <2>2, <2>3
<1>11. Good(t, h, m.sid)
  <2>1. t.start = h[t.data[1]].start
    BY <1>1, <1>4, <1>5
  <2>2. t.end = EndOf(h[t.data[n+1]])
    <3>1. n \in 1..n
      BY <1>0
    <3>2. t.data[n+1] = s.data[n]
      BY <1>5, <3>1
    <3> QED
      BY <1>3, <1>4, <3>2
  <2>3. Len(t.data) = n + 1 /\ n + 1 > 0 /\ t \in SegmentOf
    BY <1>0, <1>4, <1>5
  <2>4. t.start <= t.end
    <3>1. s.start <= s.end /\ EndOf(m) < s.start /\ m.start <= EndOf(m) /\ s.start \in Int
      BY <1>1, <1>3, FitsIs, RecordIs DEF Good, SegmentOf
    <3>2. /\ t.start = m.start /\ t.end = s.end /\ m.start \in Int /\ s.end \in Int
          /\ EndOf(m) \in Int
      BY <1>1, <1>3, <1>4
    <3> HIDE DEF t
    <3> QED
      BY <3>1, <3>2
  <2> QED
    BY <1>5, <1>9, <1>10, <1>14, <2>1, <2>2, <2>3, <2>4 DEF Good
<1>12. \A key : In(t, key) <=> In(s, key) \/ key = m.key
  <2>1. 1 \in 1..n+1 /\ \A x \in 1..n : x + 1 \in 1..n+1
    BY <1>0
  <2> QED
    BY <1>5, <1>8, <2>1, ZenonT(40) DEF In, n
<1>13. Once(t)
  <2>1. \A x \in 1..n : s.data[x] # m.key
    BY <1>2 DEF In, n
  <2>2. ASSUME NEW x \in 1..n+1, NEW y \in 1..n+1, t.data[x] = t.data[y]
        PROVE  x = y
    <3>1. CASE x = 1 \/ y = 1
      BY <1>5, <1>8, <2>1, <2>2, <3>1
    <3>2. CASE x # 1 /\ y # 1
      <4>1. x - 1 \in 1..n /\ y - 1 \in 1..n /\ s.data[x-1] = s.data[y-1]
        BY <1>8, <2>2, <3>2
      <4>2. x - 1 = y - 1
        BY <4>1 DEF Once, n
      <4> QED
        BY <4>2
    <3> QED
      BY <3>1, <3>2
  <2> QED
    BY <1>5, <2>2 DEF Once
<1> QED
  BY <1>11, <1>12, <1>13 DEF t

\* Two segments of an identifier become one.
LEMMA JoinedIs ==
    ASSUME NEW h \in Seq(Record), NEW sid, NEW s1, NEW s2,
           Good(s1, h, sid), Once(s1), Good(s2, h, sid), Once(s2),
           \A key : ~(In(s1, key) /\ In(s2, key)),
           Adjoins(h[s1.data[Len(s1.data)]], h[s2.data[1]]), s1.end < s2.start,
           NEW a \in Pers(s1, h), NEW b \in Pers(s2, h), Near(a, b),
           TypeFits(s2.type, s2.numsamples, s1)
    PROVE  /\ Good(Joined(s1, s2), h, sid) /\ Once(Joined(s1, s2))
           /\ \A key : In(Joined(s1, s2), key) <=> In(s1, key) \/ In(s2, key)
<1> DEFINE t == Joined(s1, s2)
           n == Len(s1.data)
           k == Len(s2.data)
<1>1. /\ s1 \in SegmentOf /\ s1.data \in Seq(Nat) /\ n \in Nat /\ n > 0
      /\ s1.numsamples \in Nat /\ s1.end = EndOf(h[s1.data[n]])
      /\ \A x \in 1..n : s1.data[x] \in 1..Len(h) /\ OfKind(h[s1.data[x]], s1, sid)
  BY LenProperties DEF Good, SegmentOf
<1>2. /\ s2 \in SegmentOf /\ s2.data \in Seq(Nat) /\ k \in Nat /\ k > 0
      /\ s2.numsamples \in Nat /\ s2.end = EndOf(h[s2.data[k]]) /\ s2.end \in Int
      /\ s2.start = h[s2.data[1]].start
      /\ \A x \in 1..k : s2.data[x] \in 1..Len(h) /\ OfKind(h[s2.data[x]], s2, sid)
  BY LenProperties DEF Good, SegmentOf
<1>3. /\ t.start = s1.start /\ t.end = s2.end /\ t.per = s1.per /\ t.type = s1.type
      /\ t.numsamples = s1.numsamples + s2.numsamples /\ t.data = s1.data \o s2.data
      /\ t \in SegmentOf
  <2>1. s1.data \o s2.data \in Seq(Nat) /\ s1.numsamples + s2.numsamples \in Nat
    BY <1>1, <1>2, ConcatProperties, SMTT(30)
  <2>2. t = [s1 EXCEPT !.end = s2.end, !.numsamples = s1.numsamples + s2.numsamples,
                       !.data = s1.data \o s2.data]
    BY DEF Joined
  <2> HIDE DEF t
  <2> QED
    BY <1>1, <1>2, <2>1, <2>2 DEF SegmentOf
<1>4. /\ Len(t.data) = n + k
      /\ \A x \in 1..n : t.data[x] = s1.data[x]
      /\ \A x \in 1..k : t.data[n + x] = s2.data[x]
  <2>1. /\ Len(s1.data \o s2.data) = n + k
        /\ \A x \in 1..n+k :
             (s1.data \o s2.data)[x] = IF x <= n THEN s1.data[x] ELSE s2.data[x - n]
    BY <1>1, <1>2, ConcatProperties, ZenonT(40)
  <2>2. n \in Nat /\ k \in Nat /\ t.data = s1.data \o s2.data
    BY <1>1, <1>2, <1>3
  <2> HIDE DEF t, n, k
  <2>3. \A x \in 1..k : n + x \in 1..n+k /\ ~(n + x <= n) /\ (n + x) - n = x
    BY <2>2
  <2>4. \A x \in 1..n : x \in 1..n+k /\ x <= n
    BY <2>2
  <2> QED
    BY <2>1, <2>2, <2>3, <2>4
<1> HIDE DEF t, n, k
<1>0. /\ n \in Nat /\ n > 0 /\ k \in Nat /\ k > 0
      /\ s1.numsamples \in Nat /\ s2.numsamples \in Nat
      /\ t.per = s1.per /\ t.type = s1.type /\ t.numsamples = s1.numsamples + s2.numsamples
  BY <1>1, <1>2, <1>3
<1>5. ASSUME NEW x \in 1..n+k
      PROVE  x \in 1..n \/ \E y \in 1..k : x = n + y
  <2>1. x \in 1..n \/ (x - n \in 1..k /\ x = n + (x - n))
    BY <1>0
  <2> QED
    BY <2>1
<1>6. ASSUME NEW r \in Record, OfKind(r, s1, sid) \/ OfKind(r, s2, sid)
      PROVE  OfKind(r, t, sid)
  <2>1. r.n \in Nat
    BY RecordIs
  <2>2. CASE OfKind(r, s1, sid)
    BY <1>0, <2>1, <2>2 DEF OfKind
  <2>3. CASE OfKind(r, s2, sid)
    <3>1. r.n > 0 => s2.type = s1.type
      BY <1>0, <2>1, <2>3 DEF OfKind, TypeFits
    <3> QED
      BY <1>0, <2>1, <2>3, <3>1 DEF OfKind
  <2> QED
    BY <1>6, <2>2, <2>3
<1>7. \A x \in 1..n : h[s1.data[x]] \in Record
  BY <1>1, ElementOfSeq
<1>8. \A x \in 1..k : h[s2.data[x]] \in Record
  BY <1>2, ElementOfSeq
<1>9. ASSUME NEW x \in 1..n+k
      PROVE  t.data[x] \in 1..Len(h) /\ OfKind(h[t.data[x]], t, sid)
  <2>1. CASE x \in 1..n
    BY <1>1, <1>4, <1>6, <1>7, <2>1
  <2>2. ASSUME NEW y \in 1..k, x = n + y
        PROVE  t.data[x] \in 1..Len(h) /\ OfKind(h[t.data[x]], t, sid)
    BY <1>2, <1>4, <1>6, <1>8, <2>2
  <2> QED
    BY <1>5, <2>1, <2>2
<1>10. ASSUME NEW x \in 2..n+k
       PROVE  Adjoins(h[t.data[x-1]], h[t.data[x]])
  <2>1. CASE x \in 2..n
    <3>1. x \in 1..n /\ x - 1 \in 1..n
      BY <1>0, <2>1
    <3>2. t.data[x] = s1.data[x] /\ t.data[x-1] = s1.data[x-1]
      BY <1>4, <3>1
    <3> QED
      BY <1>3, <2>1, <3>2 DEF Good, n
  <2>2. CASE x = n + 1
    <3>1. t.data[n + 1] = s2.data[1] /\ t.data[n] = s1.data[n] /\ x - 1 = n
      <4>1. 1 \in 1..k /\ n \in 1..n /\ x - 1 = n
        BY <1>0, <2>2
      <4> QED
        BY <1>4, <4>1
    <3> QED
      BY <2>2, <3>1 DEF n
  <2>3. CASE x > n + 1
    <3>1. PICK y \in 2..k : x = n + y
      <4>1. x - n \in 2..k /\ x = n + (x - n)
        BY <1>0, <2>3
      <4> QED
        BY <4>1
    <3>2. y \in 1..k /\ y - 1 \in 1..k /\ x - 1 = n + (y - 1)
      BY <1>0, <3>1
    <3>3. t.data[x] = s2.data[y] /\ t.data[x-1] = s2.data[y-1]
      BY <1>4, <3>1, <3>2
    <3> QED
      BY <1>3, <3>1, <3>3 DEF Good, k
  <2> QED
    BY <1>0, <2>1, <2>2, <2>3
<1>14. t.per \in Pers(t, h) /\ Linked(Pers(t, h))
  <2>1. Pers(t, h) = Pers(s1, h) \union Pers(s2, h)
    <3>1. ASSUME NEW x \in 1..n+k
          PROVE  h[t.data[x]].per \in Pers(s1, h) \union Pers(s2, h)
      <4>1. CASE x \in 1..n
        BY <1>4, <4>1 DEF Pers, n
      <4>2. ASSUME NEW y \in 1..k, x = n + y
            PROVE  h[t.data[x]].per \in Pers(s1, h) \union Pers(s2, h)
        BY <1>4, <4>2 DEF Pers, k
      <4> QED
        BY <1>5, <4>1, <4>2
    <3>2. ASSUME NEW x \in 1..n
          PROVE  h[s1.data[x]].per \in Pers(t, h)
      <4>1. x \in 1..n+k
        BY <1>0
      <4> QED
        BY <1>4, <4>1 DEF Pers
    <3>3. ASSUME NEW x \in 1..k
          PROVE  h[s2.data[x]].per \in Pers(t, h)
      <4>1. n + x \in 1..n+k
        BY <1>0
      <4> QED
        BY <1>4, <4>1 DEF Pers
    <3>4. Pers(t, h) = {h[t.data[x]].per : x \in 1..n+k}
      BY <1>4 DEF Pers
    <3>5. Pers(s1, h) = {h[s1.data[x]].per : x \in 1..n}
      BY DEF Pers, n
    <3>6. Pers(s2, h) = {h[s2.data[x]].per : x \in 1..k}
      BY DEF Pers, k
    <3>7. Pers(t, h) \subseteq Pers(s1, h) \union Pers(s2, h)
      BY <3>1, <3>4
    <3>8. Pers(s1, h) \subseteq Pers(t, h)
      BY <3>2, <3>5
    <3>9. Pers(s2, h) \subseteq Pers(t, h)
      BY <3>3, <3>6
    <3> QED
      BY <3>7, <3>8, <3>9
  <2>2. s1.per \in Pers(s1, h) /\ Linked(Pers(s1, h)) /\ Linked(Pers(s2, h))
    BY DEF Good
  <2>3. Linked(Pers(s1, h) \union Pers(s2, h))
    BY <2>2, LinkedTogether
  <2> QED
    BY <1>3, <2>1, <2>2, <2>3
<1>11. Good(t, h, sid)
  <2>1. t.start = h[t.data[1]].start
    <3>1. 1 \in 1..n
      BY <1>0
    <3> QED
      BY <1>3, <1>4, <3>1 DEF Good
  <2>2. t.end = EndOf(h[t.data[n+k]])
    <3>1. k \in 1..k
      BY <1>0
    <3> QED
      BY <1>2, <1>3, <1>4, <3>1
  <2>3. Len(t.data) = n + k /\ n + k > 0 /\ t \in SegmentOf
    BY <1>0, <1>3, <1>4
  <2>4. t.start <= t.end
    <3>1. /\ s1.start <= s1.end /\ s1.end < s2.start /\ s2.start <= s2.end
          /\ s1.start \in Int /\ s1.end \in Int /\ s2.start \in Int /\ s2.end \in Int
      BY <1>1, <1>2 DEF Good, SegmentOf
    <3> QED
      BY <1>3, <3>1
  <2> QED
    BY <1>4, <1>9, <1>10, <1>14, <2>1, <2>2, <2>3, <2>4 DEF Good
<1>12. \A key : In(t, key) <=> In(s1, key) \/ In(s2, key)
  <2>1. /\ \A x \in 1..n : x \in 1..n+k
        /\ \A x \in 1..k : n + x \in 1..n+k
    BY <1>0
  <2>2. ASSUME NEW key
        PROVE  In(t, key) <=> In(s1, key) \/ In(s2, key)
    <3>1. In(t, key) <=> \E x \in 1..n+k : t.data[x] = key
      BY <1>4 DEF In
    <3>2. In(s1, key) <=> \E x \in 1..n : s1.data[x] = key
      BY DEF In, n
    <3>3. In(s2, key) <=> \E x \in 1..k : s2.data[x] = key
      BY DEF In, k
    <3> QED
      BY <1>4, <1>5, <2>1, <3>1, <3>2, <3>3, SMTT(30)
  <2> QED
    BY <2>2
<1>13. Once(t)
  <2>1. \A x \in 1..n : \A y \in 1..k : s1.data[x] # s2.data[y]
    BY DEF In, n, k
  <2>2. ASSUME NEW x \in 1..n+k, NEW y \in 1..n+k, t.data[x] = t.data[y]
        PROVE  x = y
    <3>1. CASE x \in 1..n /\ y \in 1..n
      BY <1>4, <2>2, <3>1 DEF Once, n
    <3>2. CASE (\E z \in 1..k : x = n + z) /\ (\E z \in 1..k : y = n + z)
      BY <1>4, <2>2, <3>2 DEF Once, k
    <3> QED
      BY <1>4, <1>5, <2>1, <2>2, <3>1, <3>2
  <2> QED
    BY <1>4, <2>2 DEF Once
<1> QED
  BY <1>11, <1>12, <1>13 DEF t

-----------------------------------------------------------------------------
(* What the list of the segments of an identifier is, and what becomes of  *)
(* it.                                                                     *)

Held(S, key) == \E k \in 1..Len(S) : In(S[k], key)

Apart(S) ==
    /\ \A k \in 1..Len(S) : Once(S[k])
    /\ \A k, l \in 1..Len(S) : \A key : In(S[k], key) /\ In(S[l], key) => k = l

GoodList(S, g, sid) ==
    /\ S \in Seq(SegmentOf) /\ S # <<>>
    /\ \A k \in 1..Len(S) : Good(S[k], g, sid)
    /\ Apart(S)

\* T holds what S does and the record m.
Grown(S, T, m) == \A key : Held(T, key) <=> Held(S, key) \/ key = m.key

LEMMA ListIs ==
    ASSUME NEW S, NEW g, NEW sid, GoodList(S, g, sid)
    PROVE  /\ Len(S) \in Nat \ {0} /\ DOMAIN S = 1..Len(S)
           /\ \A k \in 1..Len(S) : S[k] \in SegmentOf /\ Good(S[k], g, sid) /\ Once(S[k])
BY EmptySeq, LenProperties, ElementOfSeq DEF GoodList, Apart

LEMMA ListLater ==
    ASSUME NEW m, NEW g, NEW h, Handed(m, g, h), NEW S, NEW sid, GoodList(S, g, sid)
    PROVE  GoodList(S, h, sid) /\ ~Held(S, m.key)
<1>1. \A k \in 1..Len(S) : Good(S[k], h, sid) /\ ~In(S[k], m.key)
  BY GoodLater DEF GoodList
<1> QED
  BY <1>1 DEF GoodList, Held

LEMMA ListRearranged ==
    ASSUME NEW g, NEW sid, NEW S, GoodList(S, g, sid),
           NEW T \in Seq(SegmentOf), Rearranged(T, S)
    PROVE  GoodList(T, g, sid) /\ \A key : Held(T, key) <=> Held(S, key)
<1>1. Len(S) \in Nat \ {0} /\ Len(T) = Len(S)
  BY ListIs DEF Rearranged
<1>2. PICK f \in [1..Len(S) -> 1..Len(S)] :
          /\ \A x, y \in 1..Len(S) : f[x] = f[y] => x = y
          /\ \A z \in 1..Len(S) : \E x \in 1..Len(S) : f[x] = z
          /\ \A x \in 1..Len(S) : T[x] = S[f[x]]
  BY DEF Rearranged
<1>3. \A x \in 1..Len(S) : f[x] \in 1..Len(S)
  BY <1>2
<1>4. T # <<>>
  BY <1>1, EmptySeq
<1>8. ASSUME NEW k \in 1..Len(T)
      PROVE  T[k] = S[f[k]] /\ f[k] \in 1..Len(S) /\ k \in 1..Len(S)
  BY <1>1, <1>2, <1>3
<1>5. ASSUME NEW k \in 1..Len(T)
      PROVE  Good(T[k], g, sid) /\ Once(T[k])
  <2>1. Good(S[f[k]], g, sid) /\ Once(S[f[k]])
    BY <1>8, ListIs
  <2> QED
    BY <1>8, <2>1
<1>6. ASSUME NEW k \in 1..Len(T), NEW l \in 1..Len(T), NEW key, In(T[k], key), In(T[l], key)
      PROVE  k = l
  <2>1. In(S[f[k]], key) /\ In(S[f[l]], key)
    BY <1>6, <1>8
  <2>2. f[k] = f[l]
    BY <1>8, <2>1 DEF GoodList, Apart
  <2> QED
    BY <1>2, <1>8, <2>2
<1>7. \A key : Held(T, key) <=> Held(S, key)
  BY <1>1, <1>2, <1>3 DEF Held
<1> QED
  BY <1>4, <1>5, <1>6, <1>7 DEF GoodList, Apart

\* A segment takes the record.
LEMMA ListReplaced ==
    ASSUME NEW m, NEW g, NEW h, Handed(m, g, h), NEW S, NEW sid, GoodList(S, g, sid),
           NEW k \in 1..Len(S), NEW t, Good(t, h, sid), Once(t),
           \A key : In(t, key) <=> In(S[k], key) \/ key = m.key
    PROVE  /\ GoodList([S EXCEPT ![k] = t], h, sid) /\ Grown(S, [S EXCEPT ![k] = t], m)
           /\ Len([S EXCEPT ![k] = t]) = Len(S)
<1> DEFINE T == [S EXCEPT ![k] = t]
<1>1. S \in Seq(SegmentOf) /\ t \in SegmentOf
  BY DEF GoodList, Good
<1>2. /\ T \in Seq(SegmentOf) /\ Len(T) = Len(S)
      /\ \A j \in 1..Len(S) : T[j] = IF j = k THEN t ELSE S[j]
  BY <1>1, ExceptSeq
<1> HIDE DEF T
<1>3. /\ Len(S) \in Nat \ {0} /\ ~Held(S, m.key)
      /\ \A j \in 1..Len(S) : Good(S[j], h, sid) /\ Once(S[j])
      /\ \A j, l \in 1..Len(S) : \A key : In(S[j], key) /\ In(S[l], key) => j = l
  BY ListLater, ListIs DEF GoodList, Apart
<1>4. T # <<>>
  BY <1>2, <1>3, EmptySeq
<1>5. \A j \in 1..Len(T) : Good(T[j], h, sid) /\ Once(T[j])
  BY <1>2, <1>3
<1>6. ASSUME NEW j \in 1..Len(T), NEW l \in 1..Len(T), NEW key,
             In(T[j], key), In(T[l], key)
      PROVE  j = l
  <2>1. \A i \in 1..Len(S) : ~In(S[i], m.key)
    BY <1>3 DEF Held
  <2>2. \A i \in 1..Len(S) : i # k /\ In(S[i], key) => ~In(t, key)
    BY <1>3, <2>1
  <2>3. CASE j = k \/ l = k
    BY <1>2, <1>6, <2>2, <2>3
  <2>4. CASE j # k /\ l # k
    BY <1>2, <1>3, <1>6, <2>4
  <2> QED
    BY <2>3, <2>4
<1>7. Grown(S, T, m)
  BY <1>2 DEF Grown, Held
<1> QED
  BY <1>2, <1>4, <1>5, <1>6, <1>7 DEF GoodList, Apart, T

\* A new segment is put in at c.
LEMMA ListInserted ==
    ASSUME NEW m, NEW g, NEW h, Handed(m, g, h), NEW S, GoodList(S, g, m.sid),
           NEW T \in Seq(SegmentOf), Len(T) = Len(S) + 1, NEW c \in 1..Len(S)+1,
           \A x \in 1..Len(S)+1 :
              T[x] = IF x < c THEN S[x] ELSE IF x = c THEN NewSegment(m) ELSE S[x-1]
    PROVE  GoodList(T, h, m.sid) /\ Grown(S, T, m)
<1> DEFINE n == Len(S)
           e == NewSegment(m)
<1>1. /\ n \in Nat /\ ~Held(S, m.key)
      /\ \A j \in 1..n : Good(S[j], h, m.sid) /\ Once(S[j])
      /\ \A j, l \in 1..n : \A key : In(S[j], key) /\ In(S[l], key) => j = l
  BY ListLater, ListIs DEF GoodList, Apart
<1>2. Good(e, h, m.sid) /\ Once(e) /\ \A key : In(e, key) <=> key = m.key
  BY NewIs
<1> HIDE DEF n, e
<1>3. ASSUME NEW x \in 1..n+1
      PROVE  \/ x < c /\ x \in 1..n /\ T[x] = S[x]
             \/ x = c /\ T[x] = e
             \/ x > c /\ x - 1 \in 1..n /\ T[x] = S[x-1]
  BY <1>1 DEF n, e
<1>4. T # <<>> /\ Len(T) = n + 1
  BY <1>1, EmptySeq DEF n
<1>5. \A x \in 1..n+1 : Good(T[x], h, m.sid) /\ Once(T[x])
  BY <1>1, <1>2, <1>3
<1>6. \A j \in 1..n : ~In(S[j], m.key)
  BY <1>1 DEF Held, n
<1>7. ASSUME NEW x \in 1..n+1, NEW y \in 1..n+1, NEW key, In(T[x], key), In(T[y], key)
      PROVE  x = y
  <2>1. CASE key = m.key
    <3>1. x = c /\ y = c
      BY <1>3, <1>6, <1>7, <2>1
    <3> QED
      BY <3>1
  <2>2. CASE key # m.key
    <3>1. x # c /\ y # c
      BY <1>2, <1>3, <1>7, <2>2
    <3>2. PICK j \in 1..n : In(S[j], key) /\ j = IF x < c THEN x ELSE x - 1
      BY <1>3, <1>7, <3>1
    <3>3. PICK l \in 1..n : In(S[l], key) /\ l = IF y < c THEN y ELSE y - 1
      BY <1>3, <1>7, <3>1
    <3>4. j = l
      BY <1>1, <3>2, <3>3
    <3> QED
      BY <1>1, <3>1, <3>2, <3>3, <3>4
  <2> QED
    BY <2>1, <2>2
<1>8. ASSUME NEW key
      PROVE  Held(T, key) <=> Held(S, key) \/ key = m.key
  <2>1. ASSUME Held(T, key)
        PROVE  Held(S, key) \/ key = m.key
    <3>1. PICK x \in 1..n+1 : In(T[x], key)
      BY <1>4, <2>1 DEF Held
    <3> QED
      BY <1>2, <1>3, <3>1 DEF Held, n
  <2>2. ASSUME Held(S, key)
        PROVE  Held(T, key)
    <3>1. PICK j \in 1..n : In(S[j], key)
      BY <2>2 DEF Held, n
    <3>2. CASE j < c
      <4>1. j \in 1..n+1 /\ T[j] = S[j]
        BY <1>1, <3>2 DEF n
      <4> QED
        BY <1>4, <3>1, <4>1 DEF Held
    <3>3. CASE ~(j < c)
      <4>1. j + 1 \in 1..n+1 /\ T[j + 1] = S[j]
        BY <1>1, <3>3 DEF n
      <4> QED
        BY <1>4, <3>1, <4>1 DEF Held
    <3> QED
      BY <3>2, <3>3
  <2>3. In(T[c], m.key) /\ c \in 1..n+1
    BY <1>2, <1>3 DEF n
  <2> QED
    BY <1>4, <2>1, <2>2, <2>3 DEF Held
<1> QED
  BY <1>4, <1>5, <1>7, <1>8 DEF GoodList, Apart, Grown

\* The record and the segment at a go to the one at b.
LEMMA ListHealed ==
    ASSUME NEW m, NEW g, NEW h, Handed(m, g, h), NEW S, NEW sid, GoodList(S, g, sid),
           NEW a \in 1..Len(S), NEW b \in 1..Len(S), a # b,
           NEW t, Good(t, h, sid), Once(t),
           \A key : In(t, key) <=> In(S[b], key) \/ key = m.key \/ In(S[a], key)
    PROVE  /\ GoodList(RemoveAt([S EXCEPT ![b] = t], a), h, sid)
           /\ Grown(S, RemoveAt([S EXCEPT ![b] = t], a), m)
           /\ (IF a < b THEN b - 1 ELSE b) \in 1..Len(RemoveAt([S EXCEPT ![b] = t], a))
<1> DEFINE U == [S EXCEPT ![b] = t]
           T == RemoveAt(U, a)
           n == Len(S)
<1>1. S \in Seq(SegmentOf) /\ t \in SegmentOf /\ n \in Nat
  BY ListIs DEF GoodList, Good
<1>2. /\ U \in Seq(SegmentOf) /\ Len(U) = n
      /\ \A j \in 1..n : U[j] = IF j = b THEN t ELSE S[j]
  BY <1>1, ExceptSeq
<1> HIDE DEF U
<1>3. /\ T \in Seq(SegmentOf) /\ Len(T) = n - 1
      /\ \A x \in 1..n-1 : T[x] = IF x < a THEN U[x] ELSE U[x+1]
  <2>1. a \in 1..Len(U)
    BY <1>2
  <2>2. /\ T \in Seq(SegmentOf) /\ Len(T) = Len(U) - 1
        /\ \A x \in 1..Len(U)-1 : T[x] = IF x < a THEN U[x] ELSE U[x+1]
    BY <1>2, <2>1, RemovedIs
  <2> HIDE DEF T, n
  <2> QED
    BY <1>2, <2>2
<1> HIDE DEF T
<1>4. /\ ~Held(S, m.key)
      /\ \A j \in 1..n : Good(S[j], h, sid) /\ Once(S[j])
      /\ \A j, l \in 1..n : \A key : In(S[j], key) /\ In(S[l], key) => j = l
  BY ListLater, ListIs DEF GoodList, Apart
<1>5. \A j \in 1..n : ~In(S[j], m.key)
  BY <1>4 DEF Held
<1>6. n \in Nat /\ a \in 1..n /\ b \in 1..n /\ n > 1
  BY <1>1
<1> HIDE DEF n
<1>7. ASSUME NEW x \in 1..n-1
      PROVE  \E y \in 1..n \ {a} : y = (IF x < a THEN x ELSE x + 1)
                                   /\ T[x] = IF y = b THEN t ELSE S[y]
  <2> DEFINE y == IF x < a THEN x ELSE x + 1
  <2>1. y \in 1..n \ {a}
    BY <1>6
  <2>2. T[x] = U[y]
    BY <1>3
  <2> HIDE DEF y
  <2>3. T[x] = IF y = b THEN t ELSE S[y]
    BY <1>2, <2>1, <2>2
  <2> QED
    BY <2>1, <2>3 DEF y
<1>8. ASSUME NEW y \in 1..n, y # a
      PROVE  \E x \in 1..n-1 : T[x] = IF y = b THEN t ELSE S[y]
  <2>1. CASE y < a
    <3>1. y \in 1..n-1 /\ T[y] = U[y]
      BY <1>3, <1>6, <2>1
    <3> QED
      BY <1>2, <3>1
  <2>2. CASE y > a
    <3>1. y - 1 \in 1..n-1 /\ (y - 1) + 1 = y /\ ~(y - 1 < a)
      BY <1>6, <2>2
    <3>2. T[y - 1] = U[y]
      BY <1>3, <3>1
    <3> QED
      BY <1>2, <3>1, <3>2
  <2> QED
    BY <1>6, <1>8, <2>1, <2>2
<1>9. \A x \in 1..n-1 : Good(T[x], h, sid) /\ Once(T[x])
  <2>1. ASSUME NEW x \in 1..n-1
        PROVE  Good(T[x], h, sid) /\ Once(T[x])
    <3>1. PICK y \in 1..n \ {a} : T[x] = IF y = b THEN t ELSE S[y]
      BY <1>7
    <3> QED
      BY <1>4, <3>1
  <2> QED
    BY <2>1
\* A key in the new list is in that segment of the old one, or in b's.
<1>10. ASSUME NEW x1 \in 1..n-1, NEW x2 \in 1..n-1, NEW key, In(T[x1], key), In(T[x2], key)
       PROVE  x1 = x2
  <2>1. PICK y1 \in 1..n \ {a} : y1 = (IF x1 < a THEN x1 ELSE x1 + 1)
                                 /\ T[x1] = IF y1 = b THEN t ELSE S[y1]
    BY <1>7
  <2>2. PICK y2 \in 1..n \ {a} : y2 = (IF x2 < a THEN x2 ELSE x2 + 1)
                                 /\ T[x2] = IF y2 = b THEN t ELSE S[y2]
    BY <1>7
  <2>3. ASSUME NEW y \in 1..n \ {a}, y # b, In(S[y], key)
        PROVE  ~In(t, key)
    BY <1>4, <1>5, <1>6, <2>3
  <2>4. y1 = y2
    <3>1. CASE y1 # b /\ y2 # b
      BY <1>4, <1>10, <2>1, <2>2, <3>1
    <3>2. CASE ~(y1 # b /\ y2 # b)
      BY <1>10, <2>1, <2>2, <2>3, <3>2
    <3> QED
      BY <3>1, <3>2
  <2> QED
    BY <1>6, <2>1, <2>2, <2>4
<1>11. ASSUME NEW key
       PROVE  Held(T, key) <=> Held(S, key) \/ key = m.key
  <2>1. ASSUME Held(T, key)
        PROVE  Held(S, key) \/ key = m.key
    <3>1. PICK x \in 1..n-1 : In(T[x], key)
      BY <1>3, <2>1 DEF Held
    <3>2. PICK y \in 1..n \ {a} : T[x] = IF y = b THEN t ELSE S[y]
      BY <1>7
    <3> QED
      BY <1>6, <3>1, <3>2 DEF Held, n
  <2>2. ASSUME NEW j \in 1..n, In(S[j], key) \/ key = m.key
        PROVE  Held(T, key)
    <3>1. CASE In(t, key)
      <4>1. PICK x \in 1..n-1 : T[x] = t
        BY <1>6, <1>8
      <4> QED
        BY <1>3, <3>1, <4>1 DEF Held
    <3>2. CASE ~In(t, key)
      <4>1. j # a /\ j # b /\ In(S[j], key)
        BY <2>2, <3>2
      <4>2. PICK x \in 1..n-1 : T[x] = S[j]
        BY <1>8, <4>1
      <4> QED
        BY <1>3, <4>1, <4>2 DEF Held
    <3> QED
      BY <3>1, <3>2
  <2> QED
    BY <1>6, <2>1, <2>2 DEF Held, n
<1>12. T # <<>> /\ Len(T) = n - 1
  BY <1>3, <1>6, EmptySeq
<1>13. GoodList(T, h, sid) /\ Grown(S, T, m)
  BY <1>3, <1>9, <1>10, <1>11, <1>12 DEF GoodList, Apart, Grown
<1>14. (IF a < b THEN b - 1 ELSE b) \in 1..n-1
  BY <1>6
<1> QED
  BY <1>12, <1>13, <1>14 DEF T, U

-----------------------------------------------------------------------------
(* The order of the segments and what they span.                           *)

\* r may stand before s; once heals were refused, of the records in broken,
\* only the starts tell.
Precedes(r, s, broken) == IF broken = {} THEN ~Behind(r, s) ELSE r.start <= s.start

InOrder(S, broken) == \A i, j \in 1..Len(S) : i < j => Precedes(S[i], S[j], broken)

Spans(S, e, l) ==
    /\ \A k \in 1..Len(S) : e <= S[k].start /\ S[k].end <= l
    /\ \E k \in 1..Len(S) : S[k].start = e
    /\ \E k \in 1..Len(S) : S[k].end = l

\* T has some of the elements of S, in their order.
Thinned(T, S) ==
    \E g \in [1..Len(T) -> 1..Len(S)] :
        /\ \A x, y \in 1..Len(T) : x < y => g[x] < g[y]
        /\ \A x \in 1..Len(T) : T[x] = S[g[x]]

\* T spans what S does and the record m.
Extended(T, S, m) ==
    \A e, l \in Int : Spans(S, e, l) =>
        Spans(T, IF m.start < e THEN m.start ELSE e, IF EndOf(m) > l THEN EndOf(m) ELSE l)

LEMMA PrecedesIs ==
    ASSUME NEW r \in SegmentOf, NEW s \in SegmentOf, NEW broken
    PROVE  /\ Behind(r, s) => Precedes(s, r, broken)
           /\ ~Behind(r, s) => Precedes(r, s, broken)
<1>1. r.start \in Int /\ r.end \in Int /\ s.start \in Int /\ s.end \in Int
  BY DEF SegmentOf
<1> QED
  BY <1>1 DEF Precedes, Behind

LEMMA PrecedesAlong ==
    ASSUME NEW q \in SegmentOf, NEW r \in SegmentOf, NEW s \in SegmentOf,
           NEW broken, Precedes(q, r, broken), Precedes(r, s, broken)
    PROVE  Precedes(q, s, broken)
<1>1. /\ q.start \in Int /\ q.end \in Int /\ r.start \in Int /\ r.end \in Int
      /\ s.start \in Int /\ s.end \in Int
  BY DEF SegmentOf
<1> QED
  BY <1>1 DEF Precedes, Behind

LEMMA PrecedesLater ==
    ASSUME NEW r \in SegmentOf, NEW s \in SegmentOf, NEW was, NEW is,
           was \subseteq is, Precedes(r, s, was)
    PROVE  Precedes(r, s, is)
<1>1. r.start \in Int /\ r.end \in Int /\ s.start \in Int /\ s.end \in Int
  BY DEF SegmentOf
<1> QED
  BY <1>1 DEF Precedes, Behind

LEMMA ThinnedOrder ==
    ASSUME NEW S, NEW T, NEW broken, Thinned(T, S), InOrder(S, broken)
    PROVE  InOrder(T, broken)
<1>1. PICK g \in [1..Len(T) -> 1..Len(S)] :
        /\ \A x, y \in 1..Len(T) : x < y => g[x] < g[y]
        /\ \A x \in 1..Len(T) : T[x] = S[g[x]]
  BY DEF Thinned
<1>2. ASSUME NEW x \in 1..Len(T), NEW y \in 1..Len(T), x < y
      PROVE  Precedes(T[x], T[y], broken)
  <2>1. g[x] \in 1..Len(S) /\ g[y] \in 1..Len(S) /\ g[x] < g[y]
    BY <1>1, <1>2
  <2>2. Precedes(S[g[x]], S[g[y]], broken)
    BY <2>1 DEF InOrder
  <2>3. T[x] = S[g[x]] /\ T[y] = S[g[y]]
    BY <1>1
  <2> QED
    BY <2>2, <2>3, Zenon
<1> QED
  BY <1>2 DEF InOrder

\* An order that a broken heal may have left.
LEMMA OrderLater ==
    ASSUME NEW S \in Seq(SegmentOf), NEW was, NEW is, was \subseteq is,
           InOrder(S, was)
    PROVE  InOrder(S, is)
<1>1. ASSUME NEW i \in 1..Len(S), NEW j \in 1..Len(S), i < j
      PROVE  Precedes(S[i], S[j], is)
  <2>1. Precedes(S[i], S[j], was) /\ S[i] \in SegmentOf /\ S[j] \in SegmentOf
    BY <1>1, ElementOfSeq DEF InOrder
  <2> QED
    BY <2>1, PrecedesLater
<1> QED
  BY <1>1 DEF InOrder

\* The two loops find the place of a segment among others in order.
LEMMA SettledOrder ==
    ASSUME NEW S \in Seq(SegmentOf), NEW k \in 1..Len(S), NEW broken,
           InOrder(RemoveAt(S, k), broken)
    PROVE  InOrder(Settled(S, k), broken)
<1> DEFINE n    == Len(S)
           s    == S[k]
           rest == RemoveAt(S, k)
           Ds   == {j \in k..Len(S) : j = Len(S) \/ ~Behind(s, rest[j])}
           Us   == {j \in 1..k : j = 1 \/ ~Behind(rest[j-1], s)}
           down == Min(Ds)
           up   == Max(Us)
           c    == IF down > k THEN down ELSE up
           T    == InsertAt(rest, c, s)
<1>1. n \in Nat /\ k \in 1..n /\ s \in SegmentOf
  BY LenProperties, ElementOfSeq
<1>2. /\ down \in k..n /\ (down = n \/ ~Behind(s, rest[down]))
      /\ \A j \in k..n : j < down => j # n /\ Behind(s, rest[j])
  <2>1. Ds \subseteq Nat /\ n \in Ds
    BY <1>1
  <2>2. down \in Ds /\ \A j \in Ds : down <= j
    <3> HIDE DEF Ds
    <3> QED
      BY <2>1, SmallestIs
  <2>3. \A j \in k..n : j \notin Ds => j # n /\ Behind(s, rest[j])
    BY Zenon
  <2>4. down \in Nat
    BY <2>1, <2>2, Zenon
  <2>5. down \in k..n /\ (down = n \/ ~Behind(s, rest[down]))
    BY <2>2
  <2> HIDE DEF Ds, down, n, rest, s
  <2>6. \A j \in k..n : j < down => j \notin Ds
    BY <1>1, <2>2, <2>4
  <2> QED
    BY <2>3, <2>5, <2>6
<1>3. /\ up \in 1..k /\ (up = 1 \/ ~Behind(rest[up-1], s))
      /\ \A j \in 1..k : j > up => Behind(rest[j-1], s)
  <2>1. Us \subseteq 0..k /\ 1 \in Us /\ k \in Nat
    BY <1>1
  <2>2. up \in Us /\ \A j \in Us : j <= up
    <3> HIDE DEF Us
    <3> QED
      BY <2>1, LargestIs
  <2>3. \A j \in 1..k : j \notin Us => Behind(rest[j-1], s)
    BY Zenon
  <2>4. up \in 1..k /\ (up = 1 \/ ~Behind(rest[up-1], s))
    BY <2>2
  <2> HIDE DEF Us, up, rest, s
  <2>6. \A j \in 1..k : j > up => j \notin Us
    BY <1>1, <2>2, <2>4
  <2> QED
    BY <2>3, <2>4, <2>6
<1>4. Settled(S, k) = T
  BY DEF Settled
<1>5. rest \in Seq(SegmentOf) /\ Len(rest) = n - 1
  BY <1>1, RemovedIs
<1> HIDE DEF n, s, rest, down, up
<1>6. c \in 1..n
  BY <1>1, <1>2, <1>3
<1>7. \A j \in 1..n-1 : rest[j] \in SegmentOf
  BY <1>5, ElementOfSeq
<1>8. \A i, j \in 1..n-1 : i < j => Precedes(rest[i], rest[j], broken)
  BY <1>5 DEF InOrder, rest
\* The neighbours of the place.
<1>9. c > 1 => Precedes(rest[c-1], s, broken)
  <2>1. CASE down > k
    <3>1. c = down /\ c - 1 \in k..n /\ c - 1 < down /\ c - 1 \in 1..n-1
      BY <1>1, <1>2, <2>1
    <3>2. Behind(s, rest[c-1])
      BY <1>2, <3>1
    <3> QED
      BY <1>1, <1>7, <3>1, <3>2, PrecedesIs
  <2>2. CASE ~(down > k)
    <3>1. SUFFICES ASSUME c > 1
                   PROVE  Precedes(rest[c-1], s, broken)
      OBVIOUS
    <3>2. c = up /\ up # 1 /\ c - 1 \in 1..n-1
      BY <1>1, <1>3, <1>6, <2>2, <3>1
    <3>3. ~Behind(rest[c-1], s)
      BY <1>3, <3>2
    <3> QED
      BY <1>1, <1>7, <3>2, <3>3, PrecedesIs
  <2> QED
    BY <2>1, <2>2
<1>10. c < n => Precedes(s, rest[c], broken)
  <2>0. SUFFICES ASSUME c < n
                 PROVE  Precedes(s, rest[c], broken)
    OBVIOUS
  <2>1. c \in 1..n-1
    BY <1>1, <1>6, <2>0
  <2>2. CASE down > k
    <3>1. c = down /\ down # n
      BY <1>1, <1>2, <2>0, <2>2
    <3>2. ~Behind(s, rest[c])
      BY <1>2, <3>1
    <3> QED
      BY <1>1, <1>7, <2>1, <3>2, PrecedesIs
  <2>3. CASE ~(down > k)
    <3>1. c = up /\ down = k
      BY <1>1, <1>2, <2>3
    <3>2. CASE up = k
      <4>1. ~Behind(s, rest[c])
        BY <1>1, <1>2, <2>0, <3>1, <3>2
      <4> QED
        BY <1>1, <1>7, <2>1, <4>1, PrecedesIs
    <3>3. CASE up # k
      <4>1. c + 1 \in 1..k /\ c + 1 > up /\ (c + 1) - 1 = c
        BY <1>1, <1>3, <3>1, <3>3
      <4>2. Behind(rest[c], s)
        BY <1>3, <4>1
      <4> QED
        BY <1>1, <1>7, <2>1, <4>2, PrecedesIs
    <3> QED
      BY <3>2, <3>3
  <2> QED
    BY <2>2, <2>3
<1>11. ASSUME NEW j \in 1..n-1
       PROVE  /\ j < c  => Precedes(rest[j], s, broken)
              /\ j >= c => Precedes(s, rest[j], broken)
  <2>1. ASSUME j < c
        PROVE  Precedes(rest[j], s, broken)
    <3>1. c > 1 /\ c - 1 \in 1..n-1 /\ (j = c - 1 \/ j < c - 1)
      BY <1>1, <1>6, <2>1
    <3>2. Precedes(rest[c-1], s, broken)
      BY <1>9, <3>1
    <3>3. CASE j = c - 1
      BY <3>2, <3>3
    <3>4. CASE j < c - 1
      <4>1. Precedes(rest[j], rest[c-1], broken)
        BY <1>8, <3>1, <3>4
      <4> DEFINE q == rest[j]
                 r == rest[c-1]
      <4>2. q \in SegmentOf /\ r \in SegmentOf /\ s \in SegmentOf
        BY <1>1, <1>7, <3>1
      <4>3. Precedes(q, r, broken) /\ Precedes(r, s, broken)
        BY <3>2, <4>1
      <4> HIDE DEF q, r
      <4>4. Precedes(q, s, broken)
        BY <4>2, <4>3, PrecedesAlong
      <4> QED
        BY <4>4 DEF q
    <3> QED
      BY <3>1, <3>3, <3>4
  <2>2. ASSUME j >= c
        PROVE  Precedes(s, rest[j], broken)
    <3>1. c < n /\ c \in 1..n-1 /\ (j = c \/ c < j)
      BY <1>1, <1>6, <2>2
    <3>2. Precedes(s, rest[c], broken)
      BY <1>10, <3>1
    <3>3. CASE j = c
      BY <3>2, <3>3
    <3>4. CASE c < j
      <4>1. Precedes(rest[c], rest[j], broken)
        BY <1>8, <3>1, <3>4
      <4>2. rest[j] \in SegmentOf /\ rest[c] \in SegmentOf /\ s \in SegmentOf
        BY <1>1, <1>7, <3>1
      <4> QED
        BY <3>2, <4>1, <4>2, PrecedesAlong
    <3> QED
      BY <3>1, <3>3, <3>4
  <2> QED
    BY <2>1, <2>2
<1> HIDE DEF c
<1>12. /\ Len(T) = n
       /\ \A x \in 1..n : T[x] = IF x < c THEN rest[x] ELSE IF x = c THEN s ELSE rest[x-1]
  <2>1. c \in 1..Len(rest)+1 /\ Len(rest) + 1 = n
    BY <1>1, <1>5, <1>6
  <2>2. /\ Len(T) = Len(rest) + 1
        /\ \A x \in 1..Len(rest)+1 :
             T[x] = IF x < c THEN rest[x] ELSE IF x = c THEN s ELSE rest[x-1]
    <3>1. rest \in Seq(SegmentOf) /\ s \in SegmentOf
      BY <1>1, <1>5
    <3> QED
      BY <2>1, <3>1, InsertedIs, SMTT(30)
  <2> HIDE DEF T
  <2> QED
    BY <2>1, <2>2
<1> HIDE DEF T
<1>13. ASSUME NEW x \in 1..n, NEW y \in 1..n, x < y
       PROVE  Precedes(T[x], T[y], broken)
  <2>1. CASE x < c
    <3>1. T[x] = rest[x] /\ x \in 1..n-1
      BY <1>1, <1>6, <1>12, <2>1
    <3>2. CASE y < c
      <4>1. T[y] = rest[y] /\ y \in 1..n-1
        BY <1>1, <1>6, <1>12, <3>2
      <4> QED
        BY <1>8, <1>13, <3>1, <4>1
    <3>3. CASE y = c
      <4>1. T[y] = s
        BY <1>12, <3>3
      <4> QED
        BY <1>11, <2>1, <3>1, <4>1
    <3>4. CASE y > c
      <4>1. T[y] = rest[y-1] /\ y - 1 \in 1..n-1 /\ x < y - 1
        BY <1>1, <1>6, <1>12, <2>1, <3>4
      <4> QED
        BY <1>8, <3>1, <4>1
    <3> QED
      BY <1>6, <3>2, <3>3, <3>4
  <2>2. CASE x = c
    <3>1. T[x] = s /\ T[y] = rest[y-1] /\ y - 1 \in 1..n-1 /\ y - 1 >= c
      BY <1>1, <1>6, <1>12, <1>13, <2>2
    <3> QED
      BY <1>11, <3>1
  <2>3. CASE x > c
    <3>1. /\ T[x] = rest[x-1] /\ T[y] = rest[y-1] /\ x - 1 \in 1..n-1 /\ y - 1 \in 1..n-1
          /\ x - 1 < y - 1
      BY <1>1, <1>6, <1>12, <1>13, <2>3
    <3> QED
      BY <1>8, <3>1
  <2> QED
    BY <1>6, <2>1, <2>2, <2>3
<1> QED
  BY <1>4, <1>12, <1>13 DEF InOrder

LEMMA SpansRearranged ==
    ASSUME NEW S \in Seq(SegmentOf), NEW T, Rearranged(T, S), NEW e, NEW l, Spans(S, e, l)
    PROVE  Spans(T, e, l)
<1>1. PICK f \in [1..Len(S) -> 1..Len(S)] :
          /\ \A z \in 1..Len(S) : \E x \in 1..Len(S) : f[x] = z
          /\ \A x \in 1..Len(S) : T[x] = S[f[x]]
  BY DEF Rearranged
<1>2. Len(T) = Len(S)
  BY DEF Rearranged
<1>3. ASSUME NEW z \in 1..Len(S)
      PROVE  \E x \in 1..Len(T) : T[x] = S[z]
  <2>1. PICK x \in 1..Len(S) : f[x] = z
    BY <1>1
  <2>2. T[x] = S[z]
    BY <1>1, <2>1
  <2> QED
    BY <1>2, <2>2
<1>4. ASSUME NEW x \in 1..Len(T)
      PROVE  \E z \in 1..Len(S) : T[x] = S[z]
  <2>1. f[x] \in 1..Len(S) /\ T[x] = S[f[x]]
    BY <1>1, <1>2
  <2> QED
    BY <2>1
<1> QED
  BY <1>3, <1>4 DEF Spans

\* What is left of the list without the segment that is to be moved.
LEMMA ThinnedReplaced ==
    ASSUME NEW S \in Seq(SegmentOf), NEW k \in 1..Len(S), NEW T \in Seq(SegmentOf),
           Len(T) = Len(S), \A j \in 1..Len(S) : j # k => T[j] = S[j]
    PROVE  Thinned(RemoveAt(T, k), S)
<1> DEFINE n == Len(S)
           R == RemoveAt(T, k)
           g == [x \in 1..n-1 |-> IF x < k THEN x ELSE x + 1]
<1>1. n \in Nat /\ k \in 1..n
  BY LenProperties
<1>2. Len(R) = n - 1 /\ \A x \in 1..n-1 : R[x] = IF x < k THEN T[x] ELSE T[x+1]
  BY RemovedIs
<1> HIDE DEF R, n
<1>3. \A x \in 1..n-1 : g[x] \in 1..n /\ g[x] # k /\ R[x] = T[g[x]]
  BY <1>1, <1>2
<1>4. \A x, y \in 1..n-1 : x < y => g[x] < g[y]
  BY <1>1
<1>5. g \in [1..n-1 -> 1..n]
  BY <1>1
<1> HIDE DEF g
<1>6. \A x \in 1..n-1 : R[x] = S[g[x]]
  BY <1>3 DEF n
<1> QED
  BY <1>2, <1>4, <1>5, <1>6 DEF Thinned, n, R

LEMMA ThinnedInserted ==
    ASSUME NEW S \in Seq(SegmentOf), NEW c \in 1..Len(S)+1, NEW e, NEW T \in Seq(SegmentOf),
           Len(T) = Len(S) + 1,
           \A x \in 1..Len(S)+1 : T[x] = IF x < c THEN S[x] ELSE IF x = c THEN e ELSE S[x-1]
    PROVE  Thinned(RemoveAt(T, c), S)
<1> DEFINE n == Len(S)
           R == RemoveAt(T, c)
           g == [x \in 1..n |-> x]
<1>1. n \in Nat /\ c \in 1..n+1
  BY LenProperties
<1>2. Len(R) = n /\ \A x \in 1..n : R[x] = IF x < c THEN T[x] ELSE T[x+1]
  <2>1. c \in 1..Len(T) /\ Len(T) - 1 = n
    BY <1>1
  <2>2. Len(R) = Len(T) - 1 /\ \A x \in 1..Len(T)-1 : R[x] = IF x < c THEN T[x] ELSE T[x+1]
    BY <2>1, RemovedIs
  <2> HIDE DEF R, n
  <2> QED
    BY <2>1, <2>2
<1>3. \A x \in 1..n+1 : T[x] = IF x < c THEN S[x] ELSE IF x = c THEN e ELSE S[x-1]
  OBVIOUS
<1> HIDE DEF R, n
<1>4. ASSUME NEW x \in 1..n
      PROVE  R[x] = S[x]
  <2>1. CASE x < c
    <3>1. x \in 1..n+1
      BY <1>1
    <3> QED
      BY <1>2, <1>3, <2>1, <3>1
  <2>2. CASE ~(x < c)
    <3>1. x + 1 \in 1..n+1 /\ ~(x + 1 < c) /\ x + 1 # c /\ (x + 1) - 1 = x
      BY <1>1, <2>2
    <3> QED
      BY <1>2, <1>3, <2>2, <3>1
  <2> QED
    BY <2>1, <2>2
<1>5. g \in [1..n -> 1..n] /\ (\A x, y \in 1..n : x < y => g[x] < g[y])
      /\ \A x \in 1..n : R[x] = S[g[x]]
  BY <1>4
<1> HIDE DEF g
<1> QED
  BY <1>2, <1>5 DEF Thinned, n, R

LEMMA ThinnedTwice ==
    ASSUME NEW S, NEW T, NEW U, Thinned(T, S), Thinned(U, T), Len(U) \in Nat, Len(T) \in Nat,
           Len(S) \in Nat
    PROVE  Thinned(U, S)
<1>1. PICK f \in [1..Len(T) -> 1..Len(S)] :
        /\ \A x, y \in 1..Len(T) : x < y => f[x] < f[y]
        /\ \A x \in 1..Len(T) : T[x] = S[f[x]]
  BY DEF Thinned
<1>2. PICK g \in [1..Len(U) -> 1..Len(T)] :
        /\ \A x, y \in 1..Len(U) : x < y => g[x] < g[y]
        /\ \A x \in 1..Len(U) : U[x] = T[g[x]]
  BY DEF Thinned
<1> DEFINE h == [x \in 1..Len(U) |-> f[g[x]]]
<1>3. \A x \in 1..Len(U) : g[x] \in 1..Len(T) /\ h[x] = f[g[x]] /\ U[x] = T[g[x]]
  BY <1>2
<1>4. h \in [1..Len(U) -> 1..Len(S)]
  BY <1>1, <1>2
<1> HIDE DEF h
<1>5. \A x, y \in 1..Len(U) : x < y => h[x] < h[y]
  BY <1>1, <1>2, <1>3
<1>6. \A x \in 1..Len(U) : U[x] = S[h[x]]
  BY <1>1, <1>3, SMTT(30)
<1> QED
  BY <1>4, <1>5, <1>6 DEF Thinned

LEMMA ThinnedHealed ==
    ASSUME NEW R \in Seq(SegmentOf), NEW a \in 1..Len(R), NEW b \in 1..Len(R), a # b,
           NEW t \in SegmentOf,
           NEW S, S = RemoveAt([R EXCEPT ![b] = t], a), NEW k, k = IF a < b THEN b - 1 ELSE b
    PROVE  Thinned(RemoveAt(S, k), R)
<1> DEFINE n == Len(R)
           U == [R EXCEPT ![b] = t]
           V == RemoveAt(R, a)
<1>1. n \in Nat /\ a \in 1..n /\ b \in 1..n
  BY LenProperties
<1>2. U \in Seq(SegmentOf) /\ Len(U) = n /\ \A j \in 1..n : U[j] = IF j = b THEN t ELSE R[j]
  BY ExceptSeq
<1>3. V \in Seq(SegmentOf) /\ Len(V) = n - 1 /\ \A x \in 1..n-1 : V[x] = IF x < a THEN R[x] ELSE R[x+1]
  BY RemovedIs
<1>4. S = RemoveAt(U, a)
  OBVIOUS
<1> HIDE DEF U, V
<1>5. S \in Seq(SegmentOf) /\ Len(S) = n - 1 /\ \A x \in 1..n-1 : S[x] = IF x < a THEN U[x] ELSE U[x+1]
  <2>1. a \in 1..Len(U)
    BY <1>2
  <2>2. /\ RemoveAt(U, a) \in Seq(SegmentOf) /\ Len(RemoveAt(U, a)) = Len(U) - 1
        /\ \A x \in 1..Len(U)-1 : RemoveAt(U, a)[x] = IF x < a THEN U[x] ELSE U[x+1]
    BY <1>2, <2>1, RemovedIs
  <2> QED
    BY <1>2, <1>4, <2>2
<1> HIDE DEF n
<1>6. k \in 1..n-1
  BY <1>1
<1>7. ASSUME NEW x \in 1..n-1, x # k
      PROVE  S[x] = V[x]
  <2>1. CASE x < a
    <3>1. x \in 1..n /\ x # b
      BY <1>1, <1>7, <2>1
    <3> QED
      BY <1>2, <1>3, <1>5, <2>1, <3>1
  <2>2. CASE ~(x < a)
    <3>1. x + 1 \in 1..n /\ x + 1 # b
      BY <1>1, <1>7, <2>2
    <3> QED
      BY <1>2, <1>3, <1>5, <2>2, <3>1
  <2> QED
    BY <2>1, <2>2
<1>8. Thinned(RemoveAt(S, k), V)
  <2>1. Len(S) = Len(V) /\ k \in 1..Len(V) /\ \A x \in 1..Len(V) : x # k => S[x] = V[x]
    BY <1>3, <1>5, <1>6, <1>7
  <2> QED
    BY <1>3, <1>5, <2>1, ThinnedReplaced
<1>9. Thinned(V, R)
  <2>1. Thinned(RemoveAt(R, a), R)
    BY ThinnedReplaced
  <2> QED
    BY <2>1 DEF V
<1>10. Len(RemoveAt(S, k)) \in Nat /\ Len(V) \in Nat /\ Len(R) \in Nat
  <2>1. k \in 1..Len(S)
    BY <1>5, <1>6
  <2>2. RemoveAt(S, k) \in Seq(SegmentOf)
    BY <1>5, <2>1, RemovedIs
  <2> QED
    BY <1>3, <2>2, LenProperties
<1> QED
  BY <1>8, <1>9, <1>10, ThinnedTwice

\* What the segments span once one of them has taken the record.
LEMMA ExtendedEnd ==
    ASSUME NEW m \in Record, NEW S \in Seq(SegmentOf), NEW k \in 1..Len(S), NEW T,
           Len(T) = Len(S), \A j \in 1..Len(S) : j # k => T[j] = S[j],
           T[k].start = S[k].start, T[k].end = EndOf(m), S[k].end < m.start,
           S[k].start <= S[k].end
    PROVE  Extended(T, S, m)
<1>1. \A j \in 1..Len(S) : S[j] \in SegmentOf /\ S[j].start \in Int /\ S[j].end \in Int
  <2>1. \A j \in 1..Len(S) : S[j] \in SegmentOf
    BY ElementOfSeq
  <2> QED
    BY <2>1 DEF SegmentOf
<1>2. m.start \in Int /\ EndOf(m) \in Int /\ m.start <= EndOf(m)
  BY RecordIs
<1>3. ASSUME NEW e \in Int, NEW l \in Int, Spans(S, e, l)
      PROVE  Spans(T, IF m.start < e THEN m.start ELSE e, IF EndOf(m) > l THEN EndOf(m) ELSE l)
  <2> DEFINE u == IF EndOf(m) > l THEN EndOf(m) ELSE l
  <2>1. \A j \in 1..Len(S) : e <= S[j].start /\ S[j].end <= l
    BY <1>3 DEF Spans
  <2>2. ~(m.start < e)
    BY <1>1, <1>2, <2>1
  <2>3. u \in Int /\ l <= u /\ EndOf(m) <= u
    BY <1>2
  <2>4. ASSUME NEW j \in 1..Len(S)
        PROVE  e <= T[j].start /\ T[j].end <= u
    <3> HIDE DEF u
    <3>1. CASE j = k
      BY <2>1, <2>3, <3>1
    <3>2. CASE j # k
      <4>1. T[j] = S[j]
        BY <3>2
      <4> QED
        BY <1>1, <2>1, <2>3, <4>1
    <3> QED
      BY <3>1, <3>2
  <2>5. \E j \in 1..Len(S) : T[j].start = e
    <3>1. PICK j \in 1..Len(S) : S[j].start = e
      BY <1>3 DEF Spans
    <3> QED
      BY <3>1
  <2>6. \E j \in 1..Len(S) : T[j].end = u
    <3>1. CASE EndOf(m) > l
      BY <3>1
    <3>2. CASE ~(EndOf(m) > l)
      <4>1. PICK j \in 1..Len(S) : S[j].end = l
        BY <1>3 DEF Spans
      <4>2. j # k
        BY <1>1, <1>2, <3>2, <4>1
      <4>3. T[j].end = u
        BY <3>2, <4>1, <4>2
      <4> QED
        BY <4>3
    <3> QED
      BY <3>1, <3>2
  <2> HIDE DEF u
  <2>7. Spans(T, e, u)
    BY <2>4, <2>5, <2>6 DEF Spans
  <2> QED
    BY <2>2, <2>7 DEF u
<1> QED
  BY <1>3 DEF Extended

LEMMA ExtendedStart ==
    ASSUME NEW m \in Record, NEW S \in Seq(SegmentOf), NEW k \in 1..Len(S), NEW T,
           Len(T) = Len(S), \A j \in 1..Len(S) : j # k => T[j] = S[j],
           T[k].start = m.start, T[k].end = S[k].end, EndOf(m) < S[k].start,
           S[k].start <= S[k].end
    PROVE  Extended(T, S, m)
<1>1. \A j \in 1..Len(S) : S[j] \in SegmentOf /\ S[j].start \in Int /\ S[j].end \in Int
  <2>1. \A j \in 1..Len(S) : S[j] \in SegmentOf
    BY ElementOfSeq
  <2> QED
    BY <2>1 DEF SegmentOf
<1>2. m.start \in Int /\ EndOf(m) \in Int /\ m.start <= EndOf(m)
  BY RecordIs
<1>3. ASSUME NEW e \in Int, NEW l \in Int, Spans(S, e, l)
      PROVE  Spans(T, IF m.start < e THEN m.start ELSE e, IF EndOf(m) > l THEN EndOf(m) ELSE l)
  <2> DEFINE u == IF m.start < e THEN m.start ELSE e
  <2>1. \A j \in 1..Len(S) : e <= S[j].start /\ S[j].end <= l
    BY <1>3 DEF Spans
  <2>2. ~(EndOf(m) > l)
    BY <1>1, <1>2, <2>1
  <2>3. u \in Int /\ u <= e /\ u <= m.start
    BY <1>2
  <2>4. ASSUME NEW j \in 1..Len(S)
        PROVE  u <= T[j].start /\ T[j].end <= l
    <3> HIDE DEF u
    <3>1. CASE j = k
      BY <2>1, <2>3, <3>1
    <3>2. CASE j # k
      <4>1. T[j] = S[j]
        BY <3>2
      <4> QED
        BY <1>1, <2>1, <2>3, <4>1
    <3> QED
      BY <3>1, <3>2
  <2>5. \E j \in 1..Len(S) : T[j].end = l
    <3>1. PICK j \in 1..Len(S) : S[j].end = l
      BY <1>3 DEF Spans
    <3> QED
      BY <3>1
  <2>6. \E j \in 1..Len(S) : T[j].start = u
    <3>1. CASE m.start < e
      BY <3>1
    <3>2. CASE ~(m.start < e)
      <4>1. PICK j \in 1..Len(S) : S[j].start = e
        BY <1>3 DEF Spans
      <4>2. j # k
        BY <1>1, <1>2, <3>2, <4>1
      <4>3. T[j].start = u
        BY <3>2, <4>1, <4>2
      <4> QED
        BY <4>3
    <3> QED
      BY <3>1, <3>2
  <2> HIDE DEF u
  <2>7. Spans(T, u, l)
    BY <2>4, <2>5, <2>6 DEF Spans
  <2> QED
    BY <2>2, <2>7 DEF u
<1> QED
  BY <1>3 DEF Extended

LEMMA ExtendedNew ==
    ASSUME NEW m \in Record, NEW S \in Seq(SegmentOf), NEW c \in 1..Len(S)+1, NEW r, NEW T,
           r.start = m.start, r.end = EndOf(m), Len(T) = Len(S) + 1,
           \A x \in 1..Len(S)+1 : T[x] = IF x < c THEN S[x] ELSE IF x = c THEN r ELSE S[x-1]
    PROVE  Extended(T, S, m)
<1> DEFINE n == Len(S)
<1>1. n \in Nat /\ \A j \in 1..n : S[j] \in SegmentOf /\ S[j].start \in Int /\ S[j].end \in Int
  <2>1. n \in Nat /\ \A j \in 1..n : S[j] \in SegmentOf
    BY ElementOfSeq, LenProperties
  <2> QED
    BY <2>1 DEF SegmentOf
<1>2. m.start \in Int /\ EndOf(m) \in Int
  BY RecordIs
<1>3. c \in 1..n+1 /\ Len(T) = n + 1
      /\ \A x \in 1..n+1 : T[x] = IF x < c THEN S[x] ELSE IF x = c THEN r ELSE S[x-1]
  OBVIOUS
<1> HIDE DEF n
<1>4. ASSUME NEW x \in 1..n+1
      PROVE  T[x] = r \/ \E j \in 1..n : T[x] = S[j]
  <2>1. CASE x < c
    <3>1. x \in 1..n
      BY <1>1, <1>3, <2>1
    <3> QED
      BY <1>3, <2>1, <3>1
  <2>2. CASE x = c
    BY <1>3, <2>2
  <2>3. CASE x > c
    <3>1. x - 1 \in 1..n /\ T[x] = S[x-1]
      BY <1>1, <1>3, <2>3
    <3> QED
      BY <3>1
  <2> QED
    BY <1>3, <2>1, <2>2, <2>3
<1>5. ASSUME NEW j \in 1..n
      PROVE  \E x \in 1..n+1 : T[x] = S[j]
  <2>1. CASE j < c
    <3>1. j \in 1..n+1 /\ T[j] = S[j]
      BY <1>1, <1>3, <2>1
    <3> QED
      BY <3>1
  <2>2. CASE ~(j < c)
    <3>1. j + 1 \in 1..n+1 /\ ~(j + 1 < c) /\ j + 1 # c /\ (j + 1) - 1 = j
      BY <1>1, <1>3, <2>2
    <3>2. T[j + 1] = S[j]
      BY <1>3, <3>1
    <3> QED
      BY <3>1, <3>2
  <2> QED
    BY <2>1, <2>2
<1>6. T[c] = r
  BY <1>3
<1>7. ASSUME NEW e \in Int, NEW l \in Int, Spans(S, e, l)
      PROVE  Spans(T, IF m.start < e THEN m.start ELSE e, IF EndOf(m) > l THEN EndOf(m) ELSE l)
  <2> DEFINE u == IF m.start < e THEN m.start ELSE e
             v == IF EndOf(m) > l THEN EndOf(m) ELSE l
  <2>1. \A j \in 1..n : e <= S[j].start /\ S[j].end <= l
    BY <1>7 DEF Spans, n
  <2>2. /\ u \in Int /\ v \in Int /\ u <= e /\ u <= m.start /\ l <= v /\ EndOf(m) <= v
        /\ (u = e \/ u = m.start) /\ (v = l \/ v = EndOf(m))
    BY <1>2
  <2> HIDE DEF u, v
  <2>3. ASSUME NEW x \in 1..n+1
        PROVE  u <= T[x].start /\ T[x].end <= v
    <3>1. CASE T[x] = r
      BY <2>2, <3>1
    <3>2. CASE \E j \in 1..n : T[x] = S[j]
      <4>1. PICK j \in 1..n : T[x] = S[j]
        BY <3>2
      <4> QED
        BY <1>1, <2>1, <2>2, <4>1, SMTT(30)
    <3> QED
      BY <1>4, <3>1, <3>2
  <2>4. \E x \in 1..n+1 : T[x].start = u
    <3>1. CASE u = m.start
      BY <1>3, <1>6, <3>1
    <3>2. CASE u = e
      <4>1. PICK j \in 1..n : S[j].start = e
        BY <1>7 DEF Spans, n
      <4>2. PICK x \in 1..n+1 : T[x] = S[j]
        BY <1>5
      <4> QED
        BY <3>2, <4>1, <4>2
    <3> QED
      BY <2>2, <3>1, <3>2
  <2>5. \E x \in 1..n+1 : T[x].end = v
    <3>1. CASE v = EndOf(m)
      BY <1>3, <1>6, <3>1
    <3>2. CASE v = l
      <4>1. PICK j \in 1..n : S[j].end = l
        BY <1>7 DEF Spans, n
      <4>2. PICK x \in 1..n+1 : T[x] = S[j]
        BY <1>5
      <4> QED
        BY <3>2, <4>1, <4>2
    <3> QED
      BY <2>2, <3>1, <3>2
  <2>6. Spans(T, u, v)
    BY <1>3, <2>3, <2>4, <2>5 DEF Spans
  <2> QED
    BY <2>6 DEF u, v
<1> QED
  BY <1>7 DEF Extended

\* What they span once two of them and the record became one.
LEMMA ExtendedHealed ==
    ASSUME NEW m \in Record, NEW R \in Seq(SegmentOf), NEW a \in 1..Len(R), NEW b \in 1..Len(R),
           a # b, NEW t \in SegmentOf, NEW S, S = RemoveAt([R EXCEPT ![b] = t], a),
           t.start = R[b].start, t.end = R[a].end,
           R[b].start <= R[b].end, R[b].end < m.start,
           EndOf(m) < R[a].start, R[a].start <= R[a].end
    PROVE  Extended(S, R, m)
<1> DEFINE n == Len(R)
           U == [R EXCEPT ![b] = t]
<1>1. n \in Nat /\ \A j \in 1..n : R[j] \in SegmentOf /\ R[j].start \in Int /\ R[j].end \in Int
  <2>1. n \in Nat /\ \A j \in 1..n : R[j] \in SegmentOf
    BY ElementOfSeq, LenProperties
  <2> QED
    BY <2>1 DEF SegmentOf
<1>2. m.start \in Int /\ EndOf(m) \in Int /\ m.start <= EndOf(m)
  BY RecordIs
<1>3. U \in Seq(SegmentOf) /\ Len(U) = n /\ \A j \in 1..n : U[j] = IF j = b THEN t ELSE R[j]
  BY ExceptSeq
<1>4. S = RemoveAt(U, a)
  OBVIOUS
<1> HIDE DEF U
<1>5. Len(S) = n - 1 /\ \A x \in 1..n-1 : S[x] = IF x < a THEN U[x] ELSE U[x+1]
  <2>1. a \in 1..Len(U)
    BY <1>3
  <2>2. /\ Len(RemoveAt(U, a)) = Len(U) - 1
        /\ \A x \in 1..Len(U)-1 : RemoveAt(U, a)[x] = IF x < a THEN U[x] ELSE U[x+1]
    BY <1>3, <2>1, RemovedIs
  <2> QED
    BY <1>3, <1>4, <2>2
<1>6. /\ R[a].start \in Int /\ R[a].end \in Int /\ R[b].start \in Int /\ R[b].end \in Int
      /\ a \in 1..n /\ b \in 1..n
  BY <1>1
<1> HIDE DEF n
<1>0. n \in Nat /\ a \in 1..n /\ b \in 1..n
  BY <1>1, <1>6
<1>7. ASSUME NEW x \in 1..n-1
      PROVE  S[x] = t \/ \E j \in 1..n : j # a /\ S[x] = R[j]
  <2>1. CASE x < a
    <3>1. x \in 1..n /\ x # a
      BY <1>0, <2>1
    <3>2. S[x] = U[x]
      BY <1>5, <2>1
    <3> QED
      BY <1>3, <3>1, <3>2
  <2>2. CASE ~(x < a)
    <3>1. x + 1 \in 1..n /\ x + 1 # a
      BY <1>0, <2>2
    <3>2. S[x] = U[x + 1]
      BY <1>5, <2>2
    <3> QED
      BY <1>3, <3>1, <3>2
  <2> QED
    BY <2>1, <2>2
<1>8. ASSUME NEW j \in 1..n, j # a
      PROVE  \E x \in 1..n-1 : S[x] = IF j = b THEN t ELSE R[j]
  <2>1. CASE j < a
    <3>1. j \in 1..n-1
      BY <1>0, <2>1
    <3>2. S[j] = U[j]
      BY <1>5, <2>1, <3>1
    <3> QED
      BY <1>3, <3>1, <3>2
  <2>2. CASE ~(j < a)
    <3>1. j - 1 \in 1..n-1 /\ ~(j - 1 < a) /\ (j - 1) + 1 = j
      BY <1>0, <1>8, <2>2
    <3>2. S[j - 1] = U[j]
      BY <1>5, <3>1
    <3> QED
      BY <1>3, <3>1, <3>2
  <2> QED
    BY <2>1, <2>2
<1>9. ASSUME NEW e \in Int, NEW l \in Int, Spans(R, e, l)
      PROVE  Spans(S, IF m.start < e THEN m.start ELSE e, IF EndOf(m) > l THEN EndOf(m) ELSE l)
  <2>1. \A j \in 1..n : e <= R[j].start /\ R[j].end <= l
    BY <1>9 DEF Spans, n
  <2>2. /\ e <= R[b].start /\ R[a].end <= l /\ R[b].end <= l /\ e <= R[a].start
    BY <1>6, <2>1
  <2>3. ~(m.start < e) /\ ~(EndOf(m) > l)
    BY <1>2, <1>6, <2>2, SMTT(30)
  <2>4. e # R[a].start /\ l # R[b].end
    BY <1>2, <1>6, <2>2, SMTT(30)
  <2>5. ASSUME NEW x \in 1..n-1
        PROVE  e <= S[x].start /\ S[x].end <= l
    <3>1. CASE S[x] = t
      BY <2>2, <3>1
    <3>2. CASE \E j \in 1..n : S[x] = R[j]
      BY <2>1, <3>2
    <3> QED
      BY <1>7, <3>1, <3>2
  <2>6. \E x \in 1..n-1 : S[x].start = e
    <3>1. PICK j \in 1..n : R[j].start = e
      BY <1>9 DEF Spans, n
    <3>2. PICK x \in 1..n-1 : S[x] = IF j = b THEN t ELSE R[j]
      BY <1>8, <2>4, <3>1
    <3> QED
      BY <3>1, <3>2
  <2>7. \E x \in 1..n-1 : S[x].end = l
    <3>1. PICK j \in 1..n : R[j].end = l
      BY <1>9 DEF Spans, n
    <3>2. CASE j = a
      <4>1. PICK x \in 1..n-1 : S[x] = t
        BY <1>6, <1>8
      <4> QED
        BY <3>1, <3>2, <4>1
    <3>3. CASE j # a
      <4>1. PICK x \in 1..n-1 : S[x] = R[j]
        BY <1>8, <2>4, <3>1, <3>3
      <4> QED
        BY <3>1, <4>1
    <3> QED
      BY <3>2, <3>3
  <2>8. Spans(S, e, l)
    BY <1>5, <2>5, <2>6, <2>7 DEF Spans
  <2> QED
    BY <2>3, <2>8
<1> QED
  BY <1>9 DEF Extended

\* The segment at k reaches to the end of the record, or begins with it.
LEMMA ReplacedAtEnd ==
    ASSUME NEW m \in Record, NEW R \in Seq(SegmentOf), NEW k \in 1..Len(R),
           NEW t \in SegmentOf, t.start = R[k].start, t.end = EndOf(m),
           R[k].end < m.start, R[k].start <= R[k].end
    PROVE  /\ Thinned(RemoveAt([R EXCEPT ![k] = t], k), R)
           /\ Extended([R EXCEPT ![k] = t], R, m)
<1> DEFINE S == [R EXCEPT ![k] = t]
<1>1. S \in Seq(SegmentOf) /\ Len(S) = Len(R) /\ \A j \in 1..Len(R) : S[j] = IF j = k THEN t ELSE R[j]
  BY ExceptSeq
<1> HIDE DEF S
<1>2. S[k] = t /\ \A j \in 1..Len(R) : j # k => S[j] = R[j]
  BY <1>1
<1>3. Thinned(RemoveAt(S, k), R)
  BY <1>1, <1>2, ThinnedReplaced
<1>4. Extended(S, R, m)
  BY <1>1, <1>2, ExtendedEnd
<1> QED
  BY <1>3, <1>4 DEF S

LEMMA ReplacedAtStart ==
    ASSUME NEW m \in Record, NEW R \in Seq(SegmentOf), NEW k \in 1..Len(R),
           NEW t \in SegmentOf, t.start = m.start, t.end = R[k].end,
           EndOf(m) < R[k].start, R[k].start <= R[k].end
    PROVE  /\ Thinned(RemoveAt([R EXCEPT ![k] = t], k), R)
           /\ Extended([R EXCEPT ![k] = t], R, m)
<1> DEFINE S == [R EXCEPT ![k] = t]
<1>1. S \in Seq(SegmentOf) /\ Len(S) = Len(R) /\ \A j \in 1..Len(R) : S[j] = IF j = k THEN t ELSE R[j]
  BY ExceptSeq
<1> HIDE DEF S
<1>2. S[k] = t /\ \A j \in 1..Len(R) : j # k => S[j] = R[j]
  BY <1>1
<1>3. Thinned(RemoveAt(S, k), R)
  BY <1>1, <1>2, ThinnedReplaced
<1>4. Extended(S, R, m)
  BY <1>1, <1>2, ExtendedStart
<1> QED
  BY <1>3, <1>4 DEF S

\* Where the segment that a heal makes begins and ends.
LEMMA EndedLater ==
    ASSUME NEW m, NEW s1 \in SegmentOf
    PROVE  LET r == AddedToEnd(m, s1)
           IN  /\ r.start = s1.start /\ r.end = EndOf(m)
               /\ \E B, E, F : r \in [start : Int, end : B, per : Nat, type : SampleTypes,
                                     numsamples : E, data : F]
<1> DEFINE r == AddedToEnd(m, s1)
           x == EndOf(m)
           y == s1.numsamples + m.n
           z == Append(s1.data, m.key)
<1>1. r = [s1 EXCEPT !.end = x, !.numsamples = y, !.data = z]
  BY Zenon DEF AddedToEnd
<1> HIDE DEF r, x, y, z
<1>2. r \in [start : Int, end : {x}, per : Nat, type : SampleTypes,
             numsamples : {y}, data : {z}]
  BY <1>1 DEF SegmentOf
<1>3. r.start = s1.start /\ r.end = x
  BY <1>1 DEF SegmentOf
<1> QED
  BY <1>2, <1>3, Zenon DEF r, x

LEMMA HealedEnds ==
    ASSUME NEW m, NEW s1 \in SegmentOf, NEW s2
    PROVE  /\ Joined(AddedToEnd(m, s1), s2).start = s1.start
           /\ Joined(AddedToEnd(m, s1), s2).end = s2.end
<1> DEFINE r == AddedToEnd(m, s1)
           x == s2.end
           y == r.numsamples + s2.numsamples
           z == r.data \o s2.data
<1>1. PICK B, E, F : r \in [start : Int, end : B, per : Nat, type : SampleTypes,
                            numsamples : E, data : F]
  BY EndedLater, Zenon
<1>2. r.start = s1.start
  BY EndedLater, Zenon
<1>3. Joined(r, s2) = [r EXCEPT !.end = x, !.numsamples = y, !.data = z]
  BY Zenon DEF Joined
<1> HIDE DEF r, x, y, z
<1>4. Joined(r, s2).start = s1.start /\ Joined(r, s2).end = x
  BY <1>1, <1>2, <1>3
<1> QED
  BY <1>4, Zenon DEF r, x

\* A heal that is refused halfway leaves the starts and the extent alone: the
\* segment that was not joined reaches further than the one that was.
LEMMA HalfHealed ==
    ASSUME NEW m \in Record, NEW R \in Seq(SegmentOf), NEW a \in 1..Len(R),
           NEW b \in 1..Len(R), NEW t \in SegmentOf, t.start = R[b].start, t.end = EndOf(m),
           R[b].start <= R[b].end, R[b].end < m.start,
           EndOf(m) < R[a].start, R[a].start <= R[a].end,
           NEW was, NEW is, was \subseteq is, is # {}, InOrder(R, was),
           NEW e \in Int, NEW l \in Int, Spans(R, e, l)
    PROVE  /\ InOrder([R EXCEPT ![b] = t], is) /\ Spans([R EXCEPT ![b] = t], e, l)
<1> DEFINE S == [R EXCEPT ![b] = t]
<1>1. S \in Seq(SegmentOf) /\ Len(S) = Len(R) /\ \A j \in 1..Len(R) : S[j] = IF j = b THEN t ELSE R[j]
  BY ExceptSeq
<1> HIDE DEF S
<1>2. \A j \in 1..Len(R) : S[j].start = R[j].start
  BY <1>1
<1>3. \A j \in 1..Len(R) : R[j].start \in Int /\ R[j].end \in Int
  <2>1. \A j \in 1..Len(R) : R[j] \in SegmentOf
    BY ElementOfSeq
  <2> QED
    BY <2>1 DEF SegmentOf
<1>4. m.start \in Int /\ EndOf(m) \in Int /\ m.start <= EndOf(m)
  BY RecordIs
<1>5. InOrder(S, is)
  <2>1. InOrder(R, is)
    BY OrderLater
  <2>2. \A i, j \in 1..Len(R) : i < j => R[i].start <= R[j].start
    BY <2>1 DEF InOrder, Precedes
  <2> QED
    BY <1>1, <1>2, <2>2 DEF InOrder, Precedes
<1>6. Spans(S, e, l)
  <2>1. \A j \in 1..Len(R) : e <= R[j].start /\ R[j].end <= l
    BY DEF Spans
  <2>2. EndOf(m) <= l /\ R[b].end < l
    BY <1>3, <1>4, <2>1, SMTT(30)
  <2>3. \A j \in 1..Len(S) : e <= S[j].start /\ S[j].end <= l
    BY <1>1, <1>2, <2>1, <2>2
  <2>4. PICK j \in 1..Len(R) : R[j].start = e
    BY DEF Spans
  <2>5. PICK k \in 1..Len(R) : R[k].end = l
    BY DEF Spans
  <2>6. k # b
    BY <1>3, <2>2, <2>5
  <2>7. S[k].end = l /\ S[j].start = e
    BY <1>1, <1>2, <2>4, <2>5, <2>6, SMTT(30)
  <2> QED
    BY <1>1, <2>3, <2>7 DEF Spans
<1> QED
  BY <1>5, <1>6 DEF S

-----------------------------------------------------------------------------
(* The order of the identifiers, and the search for the closest smaller    *)
(* one.                                                                    *)

LEMMA SidIs ==
    ASSUME NEW x \in Sids
    PROVE  /\ x \in Seq(Nat) /\ Len(x) \in Nat /\ Len(x) > 0 /\ x # <<>>
           /\ \A k \in 1..Len(x) : x[k] \in Nat /\ (x[k] = 0 <=> k = Len(x))
<1>1. x \in Seq(Nat) /\ x # <<>> /\ \A k \in DOMAIN x : x[k] = 0 <=> k = Len(x)
  BY SidsAssumption
<1>2. Len(x) \in Nat /\ DOMAIN x = 1..Len(x) /\ Len(x) # 0
  BY <1>1, EmptySeq, LenProperties
<1>3. ASSUME NEW k \in 1..Len(x)
      PROVE  x[k] \in Nat /\ (x[k] = 0 <=> k = Len(x))
  <2>1. x[k] \in Nat
    BY <1>1, ElementOfSeq
  <2>2. k \in DOMAIN x
    BY <1>2
  <2> QED
    BY <1>1, <2>1, <2>2, Zenon
<1>4. Len(x) > 0
  BY <1>2
<1> QED
  BY <1>1, <1>2, <1>3, <1>4

LEMMA MagIs ==
    ASSUME NEW x \in Sids, NEW y \in Sids
    PROVE  /\ Mag(x, y) \in 0..Len(x)
           /\ \A j \in 1..Mag(x, y) : x[j] = y[j]
           /\ \A k \in 0..Len(x) : (\A j \in 1..k : x[j] = y[j]) => k <= Mag(x, y)
<1> DEFINE T == {k \in 0..Len(x) : \A j \in 1..k : x[j] = y[j]}
<1>1. T \subseteq 0..Len(x) /\ 0 \in T /\ Len(x) \in Nat
  BY SidIs
<1>2. Mag(x, y) = Max(T)
  BY DEF Mag
<1>3. Max(T) \in T /\ \A k \in T : k <= Max(T)
  <2> HIDE DEF T
  <2> QED
    BY <1>1, LargestIs
<1> QED
  BY <1>2, <1>3

\* Two identifiers differ within both of them.
LEMMA DifferIs ==
    ASSUME NEW x \in Sids, NEW y \in Sids, x # y
    PROVE  /\ Mag(x, y) \in Nat /\ Mag(x, y) + 1 \in 1..Len(x) /\ Mag(x, y) + 1 \in 1..Len(y)
           /\ x[Mag(x, y) + 1] # y[Mag(x, y) + 1]
           /\ x[Mag(x, y) + 1] \in Nat /\ y[Mag(x, y) + 1] \in Nat
           /\ Cmp(x, y) \in Int \ {0}
<1> DEFINE k == Mag(x, y)
<1>1. /\ Len(x) \in Nat /\ Len(y) \in Nat /\ Len(x) > 0 /\ Len(y) > 0
      /\ \A i \in 1..Len(x) : x[i] \in Nat /\ (x[i] = 0 <=> i = Len(x))
      /\ \A i \in 1..Len(y) : y[i] \in Nat /\ (y[i] = 0 <=> i = Len(y))
  BY SidIs
<1>2. /\ k \in 0..Len(x) /\ \A j \in 1..k : x[j] = y[j]
      /\ \A l \in 0..Len(x) : (\A j \in 1..l : x[j] = y[j]) => l <= k
  BY MagIs
<1> HIDE DEF k
<1>3. k < Len(y)
  <2>1. SUFFICES ASSUME ~(k < Len(y))
                 PROVE  FALSE
    OBVIOUS
  <2>2. Len(y) \in 1..k /\ Len(y) \in 1..Len(x) /\ Len(y) \in 1..Len(y)
    BY <1>1, <1>2, <2>1
  <2>3. x[Len(y)] = 0
    BY <1>1, <1>2, <2>2
  <2>4. Len(y) = Len(x) /\ k = Len(x)
    BY <1>1, <1>2, <2>1, <2>2, <2>3
  <2>5. x = y
    BY <1>2, <2>4, SidIs, SeqEqual
  <2> QED
    BY <2>5
<1>4. k < Len(x)
  <2>1. SUFFICES ASSUME k = Len(x)
                 PROVE  FALSE
    BY <1>1, <1>2
  <2>2. k \in 1..k /\ k \in 1..Len(y) /\ k \in 1..Len(x)
    BY <1>1, <1>2, <1>3, <2>1
  <2>3. y[k] = 0
    BY <1>1, <1>2, <2>1, <2>2
  <2> QED
    BY <1>1, <1>3, <2>2, <2>3
<1>5. k \in Nat /\ k + 1 \in 1..Len(x) /\ k + 1 \in 1..Len(y)
  BY <1>1, <1>2, <1>3, <1>4
<1>6. x[k + 1] # y[k + 1]
  <2>1. SUFFICES ASSUME x[k + 1] = y[k + 1]
                 PROVE  FALSE
    OBVIOUS
  <2>2. \A j \in 1..k+1 : j \in 1..k \/ j = k + 1
    BY <1>5
  <2>3. \A j \in 1..k+1 : x[j] = y[j]
    BY <1>2, <2>1, <2>2
  <2>4. k + 1 \in 0..Len(x)
    BY <1>1, <1>5
  <2>5. k + 1 <= k
    BY <1>2, <2>3, <2>4
  <2> QED
    BY <1>5, <2>5
<1>7. x[k + 1] \in Nat /\ y[k + 1] \in Nat
  BY <1>1, <1>5
<1>8. Cmp(x, y) = x[k + 1] - y[k + 1]
  BY DEF Cmp, k
<1>9. Cmp(x, y) \in Int \ {0}
  BY <1>6, <1>7, <1>8
<1> QED
  BY <1>5, <1>6, <1>7, <1>9 DEF k

\* The common beginning ends where they first differ.
LEMMA MagFrom ==
    ASSUME NEW x \in Sids, NEW y \in Sids, NEW k \in Nat,
           k + 1 \in 1..Len(x), \A j \in 1..k : x[j] = y[j], x[k + 1] # y[k + 1]
    PROVE  Mag(x, y) = k /\ x # y /\ Cmp(x, y) = x[k + 1] - y[k + 1]
<1>1. /\ Mag(x, y) \in 0..Len(x) /\ \A j \in 1..Mag(x, y) : x[j] = y[j]
      /\ k \in 0..Len(x) => k <= Mag(x, y)
  BY MagIs
<1>2. Len(x) \in Nat
  BY SidIs
<1>3. k \in 0..Len(x)
  BY <1>2
<1>4. ~(k + 1 \in 1..Mag(x, y))
  BY <1>1
<1>5. Mag(x, y) = k
  BY <1>1, <1>2, <1>3, <1>4
<1> QED
  BY <1>5 DEF Cmp

LEMMA OtherWay ==
    ASSUME NEW x \in Sids, NEW y \in Sids, x # y
    PROVE  Cmp(y, x) < 0 <=> ~(Cmp(x, y) < 0)
<1> DEFINE k == Mag(x, y)
<1>1. /\ k \in Nat /\ k + 1 \in 1..Len(x) /\ k + 1 \in 1..Len(y) /\ x[k + 1] # y[k + 1]
      /\ x[k + 1] \in Nat /\ y[k + 1] \in Nat /\ \A j \in 1..k : x[j] = y[j]
  BY DifferIs, MagIs
<1> HIDE DEF k
<1>2. Cmp(x, y) = x[k + 1] - y[k + 1] /\ Cmp(y, x) = y[k + 1] - x[k + 1]
  BY <1>1, MagFrom, ZenonT(40)
<1> QED
  BY <1>1, <1>2

\* i is as close to sid as j is, or closer.
AsClose(x, y, sid) ==
    \/ Mag(x, sid) > Mag(y, sid)
    \/ Mag(x, sid) = Mag(y, sid) /\ Cmp(x, sid) >= Cmp(y, sid)

LEMMA AsCloseIs ==
    ASSUME NEW x \in Sids, NEW y \in Sids, NEW z \in Sids, NEW s \in Sids,
           x # s, y # s, z # s
    PROVE  /\ AsClose(x, x, s)
           /\ ~AsClose(x, y, s) /\ ~AsClose(y, z, s) => ~AsClose(x, z, s)
           /\ AsClose(x, y, s) /\ AsClose(y, z, s) => AsClose(x, z, s)
<1>1. /\ Mag(x, s) \in Int /\ Mag(y, s) \in Int /\ Mag(z, s) \in Int
      /\ Cmp(x, s) \in Int /\ Cmp(y, s) \in Int /\ Cmp(z, s) \in Int
  BY DifferIs
<1> QED
  BY <1>1 DEF AsClose

\* Of two that are smaller, the greater one is as close.
LEMMA GreaterIsAsClose ==
    ASSUME NEW x \in Sids, NEW y \in Sids, NEW s \in Sids, x # y, y # s, x # s,
           Cmp(x, y) < 0, Cmp(y, s) < 0
    PROVE  AsClose(y, x, s)
<1> DEFINE k == Mag(x, s)
           l == Mag(y, s)
<1>1. /\ k \in Nat /\ k + 1 \in 1..Len(x) /\ \A j \in 1..k : x[j] = s[j]
      /\ x[k + 1] \in Nat /\ s[k + 1] \in Nat
  BY DifferIs, MagIs
<1>2. /\ l \in Nat /\ l + 1 \in 1..Len(y) /\ \A j \in 1..l : y[j] = s[j]
      /\ y[l + 1] \in Nat /\ s[l + 1] \in Nat
  BY DifferIs, MagIs
<1>3. Cmp(x, s) = x[k + 1] - s[k + 1] /\ Cmp(y, s) = y[l + 1] - s[l + 1]
  BY DEF Cmp
<1> HIDE DEF k, l
<1>4. ~(l < k)
  <2>1. SUFFICES ASSUME l < k
                 PROVE  FALSE
    OBVIOUS
  <2>2. l + 1 \in 1..k /\ l + 1 \in 1..Len(x) /\ \A j \in 1..l : j \in 1..k
    <3>1. Len(x) \in Nat
      BY SidIs
    <3> QED
      BY <1>1, <1>2, <2>1, <3>1
  <2>3. x[l + 1] = s[l + 1] /\ y[l + 1] < s[l + 1]
    BY <1>1, <1>2, <1>3, <2>2
  <2>4. \A j \in 1..l : x[j] = y[j]
    BY <1>1, <1>2, <2>2
  <2>5. x[l + 1] # y[l + 1]
    BY <1>2, <2>3
  <2>6. Cmp(x, y) = x[l + 1] - y[l + 1]
    BY <1>2, <2>2, <2>4, <2>5, MagFrom
  <2> QED
    BY <1>2, <2>3, <2>6
<1>5. CASE k = l
  <2>1. \A j \in 1..k : x[j] = y[j]
    BY <1>1, <1>2, <1>5
  <2>2. x[k + 1] <= y[k + 1]
    <3>1. CASE x[k + 1] = y[k + 1]
      BY <1>1, <3>1
    <3>2. CASE x[k + 1] # y[k + 1]
      <4>1. Cmp(x, y) = x[k + 1] - y[k + 1]
        BY <1>1, <2>1, <3>2, MagFrom
      <4> QED
        BY <1>1, <1>2, <1>5, <4>1
    <3> QED
      BY <3>1, <3>2
  <2> QED
    BY <1>1, <1>2, <1>3, <1>5, <2>2 DEF AsClose, k, l
<1>6. CASE l > k
  BY <1>6 DEF AsClose, k, l
<1> QED
  BY <1>1, <1>2, <1>4, <1>5, <1>6

TraceId == [sid : Sids, earliest : Int, latest : Int, segs : Seq(SegmentOf)]

LEMMA TracesIs ==
    ASSUME traces \in Seq(TraceId)
    PROVE  /\ Len(traces) \in Nat /\ DOMAIN traces = 1..Len(traces)
           /\ \A i \in 1..Len(traces) :
                 /\ traces[i] \in TraceId /\ traces[i].sid \in Sids
                 /\ traces[i].earliest \in Int /\ traces[i].latest \in Int
                 /\ traces[i].segs \in Seq(SegmentOf)
<1>1. Len(traces) \in Nat /\ DOMAIN traces = 1..Len(traces)
  BY LenProperties
<1>2. \A i \in 1..Len(traces) : traces[i] \in TraceId
  BY ElementOfSeq
<1> QED
  BY <1>1, <1>2 DEF TraceId

\* Among finitely many there are some to which no other is closer: take one
\* with the fewest that are closer.
LEMMA ClosestIs ==
    ASSUME NEW sid \in Sids, traces \in Seq(TraceId), LessIds(sid) # {},
           \A i \in 1..Len(traces) : traces[i].sid # sid
    PROVE  /\ Closest(sid) \in LessIds(sid)
           /\ \A j \in LessIds(sid) : AsClose(traces[Closest(sid)].sid, traces[j].sid, sid)
           /\ \A i \in LessIds(sid) :
                (\A j \in LessIds(sid) : AsClose(traces[i].sid, traces[j].sid, sid))
                    => i <= Closest(sid)
<1> DEFINE L       == LessIds(sid)
           as(i,j) == AsClose(traces[i].sid, traces[j].sid, sid)
           U(i)    == {j \in L : ~as(i, j)}
           C       == {Cardinality(U(i)) : i \in L}
           T       == {i \in L : \A j \in L : as(i, j)}
<1>1. L \subseteq 1..Len(traces) /\ Len(traces) \in Nat
  BY TracesIs DEF LessIds
<1>2. \A i \in L : traces[i].sid \in Sids /\ traces[i].sid # sid
  BY <1>1, TracesIs
<1>3. /\ \A i \in L : as(i, i)
      /\ \A i, j, q \in L : ~as(i, j) /\ ~as(j, q) => ~as(i, q)
  BY <1>2, AsCloseIs
<1> HIDE DEF L
<1>4. IsFiniteSet(L)
  <2>1. IsFiniteSet(1..Len(traces))
    BY <1>1, FS_Interval
  <2> QED
    BY <1>1, <2>1, FS_Subset
<1>5. ASSUME NEW i \in L
      PROVE  IsFiniteSet(U(i)) /\ Cardinality(U(i)) \in Nat
  BY <1>4, FS_Subset, FS_CardinalityType
<1>6. T # {}
  <2>1. C \subseteq Nat /\ C # {}
    <3>1. L # {}
      BY DEF L
    <3> QED
      BY <1>5, <3>1
  <2>2. Min(C) \in C /\ \A c \in C : Min(C) <= c
    <3> HIDE DEF C
    <3> QED
      BY <2>1, SmallestIs
  <2>3. PICK i \in L : Min(C) = Cardinality(U(i))
    BY <2>2
  <2>4. ASSUME NEW j \in L, ~as(i, j)
        PROVE  FALSE
    <3>1. \A q \in L : ~as(j, q) => ~as(i, q)
      BY <1>3, <2>4
    <3>2. as(j, j)
      BY <1>3
    <3>3. U(j) \subseteq U(i) /\ j \in U(i) /\ j \notin U(j)
      BY <2>4, <3>1, <3>2
    <3>4. Cardinality(U(j)) < Cardinality(U(i))
      <4>1. U(j) # U(i)
        BY <3>3
      <4> HIDE DEF U
      <4>2. /\ Cardinality(U(j)) <= Cardinality(U(i))
            /\ Cardinality(U(j)) = Cardinality(U(i)) => U(j) = U(i)
        BY <1>5, <3>3, FS_Subset
      <4> QED
        BY <1>5, <4>1, <4>2
    <3>5. Cardinality(U(i)) <= Cardinality(U(j))
      <4>1. Cardinality(U(j)) \in C
        OBVIOUS
      <4> QED
        BY <2>2, <2>3, <4>1
    <3> HIDE DEF U
    <3> QED
      BY <1>5, <3>4, <3>5
  <2>5. i \in T
    BY <2>4
  <2> QED
    BY <2>5
<1>7. T \subseteq 0..Len(traces)
  <2>1. T \subseteq L
    BY Zenon
  <2> HIDE DEF T
  <2> QED
    BY <1>1, <2>1
<1>8. Closest(sid) = Max(T)
  BY Zenon DEF Closest, L, AsClose
<1>9. Max(T) \in T /\ \A i \in T : i <= Max(T)
  <2> HIDE DEF T
  <2> QED
    BY <1>1, <1>6, <1>7, LargestIs
<1> QED
  BY <1>8, <1>9 DEF L

-----------------------------------------------------------------------------
(* The trace list.                                                         *)

\* The function is called with one record after the other.
ListSpec ==
    ListInit /\ [][\E m \in Record : m.key = Len(given) + 1 /\ AddMsr(m)]_listvars

\* A record is in a segment of some ID.
Present(key) == \E i \in 1..Len(traces) : Held(traces[i].segs, key)

\* No identifier has two IDs.
OneIdEach == \A i, j \in 1..Len(traces) : traces[i].sid = traces[j].sid => i = j

\* The segments are in order, and the extent that the ID has is theirs.
Ordered ==
    \A i \in 1..Len(traces) :
        /\ InOrder(traces[i].segs, torn)
        /\ Spans(traces[i].segs, traces[i].earliest, traces[i].latest)

ListInv ==
    /\ traces \in Seq(TraceId)
    /\ \A i \in 1..Len(traces) : GoodList(traces[i].segs, given, traces[i].sid)
    /\ last \in Sids \union {<<>>} /\ (last = <<>> => traces = <<>>)
    /\ given \in Seq(Record)
    /\ torn \subseteq refused /\ refused \subseteq 1..Len(given)
    /\ \A key \in 1..Len(given) : key \in refused \ torn <=> ~Present(key)
    /\ stale = {}
    /\ IdsSorted /\ OneIdEach /\ Ordered

\* The other parts of the invariant when a segment is returned.
LEMMA StoredIs ==
    ASSUME ListInv, NEW m \in Record, m.key = Len(given) + 1, Stored(m), stale' = stale,
           traces' \in Seq(TraceId),
           \A j \in 1..Len(traces') : GoodList(traces'[j].segs, given', traces'[j].sid),
           \A key : Present(key)' <=> Present(key) \/ key = m.key,
           IdsSorted', OneIdEach', Ordered'
    PROVE  ListInv'
<1>1. given \in Seq(Record) /\ given' = Append(given, m)
  BY DEF ListInv, Stored
<1>2. given' \in Seq(Record) /\ Len(given) \in Nat /\ Len(given') = Len(given) + 1
  BY <1>1, AppendProperties, LenProperties
<1>3. last' \in Sids /\ last' # <<>>
  BY RecordIs, SidIs DEF Stored
<1>4. refused' = refused /\ torn' = torn
  BY DEF Stored
<1>5. torn \subseteq refused /\ refused \subseteq 1..Len(given)
  BY DEF ListInv
<1>6. ASSUME NEW key \in 1..Len(given')
      PROVE  key \in refused' \ torn' <=> ~Present(key)'
  <2>1. CASE key = m.key
    <3>1. key \notin refused
      BY <1>2, <1>5, <2>1
    <3> QED
      BY <1>4, <2>1, <3>1
  <2>2. CASE key # m.key
    <3>1. key \in 1..Len(given)
      BY <1>2, <2>2
    <3>2. key \in refused \ torn <=> ~Present(key)
      BY <3>1 DEF ListInv
    <3> QED
      BY <1>4, <2>2, <3>2
  <2> QED
    BY <2>1, <2>2
<1>7. refused' \subseteq 1..Len(given')
  BY <1>2, <1>4, <1>5
<1>8. stale' = {}
  BY DEF ListInv
<1> QED
  BY <1>2, <1>3, <1>4, <1>5, <1>6, <1>7, <1>8 DEF ListInv

\* One ID has changed, the others are what they were.
LEMMA OneChanged ==
    ASSUME ListInv, NEW m \in Record, m.key = Len(given) + 1, given' = Append(given, m),
           NEW i \in 1..Len(traces), traces[i].sid = m.sid,
           traces' \in Seq(TraceId), Len(traces') = Len(traces),
           \A j \in 1..Len(traces) : j # i => traces'[j] = traces[j],
           traces'[i].sid = m.sid, GoodList(traces'[i].segs, given', m.sid),
           Grown(traces[i].segs, traces'[i].segs, m), torn \subseteq torn',
           InOrder(traces'[i].segs, torn'),
           Spans(traces'[i].segs, traces'[i].earliest, traces'[i].latest)
    PROVE  /\ \A j \in 1..Len(traces') : GoodList(traces'[j].segs, given', traces'[j].sid)
           /\ \A key : Present(key)' <=> Present(key) \/ key = m.key
           /\ IdsSorted' /\ OneIdEach' /\ Ordered'
<1>0. traces \in Seq(TraceId) /\ given \in Seq(Record)
  BY DEF ListInv
<1>2. Handed(m, given, given')
  BY <1>0 DEF Handed
<1>3. ASSUME NEW j \in 1..Len(traces)
      PROVE  GoodList(traces'[j].segs, given', traces'[j].sid)
  <2>1. GoodList(traces[j].segs, given', traces[j].sid)
    BY <1>2, ListLater DEF ListInv
  <2>2. CASE j = i
    BY <2>2
  <2>3. CASE j # i
    <3>1. traces'[j] = traces[j]
      BY <2>3
    <3> QED
      BY <2>1, <3>1
  <2> QED
    BY <2>2, <2>3
<1>4. ASSUME NEW key
      PROVE  Present(key)' <=> Present(key) \/ key = m.key
  <2>1. Present(key)' <=> \E j \in 1..Len(traces) : Held(traces'[j].segs, key)
    BY DEF Present
  <2>2. Present(key) <=> \E j \in 1..Len(traces) : Held(traces[j].segs, key)
    BY DEF Present
  <2>3. Held(traces'[i].segs, key) <=> Held(traces[i].segs, key) \/ key = m.key
    BY DEF Grown
  <2> QED
    BY <2>1, <2>2, <2>3
<1>5. IdsSorted'
  <2>1. \A j \in 1..Len(traces) : traces'[j].sid = traces[j].sid
    OBVIOUS
  <2>2. \A j \in 2..Len(traces) : j \in 1..Len(traces) /\ j - 1 \in 1..Len(traces)
    BY <1>0, TracesIs
  <2>3. \A j \in 2..Len(traces) : Cmp(traces[j-1].sid, traces[j].sid) < 0
    BY DEF ListInv, IdsSorted
  <2>4. \A j \in 2..Len(traces') : Cmp(traces'[j-1].sid, traces'[j].sid) < 0
    BY <2>1, <2>2, <2>3
  <2> QED
    BY <2>4 DEF IdsSorted, Cmp, Mag
<1>6. OneIdEach'
  <2>1. \A j \in 1..Len(traces) : traces'[j].sid = traces[j].sid
    OBVIOUS
  <2>2. \A j, k \in 1..Len(traces) : traces[j].sid = traces[k].sid => j = k
    BY DEF ListInv, OneIdEach
  <2>3. \A j, k \in 1..Len(traces') : traces'[j].sid = traces'[k].sid => j = k
    BY <2>1, <2>2
  <2> QED
    BY <2>3 DEF OneIdEach
<1>7. Ordered'
  <2>1. ASSUME NEW j \in 1..Len(traces)
        PROVE  /\ InOrder(traces'[j].segs, torn')
               /\ Spans(traces'[j].segs, traces'[j].earliest, traces'[j].latest)
    <3>1. CASE j = i
      BY <3>1
    <3>2. CASE j # i
      <4>1. traces'[j] = traces[j] /\ traces[j].segs \in Seq(SegmentOf)
        BY <1>0, <3>2, TracesIs
      <4>2. /\ InOrder(traces[j].segs, torn)
            /\ Spans(traces[j].segs, traces[j].earliest, traces[j].latest)
        BY DEF ListInv, Ordered
      <4>3. InOrder(traces[j].segs, torn')
        BY <4>1, <4>2, OrderLater
      <4> QED
        BY <4>1, <4>2, <4>3
    <3> QED
      BY <3>1, <3>2
  <2>2. \A j \in 1..Len(traces') : /\ InOrder(traces'[j].segs, torn')
                                  /\ Spans(traces'[j].segs, traces'[j].earliest, traces'[j].latest)
    BY <2>1
  <2> QED
    BY <2>2 DEF Ordered
<1> QED
  BY <1>3, <1>4, <1>5, <1>6, <1>7

\* The ID that the record belongs to.
LEMMA IndexIs ==
    ASSUME ListInv, NEW m \in Record, Known(m.sid)
    PROVE  /\ Index(m) \in 1..Len(traces) /\ traces[Index(m)].sid = m.sid
           /\ Segs(m) = traces[Index(m)].segs /\ GoodList(Segs(m), given, m.sid)
           /\ Id(m) = traces[Index(m)] /\ Id(m).latest \in Int /\ Id(m).earliest \in Int
<1>1. Index(m) \in At(m.sid)
  BY Zenon DEF Index, Known
<1>2. Index(m) \in DOMAIN traces /\ traces[Index(m)].sid = m.sid
  BY <1>1 DEF At
<1>3. Index(m) \in 1..Len(traces)
  BY <1>2, TracesIs DEF ListInv
<1>4. Id(m) = traces[Index(m)] /\ Segs(m) = traces[Index(m)].segs
  BY DEF Id, Segs
<1>5. GoodList(traces[Index(m)].segs, given, traces[Index(m)].sid)
  BY <1>3 DEF ListInv
<1>6. traces[Index(m)].latest \in Int /\ traces[Index(m)].earliest \in Int
  BY <1>3, TracesIs DEF ListInv
<1> QED
  BY <1>2, <1>3, <1>4, <1>5, <1>6

\* The fields of one ID are set.
FieldsSet(g, f, i, S, e, l) ==
    g = [f EXCEPT ![i].segs = S, ![i].earliest = e, ![i].latest = l]

LEMMA FieldSet ==
    ASSUME NEW f \in Seq(TraceId), NEW i \in 1..Len(f), NEW S \in Seq(SegmentOf),
           NEW e \in Int, NEW l \in Int,
           NEW g, FieldsSet(g, f, i, S, e, l)
    PROVE  /\ g \in Seq(TraceId) /\ Len(g) = Len(f)
           /\ \A j \in 1..Len(f) : j # i => g[j] = f[j]
           /\ g[i].sid = f[i].sid /\ g[i].segs = S /\ g[i].earliest = e /\ g[i].latest = l
<1> DEFINE t1 == [f[i] EXCEPT !.segs = S]
           f1 == [f EXCEPT ![i] = t1]
           t2 == [f1[i] EXCEPT !.earliest = e]
           f2 == [f1 EXCEPT ![i] = t2]
           t3 == [f2[i] EXCEPT !.latest = l]
           f3 == [f2 EXCEPT ![i] = t3]
<1>1. f[i] \in TraceId /\ \A r \in TraceId :
         /\ [r EXCEPT !.segs = S] \in TraceId /\ [r EXCEPT !.segs = S].sid = r.sid
         /\ [r EXCEPT !.segs = S].segs = S
         /\ [r EXCEPT !.earliest = e] \in TraceId /\ [r EXCEPT !.earliest = e].sid = r.sid
         /\ [r EXCEPT !.earliest = e].segs = r.segs /\ [r EXCEPT !.earliest = e].earliest = e
         /\ [r EXCEPT !.latest = l] \in TraceId /\ [r EXCEPT !.latest = l].sid = r.sid
         /\ [r EXCEPT !.latest = l].segs = r.segs /\ [r EXCEPT !.latest = l].latest = l
         /\ [r EXCEPT !.latest = l].earliest = r.earliest
  BY ElementOfSeq DEF TraceId
<1>2. t1 \in TraceId /\ t1.sid = f[i].sid /\ t1.segs = S
  BY <1>1
<1> HIDE DEF t1
<1>3. f1 \in Seq(TraceId) /\ Len(f1) = Len(f) /\ \A j \in 1..Len(f) : f1[j] = IF j = i THEN t1 ELSE f[j]
  BY <1>2, ExceptSeq
<1> HIDE DEF f1
<1>4. t2 \in TraceId /\ t2.sid = f[i].sid /\ t2.segs = S /\ t2.earliest = e
  BY <1>1, <1>2, <1>3, ZenonT(40)
<1> HIDE DEF t2
<1>5. f2 \in Seq(TraceId) /\ Len(f2) = Len(f) /\ \A j \in 1..Len(f) : f2[j] = IF j = i THEN t2 ELSE f1[j]
  <2>1. i \in 1..Len(f1)
    BY <1>3
  <2>2. f2 \in Seq(TraceId) /\ Len(f2) = Len(f1) /\ \A j \in 1..Len(f1) : f2[j] = IF j = i THEN t2 ELSE f1[j]
    BY <1>3, <1>4, <2>1, ExceptSeq
  <2> QED
    BY <1>3, <2>2
<1> HIDE DEF f2
<1>6. /\ t3 \in TraceId /\ t3.sid = f[i].sid /\ t3.segs = S
      /\ t3.earliest = e /\ t3.latest = l
  BY <1>1, <1>4, <1>5, ZenonT(40)
<1> HIDE DEF t3
<1>7. f3 \in Seq(TraceId) /\ Len(f3) = Len(f) /\ \A j \in 1..Len(f) : f3[j] = IF j = i THEN t3 ELSE f2[j]
  <2>1. i \in 1..Len(f2)
    BY <1>5
  <2>2. f3 \in Seq(TraceId) /\ Len(f3) = Len(f2) /\ \A j \in 1..Len(f2) : f3[j] = IF j = i THEN t3 ELSE f2[j]
    BY <1>5, <1>6, <2>1, ExceptSeq
  <2> QED
    BY <1>5, <2>2
<1>8. g = f3
  <2>1. g = [f EXCEPT ![i].segs = S, ![i].earliest = e, ![i].latest = l]
    BY DEF FieldsSet
  <2> QED
    BY <2>1, Zenon DEF f1, f2, t1, t2, t3
<1> HIDE DEF f3
<1> QED
  BY <1>3, <1>5, <1>6, <1>7, <1>8

LEMMA ChangedIs ==
    ASSUME ListInv, NEW m \in Record, m.key = Len(given) + 1, Known(m.sid),
           NEW S, NEW k \in 1..Len(S), GoodList(S, Append(given, m), m.sid), Grown(Segs(m), S, m),
           Thinned(RemoveAt(S, k), Segs(m)), Extended(S, Segs(m), m),
           Changed(m, S, k), stale' = stale
    PROVE  ListInv'
<1> DEFINE i == Index(m)
           e == IF m.start < Id(m).earliest THEN m.start ELSE Id(m).earliest
           l == IF EndOf(m) > Id(m).latest THEN EndOf(m) ELSE Id(m).latest
           T == Settled(S, k)
<1>1. Stored(m) /\ given' = Append(given, m) /\ traces \in Seq(TraceId)
  BY DEF Changed, Stored, ListInv
<1>2. /\ i \in 1..Len(traces) /\ traces[i].sid = m.sid /\ Segs(m) = traces[i].segs
      /\ Id(m) = traces[i] /\ Id(m).latest \in Int /\ Id(m).earliest \in Int
  BY IndexIs
<1>3. e \in Int /\ l \in Int
  BY <1>2, RecordIs
<1>4. T \in Seq(SegmentOf) /\ Rearranged(T, S)
  BY SettledIs DEF GoodList
<1>11. /\ InOrder(Segs(m), torn) /\ Spans(Segs(m), Id(m).earliest, Id(m).latest)
       /\ S \in Seq(SegmentOf)
  BY <1>2 DEF ListInv, Ordered, GoodList
<1>12. InOrder(T, torn)
  <2>1. InOrder(RemoveAt(S, k), torn)
    BY <1>11, ThinnedOrder
  <2> QED
    BY <1>11, <2>1, SettledOrder
<1>13. Spans(S, e, l)
  BY <1>2, <1>11 DEF Extended
<1> HIDE DEF e, l
<1>14. Spans(T, e, l)
  BY <1>4, <1>11, <1>13, SpansRearranged
<1> HIDE DEF T
<1>5. GoodList(T, given', m.sid) /\ \A key : Held(T, key) <=> Held(S, key)
  BY <1>1, <1>4, ListRearranged
<1>6. traces' = [traces EXCEPT ![i].segs = T, ![i].earliest = e, ![i].latest = l]
  BY <1>2, Zenon DEF Changed, T, Id, e, l
<1> HIDE DEF i, e, l
<1>7. /\ traces' \in Seq(TraceId) /\ Len(traces') = Len(traces)
      /\ \A j \in 1..Len(traces) : j # i => traces'[j] = traces[j]
      /\ traces'[i].sid = traces[i].sid /\ traces'[i].segs = T
      /\ traces'[i].earliest = e /\ traces'[i].latest = l
  <2>1. FieldsSet(traces', traces, i, T, e, l)
    BY <1>6, Zenon DEF FieldsSet
  <2>2. /\ traces \in Seq(TraceId) /\ i \in 1..Len(traces) /\ T \in Seq(SegmentOf)
        /\ e \in Int /\ l \in Int
    BY <1>1, <1>2, <1>3, <1>4
  <2> QED
    BY <2>1, <2>2, FieldSet
<1>8. Grown(traces[i].segs, traces'[i].segs, m)
  BY <1>2, <1>5, <1>7 DEF Grown
<1>9. traces'[i].sid = m.sid /\ GoodList(traces'[i].segs, given', m.sid)
  BY <1>2, <1>5, <1>7
<1>10. /\ \A j \in 1..Len(traces') : GoodList(traces'[j].segs, given', traces'[j].sid)
       /\ \A key : Present(key)' <=> Present(key) \/ key = m.key
       /\ IdsSorted' /\ OneIdEach' /\ Ordered'
  <2>1. /\ InOrder(traces'[i].segs, torn') /\ torn \subseteq torn'
        /\ Spans(traces'[i].segs, traces'[i].earliest, traces'[i].latest)
    BY <1>1, <1>7, <1>12, <1>14 DEF Stored
  <2> QED
    BY <1>1, <1>2, <1>7, <1>8, <1>9, <2>1, OneChanged
<1> QED
  BY <1>1, <1>7, <1>10, StoredIs

\* A new ID is put in at its place.
LEMMA PlaceIs ==
    ASSUME ListInv, NEW sid \in Sids, ~Known(sid),
           NEW c, c = IF LessIds(sid) = {} THEN 1 ELSE Closest(sid) + 1
    PROVE  /\ c \in 1..Len(traces)+1 /\ \A i \in 1..Len(traces) : traces[i].sid # sid
           /\ c > 1 => Cmp(traces[c-1].sid, sid) < 0
           /\ c <= Len(traces) => Cmp(sid, traces[c].sid) < 0
<1>1. /\ traces \in Seq(TraceId) /\ Len(traces) \in Nat /\ DOMAIN traces = 1..Len(traces)
      /\ \A i \in 1..Len(traces) : traces[i].sid \in Sids
  BY TracesIs DEF ListInv
<1>2. ASSUME NEW i \in 1..Len(traces)
      PROVE  traces[i].sid # sid /\ last # <<>>
  <2>1. last # <<>>
    <3>1. SUFFICES ASSUME last = <<>>
                   PROVE  FALSE
      OBVIOUS
    <3>2. traces = <<>>
      BY <3>1 DEF ListInv
    <3> QED
      BY <1>1, <3>2, EmptySeq
  <2>2. i \notin At(sid)
    BY DEF Known
  <2> QED
    BY <1>1, <2>1, <2>2 DEF At
<1>3. \A i \in 1..Len(traces) : i \in LessIds(sid) <=> Cmp(traces[i].sid, sid) < 0
  BY <1>1, <1>2 DEF LessIds
<1>4. LessIds(sid) \subseteq 1..Len(traces)
  BY <1>1 DEF LessIds
<1>5. ASSUME NEW i \in 1..Len(traces), i \notin LessIds(sid)
      PROVE  Cmp(sid, traces[i].sid) < 0
  <2>1. traces[i].sid \in Sids /\ traces[i].sid # sid /\ ~(Cmp(traces[i].sid, sid) < 0)
    BY <1>1, <1>2, <1>3, <1>5
  <2> QED
    BY <2>1, OtherWay
<1>6. CASE LessIds(sid) = {}
  <2>1. c = 1
    BY <1>6
  <2> QED
    BY <1>1, <1>2, <1>5, <1>6, <2>1
<1>7. CASE LessIds(sid) # {}
  <2> DEFINE p == Closest(sid)
  <2>1. /\ p \in LessIds(sid)
        /\ \A j \in LessIds(sid) : AsClose(traces[p].sid, traces[j].sid, sid)
        /\ \A i \in LessIds(sid) :
             (\A j \in LessIds(sid) : AsClose(traces[i].sid, traces[j].sid, sid)) => i <= p
    BY <1>1, <1>2, <1>7, ClosestIs
  <2> HIDE DEF p
  <2>2. c = p + 1
    BY <1>7 DEF p
  <2>3. p \in 1..Len(traces) /\ Cmp(traces[p].sid, sid) < 0
    BY <1>3, <1>4, <2>1
  <2>4. c \in 1..Len(traces)+1 /\ c - 1 = p
    BY <1>1, <2>2, <2>3
  <2>5. ASSUME c <= Len(traces)
        PROVE  Cmp(sid, traces[c].sid) < 0
    <3>1. c \in 1..Len(traces) /\ c \in 2..Len(traces)
      BY <1>1, <2>2, <2>3, <2>5
    <3>2. SUFFICES ASSUME c \in LessIds(sid)
                   PROVE  FALSE
      BY <1>5, <3>1
    <3> DEFINE x == traces[p].sid
               y == traces[c].sid
    <3>3. Cmp(x, y) < 0
      BY <2>4, <3>1 DEF ListInv, IdsSorted
    <3>4. x \in Sids /\ y \in Sids /\ x # sid /\ y # sid /\ Cmp(y, sid) < 0
      BY <1>1, <1>2, <1>3, <2>3, <3>1, <3>2
    <3>5. x # y
      BY <2>2, <2>3, <3>1 DEF ListInv, OneIdEach
    <3>6. AsClose(y, x, sid)
      BY <3>3, <3>4, <3>5, GreaterIsAsClose
    <3>7. ASSUME NEW j \in LessIds(sid)
          PROVE  AsClose(y, traces[j].sid, sid)
      <4>1. AsClose(x, traces[j].sid, sid) /\ traces[j].sid \in Sids /\ traces[j].sid # sid
        BY <1>1, <1>2, <1>4, <2>1
      <4> QED
        BY <3>4, <3>6, <4>1, AsCloseIs
    <3>8. c <= p
      BY <2>1, <3>2, <3>7
    <3> QED
      BY <2>2, <2>3, <3>8
  <2> QED
    BY <1>2, <2>3, <2>4, <2>5
<1> QED
  BY <1>6, <1>7

LEMMA OneSegmentIs ==
    ASSUME NEW m, NEW g, NEW h, Handed(m, g, h), NEW S, S = <<NewSegment(m)>>
    PROVE  /\ GoodList(S, h, m.sid)
           /\ \A key : Held(S, key) <=> key = m.key
<1> DEFINE e == NewSegment(m)
<1>1. Good(e, h, m.sid) /\ Once(e) /\ (\A key : In(e, key) <=> key = m.key) /\ e \in SegmentOf
  BY NewIs DEF Good
<1> HIDE DEF e
<1>2. S = <<e>>
  BY DEF e
<1>3. S \in Seq(SegmentOf) /\ S # <<>> /\ Len(S) = 1 /\ S[1] = e
  BY <1>1, <1>2
<1> QED
  BY <1>1, <1>3 DEF GoodList, Apart, Held

LEMMA IdAdded ==
    ASSUME ListInv, NEW m \in Record, m.key = Len(given) + 1, AddId(m)
    PROVE  ListInv'
<1> DEFINE S  == <<NewSegment(m)>>
           id == [sid |-> m.sid, earliest |-> m.start, latest |-> EndOf(m), segs |-> S]
           c  == IF LessIds(m.sid) = {} THEN 1 ELSE Closest(m.sid) + 1
           n  == Len(traces)
<1>1. /\ Stored(m) /\ given' = Append(given, m) /\ stale' = stale /\ ~Known(m.sid)
      /\ traces \in Seq(TraceId) /\ given \in Seq(Record) /\ Handed(m, given, given')
  BY DEF AddId, Stored, ListInv, Handed
<1>2. traces' = InsertAt(traces, c, id)
  BY DEF AddId
<1>3. GoodList(S, given', m.sid) /\ \A key : Held(S, key) <=> key = m.key
  BY <1>1, OneSegmentIs
<1>4. id \in TraceId /\ id.sid = m.sid /\ id.segs = S
  BY <1>3, RecordIs DEF TraceId, GoodList
<1> HIDE DEF id, c, S
<1>5. /\ c \in 1..Len(traces)+1 /\ \A i \in 1..Len(traces) : traces[i].sid # m.sid
      /\ c > 1 => Cmp(traces[c-1].sid, m.sid) < 0
      /\ c <= Len(traces) => Cmp(m.sid, traces[c].sid) < 0
  BY <1>1, RecordIs, PlaceIs DEF c
<1>6. /\ traces' \in Seq(TraceId) /\ Len(traces') = n + 1
      /\ \A x \in 1..n+1 :
            traces'[x] = IF x < c THEN traces[x] ELSE IF x = c THEN id ELSE traces[x-1]
  <2> HIDE DEF n
  <2>1. traces \in Seq(TraceId) /\ id \in TraceId /\ c \in 1..Len(traces)+1
    BY <1>1, <1>4, <1>5
  <2> DEFINE T == InsertAt(traces, c, id)
  <2>2. /\ T \in Seq(TraceId) /\ Len(T) = Len(traces) + 1
        /\ \A x \in 1..Len(traces)+1 :
             T[x] = IF x < c THEN traces[x] ELSE IF x = c THEN id ELSE traces[x-1]
    BY <2>1, InsertedIs
  <2> HIDE DEF T
  <2>3. traces' = T
    BY <1>2 DEF T
  <2> QED
    BY <2>2, <2>3 DEF n
<1>7. /\ n \in Nat /\ c \in 1..n+1
      /\ \A j \in 1..n : GoodList(traces[j].segs, given', traces[j].sid) /\ traces[j].sid # m.sid
  BY <1>1, <1>5, TracesIs, ListLater DEF ListInv
<1> HIDE DEF n
<1>8. ASSUME NEW x \in 1..n+1
      PROVE  \/ x < c /\ x \in 1..n /\ traces'[x] = traces[x]
             \/ x = c /\ traces'[x] = id
             \/ x > c /\ x - 1 \in 1..n /\ traces'[x] = traces[x-1]
  BY <1>6, <1>7
<1>9. \A x \in 1..Len(traces') : GoodList(traces'[x].segs, given', traces'[x].sid)
  BY <1>3, <1>4, <1>6, <1>7, <1>8
<1>10. ASSUME NEW key
       PROVE  Present(key)' <=> Present(key) \/ key = m.key
  <2>1. Present(key)' <=> \E x \in 1..n+1 : Held(traces'[x].segs, key)
    BY <1>6 DEF Present
  <2>2. Present(key) <=> \E x \in 1..n : Held(traces[x].segs, key)
    BY DEF Present, n
  <2>3. ASSUME NEW x \in 1..n, Held(traces[x].segs, key)
        PROVE  \E y \in 1..n+1 : Held(traces'[y].segs, key)
    <3>1. CASE x < c
      <4>1. x \in 1..n+1 /\ traces'[x] = traces[x]
        BY <1>6, <1>7, <3>1
      <4> QED
        BY <2>3, <4>1
    <3>2. CASE ~(x < c)
      <4>1. x + 1 \in 1..n+1 /\ ~(x + 1 < c) /\ x + 1 # c /\ (x + 1) - 1 = x
        BY <1>7, <3>2
      <4>2. traces'[x + 1] = traces[x]
        BY <1>6, <4>1
      <4> QED
        BY <2>3, <4>1, <4>2
    <3> QED
      BY <3>1, <3>2
  <2>4. traces'[c].segs = S
    BY <1>4, <1>7, <1>8
  <2> QED
    BY <1>3, <1>4, <1>7, <1>8, <2>1, <2>2, <2>3, <2>4
<1>11. OneIdEach'
  <2>1. \A x, y \in 1..n : traces[x].sid = traces[y].sid => x = y
    BY DEF ListInv, OneIdEach, n
  <2>2. ASSUME NEW x \in 1..n+1, NEW y \in 1..n+1, traces'[x].sid = traces'[y].sid
        PROVE  x = y
    <3>1. CASE x = c \/ y = c
      BY <1>4, <1>7, <1>8, <2>2, <3>1
    <3>2. CASE x # c /\ y # c
      <4> DEFINE j == IF x < c THEN x ELSE x - 1
                 k == IF y < c THEN y ELSE y - 1
      <4>1. j \in 1..n /\ traces'[x] = traces[j]
        BY <1>7, <1>8, <3>2
      <4>2. k \in 1..n /\ traces'[y] = traces[k]
        BY <1>7, <1>8, <3>2
      <4>3. j = k
        <5> HIDE DEF j, k
        <5> QED
          BY <2>1, <2>2, <4>1, <4>2
      <4> QED
        BY <1>7, <3>2, <4>3
    <3> QED
      BY <3>1, <3>2
  <2>3. \A x, y \in 1..Len(traces') : traces'[x].sid = traces'[y].sid => x = y
    BY <1>6, <2>2
  <2> QED
    BY <2>3 DEF OneIdEach
<1>12. IdsSorted'
  <2>1. \A i \in 2..n : Cmp(traces[i-1].sid, traces[i].sid) < 0
    BY DEF ListInv, IdsSorted, n
  <2>2. ASSUME NEW x \in 2..n+1
        PROVE  Cmp(traces'[x-1].sid, traces'[x].sid) < 0
    <3>1. x \in 1..n+1 /\ x - 1 \in 1..n+1
      BY <1>7
    <3>2. CASE x < c
      <4>1. x \in 2..n /\ traces'[x] = traces[x] /\ traces'[x-1] = traces[x-1]
        BY <1>6, <1>7, <3>1, <3>2
      <4> QED
        BY <2>1, <4>1
    <3>3. CASE x = c
      <4>1. traces'[x] = id /\ traces'[x-1] = traces[c-1] /\ c > 1
        BY <1>6, <1>7, <3>1, <3>3
      <4> QED
        BY <1>4, <1>5, <4>1
    <3>4. CASE x = c + 1
      <4>1. traces'[x] = traces[c] /\ traces'[x-1] = id /\ c <= n
        BY <1>6, <1>7, <3>1, <3>4
      <4> QED
        BY <1>4, <1>5, <4>1 DEF n
    <3>5. CASE x > c + 1
      <4>1. x - 1 \in 2..n /\ (x - 1) - 1 = x - 2 /\ ~(x - 1 < c) /\ x - 1 # c
        BY <1>7, <3>5
      <4>2. traces'[x] = traces[x-1] /\ traces'[x-1] = traces[(x-1)-1]
        BY <1>6, <1>7, <3>1, <3>5, <4>1
      <4> QED
        BY <2>1, <4>1, <4>2
    <3> QED
      BY <1>7, <3>2, <3>3, <3>4, <3>5
  <2>3. \A x \in 2..Len(traces') : Cmp(traces'[x-1].sid, traces'[x].sid) < 0
    BY <1>6, <2>2
  <2> QED
    BY <2>3 DEF IdsSorted, Cmp, Mag
<1>13. Ordered'
  <2>1. InOrder(S, torn) /\ Spans(S, m.start, EndOf(m))
    <3> DEFINE e == NewSegment(m)
    <3>1. e.start = m.start /\ e.end = EndOf(m)
      BY DEF NewSegment
    <3> HIDE DEF e
    <3>2. S = <<e>>
      BY DEF S, e
    <3>3. Len(S) = 1 /\ S[1] = e
      BY <3>2
    <3>4. m.start \in Int /\ EndOf(m) \in Int
      BY RecordIs
    <3> QED
      BY <3>1, <3>3, <3>4 DEF InOrder, Spans
  <2>2. torn' = torn
    BY <1>1 DEF Stored
  <2>3. \A j \in 1..n : /\ InOrder(traces[j].segs, torn)
                      /\ Spans(traces[j].segs, traces[j].earliest, traces[j].latest)
    BY DEF ListInv, Ordered, n
  <2>4. id.earliest = m.start /\ id.latest = EndOf(m)
    BY DEF id
  <2>5. \A x \in 1..n+1 : /\ InOrder(traces'[x].segs, torn')
                        /\ Spans(traces'[x].segs, traces'[x].earliest, traces'[x].latest)
    BY <1>4, <1>8, <2>1, <2>2, <2>3, <2>4
  <2>6. \A x \in 1..Len(traces') : /\ InOrder(traces'[x].segs, torn')
                                  /\ Spans(traces'[x].segs, traces'[x].earliest, traces'[x].latest)
    BY <1>6, <2>5
  <2> QED
    BY <2>6 DEF Ordered
<1> QED
  BY <1>1, <1>6, <1>9, <1>10, <1>11, <1>12, <1>13, StoredIs

-----------------------------------------------------------------------------
(* The scenarios of a record whose identifier has an ID.                   *)

LEMMA SegsAre ==
    ASSUME ListInv, NEW m \in Record, m.key = Len(given) + 1, Known(m.sid)
    PROVE  /\ Handed(m, given, Append(given, m)) /\ GoodList(Segs(m), given, m.sid)
           /\ Len(Segs(m)) \in Nat \ {0} /\ DOMAIN Segs(m) = 1..Len(Segs(m))
           /\ Segs(m) \in Seq(SegmentOf)
           /\ \A k \in 1..Len(Segs(m)) :
                 /\ Segs(m)[k] \in SegmentOf /\ Good(Segs(m)[k], given, m.sid)
                 /\ Once(Segs(m)[k])
<1>1. GoodList(Segs(m), given, m.sid)
  BY IndexIs
<1>2. Handed(m, given, Append(given, m))
  BY DEF ListInv, Handed
<1> QED
  BY <1>1, <1>2, ListIs DEF GoodList

LEMMA EndJoined ==
    ASSUME ListInv, NEW m \in Record, m.key = Len(given) + 1, Known(m.sid),
           NEW k \in 1..Len(Segs(m)), FitsAfter(m, Segs(m)[k]), RateFits(m, Segs(m)[k]),
           TypeFits(m.type, m.n, Segs(m)[k]),
           NEW S, S = [Segs(m) EXCEPT ![k] = AddedToEnd(m, Segs(m)[k])]
    PROVE  /\ GoodList(S, Append(given, m), m.sid) /\ Grown(Segs(m), S, m)
           /\ Len(S) = Len(Segs(m))
           /\ Thinned(RemoveAt(S, k), Segs(m)) /\ Extended(S, Segs(m), m)
<1> DEFINE h == Append(given, m)
           s == Segs(m)[k]
           t == AddedToEnd(m, s)
<1>1. Handed(m, given, h) /\ GoodList(Segs(m), given, m.sid) /\ Good(s, given, m.sid) /\ Once(s)
  BY SegsAre
<1>2. /\ Good(t, h, m.sid) /\ Once(t)
      /\ \A key : In(t, key) <=> In(s, key) \/ key = m.key
  BY <1>1, ToEndIs
<1> HIDE DEF h, t
<1>3. S = [Segs(m) EXCEPT ![k] = t]
  BY DEF t
<1>4. /\ GoodList([Segs(m) EXCEPT ![k] = t], h, m.sid) /\ Grown(Segs(m), [Segs(m) EXCEPT ![k] = t], m)
      /\ Len([Segs(m) EXCEPT ![k] = t]) = Len(Segs(m))
  <2> DEFINE R == Segs(m)
             u == m.sid
  <2>1. /\ Handed(m, given, h) /\ GoodList(R, given, u) /\ k \in 1..Len(R)
        /\ Good(t, h, u) /\ Once(t)
        /\ \A key : In(t, key) <=> In(R[k], key) \/ key = m.key
    BY <1>1, <1>2
  <2> HIDE DEF R, u
  <2>2. /\ GoodList([R EXCEPT ![k] = t], h, u) /\ Grown(R, [R EXCEPT ![k] = t], m)
        /\ Len([R EXCEPT ![k] = t]) = Len(R)
    BY <2>1, ListReplaced
  <2> QED
    BY <2>2 DEF R, u
<1>6. /\ s \in SegmentOf /\ s.end < m.start /\ s.start <= s.end
      /\ t \in SegmentOf /\ t.start = s.start /\ t.end = EndOf(m)
  <2>1. s \in SegmentOf /\ t \in SegmentOf /\ s.start <= s.end
    BY <1>1, <1>2 DEF Good
  <2>2. s.end < m.start
    BY <2>1, FitsIs
  <2>3. t.start = s.start /\ t.end = EndOf(m)
    BY <2>1 DEF t, AddedToEnd, SegmentOf
  <2> QED
    BY <2>1, <2>2, <2>3, SMTT(30)
<1>7. /\ Thinned(RemoveAt([Segs(m) EXCEPT ![k] = t], k), Segs(m))
      /\ Extended([Segs(m) EXCEPT ![k] = t], Segs(m), m)
  <2> DEFINE R == Segs(m)
  <2>1. R \in Seq(SegmentOf) /\ s = R[k] /\ k \in 1..Len(R)
    BY <1>1 DEF GoodList
  <2> HIDE DEF R, s, t
  <2>2. /\ Thinned(RemoveAt([R EXCEPT ![k] = t], k), R)
        /\ Extended([R EXCEPT ![k] = t], R, m)
    BY <1>6, <2>1, ReplacedAtEnd
  <2> QED
    BY <2>2 DEF R
<1> QED
  BY <1>3, <1>4, <1>7, Zenon DEF h

LEMMA StartJoined ==
    ASSUME ListInv, NEW m \in Record, m.key = Len(given) + 1, Known(m.sid),
           NEW k \in 1..Len(Segs(m)), FitsBefore(m, Segs(m)[k]), RateFits(m, Segs(m)[k]),
           TypeFits(m.type, m.n, Segs(m)[k]),
           NEW S, S = [Segs(m) EXCEPT ![k] = AddedToStart(m, Segs(m)[k])]
    PROVE  /\ GoodList(S, Append(given, m), m.sid) /\ Grown(Segs(m), S, m)
           /\ Len(S) = Len(Segs(m))
           /\ Thinned(RemoveAt(S, k), Segs(m)) /\ Extended(S, Segs(m), m)
<1> DEFINE h == Append(given, m)
           s == Segs(m)[k]
           t == AddedToStart(m, s)
<1>1. Handed(m, given, h) /\ GoodList(Segs(m), given, m.sid) /\ Good(s, given, m.sid) /\ Once(s)
  BY SegsAre
<1>2. /\ Good(t, h, m.sid) /\ Once(t)
      /\ \A key : In(t, key) <=> In(s, key) \/ key = m.key
  BY <1>1, ToStartIs
<1> HIDE DEF h, t
<1>3. S = [Segs(m) EXCEPT ![k] = t]
  BY DEF t
<1>4. /\ GoodList([Segs(m) EXCEPT ![k] = t], h, m.sid) /\ Grown(Segs(m), [Segs(m) EXCEPT ![k] = t], m)
      /\ Len([Segs(m) EXCEPT ![k] = t]) = Len(Segs(m))
  <2> DEFINE R == Segs(m)
             u == m.sid
  <2>1. /\ Handed(m, given, h) /\ GoodList(R, given, u) /\ k \in 1..Len(R)
        /\ Good(t, h, u) /\ Once(t)
        /\ \A key : In(t, key) <=> In(R[k], key) \/ key = m.key
    BY <1>1, <1>2
  <2> HIDE DEF R, u
  <2>2. /\ GoodList([R EXCEPT ![k] = t], h, u) /\ Grown(R, [R EXCEPT ![k] = t], m)
        /\ Len([R EXCEPT ![k] = t]) = Len(R)
    BY <2>1, ListReplaced
  <2> QED
    BY <2>2 DEF R, u
<1>6. /\ s \in SegmentOf /\ EndOf(m) < s.start /\ s.start <= s.end
      /\ t \in SegmentOf /\ t.start = m.start /\ t.end = s.end
  <2>1. s \in SegmentOf /\ t \in SegmentOf /\ s.start <= s.end
    BY <1>1, <1>2 DEF Good
  <2>2. EndOf(m) < s.start
    BY <2>1, FitsIs
  <2>3. t.start = m.start /\ t.end = s.end
    BY <2>1 DEF t, AddedToStart, SegmentOf
  <2> QED
    BY <2>1, <2>2, <2>3
<1>7. /\ Thinned(RemoveAt([Segs(m) EXCEPT ![k] = t], k), Segs(m))
      /\ Extended([Segs(m) EXCEPT ![k] = t], Segs(m), m)
  <2> DEFINE R == Segs(m)
  <2>1. R \in Seq(SegmentOf) /\ s = R[k] /\ k \in 1..Len(R)
    BY <1>1 DEF GoodList
  <2> HIDE DEF R, s, t
  <2>2. /\ Thinned(RemoveAt([R EXCEPT ![k] = t], k), R)
        /\ Extended([R EXCEPT ![k] = t], R, m)
    BY <1>6, <2>1, ReplacedAtStart
  <2> QED
    BY <2>2 DEF R
<1> QED
  BY <1>3, <1>4, <1>7, Zenon DEF h

\* A segment of its own for the record, at c.
LEMMA SegmentAdded ==
    ASSUME ListInv, NEW m \in Record, m.key = Len(given) + 1, Known(m.sid),
           NEW c \in 1..Len(Segs(m))+1,
           NEW S \in Seq(SegmentOf), Len(S) = Len(Segs(m)) + 1,
           \A x \in 1..Len(Segs(m))+1 :
              S[x] = IF x < c THEN Segs(m)[x] ELSE IF x = c THEN NewSegment(m) ELSE Segs(m)[x-1],
           Changed(m, S, c), stale' = stale
    PROVE  ListInv'
<1>1. Handed(m, given, Append(given, m)) /\ GoodList(Segs(m), given, m.sid)
  BY SegsAre
<1>2. GoodList(S, Append(given, m), m.sid) /\ Grown(Segs(m), S, m)
  <2> DEFINE R == Segs(m)
             h == Append(given, m)
  <2>1. /\ Handed(m, given, h) /\ GoodList(R, given, m.sid) /\ c \in 1..Len(R)+1
        /\ Len(S) = Len(R) + 1
        /\ \A x \in 1..Len(R)+1 :
              S[x] = IF x < c THEN R[x] ELSE IF x = c THEN NewSegment(m) ELSE R[x-1]
    BY <1>1
  <2> HIDE DEF R, h
  <2>2. GoodList(S, h, m.sid) /\ Grown(R, S, m)
    BY <2>1, ListInserted
  <2> QED
    BY <2>2 DEF R, h
<1>3. c \in 1..Len(S)
  OBVIOUS
<1>4. Thinned(RemoveAt(S, c), Segs(m)) /\ Extended(S, Segs(m), m)
  <2> DEFINE R == Segs(m)
             e == NewSegment(m)
  <2>1. e.start = m.start /\ e.end = EndOf(m)
    BY DEF NewSegment
  <2>2. /\ R \in Seq(SegmentOf) /\ c \in 1..Len(R)+1 /\ Len(S) = Len(R) + 1
        /\ \A x \in 1..Len(R)+1 : S[x] = IF x < c THEN R[x] ELSE IF x = c THEN e ELSE R[x-1]
    BY <1>1 DEF GoodList
  <2> HIDE DEF R, e
  <2>3. Thinned(RemoveAt(S, c), R)
    BY <2>2, ThinnedInserted
  <2>4. Extended(S, R, m)
    BY <2>1, <2>2, ExtendedNew
  <2> QED
    BY <2>3, <2>4 DEF R
<1> QED
  BY <1>2, <1>3, <1>4, ChangedIs

LEMMA StepJoinLast ==
    ASSUME ListInv, NEW m \in Record, m.key = Len(given) + 1, JoinLast(m)
    PROVE  ListInv'
<1> DEFINE k == Len(Segs(m))
           S == [Segs(m) EXCEPT ![k] = AddedToEnd(m, Segs(m)[k])]
<1>1. /\ Known(m.sid) /\ FitsAfter(m, Segs(m)[k]) /\ RateFits(m, Segs(m)[k])
      /\ TypeFits(m.type, m.n, Segs(m)[k]) /\ Changed(m, S, k) /\ stale' = stale
  BY Zenon DEF JoinLast, EndsLast, LastOf
<1>2. k \in 1..Len(Segs(m))
  BY <1>1, SegsAre
<1>3. /\ GoodList(S, Append(given, m), m.sid) /\ Grown(Segs(m), S, m)
      /\ Len(S) = Len(Segs(m))
      /\ Thinned(RemoveAt(S, k), Segs(m)) /\ Extended(S, Segs(m), m)
  BY <1>1, <1>2, EndJoined
<1> HIDE DEF S, k
<1> QED
  BY <1>1, <1>2, <1>3, ChangedIs

LEMMA StepJoinFirst ==
    ASSUME ListInv, NEW m \in Record, m.key = Len(given) + 1, JoinFirst(m)
    PROVE  ListInv'
<1> DEFINE S == [Segs(m) EXCEPT ![1] = AddedToStart(m, Segs(m)[1])]
<1>1. /\ Known(m.sid) /\ FitsBefore(m, Segs(m)[1]) /\ RateFits(m, Segs(m)[1])
      /\ TypeFits(m.type, m.n, Segs(m)[1]) /\ Changed(m, S, 1) /\ stale' = stale
  BY Zenon DEF JoinFirst, StartsFirst
<1>2. 1 \in 1..Len(Segs(m))
  BY <1>1, SegsAre
<1>3. /\ GoodList(S, Append(given, m), m.sid) /\ Grown(Segs(m), S, m)
      /\ Len(S) = Len(Segs(m))
      /\ Thinned(RemoveAt(S, 1), Segs(m)) /\ Extended(S, Segs(m), m)
  BY <1>1, <1>2, StartJoined
<1> HIDE DEF S
<1> QED
  BY <1>1, <1>2, <1>3, ChangedIs

LEMMA StepAddAfterAll ==
    ASSUME ListInv, NEW m \in Record, m.key = Len(given) + 1, AddAfterAll(m)
    PROVE  ListInv'
<1> DEFINE R == Segs(m)
           e == NewSegment(m)
           S == Append(R, e)
           c == Len(R) + 1
<1>1. Known(m.sid) /\ Changed(m, S, c) /\ stale' = stale
  BY Zenon DEF AddAfterAll
<1>2. R \in Seq(SegmentOf) /\ Len(R) \in Nat /\ e \in SegmentOf
  BY <1>1, SegsAre, NewIs DEF Good
<1> HIDE DEF e
<1>3. /\ S \in Seq(SegmentOf) /\ Len(S) = Len(R) + 1 /\ S[Len(R) + 1] = e
      /\ \A x \in 1..Len(R) : S[x] = R[x]
  <2> HIDE DEF R
  <2> QED
    BY <1>2, AppendProperties
<1>4. \A x \in 1..Len(R)+1 : S[x] = IF x < c THEN R[x] ELSE IF x = c THEN e ELSE R[x-1]
  <2>1. \A x \in 1..Len(R)+1 : x = Len(R) + 1 \/ (x \in 1..Len(R) /\ x < Len(R) + 1)
    <3> HIDE DEF R
    <3> QED
      BY <1>2
  <2> HIDE DEF R, S
  <2> QED
    BY <1>3, <2>1
<1>5. c \in 1..Len(R)+1
  <2> HIDE DEF R
  <2> QED
    BY <1>2
<1> HIDE DEF S, c
<1> QED
  BY <1>1, <1>3, <1>4, <1>5, SegmentAdded DEF e

LEMMA StepAddBeforeAll ==
    ASSUME ListInv, NEW m \in Record, m.key = Len(given) + 1, AddBeforeAll(m)
    PROVE  ListInv'
<1> DEFINE R == Segs(m)
           e == NewSegment(m)
           S == <<e>> \o R
<1>1. Known(m.sid) /\ Changed(m, S, 1) /\ stale' = stale
  BY Zenon DEF AddBeforeAll
<1>2. R \in Seq(SegmentOf) /\ Len(R) \in Nat /\ e \in SegmentOf
  BY <1>1, SegsAre, NewIs DEF Good
<1> HIDE DEF e
<1>3. <<e>> \in Seq(SegmentOf) /\ Len(<<e>>) = 1 /\ <<e>>[1] = e
  BY <1>2
<1>4. /\ S \in Seq(SegmentOf) /\ Len(S) = 1 + Len(R)
      /\ \A x \in 1..1+Len(R) : S[x] = IF x <= 1 THEN <<e>>[x] ELSE R[x-1]
  <2> DEFINE one == <<e>>
  <2>1. one \in Seq(SegmentOf) /\ Len(one) = 1
    BY <1>3
  <2> HIDE DEF R, one
  <2>2. /\ one \o R \in Seq(SegmentOf) /\ Len(one \o R) = Len(one) + Len(R)
        /\ \A x \in 1..Len(one)+Len(R) :
             (one \o R)[x] = IF x <= Len(one) THEN one[x] ELSE R[x - Len(one)]
    BY <1>2, <2>1, ConcatProperties
  <2> QED
    BY <2>1, <2>2 DEF one
<1>5. /\ Len(S) = Len(R) + 1
      /\ \A x \in 1..Len(R)+1 : S[x] = IF x < 1 THEN R[x] ELSE IF x = 1 THEN e ELSE R[x-1]
  <2> HIDE DEF R, S
  <2> QED
    BY <1>2, <1>3, <1>4
<1>6. 1 \in 1..Len(R)+1
  <2> HIDE DEF R
  <2> QED
    BY <1>2
<1> HIDE DEF S
<1> QED
  BY <1>1, <1>4, <1>5, <1>6, SegmentAdded DEF e

LEMMA StepAddBetween ==
    ASSUME ListInv, NEW m \in Record, m.key = Len(given) + 1, AddBetween(m)
    PROVE  ListInv'
<1> DEFINE R == Segs(m)
           e == NewSegment(m)
           f == IF Followed(m) = {} THEN 0 ELSE Max(Followed(m))
           c == f + 1
           S == InsertAt(R, c, e)
<1>1. Known(m.sid) /\ Changed(m, S, c) /\ stale' = stale
  BY Zenon DEF AddBetween
<1>2. R \in Seq(SegmentOf) /\ Len(R) \in Nat /\ e \in SegmentOf /\ DOMAIN R = 1..Len(R)
  BY <1>1, SegsAre, NewIs DEF Good
<1> HIDE DEF e
<1>3. f \in 0..Len(R)
  <2>1. Followed(m) \subseteq 1..Len(R)
    BY <1>2 DEF Followed
  <2>2. Followed(m) \subseteq 0..Len(R)
    <3> HIDE DEF R
    <3> QED
      BY <2>1
  <2>3. Followed(m) # {} => Max(Followed(m)) \in Followed(m)
    BY <1>2, <2>2, LargestIs
  <2> HIDE DEF R
  <2> QED
    BY <1>2, <2>2, <2>3
<1> HIDE DEF f
<1>4. c \in 1..Len(R)+1
  <2> HIDE DEF R
  <2> QED
    BY <1>2, <1>3
<1> HIDE DEF c
<1>5. /\ S \in Seq(SegmentOf) /\ Len(S) = Len(R) + 1
      /\ \A x \in 1..Len(R)+1 : S[x] = IF x < c THEN R[x] ELSE IF x = c THEN e ELSE R[x-1]
  <2> HIDE DEF R
  <2> QED
    BY <1>2, <1>4, InsertedIs, SMTT(30)
<1> HIDE DEF S
<1> QED
  BY <1>1, <1>4, <1>5, SegmentAdded DEF e

\* The segments that the search finds.
LEMMA FoundIs ==
    ASSUME ListInv, NEW m \in Record, m.key = Len(given) + 1, Known(m.sid)
    PROVE  /\ Before(m) # {} => LET b == Min(Before(m))
                                IN  /\ b \in 1..Len(Segs(m))
                                    /\ FitsAfter(m, Segs(m)[b]) /\ RateFits(m, Segs(m)[b])
           /\ After(m) # {} => LET a == Min(After(m))
                               IN  /\ a \in 1..Len(Segs(m)) /\ a \in After(m)
                                   /\ FitsBefore(m, Segs(m)[a]) /\ RateFits(m, Segs(m)[a])
<1>1. DOMAIN Segs(m) = 1..Len(Segs(m)) /\ Len(Segs(m)) \in Nat
  BY SegsAre
<1>2. Before(m) \subseteq 1..Len(Segs(m)) /\ After(m) \subseteq 1..Len(Segs(m))
  BY <1>1 DEF Before, After
<1>3. Before(m) \subseteq Nat /\ After(m) \subseteq Nat
  BY <1>1, <1>2
<1>4. /\ Before(m) # {} => Min(Before(m)) \in Before(m)
      /\ After(m) # {}  => Min(After(m)) \in After(m)
  BY <1>3, SmallestIs
<1>5. /\ \A k \in Before(m) : FitsAfter(m, Segs(m)[k]) /\ RateFits(m, Segs(m)[k])
      /\ \A k \in After(m) : FitsBefore(m, Segs(m)[k]) /\ RateFits(m, Segs(m)[k])
  BY DEF Before, After
<1> QED
  BY <1>2, <1>4, <1>5, Zenon

LEMMA StepJoinBefore ==
    ASSUME ListInv, NEW m \in Record, m.key = Len(given) + 1, JoinBefore(m)
    PROVE  ListInv'
<1> DEFINE k == Min(Before(m))
           S == [Segs(m) EXCEPT ![k] = AddedToEnd(m, Segs(m)[k])]
<1>1. /\ Known(m.sid) /\ Before(m) # {}
      /\ TypeFits(m.type, m.n, Segs(m)[k]) /\ Changed(m, S, k) /\ stale' = stale
  BY Zenon DEF JoinBefore
<1>2. k \in 1..Len(Segs(m)) /\ FitsAfter(m, Segs(m)[k]) /\ RateFits(m, Segs(m)[k])
  BY <1>1, FoundIs
<1> HIDE DEF k
<1>3. /\ GoodList(S, Append(given, m), m.sid) /\ Grown(Segs(m), S, m)
      /\ Len(S) = Len(Segs(m))
      /\ Thinned(RemoveAt(S, k), Segs(m)) /\ Extended(S, Segs(m), m)
  BY <1>1, <1>2, EndJoined
<1> HIDE DEF S
<1> QED
  BY <1>1, <1>2, <1>3, ChangedIs

LEMMA StepJoinAfter ==
    ASSUME ListInv, NEW m \in Record, m.key = Len(given) + 1, JoinAfter(m)
    PROVE  ListInv'
<1> DEFINE k == Min(After(m))
           S == [Segs(m) EXCEPT ![k] = AddedToStart(m, Segs(m)[k])]
<1>1. /\ Known(m.sid) /\ After(m) # {}
      /\ TypeFits(m.type, m.n, Segs(m)[k]) /\ Changed(m, S, k) /\ stale' = stale
  BY Zenon DEF JoinAfter
<1>2. k \in 1..Len(Segs(m)) /\ FitsBefore(m, Segs(m)[k]) /\ RateFits(m, Segs(m)[k])
  BY <1>1, FoundIs
<1> HIDE DEF k
<1>3. /\ GoodList(S, Append(given, m), m.sid) /\ Grown(Segs(m), S, m)
      /\ Len(S) = Len(Segs(m))
      /\ Thinned(RemoveAt(S, k), Segs(m)) /\ Extended(S, Segs(m), m)
  BY <1>1, <1>2, StartJoined
<1> HIDE DEF S
<1> QED
  BY <1>1, <1>2, <1>3, ChangedIs

\* The segments to heal are two, and the second is not the first of the ID:
\* that was tried before the search.
LEMMA HealedAreTwo ==
    ASSUME ListInv, NEW m \in Record, m.key = Len(given) + 1, Known(m.sid), Searched(m),
           Before(m) # {}, After(m) # {}
    PROVE  Min(Before(m)) # Min(After(m)) /\ Min(After(m)) # 1
<1> DEFINE b == Min(Before(m))
           a == Min(After(m))
           S == Segs(m)
<1>1. /\ b \in 1..Len(S) /\ FitsAfter(m, S[b]) /\ RateFits(m, S[b])
      /\ a \in 1..Len(S) /\ FitsBefore(m, S[a]) /\ RateFits(m, S[a])
  BY FoundIs
<1>2. a # 1
  BY <1>1 DEF Searched, StartsFirst
<1>3. \A k \in 1..Len(S) : S[k] \in SegmentOf /\ Good(S[k], given, m.sid)
  BY SegsAre
<1> HIDE DEF a, b, S
<1>4. ASSUME a = b
      PROVE  FALSE
  <2>1. S[a].end < m.start /\ EndOf(m) < S[a].start
    BY <1>1, <1>3, <1>4, FitsIs
  <2>2. S[a].start <= S[a].end /\ S[a].start \in Int /\ S[a].end \in Int
    BY <1>1, <1>3 DEF Good, SegmentOf
  <2>3. m.start <= EndOf(m) /\ m.start \in Int /\ EndOf(m) \in Int
    BY RecordIs
  <2> QED
    BY <2>1, <2>2, <2>3
<1> QED
  BY <1>2, <1>4 DEF a, b

LEMMA HealedIs ==
    ASSUME NEW m, NEW g, NEW h, Handed(m, g, h), NEW s1, NEW s2,
           Good(s1, g, m.sid), Once(s1), Good(s2, g, m.sid), Once(s2),
           \A key : ~(In(s1, key) /\ In(s2, key)),
           FitsAfter(m, s1), RateFits(m, s1), TypeFits(m.type, m.n, s1),
           FitsBefore(m, s2), RateFits(m, s2), TypeFits(s2.type, s2.numsamples, s1)
    PROVE  LET t == Joined(AddedToEnd(m, s1), s2)
           IN  /\ Good(t, h, m.sid) /\ Once(t)
               /\ \A key : In(t, key) <=> In(s1, key) \/ key = m.key \/ In(s2, key)
<1> DEFINE r == AddedToEnd(m, s1)
<1>1. /\ Good(r, h, m.sid) /\ Once(r)
      /\ \A key : In(r, key) <=> In(s1, key) \/ key = m.key
  BY ToEndIs
<1>2. Good(s2, h, m.sid) /\ ~In(s2, m.key) /\ s2 \in SegmentOf /\ s1 \in SegmentOf
  <2>1. Good(s2, h, m.sid) /\ ~In(s2, m.key)
    BY GoodLater
  <2>2. s2 \in SegmentOf /\ s1 \in SegmentOf
    BY DEF Good
  <2> QED
    BY <2>1, <2>2
<1>3. r.end = EndOf(m) /\ r.per = s1.per /\ r.type = s1.type
  BY <1>2 DEF AddedToEnd, SegmentOf
<1> HIDE DEF r
<1>4. m \in Record /\ h \in Seq(Record) /\ h[m.key] = m
  BY HandedIs
<1>5. r.end < s2.start
  BY <1>2, <1>3, <1>4, FitsIs
<1>6. /\ Adjoins(h[r.data[Len(r.data)]], h[s2.data[1]])
      /\ m.per \in Pers(r, h) /\ s2.per \in Pers(s2, h) /\ Near(m.per, s2.per)
  <2>1. s2.start = h[s2.data[1]].start /\ s2.per \in Pers(s2, h)
    BY <1>2 DEF Good
  <2>2. h[r.data[Len(r.data)]] = m /\ Len(r.data) \in 1..Len(r.data)
    <3>1. s1.data \in Seq(Nat) /\ m.key \in Nat /\ Len(s1.data) \in Nat
      BY <1>2, <1>4, RecordIs, LenProperties DEF SegmentOf
    <3>2. r.data = Append(s1.data, m.key)
      BY <1>2 DEF r, AddedToEnd, SegmentOf
    <3>3. Len(r.data) = Len(s1.data) + 1 /\ r.data[Len(s1.data) + 1] = m.key
      BY <3>1, <3>2, AppendProperties
    <3> QED
      BY <1>4, <3>1, <3>3
  <2>3. Adjoins(m, h[s2.data[1]])
    BY <2>1 DEF FitsBefore, Adjoins
  <2>4. m.per \in Pers(r, h)
    BY <2>2 DEF Pers
  <2> QED
    BY <2>1, <2>2, <2>3, <2>4 DEF RateFits
<1>7. TypeFits(s2.type, s2.numsamples, r)
  BY <1>3, <1>4 DEF TypeFits
<1>8. \A key : ~(In(r, key) /\ In(s2, key))
  BY <1>1, <1>2
<1>9. /\ Good(Joined(r, s2), h, m.sid) /\ Once(Joined(r, s2))
      /\ \A key : In(Joined(r, s2), key) <=> In(r, key) \/ In(s2, key)
  BY <1>1, <1>2, <1>4, <1>5, <1>6, <1>7, <1>8, JoinedIs, ZenonT(40)
<1> QED
  BY <1>1, <1>9, Zenon DEF r

LEMMA StepHeal ==
    ASSUME ListInv, NEW m \in Record, m.key = Len(given) + 1, Heal(m)
    PROVE  ListInv'
<1> DEFINE R == Segs(m)
           h == Append(given, m)
           u == m.sid
           b == Min(Before(m))
           a == Min(After(m))
           t == Joined(AddedToEnd(m, R[b]), R[a])
           S == RemoveAt([R EXCEPT ![b] = t], a)
           k == IF a < b THEN b - 1 ELSE b
<1>1. /\ Known(u) /\ Searched(m) /\ Before(m) # {} /\ After(m) # {}
      /\ TypeFits(m.type, m.n, R[b]) /\ TypeFits(R[a].type, R[a].numsamples, R[b])
      /\ Changed(m, S, k) /\ stale' = IF a = 1 THEN stale \union {u} ELSE stale
  BY Zenon DEF Heal
<1>2. /\ b \in 1..Len(R) /\ FitsAfter(m, R[b]) /\ RateFits(m, R[b])
      /\ a \in 1..Len(R) /\ FitsBefore(m, R[a]) /\ RateFits(m, R[a])
  BY <1>1, FoundIs
<1>3. a # b /\ a # 1
  BY <1>1, HealedAreTwo
<1>4. stale' = stale
  BY <1>1, <1>3
<1>5. /\ Handed(m, given, h) /\ GoodList(R, given, u)
      /\ \A j \in 1..Len(R) : Good(R[j], given, u) /\ Once(R[j])
  BY <1>1, SegsAre
<1> HIDE DEF a, b, R, h
<1>6. \A key : ~(In(R[b], key) /\ In(R[a], key))
  BY <1>2, <1>3, <1>5 DEF GoodList, Apart
<1>7. /\ Good(t, h, u) /\ Once(t)
      /\ \A key : In(t, key) <=> In(R[b], key) \/ key = m.key \/ In(R[a], key)
  <2> DEFINE s1 == R[b]
             s2 == R[a]
  <2>1. /\ Good(s1, given, u) /\ Once(s1) /\ Good(s2, given, u) /\ Once(s2)
        /\ (\A key : ~(In(s1, key) /\ In(s2, key)))
        /\ FitsAfter(m, s1) /\ RateFits(m, s1) /\ TypeFits(m.type, m.n, s1)
        /\ FitsBefore(m, s2) /\ RateFits(m, s2) /\ TypeFits(s2.type, s2.numsamples, s1)
    BY <1>1, <1>2, <1>5, <1>6
  <2> HIDE DEF s1, s2
  <2>2. LET v == Joined(AddedToEnd(m, s1), s2)
        IN  /\ Good(v, h, u) /\ Once(v)
            /\ \A key : In(v, key) <=> In(s1, key) \/ key = m.key \/ In(s2, key)
    BY <1>5, <2>1, HealedIs
  <2> QED
    BY <2>2, Zenon DEF s1, s2
<1> HIDE DEF t, u
<1>8. GoodList(S, h, u) /\ Grown(R, S, m) /\ k \in 1..Len(S)
  BY <1>2, <1>3, <1>5, <1>7, ListHealed
<1>9. Thinned(RemoveAt(S, k), R) /\ Extended(S, R, m)
  <2>1. /\ R[b] \in SegmentOf /\ R[a] \in SegmentOf /\ t \in SegmentOf /\ R \in Seq(SegmentOf)
        /\ R[b].start <= R[b].end /\ R[a].start <= R[a].end
    BY <1>2, <1>5, <1>7 DEF Good, GoodList
  <2>2. R[b].end < m.start /\ EndOf(m) < R[a].start
    BY <1>2, <2>1, FitsIs
  <2>3. t.start = R[b].start /\ t.end = R[a].end
    BY <2>1, HealedEnds DEF t
  <2>4. Thinned(RemoveAt(S, k), R)
    BY <1>2, <1>3, <2>1, ThinnedHealed
  <2>5. Extended(S, R, m)
    BY <1>2, <1>3, <2>1, <2>2, <2>3, ExtendedHealed
  <2> QED
    BY <2>4, <2>5
<1> HIDE DEF S, k
<1> QED
  BY <1>1, <1>4, <1>8, <1>9, ChangedIs DEF R, h, u

LEMMA StepRefuseType ==
    ASSUME ListInv, NEW m \in Record, m.key = Len(given) + 1, RefuseType(m)
    PROVE  ListInv'
<1>1. /\ given' = Append(given, m) /\ refused' = refused \union {m.key}
      /\ last' = last /\ stale' = stale /\ traces' = traces /\ torn' = torn
  BY DEF RefuseType, Refused
<1>2. Handed(m, given, given') /\ given \in Seq(Record)
  BY <1>1 DEF ListInv, Handed
<1>3. given' \in Seq(Record) /\ Len(given) \in Nat /\ Len(given') = Len(given) + 1
  BY <1>2, HandedIs
<1>4. \A i \in 1..Len(traces) :
         GoodList(traces[i].segs, given', traces[i].sid) /\ ~Held(traces[i].segs, m.key)
  BY <1>2, ListLater DEF ListInv
<1>5. ASSUME NEW key \in 1..Len(given')
      PROVE  key \in refused' \ torn' <=> ~Present(key)'
  <2>1. Present(key)' <=> Present(key)
    BY <1>1 DEF Present
  <2>2. CASE key = m.key
    <3>1. ~Present(key)
      BY <1>4, <2>2 DEF Present
    <3>2. key \notin torn
      BY <1>3, <2>2 DEF ListInv
    <3> QED
      BY <1>1, <2>1, <2>2, <3>1, <3>2
  <2>3. CASE key # m.key
    <3>1. key \in 1..Len(given)
      BY <1>3, <2>3
    <3>2. key \in refused \ torn <=> ~Present(key)
      BY <3>1 DEF ListInv
    <3> QED
      BY <1>1, <2>1, <2>3, <3>2
  <2> QED
    BY <2>2, <2>3
<1>6. torn' \subseteq refused' /\ refused' \subseteq 1..Len(given')
  <2>1. torn \subseteq refused /\ refused \subseteq 1..Len(given)
    BY DEF ListInv
  <2>2. m.key \in 1..Len(given') /\ \A key \in 1..Len(given) : key \in 1..Len(given')
    BY <1>3
  <2>3. torn' \subseteq refused'
    BY <1>1, <2>1
  <2>4. refused' \subseteq 1..Len(given')
    BY <1>1, <2>1, <2>2
  <2> QED
    BY <2>3, <2>4
<1>7. IdsSorted' /\ OneIdEach'
  <2>1. \A j \in 2..Len(traces) : Cmp(traces[j-1].sid, traces[j].sid) < 0
    BY DEF ListInv, IdsSorted
  <2>2. \A j \in 2..Len(traces') : Cmp(traces'[j-1].sid, traces'[j].sid) < 0
    BY <1>1, <2>1
  <2>3. OneIdEach
    BY DEF ListInv
  <2> QED
    BY <1>1, <2>2, <2>3 DEF IdsSorted, OneIdEach, Cmp, Mag
<1>8. \A i \in 1..Len(traces') : GoodList(traces'[i].segs, given', traces'[i].sid)
  BY <1>1, <1>4
<1>9. traces' \in Seq(TraceId) /\ stale' = {} /\ last' \in Sids \union {<<>>}
      /\ (last' = <<>> => traces' = <<>>)
  BY <1>1 DEF ListInv
<1>10. Ordered'
  <2>1. Ordered
    BY DEF ListInv
  <2> QED
    BY <1>1, <2>1 DEF Ordered
<1> QED
  BY <1>3, <1>5, <1>6, <1>7, <1>8, <1>9, <1>10 DEF ListInv

LEMMA StepRefuseHeal ==
    ASSUME ListInv, NEW m \in Record, m.key = Len(given) + 1, RefuseHeal(m)
    PROVE  ListInv'
<1> DEFINE i == Index(m)
           b == Min(Before(m))
           R == Segs(m)
           S == [R EXCEPT ![b] = AddedToEnd(m, R[b])]
           t == [traces[i] EXCEPT !.segs = S]
<1>1. /\ given' = Append(given, m) /\ refused' = refused \union {m.key}
      /\ last' = last /\ stale' = stale /\ torn' = torn \union {m.key}
      /\ Known(m.sid) /\ Before(m) # {} /\ After(m) # {} /\ TypeFits(m.type, m.n, R[b])
      /\ traces' = [traces EXCEPT ![i].segs[b] = AddedToEnd(m, @)]
  BY Zenon DEF RefuseHeal, Refused
<1>2. /\ i \in 1..Len(traces) /\ traces[i].sid = m.sid /\ R = traces[i].segs
      /\ traces \in Seq(TraceId) /\ given \in Seq(Record)
  BY <1>1, IndexIs DEF ListInv
<1>3. b \in 1..Len(R) /\ FitsAfter(m, R[b]) /\ RateFits(m, R[b])
  BY <1>1, FoundIs
<1> HIDE DEF b
<1>4. GoodList(S, given', m.sid) /\ Grown(R, S, m)
  BY <1>1, <1>3, EndJoined
<1>5. t \in TraceId /\ t.sid = m.sid /\ t.segs = S
  <2>1. traces[i] \in TraceId /\ S \in Seq(SegmentOf)
    BY <1>2, <1>4, TracesIs DEF GoodList
  <2> HIDE DEF S, i
  <2> QED
    BY <1>2, <2>1 DEF TraceId
<1>6. traces' = [traces EXCEPT ![i] = t]
  BY <1>1, <1>2, Zenon
<1> HIDE DEF t, S, i, R
<1>7. /\ traces' \in Seq(TraceId) /\ Len(traces') = Len(traces)
      /\ \A j \in 1..Len(traces) : traces'[j] = IF j = i THEN t ELSE traces[j]
  BY <1>2, <1>5, <1>6, ExceptSeq
<1>8. /\ \A j \in 1..Len(traces) : j # i => traces'[j] = traces[j]
      /\ traces'[i].sid = m.sid /\ GoodList(traces'[i].segs, given', m.sid)
      /\ Grown(traces[i].segs, traces'[i].segs, m)
  BY <1>2, <1>4, <1>5, <1>7
<1>14. InOrder(S, torn') /\ Spans(S, traces[i].earliest, traces[i].latest)
  <2>1. InOrder(R, torn) /\ Spans(R, traces[i].earliest, traces[i].latest)
    BY <1>2 DEF ListInv, Ordered
  <2>2. traces[i].earliest \in Int /\ traces[i].latest \in Int
    BY <1>2, TracesIs
  <2>3. torn \subseteq torn' /\ torn' # {}
    BY <1>1
  <2>4. PICK a \in 1..Len(R) : FitsBefore(m, R[a]) /\ RateFits(m, R[a])
    BY <1>1, FoundIs DEF R
  <2>5. /\ R \in Seq(SegmentOf) /\ R[a] \in SegmentOf /\ R[b] \in SegmentOf
        /\ R[a].start <= R[a].end /\ R[b].start <= R[b].end
    <3>1. /\ R \in Seq(SegmentOf)
          /\ \A k \in 1..Len(R) : R[k] \in SegmentOf /\ Good(R[k], given, m.sid)
      BY <1>1, SegsAre DEF R
    <3> QED
      BY <1>3, <2>4, <3>1 DEF Good
  <2>6. R[b].end < m.start /\ EndOf(m) < R[a].start
    BY <1>3, <2>4, <2>5, FitsIs
  <2> DEFINE v == AddedToEnd(m, R[b])
  <2>7. v \in SegmentOf /\ v.start = R[b].start /\ v.end = EndOf(m)
    <3>1. v \in SegmentOf
      <4>1. /\ Good(R[b], given, m.sid) /\ Once(R[b]) /\ Handed(m, given, Append(given, m))
            /\ RateFits(m, R[b]) /\ FitsAfter(m, R[b]) /\ TypeFits(m.type, m.n, R[b])
        BY <1>1, <1>3, SegsAre, SMTT(30) DEF R
      <4>2. Good(v, Append(given, m), m.sid)
        BY <4>1, ToEndIs
      <4> QED
        BY <4>2 DEF Good
    <3> QED
      BY <2>5, <3>1, EndedLater
  <2> DEFINE U == [R EXCEPT ![b] = v]
  <2>8. S = U
    BY DEF S
  <2> HIDE DEF v
  <2>9. InOrder(U, torn') /\ Spans(U, traces[i].earliest, traces[i].latest)
    BY <1>3, <2>1, <2>2, <2>3, <2>4, <2>5, <2>6, <2>7, HalfHealed
  <2> QED
    BY <2>8, <2>9
<1>15. t.earliest = traces[i].earliest /\ t.latest = traces[i].latest
  <2>1. traces[i] \in TraceId
    BY <1>2, TracesIs
  <2> QED
    BY <2>1 DEF t, TraceId
<1>16. torn \subseteq torn'
  BY <1>1
<1>17. InOrder(traces'[i].segs, torn') /\ Spans(traces'[i].segs, traces'[i].earliest, traces'[i].latest)
  BY <1>2, <1>5, <1>7, <1>14, <1>15
<1>9. /\ \A j \in 1..Len(traces') : GoodList(traces'[j].segs, given', traces'[j].sid)
      /\ \A key : Present(key)' <=> Present(key) \/ key = m.key
      /\ IdsSorted' /\ OneIdEach' /\ Ordered'
  BY <1>1, <1>2, <1>7, <1>8, <1>16, <1>17, OneChanged
<1>10. given' \in Seq(Record) /\ Len(given) \in Nat /\ Len(given') = Len(given) + 1
  BY <1>1, <1>2, AppendProperties, LenProperties
<1>11. ASSUME NEW key \in 1..Len(given')
       PROVE  key \in refused' \ torn' <=> ~Present(key)'
  <2>1. CASE key = m.key
    BY <1>1, <1>9, <2>1
  <2>2. CASE key # m.key
    <3>1. key \in 1..Len(given)
      BY <1>10, <2>2
    <3>2. key \in refused \ torn <=> ~Present(key)
      BY <3>1 DEF ListInv
    <3> QED
      BY <1>1, <1>9, <2>2, <3>2
  <2> QED
    BY <2>1, <2>2
<1>12. torn' \subseteq refused' /\ refused' \subseteq 1..Len(given')
  BY <1>1, <1>10 DEF ListInv
<1>13. last' \in Sids /\ stale' = {} /\ last' # <<>>
  <2>1. last # <<>>
    <3>1. SUFFICES ASSUME last = <<>>
                   PROVE  FALSE
      OBVIOUS
    <3>2. At(m.sid) = {}
      BY <3>1 DEF At
    <3> QED
      BY <1>1, <3>2 DEF Known
  <2> QED
    BY <1>1, <2>1 DEF ListInv
<1> QED
  BY <1>7, <1>9, <1>10, <1>11, <1>12, <1>13 DEF ListInv

-----------------------------------------------------------------------------
(* The theorems.                                                           *)

\* The parts of the invariant hold whatever records are handed over.
THEOREM ListInvariant == ListSpec => []ListInv
<1>1. ListInit => ListInv
  <2>1. SUFFICES ASSUME ListInit
                 PROVE  ListInv
    OBVIOUS
  <2>2. /\ traces = <<>> /\ last = <<>> /\ given = <<>>
        /\ refused = {} /\ torn = {} /\ stale = {}
    BY <2>1 DEF ListInit
  <2>3. traces \in Seq(TraceId) /\ given \in Seq(Record) /\ Len(traces) = 0 /\ Len(given) = 0
    BY <2>2
  <2>4. 1..Len(traces) = {} /\ 2..Len(traces) = {} /\ 1..Len(given) = {}
    BY <2>3
  <2>5. IdsSorted /\ OneIdEach /\ Ordered
    BY <2>4 DEF IdsSorted, OneIdEach, Ordered
  <2> QED
    BY <2>2, <2>3, <2>4, <2>5 DEF ListInv
<1>2. ListInv /\ [\E m \in Record : m.key = Len(given) + 1 /\ AddMsr(m)]_listvars => ListInv'
  <2>1. SUFFICES ASSUME ListInv,
                        [\E m \in Record : m.key = Len(given) + 1 /\ AddMsr(m)]_listvars
                 PROVE  ListInv'
    OBVIOUS
  <2>2. ASSUME NEW m \in Record, m.key = Len(given) + 1, AddMsr(m)
        PROVE  ListInv'
    <3>1. CASE AddId(m)
      BY <2>1, <2>2, <3>1, IdAdded
    <3>2. CASE JoinLast(m)
      BY <2>1, <2>2, <3>2, StepJoinLast
    <3>3. CASE AddAfterAll(m)
      BY <2>1, <2>2, <3>3, StepAddAfterAll
    <3>4. CASE AddBeforeAll(m)
      BY <2>1, <2>2, <3>4, StepAddBeforeAll
    <3>5. CASE JoinFirst(m)
      BY <2>1, <2>2, <3>5, StepJoinFirst
    <3>6. CASE JoinBefore(m)
      BY <2>1, <2>2, <3>6, StepJoinBefore
    <3>7. CASE Heal(m)
      BY <2>1, <2>2, <3>7, StepHeal
    <3>8. CASE JoinAfter(m)
      BY <2>1, <2>2, <3>8, StepJoinAfter
    <3>9. CASE AddBetween(m)
      BY <2>1, <2>2, <3>9, StepAddBetween
    <3>10. CASE RefuseType(m)
      BY <2>1, <2>2, <3>10, StepRefuseType
    <3>11. CASE RefuseHeal(m)
      BY <2>1, <2>2, <3>11, StepRefuseHeal
    <3> QED
      BY <2>2, <3>1, <3>2, <3>3, <3>4, <3>5, <3>6, <3>7, <3>8, <3>9, <3>10, <3>11, Zenon
         DEF AddMsr
  <2>3. CASE UNCHANGED listvars
    <3>1. /\ traces' = traces /\ last' = last /\ given' = given
          /\ refused' = refused /\ torn' = torn /\ stale' = stale
      BY <2>3 DEF listvars
    <3>2. \A key : Present(key)' <=> Present(key)
      BY <3>1 DEF Present
    <3>3. /\ \A i \in 1..Len(traces') : GoodList(traces'[i].segs, given', traces'[i].sid)
          /\ \A key \in 1..Len(given') : key \in refused' \ torn' <=> ~Present(key)'
      BY <2>1, <3>1, <3>2 DEF ListInv
    <3>4. IdsSorted' /\ OneIdEach'
      <4>1. \A j \in 2..Len(traces) : Cmp(traces[j-1].sid, traces[j].sid) < 0
        BY <2>1 DEF ListInv, IdsSorted
      <4>2. \A j \in 2..Len(traces') : Cmp(traces'[j-1].sid, traces'[j].sid) < 0
        BY <3>1, <4>1
      <4>3. OneIdEach
        BY <2>1 DEF ListInv
      <4> QED
        BY <3>1, <4>2, <4>3 DEF IdsSorted, OneIdEach, Cmp, Mag
    <3>5. /\ traces' \in Seq(TraceId) /\ given' \in Seq(Record) /\ stale' = {}
          /\ last' \in Sids \union {<<>>} /\ (last' = <<>> => traces' = <<>>)
          /\ torn' \subseteq refused' /\ refused' \subseteq 1..Len(given')
      BY <2>1, <3>1 DEF ListInv
    <3>6. Ordered'
      <4>1. Ordered
        BY <2>1 DEF ListInv
      <4> QED
        BY <3>1, <4>1 DEF Ordered
    <3> QED
      BY <3>3, <3>4, <3>5, <3>6 DEF ListInv
  <2> QED
    BY <2>1, <2>2, <2>3
<1> QED
  BY <1>1, <1>2, PTL DEF ListSpec

\* A segment that the list names.
LEMMA NamedIs ==
    ASSUME ListInv, NEW p \in Segments
    PROVE  /\ p = <<p[1], p[2]>> /\ p[1] \in 1..Len(traces)
           /\ p[2] \in 1..Len(traces[p[1]].segs)
           /\ Seg(p) \in SegmentOf /\ Good(Seg(p), given, traces[p[1]].sid) /\ Once(Seg(p))
           /\ traces[p[1]].sid \in Sids
<1>1. PICK i \in DOMAIN traces : p \in {<<i, k>> : k \in DOMAIN traces[i].segs}
  BY DEF Segments
<1>2. PICK k \in DOMAIN traces[i].segs : p = <<i, k>>
  BY <1>1
<1>3. i \in 1..Len(traces)
  BY <1>1, TracesIs DEF ListInv
<1>4. GoodList(traces[i].segs, given, traces[i].sid)
  BY <1>3 DEF ListInv
<1>5. k \in 1..Len(traces[i].segs)
  BY <1>2, <1>4, ListIs
<1>6. p[1] = i /\ p[2] = k /\ Seg(p) = traces[i].segs[k]
  BY <1>2 DEF Seg
<1>7. Seg(p) \in SegmentOf /\ Good(Seg(p), given, traces[i].sid) /\ Once(Seg(p))
  BY <1>4, <1>5, <1>6, ListIs
<1>8. traces[i].sid \in Sids
  BY <1>3, TracesIs DEF ListInv
<1> QED
  BY <1>2, <1>3, <1>5, <1>6, <1>7, <1>8

LEMMA NameOf ==
    ASSUME ListInv, NEW i \in 1..Len(traces), NEW k \in 1..Len(traces[i].segs)
    PROVE  <<i, k>> \in Segments /\ Seg(<<i, k>>) = traces[i].segs[k]
<1>1. i \in DOMAIN traces
  BY TracesIs DEF ListInv
<1>2. k \in DOMAIN traces[i].segs
  BY ListIs DEF ListInv
<1> QED
  BY <1>1, <1>2 DEF Segments, Seg

\* A segment that holds each record once has no more than were handed over.
LEMMA FewerIs ==
    ASSUME NEW s, NEW g, NEW sid, g \in Seq(Record), Good(s, g, sid), Once(s)
    PROVE  Len(s.data) <= Len(g) /\ Len(s.data) \in Nat /\ s.data \in Seq(1..Len(g))
<1> DEFINE n == Len(s.data)
           l == Len(g)
<1>1. s.data \in Seq(Nat) /\ n \in Nat /\ l \in Nat /\ s.data \in [1..n -> Nat]
  BY LenProperties DEF Good, SegmentOf
<1>2. \A x \in 1..n : s.data[x] \in 1..l
  BY DEF Good
<1>3. \A x, y \in 1..n : s.data[x] = s.data[y] => x = y
  BY DEF Once
<1> HIDE DEF n, l
<1>4. s.data \in [1..n -> 1..l]
  BY <1>1, <1>2
<1>5. s.data \in Injection(1..n, 1..l)
  BY <1>3, <1>4 DEF Injection, IsInjective
<1>6. /\ IsFiniteSet(1..l) /\ Cardinality(1..l) = l /\ Cardinality(1..n) = n
  BY <1>1, FS_Interval
<1>7. n <= l
  BY <1>5, <1>6, FS_Injection
<1>8. s.data \in Seq(1..l)
  BY <1>1, <1>4, SMTT(30)
<1> QED
  BY <1>1, <1>7, <1>8 DEF n, l

\* The list is of the type that the runs check.
THEOREM ListTypes == ListSpec => []ListTypeOK
<1>1. ListInv => ListTypeOK
  <2>1. SUFFICES ASSUME ListInv
                 PROVE  ListTypeOK
    OBVIOUS
  <2>2. ASSUME NEW i \in DOMAIN traces
        PROVE  /\ traces[i].sid \in Sids /\ traces[i].segs # <<>>
               /\ \A k \in DOMAIN traces[i].segs :
                     LET s == traces[i].segs[k]
                     IN  /\ s.start \in Int /\ s.end \in Int /\ s.per \in Nat
                         /\ s.type \in SampleTypes /\ s.numsamples \in Nat
                         /\ s.data \in Seq(1..Len(given))
    <3>1. i \in 1..Len(traces) /\ traces[i].sid \in Sids
      BY <2>1, TracesIs DEF ListInv
    <3>2. GoodList(traces[i].segs, given, traces[i].sid)
      BY <2>1, <3>1 DEF ListInv
    <3>3. ASSUME NEW k \in DOMAIN traces[i].segs
          PROVE  LET s == traces[i].segs[k]
                 IN  /\ s.start \in Int /\ s.end \in Int /\ s.per \in Nat
                     /\ s.type \in SampleTypes /\ s.numsamples \in Nat
                     /\ s.data \in Seq(1..Len(given))
      <4> DEFINE s == traces[i].segs[k]
      <4>1. s \in SegmentOf /\ Good(s, given, traces[i].sid) /\ Once(s)
        BY <3>2, ListIs
      <4> HIDE DEF s
      <4>2. s.data \in Seq(1..Len(given))
        BY <2>1, <4>1, FewerIs DEF ListInv
      <4>3. /\ s.start \in Int /\ s.end \in Int /\ s.per \in Nat
            /\ s.type \in SampleTypes /\ s.numsamples \in Nat
        BY <4>1 DEF SegmentOf
      <4> QED
        BY <4>2, <4>3 DEF s
    <3>4. traces[i].segs # <<>>
      BY <3>2 DEF GoodList
    <3> QED
      BY <3>1, <3>3, <3>4
  <2>3. /\ last \in Sids \union {<<>>} /\ given \in Seq(Record)
        /\ torn \subseteq refused /\ refused \subseteq 1..Len(given)
    BY <2>1 DEF ListInv
  <2> QED
    BY <2>2, <2>3 DEF ListTypeOK
<1> QED
  BY <1>1, ListInvariant, PTL

\* The search for the closest smaller identifier keeps the list sorted.
THEOREM ListIsSorted == ListSpec => []IdsSorted
<1>1. ListInv => IdsSorted
  BY DEF ListInv
<1> QED
  BY <1>1, ListInvariant, PTL

\* No ID is left with a first segment that was freed.
THEOREM FirstStaysAlive == ListSpec => []FirstAlive
<1>1. ListInv => FirstAlive
  BY DEF ListInv, FirstAlive
<1> QED
  BY <1>1, ListInvariant, PTL

\* The segments are in order of their starts, and the extent of the ID is
\* that of its segments.
THEOREM SegmentsInOrder == ListSpec => []SegmentsSorted
<1>1. ListInv => SegmentsSorted
  <2>1. SUFFICES ASSUME ListInv, NEW i \in DOMAIN traces
                 PROVE  LET S == traces[i].segs
                        IN  /\ \A k \in 2..Len(S) :
                                  IF torn = {} THEN ~Behind(S[k-1], S[k])
                                               ELSE S[k-1].start <= S[k].start
                            /\ traces[i].earliest = S[1].start
                            /\ \A k \in DOMAIN S :
                                  S[k].start <= S[k].end /\ S[k].end <= traces[i].latest
                            /\ \E k \in DOMAIN S : S[k].end = traces[i].latest
    BY DEF SegmentsSorted
  <2> DEFINE S == traces[i].segs
             e == traces[i].earliest
             l == traces[i].latest
  <2>2. i \in 1..Len(traces) /\ e \in Int /\ l \in Int
    BY <2>1, TracesIs DEF ListInv
  <2>3. InOrder(S, torn) /\ Spans(S, e, l)
    BY <2>1, <2>2 DEF ListInv, Ordered
  <2>4. GoodList(S, given, traces[i].sid)
    BY <2>1, <2>2 DEF ListInv
  <2> HIDE DEF S, e, l
  <2>5. /\ Len(S) \in Nat \ {0} /\ DOMAIN S = 1..Len(S)
        /\ \A k \in 1..Len(S) : S[k] \in SegmentOf /\ Good(S[k], given, traces[i].sid)
    BY <2>4, ListIs
  <2>6. \A k \in 1..Len(S) : S[k].start \in Int /\ S[k].end \in Int /\ S[k].start <= S[k].end
    BY <2>5 DEF Good, SegmentOf
  <2>7. ASSUME NEW k \in 2..Len(S)
        PROVE  IF torn = {} THEN ~Behind(S[k-1], S[k]) ELSE S[k-1].start <= S[k].start
    <3>1. k - 1 \in 1..Len(S) /\ k \in 1..Len(S) /\ k - 1 < k
      BY <2>5
    <3>2. Precedes(S[k-1], S[k], torn)
      BY <2>3, <3>1 DEF InOrder
    <3> QED
      BY <3>2 DEF Precedes
  <2>8. e = S[1].start
    <3>1. PICK k \in 1..Len(S) : S[k].start = e
      BY <2>3 DEF Spans
    <3>2. 1 \in 1..Len(S) /\ e <= S[1].start
      BY <2>3, <2>5 DEF Spans
    <3>3. CASE k = 1
      BY <3>1, <3>3
    <3>4. CASE k # 1
      <4>1. Precedes(S[1], S[k], torn)
        BY <2>3, <2>5, <3>1, <3>2, <3>4 DEF InOrder
      <4>2. S[1].start <= S[k].start
        BY <2>6, <3>1, <3>2, <4>1 DEF Precedes, Behind
      <4> QED
        BY <2>2, <2>6, <3>1, <3>2, <4>2
    <3> QED
      BY <3>3, <3>4
  <2>9. /\ \A k \in DOMAIN S : S[k].start <= S[k].end /\ S[k].end <= l
        /\ \E k \in DOMAIN S : S[k].end = l
    BY <2>3, <2>5, <2>6 DEF Spans
  <2> QED
    BY <2>7, <2>8, <2>9 DEF S, e, l
<1> QED
  BY <1>1, ListInvariant, PTL

\* The records of a segment carry on from each other.
THEOREM SegmentsContinuous == ListSpec => []Continuous
<1>1. ListInv => Continuous
  <2>1. SUFFICES ASSUME ListInv, NEW p \in Segments
                 PROVE  LET s == Seg(p)
                            m(x) == given[s.data[x]]
                        IN  /\ s.start = m(1).start /\ s.end = EndOf(m(Len(s.data)))
                            /\ s.per \in Rates(s) /\ Linked(Rates(s))
                            /\ \A x \in 2..Len(s.data) : Adjoins(m(x-1), m(x))
    BY Zenon DEF Continuous
  <2> DEFINE s == Seg(p)
  <2>2. s \in SegmentOf /\ Good(s, given, traces[p[1]].sid)
    BY <2>1, NamedIs
  <2>3. DOMAIN s.data = 1..Len(s.data)
    BY <2>2, LenProperties DEF SegmentOf
  <2> HIDE DEF s
  <2>4. /\ s.per \in Rates(s) /\ Linked(Rates(s))
        /\ \A x \in 2..Len(s.data) : Adjoins(given[s.data[x-1]], given[s.data[x]])
    BY <2>2, <2>3 DEF Good, Rates, Pers
  <2>5. s.start = given[s.data[1]].start /\ s.end = EndOf(given[s.data[Len(s.data)]])
    BY <2>2 DEF Good
  <2> QED
    BY <2>4, <2>5 DEF s
<1> QED
  BY <1>1, ListInvariant, PTL

\* Every record is in exactly one segment, that of its identifier, once.
THEOREM RecordsConserved == ListSpec => []Conserved
<1>1. ListInv => Conserved
  <2>1. SUFFICES ASSUME ListInv, NEW key \in 1..Len(given)
                 PROVE  LET m == given[key]
                        IN  IF key \in refused \ torn THEN Places(key) = {}
                            ELSE \E p \in Segments :
                                    /\ \E x \in DOMAIN Seg(p).data : Places(key) = {<<p, x>>}
                                    /\ traces[p[1]].sid = m.sid
                                    /\ m.n > 0 => Seg(p).type = m.type
    BY Zenon DEF Conserved
  <2>2. ASSUME NEW q \in Places(key)
        PROVE  /\ q = <<q[1], q[2]>> /\ q[1] \in Segments
               /\ q[2] \in 1..Len(Seg(q[1]).data) /\ Seg(q[1]).data[q[2]] = key
    <3>1. /\ q = <<q[1], q[2]>> /\ q[1] \in Segments /\ q[2] \in 1..Len(given)
          /\ q[2] <= Len(Seg(q[1]).data) /\ Seg(q[1]).data[q[2]] = key
      BY DEF Places
    <3>2. Len(Seg(q[1]).data) \in Nat
      BY <2>1, <3>1, NamedIs, LenProperties DEF SegmentOf
    <3> QED
      BY <3>1, <3>2
  <2>3. CASE key \in refused \ torn
    <3>1. ~Present(key)
      BY <2>1, <2>3 DEF ListInv
    <3>2. ASSUME NEW q \in Places(key)
          PROVE  FALSE
      <4>1. /\ q[1] \in Segments /\ q[2] \in 1..Len(Seg(q[1]).data)
            /\ Seg(q[1]).data[q[2]] = key
        BY <2>2
      <4>2. In(Seg(q[1]), key)
        BY <4>1 DEF In
      <4>3. q[1][1] \in 1..Len(traces) /\ q[1][2] \in 1..Len(traces[q[1][1]].segs)
        BY <2>1, <4>1, NamedIs
      <4>4. Present(key)
        BY <4>2, <4>3 DEF Present, Held, Seg
      <4> QED
        BY <3>1, <4>4
    <3> QED
      BY <2>3, <3>2
  <2>4. CASE key \notin refused \ torn
    <3>1. Present(key)
      BY <2>1, <2>4 DEF ListInv
    <3>2. PICK i \in 1..Len(traces) : Held(traces[i].segs, key)
      BY <3>1 DEF Present
    <3>3. PICK k \in 1..Len(traces[i].segs) : In(traces[i].segs[k], key)
      BY <3>2 DEF Held
    <3> DEFINE p == <<i, k>>
    <3>4. p \in Segments /\ Seg(p) = traces[i].segs[k] /\ p[1] = i /\ p[2] = k
      BY <2>1, NameOf
    <3> HIDE DEF p
    <3>5. PICK x \in 1..Len(Seg(p).data) : Seg(p).data[x] = key
      BY <3>3, <3>4 DEF In
    <3>6. Good(Seg(p), given, traces[i].sid) /\ Once(Seg(p)) /\ Seg(p) \in SegmentOf
      BY <2>1, <3>4, NamedIs
    <3>7. OfKind(given[key], Seg(p), traces[i].sid)
      BY <3>5, <3>6 DEF Good
    <3>8. x \in 1..Len(given)
      <4>1. Len(Seg(p).data) <= Len(given) /\ Len(Seg(p).data) \in Nat
        BY <2>1, <3>6, FewerIs DEF ListInv
      <4>2. Len(given) \in Nat
        BY <2>1, LenProperties DEF ListInv
      <4> QED
        BY <4>1, <4>2
    <3>9. <<p, x>> \in Places(key)
      <4>1. x <= Len(Seg(p).data)
        BY <3>8
      <4> QED
        BY <3>4, <3>5, <3>8, <4>1 DEF Places
    <3>10. ASSUME NEW q \in Places(key)
           PROVE  q = <<p, x>>
      <4> DEFINE r == q[1]
      <4>1. /\ q = <<r, q[2]>> /\ r \in Segments
            /\ q[2] \in 1..Len(Seg(r).data) /\ Seg(r).data[q[2]] = key
        BY <2>2
      <4> HIDE DEF r
      <4>2. /\ r = <<r[1], r[2]>> /\ r[1] \in 1..Len(traces)
            /\ r[2] \in 1..Len(traces[r[1]].segs) /\ Good(Seg(r), given, traces[r[1]].sid)
        BY <2>1, <4>1, NamedIs
      <4>3. OfKind(given[key], Seg(r), traces[r[1]].sid)
        BY <4>1, <4>2 DEF Good
      <4>4. r[1] = i
        <5>1. traces[r[1]].sid = traces[i].sid
          BY <3>7, <4>3 DEF OfKind
        <5> QED
          BY <2>1, <4>2, <5>1 DEF ListInv, OneIdEach
      <4>5. In(traces[i].segs[r[2]], key)
        BY <4>1, <4>4 DEF In, Seg
      <4>6. r[2] = k
        <5>1. Apart(traces[i].segs)
          BY <2>1 DEF ListInv, GoodList
        <5> QED
          BY <3>3, <4>2, <4>4, <4>5, <5>1 DEF Apart
      <4>7. r = p
        BY <4>2, <4>4, <4>6 DEF p
      <4>8. q[2] = x
        BY <3>5, <3>6, <4>1, <4>7 DEF Once
      <4> QED
        BY <4>1, <4>7, <4>8
    <3>11. Places(key) = {<<p, x>>}
      BY <3>9, <3>10
    <3>12. x \in DOMAIN Seg(p).data
      BY <3>6, LenProperties DEF SegmentOf
    <3>13. traces[p[1]].sid = given[key].sid /\ (given[key].n > 0 => Seg(p).type = given[key].type)
      BY <3>4, <3>7 DEF OfKind
    <3> QED
      BY <2>4, <3>4, <3>11, <3>12, <3>13
  <2> QED
    BY <2>3, <2>4
<1> QED
  BY <1>1, ListInvariant, PTL

-----------------------------------------------------------------------------
(* The gaps between the segments of an ID.                                 *)

\* The first and the final record of a segment.
First(s, g) == g[s.data[1]]
Final(s, g) == g[s.data[Len(s.data)]]

\* Segment r begins where s ends, half a period more or less, to the records
\* on both sides, and all rates are tolerable.
Close(g, s, r) ==
    /\ \A a \in Pers(s, g), b \in Pers(r, g) : Near(a, b) /\ Near(b, a)
    /\ LET gap == r.start - s.end
       IN  /\ Fits(Final(s, g), gap - Final(s, g).per)
           /\ Fits(First(r, g), gap - First(r, g).per)

Separate(g, S) == \A j, k \in 1..Len(S) : j # k => ~Close(g, S[j], S[k])

SeparateLists == torn = {} => \A i \in 1..Len(traces) : Separate(given, traces[i].segs)

LEMMA EndsAre ==
    ASSUME NEW g \in Seq(Record), NEW s, NEW u, Good(s, g, u)
    PROVE  /\ First(s, g) \in Record /\ Final(s, g) \in Record
           /\ First(s, g).per \in Pers(s, g) /\ Final(s, g).per \in Pers(s, g)
           /\ s.per \in Pers(s, g)
           /\ s.start = First(s, g).start /\ s.end = EndOf(Final(s, g))
<1>1. /\ 1 \in 1..Len(s.data) /\ Len(s.data) \in 1..Len(s.data)
      /\ \A x \in 1..Len(s.data) : s.data[x] \in 1..Len(g)
  <2>1. Len(s.data) \in Nat /\ Len(s.data) > 0
    BY LenProperties DEF Good, SegmentOf
  <2>2. \A x \in 1..Len(s.data) : s.data[x] \in 1..Len(g)
    BY DEF Good
  <2> QED
    BY <2>1, <2>2
<1>2. g[s.data[1]] \in Record /\ g[s.data[Len(s.data)]] \in Record
  BY <1>1, ElementOfSeq
<1> QED
  BY <1>1, <1>2 DEF Good, First, Final, Pers

\* Segments that lie apart are not close.
LEMMA FarIs ==
    ASSUME NEW h \in Seq(Record), NEW u, NEW s \in SegmentOf, NEW r \in SegmentOf,
           Good(s, h, u), Good(r, h, u)
    PROVE  /\ r.start <= s.end => ~Close(h, s, r)
           /\ \A m \in {Final(s, h), First(r, h)} :
                 s.end + m.per + m.per \div 2 < r.start => ~Close(h, s, r)
<1>1. s.end \in Int /\ r.start \in Int
  BY DEF SegmentOf
<1>2. ASSUME NEW m \in {Final(s, h), First(r, h)}, Close(h, s, r)
      PROVE  ~(s.end + m.per + m.per \div 2 < r.start) /\ ~(r.start <= s.end)
  <2>1. m \in Record /\ m.per \in Nat /\ m.per # 0
    <3>1. Near(Final(s, h).per, First(r, h).per) /\ Near(First(r, h).per, Final(s, h).per)
      BY <1>2, EndsAre DEF Close
    <3> QED
      BY <1>2, <3>1, EndsAre, RecordIs DEF Near
  <2>2. Fits(m, (r.start - s.end) - m.per)
    BY <1>2 DEF Close
  <2>3. PICK P \in Nat : P = m.per
    BY <2>1
  <2>4. P \div 2 \in Int /\ P \div 2 < P
    BY <2>1, <2>3
  <2>5. -(P \div 2) <= (r.start - s.end) - P /\ (r.start - s.end) - P <= P \div 2
    BY <2>2, <2>3 DEF Fits, Tol
  <2>6. ~(s.end + P + P \div 2 < r.start) /\ ~(r.start <= s.end)
    BY <1>1, <2>4, <2>5
  <2> QED
    BY <2>3, <2>6
<1> QED
  BY <1>2

\* What is close is so by the ends and by all the rates.
LEMMA CloseDepends ==
    ASSUME NEW h, NEW s, NEW r, NEW s1, NEW r1,
           s.end = s1.end, r.start = r1.start,
           Final(s, h) = Final(s1, h), First(r, h) = First(r1, h),
           Pers(s1, h) \subseteq Pers(s, h), Pers(r1, h) \subseteq Pers(r, h), Close(h, s, r)
    PROVE  Close(h, s1, r1)
BY DEF Close

\* It stays so when another record is handed over.
LEMMA CloseLater ==
    ASSUME NEW m, NEW g, NEW h, Handed(m, g, h), NEW s, NEW r, NEW u,
           Good(s, g, u), Good(r, g, u), Close(h, s, r)
    PROVE  Close(g, s, r)
<1>1. ASSUME NEW z, Good(z, g, u)
      PROVE  Pers(z, h) = Pers(z, g) /\ First(z, h) = First(z, g) /\ Final(z, h) = Final(z, g)
  <2>1. /\ 1 \in 1..Len(z.data) /\ Len(z.data) \in 1..Len(z.data)
        /\ \A x \in 1..Len(z.data) : h[z.data[x]] = g[z.data[x]]
    <3>1. Len(z.data) \in Nat /\ Len(z.data) > 0
      BY <1>1, LenProperties DEF Good, SegmentOf
    <3>2. \A x \in 1..Len(z.data) : z.data[x] \in 1..Len(g)
      BY <1>1 DEF Good
    <3> QED
      BY <3>1, <3>2, HandedIs
  <2> QED
    BY <2>1 DEF Pers, First, Final
<1> QED
  BY <1>1 DEF Close

LEMMA SeparateLater ==
    ASSUME NEW m, NEW g, NEW h, Handed(m, g, h), NEW S, NEW u,
           GoodList(S, g, u), Separate(g, S)
    PROVE  Separate(h, S)
<1>1. \A j \in 1..Len(S) : Good(S[j], g, u)
  BY DEF GoodList
<1> QED
  BY <1>1, CloseLater DEF Separate

\* The record at the end is the final one, the one at the start the first.
LEMMA EndJoinedIs ==
    ASSUME NEW m, NEW g, NEW h, Handed(m, g, h), NEW s, NEW u, Good(s, g, u)
    PROVE  LET t == AddedToEnd(m, s)
           IN  /\ Final(t, h) = m /\ First(t, h) = First(s, h) /\ Pers(s, h) \subseteq Pers(t, h)
               /\ t.data \in Seq(Nat) /\ Len(t.data) > 0
<1> DEFINE t == AddedToEnd(m, s)
<1>1. s.data \in Seq(Nat) /\ Len(s.data) \in Nat /\ Len(s.data) > 0 /\ s \in SegmentOf
  BY LenProperties DEF Good, SegmentOf
<1>2. h[m.key] = m /\ m.key \in Nat
  BY HandedIs, RecordIs
<1>3. t.data = Append(s.data, m.key)
  BY <1>1 DEF AddedToEnd, SegmentOf
<1> HIDE DEF t
<1>4. /\ Len(t.data) = Len(s.data) + 1 /\ t.data[Len(s.data) + 1] = m.key /\ t.data \in Seq(Nat)
      /\ \A x \in 1..Len(s.data) : t.data[x] = s.data[x]
  BY <1>1, <1>2, <1>3, AppendProperties
<1>5. 1 \in 1..Len(s.data) /\ \A x \in 1..Len(s.data) : x \in 1..Len(s.data) + 1
  BY <1>1
<1>6. Pers(s, h) \subseteq Pers(t, h)
  BY <1>4, <1>5 DEF Pers
<1> QED
  BY <1>1, <1>2, <1>4, <1>5, <1>6 DEF First, Final, t

LEMMA StartJoinedIs ==
    ASSUME NEW m, NEW g, NEW h, Handed(m, g, h), NEW s, NEW u, Good(s, g, u)
    PROVE  LET t == AddedToStart(m, s)
           IN  Final(t, h) = Final(s, h) /\ First(t, h) = m /\ Pers(s, h) \subseteq Pers(t, h)
<1> DEFINE t == AddedToStart(m, s)
           one == <<m.key>>
           d == s.data
<1>1. d \in Seq(Nat) /\ Len(d) \in Nat /\ Len(d) > 0 /\ s \in SegmentOf
  BY LenProperties DEF Good, SegmentOf
<1>2. h[m.key] = m /\ m.key \in Nat
  BY HandedIs, RecordIs
<1>3. t.data = one \o d
  BY <1>1 DEF AddedToStart, SegmentOf
<1>4. one \in Seq(Nat) /\ Len(one) = 1 /\ one[1] = m.key
  BY <1>2
<1> HIDE DEF t, one, d
<1>5. /\ Len(t.data) = Len(one) + Len(d)
      /\ \A x \in 1..Len(one)+Len(d) :
            t.data[x] = IF x <= Len(one) THEN one[x] ELSE d[x - Len(one)]
  <2>1. one \in Seq(Nat) /\ d \in Seq(Nat)
    BY <1>1, <1>4
  <2>2. /\ Len(one \o d) = Len(one) + Len(d)
        /\ \A x \in 1..Len(one)+Len(d) :
              (one \o d)[x] = IF x <= Len(one) THEN one[x] ELSE d[x - Len(one)]
    BY <2>1, ConcatProperties
  <2> QED
    BY <1>3, <2>2
<1>6. Len(t.data) = 1 + Len(d) /\ t.data[1] = m.key
  BY <1>1, <1>4, <1>5
<1>7. ASSUME NEW x \in 1..Len(d)
      PROVE  x + 1 \in 1..1+Len(d) /\ t.data[x + 1] = d[x]
  <2>1. x + 1 \in 1..1+Len(d) /\ ~(x + 1 <= 1) /\ (x + 1) - 1 = x
    BY <1>1
  <2> QED
    BY <1>4, <1>5, <2>1
<1>8. Pers(s, h) \subseteq Pers(t, h)
  <2>1. ASSUME NEW x \in 1..Len(s.data)
        PROVE  h[s.data[x]].per \in Pers(t, h)
    BY <1>6, <1>7 DEF Pers, d
  <2> QED
    BY <2>1 DEF Pers
<1>9. t.data[1 + Len(d)] = d[Len(d)]
  <2>1. Len(d) \in 1..Len(d) /\ Len(d) + 1 = 1 + Len(d)
    BY <1>1
  <2> QED
    BY <1>7, <2>1
<1> QED
  BY <1>2, <1>6, <1>8, <1>9 DEF First, Final, t, d

\* Of a segment joined to another the records are those of both.
LEMMA HealJoinedIs ==
    ASSUME NEW m, NEW g, NEW h, Handed(m, g, h), NEW s1, NEW s2, NEW u,
           Good(s1, g, u), Good(s2, g, u)
    PROVE  LET t == Joined(AddedToEnd(m, s1), s2)
           IN  /\ First(t, h) = First(s1, h) /\ Final(t, h) = Final(s2, h)
               /\ Pers(s1, h) \subseteq Pers(t, h) /\ Pers(s2, h) \subseteq Pers(t, h)
<1> DEFINE r == AddedToEnd(m, s1)
           t == Joined(r, s2)
           c == r.data
           d == s2.data
<1>1. /\ First(r, h) = First(s1, h) /\ Pers(s1, h) \subseteq Pers(r, h)
      /\ c \in Seq(Nat) /\ Len(c) > 0
  BY EndJoinedIs
<1>2. d \in Seq(Nat) /\ Len(d) \in Nat /\ Len(d) > 0 /\ Len(c) \in Nat
  BY <1>1, LenProperties DEF Good, SegmentOf
<1>3. t.data = c \o d
  <2>1. PICK B, E, F : r \in [start : Int, end : B, per : Nat, type : SampleTypes,
                              numsamples : E, data : F]
    <3>1. s1 \in SegmentOf
      BY DEF Good
    <3> QED
      BY <3>1, EndedLater, Zenon
  <2> DEFINE x == s2.end
             y == r.numsamples + s2.numsamples
             z == c \o d
  <2>2. t = [r EXCEPT !.end = x, !.numsamples = y, !.data = z]
    BY Zenon DEF Joined
  <2> HIDE DEF r, t, x, y, z
  <2>3. t.data = z
    BY <2>1, <2>2
  <2> QED
    BY <2>3, Zenon DEF z
<1> HIDE DEF r, t, c, d
<1>4. /\ Len(t.data) = Len(c) + Len(d)
      /\ \A x \in 1..Len(c)+Len(d) :
            t.data[x] = IF x <= Len(c) THEN c[x] ELSE d[x - Len(c)]
  BY <1>1, <1>2, <1>3, ConcatProperties
<1>5. ASSUME NEW x \in 1..Len(c)
      PROVE  x \in 1..Len(t.data) /\ t.data[x] = c[x]
  <2>1. x \in 1..Len(c)+Len(d) /\ x <= Len(c)
    BY <1>2
  <2> QED
    BY <1>4, <2>1
<1>6. ASSUME NEW x \in 1..Len(d)
      PROVE  Len(c) + x \in 1..Len(t.data) /\ t.data[Len(c) + x] = d[x]
  <2>1. Len(c) + x \in 1..Len(c)+Len(d) /\ ~(Len(c) + x <= Len(c)) /\ (Len(c) + x) - Len(c) = x
    BY <1>2
  <2> QED
    BY <1>4, <2>1
<1>7. Pers(r, h) \subseteq Pers(t, h)
  <2>1. ASSUME NEW x \in 1..Len(r.data)
        PROVE  h[r.data[x]].per \in Pers(t, h)
    BY <1>5 DEF Pers, c
  <2> QED
    BY <2>1 DEF Pers
<1>8. Pers(s2, h) \subseteq Pers(t, h)
  <2>1. ASSUME NEW x \in 1..Len(s2.data)
        PROVE  h[s2.data[x]].per \in Pers(t, h)
    BY <1>6 DEF Pers, d
  <2> QED
    BY <2>1 DEF Pers
<1>9. 1 \in 1..Len(c) /\ Len(d) \in 1..Len(d)
  BY <1>1, <1>2
<1>10. t.data[1] = c[1] /\ t.data[Len(t.data)] = d[Len(d)]
  BY <1>4, <1>5, <1>6, <1>9
<1> QED
  BY <1>1, <1>7, <1>8, <1>10 DEF First, Final, t, r, c, d

\* A segment that is close to one that begins or ends with a record is one
\* that the record fits.
LEMMA CloseIsFit ==
    ASSUME NEW h \in Seq(Record), NEW m \in Record, NEW u, NEW s, NEW t, Good(s, h, u), Good(t, h, u)
    PROVE  /\ First(t, h) = m /\ Close(h, s, t) => FitsAfter(m, s) /\ RateFits(m, s)
           /\ Final(t, h) = m /\ Close(h, t, s) => FitsBefore(m, s) /\ RateFits(m, s)
<1>1. /\ m.start \in Int /\ m.per \in Nat /\ EndOf(m) \in Int
      /\ s.start \in Int /\ s.end \in Int
  BY RecordIs DEF Good, SegmentOf
<1>2. ASSUME First(t, h) = m, Close(h, s, t)
      PROVE  FitsAfter(m, s) /\ RateFits(m, s)
  <2>1. t.start = m.start /\ m.per \in Pers(t, h) /\ s.per \in Pers(s, h)
    BY <1>2, EndsAre
  <2>2. RateFits(m, s)
    BY <1>2, <2>1 DEF Close, RateFits
  <2>3. Fits(m, (m.start - s.end) - m.per)
    BY <1>2, <2>1 DEF Close
  <2> QED
    BY <2>2, <2>3 DEF FitsAfter
<1>3. ASSUME Final(t, h) = m, Close(h, t, s)
      PROVE  FitsBefore(m, s) /\ RateFits(m, s)
  <2>1. t.end = EndOf(m) /\ m.per \in Pers(t, h) /\ s.per \in Pers(s, h)
    BY <1>3, EndsAre
  <2>2. RateFits(m, s)
    BY <1>3, <2>1 DEF Close, RateFits
  <2>3. Fits(m, (s.start - EndOf(m)) - m.per)
    BY <1>3, <2>1 DEF Close
  <2> QED
    BY <2>2, <2>3 DEF FitsBefore
<1> QED
  BY <1>2, <1>3

LEMMA SeparateRearranged ==
    ASSUME NEW h, NEW S, NEW T, Rearranged(T, S), Separate(h, S)
    PROVE  Separate(h, T)
<1>1. PICK f \in [1..Len(S) -> 1..Len(S)] :
          /\ \A x, y \in 1..Len(S) : f[x] = f[y] => x = y
          /\ \A x \in 1..Len(S) : T[x] = S[f[x]]
  BY DEF Rearranged
<1>2. Len(T) = Len(S)
  BY DEF Rearranged
<1>3. ASSUME NEW j \in 1..Len(T), NEW k \in 1..Len(T), j # k
      PROVE  ~Close(h, T[j], T[k])
  <2>1. f[j] \in 1..Len(S) /\ f[k] \in 1..Len(S) /\ f[j] # f[k] /\ T[j] = S[f[j]] /\ T[k] = S[f[k]]
    BY <1>1, <1>2, <1>3
  <2> QED
    BY <2>1 DEF Separate
<1> QED
  BY <1>3 DEF Separate

LEMMA SeparateReplaced ==
    ASSUME NEW h, NEW R \in Seq(SegmentOf), Separate(h, R), NEW k \in 1..Len(R), NEW t \in SegmentOf,
           \A j \in 1..Len(R) : j # k => ~Close(h, R[j], t) /\ ~Close(h, t, R[j])
    PROVE  Separate(h, [R EXCEPT ![k] = t])
<1> DEFINE S == [R EXCEPT ![k] = t]
<1>1. Len(S) = Len(R) /\ \A j \in 1..Len(R) : S[j] = IF j = k THEN t ELSE R[j]
  BY ExceptSeq
<1> HIDE DEF S
<1>2. ASSUME NEW i \in 1..Len(R), NEW j \in 1..Len(R), i # j
      PROVE  ~Close(h, S[i], S[j])
  <2>1. CASE i = k
    BY <1>1, <1>2, <2>1
  <2>2. CASE j = k
    BY <1>1, <1>2, <2>2
  <2>3. CASE i # k /\ j # k
    BY <1>1, <1>2, <2>3 DEF Separate
  <2> QED
    BY <2>1, <2>2, <2>3
<1>3. Separate(h, S)
  BY <1>1, <1>2 DEF Separate
<1> QED
  BY <1>3 DEF S

\* S is R with e put in at c; e is close to none of R.
PutIn(S, R, c, e) ==
    /\ Len(S) = Len(R) + 1
    /\ \A x \in 1..Len(R)+1 : S[x] = IF x < c THEN R[x] ELSE IF x = c THEN e ELSE R[x-1]
Clear(h, R, e) == \A j \in 1..Len(R) : ~Close(h, R[j], e) /\ ~Close(h, e, R[j])

LEMMA SeparateInserted ==
    ASSUME NEW h, NEW R \in Seq(SegmentOf), Separate(h, R), NEW c \in 1..Len(R)+1, NEW e,
           Clear(h, R, e), NEW S, PutIn(S, R, c, e)
    PROVE  Separate(h, S)
<1>1. /\ Len(R) \in Nat /\ Len(S) = Len(R) + 1
      /\ \A x \in 1..Len(R)+1 : S[x] = IF x < c THEN R[x] ELSE IF x = c THEN e ELSE R[x-1]
      /\ \A j \in 1..Len(R) : ~Close(h, R[j], e) /\ ~Close(h, e, R[j])
  BY LenProperties DEF PutIn, Clear
<1> DEFINE g(x) == IF x < c THEN x ELSE x - 1
<1>2. \A x \in 1..Len(S) : x # c => g(x) \in 1..Len(R) /\ S[x] = R[g(x)]
  BY <1>1
<1>3. S[c] = e
  BY <1>1
<1>4. \A x, y \in 1..Len(S) : x # y /\ x # c /\ y # c => g(x) # g(y)
  BY <1>1
<1> HIDE DEF g
<1>5. ASSUME NEW i \in 1..Len(S), NEW j \in 1..Len(S), i # j
      PROVE  ~Close(h, S[i], S[j])
  <2>1. CASE i = c
    BY <1>1, <1>2, <1>3, <1>5, <2>1
  <2>2. CASE j = c
    BY <1>1, <1>2, <1>3, <1>5, <2>2
  <2>3. CASE i # c /\ j # c
    BY <1>2, <1>4, <1>5, <2>3 DEF Separate
  <2> QED
    BY <2>1, <2>2, <2>3
<1> QED
  BY <1>5 DEF Separate

LEMMA SeparateRemoved ==
    ASSUME NEW h, NEW R \in Seq(SegmentOf), Separate(h, R), NEW a \in 1..Len(R)
    PROVE  Separate(h, RemoveAt(R, a))
<1> DEFINE T == RemoveAt(R, a)
           g(x) == IF x < a THEN x ELSE x + 1
<1>1. Len(R) \in Nat
  BY LenProperties
<1>2. Len(T) = Len(R) - 1 /\ \A x \in 1..Len(R)-1 : T[x] = IF x < a THEN R[x] ELSE R[x+1]
  BY RemovedIs
<1> HIDE DEF T
<1>3. \A x \in 1..Len(T) : g(x) \in 1..Len(R) /\ T[x] = R[g(x)]
  BY <1>1, <1>2
<1>4. \A x, y \in 1..Len(T) : x # y => g(x) # g(y)
  BY <1>1, <1>2
<1> HIDE DEF g
<1>5. Separate(h, T)
  BY <1>3, <1>4 DEF Separate
<1> QED
  BY <1>5 DEF T

\* Of the segments of an ID without heals broken off, the first starts first
\* and the last starts last.
LEMMA OrderIs ==
    ASSUME ListInv, NEW m \in Record, m.key = Len(given) + 1, Known(m.sid), torn = {}
    PROVE  LET R == Segs(m)
           IN  /\ \A j \in 1..Len(R) : /\ R[1].start <= R[j].start
                                       /\ R[j].start <= R[Len(R)].start
                                       /\ R[j].start <= R[j].end /\ R[j].end <= Id(m).latest
                                       /\ Id(m).earliest <= R[j].start
               /\ Id(m).latest \in Int /\ Id(m).earliest \in Int
<1> DEFINE R == Segs(m)
<1>1. /\ Len(R) \in Nat \ {0} /\ \A j \in 1..Len(R) : R[j] \in SegmentOf /\ Good(R[j], given, m.sid)
  BY SegsAre
<1>2. Index(m) \in 1..Len(traces) /\ Id(m) = traces[Index(m)] /\ R = traces[Index(m)].segs
      /\ Id(m).latest \in Int /\ Id(m).earliest \in Int
  BY IndexIs
<1>3. InOrder(R, torn) /\ Spans(R, Id(m).earliest, Id(m).latest)
  BY <1>2 DEF ListInv, Ordered
<1> HIDE DEF R
<1>4. \A j \in 1..Len(R) : R[j].start \in Int /\ R[j].end \in Int /\ R[j].start <= R[j].end
  BY <1>1 DEF SegmentOf, Good
<1>5. \A i, j \in 1..Len(R) : i < j => R[i].start <= R[j].start
  BY <1>3, <1>4 DEF InOrder, Precedes, Behind
<1>6. \A j \in 1..Len(R) : R[1].start <= R[j].start /\ R[j].start <= R[Len(R)].start
  BY <1>1, <1>4, <1>5
<1>7. \A j \in 1..Len(R) : R[j].end <= Id(m).latest /\ Id(m).earliest <= R[j].start
  BY <1>3 DEF Spans
<1> QED
  BY <1>2, <1>4, <1>6, <1>7 DEF R

LEMMA ChangedSeparate ==
    ASSUME ListInv, SeparateLists, torn = {}, NEW m \in Record, m.key = Len(given) + 1,
           Known(m.sid), NEW S \in Seq(SegmentOf), NEW k \in 1..Len(S),
           Separate(Append(given, m), S),
           Changed(m, S, k)
    PROVE  SeparateLists'
<1> DEFINE i == Index(m)
           e == IF m.start < Id(m).earliest THEN m.start ELSE Id(m).earliest
           l == IF EndOf(m) > Id(m).latest THEN EndOf(m) ELSE Id(m).latest
           T == Settled(S, k)
           h == Append(given, m)
<1>1. traces \in Seq(TraceId) /\ Handed(m, given, h) /\ given' = h
  BY DEF ListInv, Handed, Changed, Stored
<1>2. /\ i \in 1..Len(traces) /\ Id(m) = traces[i] /\ Id(m).latest \in Int
      /\ Id(m).earliest \in Int
  BY IndexIs
<1>3. e \in Int /\ l \in Int
  BY <1>2, RecordIs
<1>4. T \in Seq(SegmentOf) /\ Rearranged(T, S)
  BY SettledIs
<1>5. Separate(h, T)
  BY <1>4, SeparateRearranged
<1> HIDE DEF e, l, T, h
<1>6. traces' = [traces EXCEPT ![i].segs = T, ![i].earliest = e, ![i].latest = l]
  BY <1>2, Zenon DEF Changed, T, Id, e, l
<1> HIDE DEF i
<1>7. /\ Len(traces') = Len(traces)
      /\ \A j \in 1..Len(traces) : j # i => traces'[j] = traces[j]
      /\ traces'[i].segs = T
  <2>1. FieldsSet(traces', traces, i, T, e, l)
    BY <1>6, Zenon DEF FieldsSet
  <2> QED
    BY <1>1, <1>2, <1>3, <1>4, <2>1, FieldSet, SMTT(30)
<1>8. ASSUME NEW j \in 1..Len(traces)
      PROVE  Separate(h, traces'[j].segs)
  <2>1. CASE j = i
    BY <1>5, <1>7, <2>1
  <2>2. CASE j # i
    <3>1. traces'[j] = traces[j] /\ Separate(given, traces[j].segs)
      BY <1>7, <2>2 DEF SeparateLists
    <3>2. GoodList(traces[j].segs, given, traces[j].sid)
      BY DEF ListInv
    <3>3. Separate(h, traces[j].segs)
      BY <1>1, <3>1, <3>2, SeparateLater
    <3> QED
      BY <3>1, <3>3
  <2> QED
    BY <2>1, <2>2
<1>9. \A j \in 1..Len(traces') : Separate(h, traces'[j].segs)
  BY <1>7, <1>8
<1> QED
  BY <1>1, <1>9 DEF SeparateLists

\* The segments of the ID that the record belongs to, and one of its own.
LEMMA SeparateSegs ==
    ASSUME ListInv, SeparateLists, torn = {}, NEW m \in Record, m.key = Len(given) + 1,
           Known(m.sid)
    PROVE  Separate(Append(given, m), Segs(m))
<1>1. Handed(m, given, Append(given, m)) /\ GoodList(Segs(m), given, m.sid)
  BY SegsAre, SMTT(30)
<1>2. Separate(given, Segs(m))
  BY IndexIs DEF SeparateLists
<1> QED
  BY <1>1, <1>2, SeparateLater

LEMMA OwnIs ==
    ASSUME ListInv, NEW m \in Record, m.key = Len(given) + 1, NEW h, h = Append(given, m)
    PROVE  LET e == NewSegment(m)
           IN  /\ Handed(m, given, h) /\ h \in Seq(Record) /\ Good(e, h, m.sid)
               /\ First(e, h) = m /\ Final(e, h) = m
               /\ Known(m.sid) => \A j \in 1..Len(Segs(m)) :
                     Good(Segs(m)[j], given, m.sid) /\ Good(Segs(m)[j], h, m.sid)
<1>1. Handed(m, given, h)
  BY DEF ListInv, Handed
<1>2. h \in Seq(Record) /\ h[m.key] = m /\ Good(NewSegment(m), h, m.sid)
  BY <1>1, HandedIs, NewIs
<1>3. First(NewSegment(m), h) = m /\ Final(NewSegment(m), h) = m
  BY <1>2 DEF First, Final, NewSegment
<1>4. ASSUME Known(m.sid), NEW j \in 1..Len(Segs(m))
      PROVE  Good(Segs(m)[j], given, m.sid) /\ Good(Segs(m)[j], h, m.sid)
  <2>1. Good(Segs(m)[j], given, m.sid)
    BY <1>4, SegsAre
  <2> QED
    BY <1>1, <2>1, GoodLater
<1> QED
  BY <1>1, <1>2, <1>3, <1>4

\* A record joined to the end of a segment: nothing that follows it may be
\* close to its end.
LEMMA EndSeparate ==
    ASSUME NEW m, NEW g, NEW h, Handed(m, g, h), NEW u,
           NEW R \in Seq(SegmentOf), Separate(h, R), NEW k \in 1..Len(R),
           \A j \in 1..Len(R) : Good(R[j], g, u), Good(AddedToEnd(m, R[k]), h, u),
           \A j \in 1..Len(R) : j # k => ~(FitsBefore(m, R[j]) /\ RateFits(m, R[j]))
    PROVE  Separate(h, [R EXCEPT ![k] = AddedToEnd(m, R[k])])
<1> DEFINE s == R[k]
           t == AddedToEnd(m, s)
<1>1. h \in Seq(Record) /\ m \in Record /\ Good(s, g, u) /\ Good(s, h, u)
  BY HandedIs, GoodLater
<1>2. /\ Final(t, h) = m /\ First(t, h) = First(s, h) /\ Pers(s, h) \subseteq Pers(t, h)
      /\ Good(t, h, u)
  BY <1>1, EndJoinedIs
<1>3. t.start = s.start /\ t \in SegmentOf
  <2>1. t.start = First(t, h).start /\ s.start = First(s, h).start
    BY <1>1, <1>2, EndsAre
  <2> QED
    BY <1>2, <2>1 DEF Good
<1> HIDE DEF t, s
<1>4. ASSUME NEW j \in 1..Len(R), j # k
      PROVE  ~Close(h, R[j], t) /\ ~Close(h, t, R[j])
  <2>1. ~Close(h, R[j], s)
    BY <1>4 DEF Separate, s
  <2>2. ~Close(h, R[j], t)
    BY <1>2, <1>3, <2>1, CloseDepends
  <2>3. Good(R[j], h, u) /\ ~(FitsBefore(m, R[j]) /\ RateFits(m, R[j]))
    BY <1>4, GoodLater
  <2>4. ~Close(h, t, R[j])
    BY <1>1, <1>2, <2>3, CloseIsFit
  <2> QED
    BY <2>2, <2>4
<1>5. Separate(h, [R EXCEPT ![k] = t])
  BY <1>3, <1>4, SeparateReplaced
<1> QED
  BY <1>5 DEF t, s

LEMMA StartSeparate ==
    ASSUME NEW m, NEW g, NEW h, Handed(m, g, h), NEW u,
           NEW R \in Seq(SegmentOf), Separate(h, R), NEW k \in 1..Len(R),
           \A j \in 1..Len(R) : Good(R[j], g, u), Good(AddedToStart(m, R[k]), h, u),
           \A j \in 1..Len(R) : j # k => ~(FitsAfter(m, R[j]) /\ RateFits(m, R[j]))
    PROVE  Separate(h, [R EXCEPT ![k] = AddedToStart(m, R[k])])
<1> DEFINE s == R[k]
           t == AddedToStart(m, s)
<1>1. h \in Seq(Record) /\ m \in Record /\ Good(s, g, u) /\ Good(s, h, u)
  BY HandedIs, GoodLater
<1>2. /\ Final(t, h) = Final(s, h) /\ First(t, h) = m /\ Pers(s, h) \subseteq Pers(t, h)
      /\ Good(t, h, u)
  BY <1>1, StartJoinedIs
<1>3. t.end = s.end /\ t \in SegmentOf
  <2>1. t.end = EndOf(Final(t, h)) /\ s.end = EndOf(Final(s, h))
    BY <1>1, <1>2, EndsAre
  <2> QED
    BY <1>2, <2>1 DEF Good
<1> HIDE DEF t, s
<1>4. ASSUME NEW j \in 1..Len(R), j # k
      PROVE  ~Close(h, R[j], t) /\ ~Close(h, t, R[j])
  <2>1. ~Close(h, s, R[j])
    BY <1>4 DEF Separate, s
  <2>2. ~Close(h, t, R[j])
    BY <1>2, <1>3, <2>1, CloseDepends
  <2>3. Good(R[j], h, u) /\ ~(FitsAfter(m, R[j]) /\ RateFits(m, R[j]))
    BY <1>4, GoodLater
  <2>4. ~Close(h, R[j], t)
    BY <1>1, <1>2, <2>3, CloseIsFit
  <2> QED
    BY <2>2, <2>4
<1>5. Separate(h, [R EXCEPT ![k] = t])
  BY <1>3, <1>4, SeparateReplaced
<1> QED
  BY <1>5 DEF t, s

\* What may follow the segment that starts last starts after it.
LEMMA LastSeparate ==
    ASSUME ListInv, SeparateLists, torn = {}, NEW m \in Record, m.key = Len(given) + 1,
           JoinLast(m)
    PROVE  SeparateLists'
<1> DEFINE R == Segs(m)
           k == Len(R)
           h == Append(given, m)
           S == [R EXCEPT ![k] = AddedToEnd(m, R[k])]
<1>1. /\ Known(m.sid) /\ FitsAfter(m, R[k]) /\ RateFits(m, R[k])
      /\ TypeFits(m.type, m.n, R[k]) /\ Changed(m, S, k)
  BY Zenon DEF JoinLast, EndsLast, LastOf
<1>2. /\ R \in Seq(SegmentOf) /\ k \in 1..Len(R) /\ Separate(h, R)
      /\ Handed(m, given, h) /\ \A j \in 1..Len(R) : Good(R[j], given, m.sid)
      /\ \A j \in 1..Len(R) : R[j] \in SegmentOf
  BY <1>1, SegsAre, SeparateSegs, OwnIs
<1>3. GoodList(S, h, m.sid) /\ Len(S) = Len(R)
  BY <1>1, <1>2, EndJoined, SMTT(30)
<1>4. S \in Seq(SegmentOf)
  BY <1>3 DEF GoodList
<1>5. \A j \in 1..Len(R) : /\ R[j].start <= R[k].start /\ R[k].start <= R[k].end
  BY <1>1, <1>2, OrderIs
<1> HIDE DEF R, k, h
<1>6. ASSUME NEW j \in 1..Len(R), FitsBefore(m, R[j]), RateFits(m, R[j])
      PROVE  FALSE
  <2>1. EndOf(m) < R[j].start /\ R[k].end < m.start
    BY <1>1, <1>2, <1>6, FitsIs
  <2>2. m.start <= EndOf(m) /\ m.start \in Int /\ EndOf(m) \in Int
    BY RecordIs
  <2>3. R[j].start \in Int /\ R[k].start \in Int /\ R[k].end \in Int
    BY <1>2 DEF SegmentOf
  <2> QED
    BY <1>5, <2>1, <2>2, <2>3
<1>7. Good(AddedToEnd(m, R[k]), h, m.sid)
  <2>1. S[k] = AddedToEnd(m, R[k])
    BY <1>2, ExceptSeq
  <2> QED
    BY <1>2, <1>3, <2>1 DEF GoodList
<1>8. Separate(h, S)
  BY <1>1, <1>2, <1>6, <1>7, EndSeparate
<1>9. k \in 1..Len(S)
  BY <1>2, <1>3
<1> HIDE DEF S
<1> QED
  BY <1>1, <1>4, <1>8, <1>9, ChangedSeparate DEF h

LEMMA FirstSeparate ==
    ASSUME ListInv, SeparateLists, torn = {}, NEW m \in Record, m.key = Len(given) + 1,
           JoinFirst(m)
    PROVE  SeparateLists'
<1> DEFINE R == Segs(m)
           h == Append(given, m)
           S == [R EXCEPT ![1] = AddedToStart(m, R[1])]
<1>1. /\ Known(m.sid) /\ FitsBefore(m, R[1]) /\ RateFits(m, R[1])
      /\ TypeFits(m.type, m.n, R[1]) /\ Changed(m, S, 1)
  BY Zenon DEF JoinFirst, StartsFirst
<1>2. /\ R \in Seq(SegmentOf) /\ 1 \in 1..Len(R) /\ Separate(h, R)
      /\ Handed(m, given, h) /\ \A j \in 1..Len(R) : Good(R[j], given, m.sid)
      /\ \A j \in 1..Len(R) : R[j] \in SegmentOf
  BY <1>1, SegsAre, SeparateSegs, OwnIs
<1>3. GoodList(S, h, m.sid) /\ Len(S) = Len(R)
  BY <1>1, <1>2, StartJoined
<1>4. S \in Seq(SegmentOf)
  BY <1>3 DEF GoodList
<1>5. \A j \in 1..Len(R) : R[1].start <= R[j].start /\ R[j].start <= R[j].end
  BY <1>1, <1>2, OrderIs
<1> HIDE DEF R, h
<1>6. ASSUME NEW j \in 1..Len(R), FitsAfter(m, R[j]), RateFits(m, R[j])
      PROVE  FALSE
  <2>1. R[j].end < m.start /\ EndOf(m) < R[1].start
    BY <1>1, <1>2, <1>6, FitsIs
  <2>2. m.start <= EndOf(m) /\ m.start \in Int /\ EndOf(m) \in Int
    BY RecordIs
  <2>3. R[j].start \in Int /\ R[j].end \in Int /\ R[1].start \in Int
    BY <1>2 DEF SegmentOf
  <2> QED
    BY <1>5, <2>1, <2>2, <2>3
<1>7. Good(AddedToStart(m, R[1]), h, m.sid)
  <2>1. S[1] = AddedToStart(m, R[1])
    BY <1>2, ExceptSeq
  <2> QED
    BY <1>2, <1>3, <2>1 DEF GoodList
<1>8. Separate(h, S)
  BY <1>1, <1>2, <1>6, <1>7, StartSeparate
<1>9. 1 \in 1..Len(S)
  BY <1>2, <1>3
<1> HIDE DEF S
<1> QED
  BY <1>1, <1>4, <1>8, <1>9, ChangedSeparate DEF h

\* The search has found nothing to follow, or nothing to precede.
LEMMA NotFoundIs ==
    ASSUME ListInv, NEW m \in Record, m.key = Len(given) + 1, Known(m.sid)
    PROVE  /\ Before(m) = {} => \A j \in 1..Len(Segs(m)) :
                                   ~(FitsAfter(m, Segs(m)[j]) /\ RateFits(m, Segs(m)[j]))
           /\ After(m) = {} => \A j \in 1..Len(Segs(m)) :
                                   ~(FitsBefore(m, Segs(m)[j]) /\ RateFits(m, Segs(m)[j]))
BY SegsAre DEF Before, After

LEMMA BeforeSeparate ==
    ASSUME ListInv, SeparateLists, torn = {}, NEW m \in Record, m.key = Len(given) + 1,
           JoinBefore(m)
    PROVE  SeparateLists'
<1> DEFINE R == Segs(m)
           k == Min(Before(m))
           h == Append(given, m)
           S == [R EXCEPT ![k] = AddedToEnd(m, R[k])]
<1>1. /\ Known(m.sid) /\ Before(m) # {} /\ After(m) = {}
      /\ TypeFits(m.type, m.n, R[k]) /\ Changed(m, S, k)
  BY Zenon DEF JoinBefore
<1>2. k \in 1..Len(R) /\ FitsAfter(m, R[k]) /\ RateFits(m, R[k])
  BY <1>1, FoundIs
<1>3. /\ R \in Seq(SegmentOf) /\ Separate(h, R)
      /\ Handed(m, given, h) /\ \A j \in 1..Len(R) : Good(R[j], given, m.sid)
  BY <1>1, SegsAre, SeparateSegs, OwnIs
<1>6. \A j \in 1..Len(R) : ~(FitsBefore(m, R[j]) /\ RateFits(m, R[j]))
  BY <1>1, NotFoundIs
<1> HIDE DEF k
<1>4. GoodList(S, h, m.sid) /\ Len(S) = Len(R)
  BY <1>1, <1>2, EndJoined
<1>5. S \in Seq(SegmentOf)
  BY <1>4 DEF GoodList
<1> HIDE DEF R, h
<1>7. Good(AddedToEnd(m, R[k]), h, m.sid)
  <2>1. S[k] = AddedToEnd(m, R[k])
    BY <1>2, <1>3, ExceptSeq
  <2> QED
    BY <1>2, <1>4, <2>1 DEF GoodList
<1>8. Separate(h, S)
  BY <1>2, <1>3, <1>6, <1>7, EndSeparate
<1>9. k \in 1..Len(S)
  BY <1>2, <1>4
<1> HIDE DEF S
<1> QED
  BY <1>1, <1>5, <1>8, <1>9, ChangedSeparate DEF h

LEMMA AfterSeparate ==
    ASSUME ListInv, SeparateLists, torn = {}, NEW m \in Record, m.key = Len(given) + 1,
           JoinAfter(m)
    PROVE  SeparateLists'
<1> DEFINE R == Segs(m)
           k == Min(After(m))
           h == Append(given, m)
           S == [R EXCEPT ![k] = AddedToStart(m, R[k])]
<1>1. /\ Known(m.sid) /\ Before(m) = {} /\ After(m) # {}
      /\ TypeFits(m.type, m.n, R[k]) /\ Changed(m, S, k)
  BY Zenon DEF JoinAfter
<1>2. k \in 1..Len(R) /\ FitsBefore(m, R[k]) /\ RateFits(m, R[k])
  BY <1>1, FoundIs
<1>3. /\ R \in Seq(SegmentOf) /\ Separate(h, R)
      /\ Handed(m, given, h) /\ \A j \in 1..Len(R) : Good(R[j], given, m.sid)
  BY <1>1, SegsAre, SeparateSegs, OwnIs
<1>6. \A j \in 1..Len(R) : ~(FitsAfter(m, R[j]) /\ RateFits(m, R[j]))
  BY <1>1, NotFoundIs
<1> HIDE DEF k
<1>4. GoodList(S, h, m.sid) /\ Len(S) = Len(R)
  BY <1>1, <1>2, StartJoined
<1>5. S \in Seq(SegmentOf)
  BY <1>4 DEF GoodList
<1> HIDE DEF R, h
<1>7. Good(AddedToStart(m, R[k]), h, m.sid)
  <2>1. S[k] = AddedToStart(m, R[k])
    BY <1>2, <1>3, ExceptSeq
  <2> QED
    BY <1>2, <1>4, <2>1 DEF GoodList
<1>8. Separate(h, S)
  BY <1>2, <1>3, <1>6, <1>7, StartSeparate
<1>9. k \in 1..Len(S)
  BY <1>2, <1>4
<1> HIDE DEF S
<1> QED
  BY <1>1, <1>5, <1>8, <1>9, ChangedSeparate DEF h

\* A segment of its own for a record that fits none.
LEMMA AddedSeparate ==
    ASSUME ListInv, SeparateLists, torn = {}, NEW m \in Record, m.key = Len(given) + 1,
           Known(m.sid), NEW h, h = Append(given, m),
           \A j \in 1..Len(Segs(m)) : /\ ~Close(h, Segs(m)[j], NewSegment(m))
                                      /\ ~Close(h, NewSegment(m), Segs(m)[j]),
           NEW c \in 1..Len(Segs(m))+1,
           NEW S \in Seq(SegmentOf), Len(S) = Len(Segs(m)) + 1,
           \A x \in 1..Len(Segs(m))+1 :
              S[x] = IF x < c THEN Segs(m)[x] ELSE IF x = c THEN NewSegment(m) ELSE Segs(m)[x-1],
           Changed(m, S, c)
    PROVE  SeparateLists'
<1> DEFINE R == Segs(m)
           e == NewSegment(m)
<1>1. R \in Seq(SegmentOf) /\ Separate(h, R)
  BY SegsAre, SeparateSegs
<1>2. Separate(h, S)
  <2>1. Clear(h, R, e) /\ PutIn(S, R, c, e) /\ c \in 1..Len(R)+1
    BY DEF Clear, PutIn
  <2> HIDE DEF R, e
  <2> QED
    BY <1>1, <2>1, SeparateInserted
<1>3. c \in 1..Len(S)
  OBVIOUS
<1> QED
  BY <1>2, <1>3, ChangedSeparate

\* The ways to put a segment in are one.
LEMMA PutInIs ==
    ASSUME NEW X, NEW R \in Seq(X), NEW e \in X
    PROVE  /\ Append(R, e) \in Seq(X) /\ Len(Append(R, e)) = Len(R) + 1
           /\ \A x \in 1..Len(R)+1 :
                 Append(R, e)[x] = IF x < Len(R) + 1 THEN R[x]
                                   ELSE IF x = Len(R) + 1 THEN e ELSE R[x-1]
           /\ <<e>> \o R \in Seq(X) /\ Len(<<e>> \o R) = Len(R) + 1
           /\ \A x \in 1..Len(R)+1 :
                 (<<e>> \o R)[x] = IF x < 1 THEN R[x] ELSE IF x = 1 THEN e ELSE R[x-1]
<1>1. Len(R) \in Nat
  BY LenProperties
<1> DEFINE A == Append(R, e)
           one == <<e>>
           P == one \o R
<1>2. A \in Seq(X) /\ Len(A) = Len(R) + 1 /\ A[Len(R) + 1] = e /\ \A x \in 1..Len(R) : A[x] = R[x]
  BY AppendProperties
<1>3. one \in Seq(X) /\ Len(one) = 1 /\ one[1] = e
  OBVIOUS
<1> HIDE DEF A, one
<1>4. /\ P \in Seq(X) /\ Len(P) = Len(one) + Len(R)
      /\ \A x \in 1..Len(one)+Len(R) : P[x] = IF x <= Len(one) THEN one[x] ELSE R[x - Len(one)]
  BY <1>3, ConcatProperties
<1> HIDE DEF P
<1>5. \A x \in 1..Len(R)+1 : A[x] = IF x < Len(R) + 1 THEN R[x]
                                    ELSE IF x = Len(R) + 1 THEN e ELSE R[x-1]
  BY <1>1, <1>2
<1>6. \A x \in 1..Len(R)+1 : P[x] = IF x < 1 THEN R[x] ELSE IF x = 1 THEN e ELSE R[x-1]
  BY <1>1, <1>3, <1>4
<1>7. Len(P) = Len(R) + 1
  BY <1>1, <1>3, <1>4
<1> QED
  BY <1>2, <1>4, <1>5, <1>6, <1>7 DEF A, P, one

LEMMA NewSegmentIs ==
    ASSUME ListInv, NEW m \in Record, m.key = Len(given) + 1
    PROVE  /\ NewSegment(m) \in SegmentOf /\ NewSegment(m).start = m.start
           /\ NewSegment(m).end = EndOf(m) /\ NewSegment(m).per = m.per
<1>1. Handed(m, given, Append(given, m))
  BY DEF ListInv, Handed
<1>2. NewSegment(m) \in SegmentOf
  BY <1>1, NewIs DEF Good
<1> QED
  BY <1>2 DEF NewSegment

LEMMA AfterAllSeparate ==
    ASSUME ListInv, SeparateLists, torn = {}, NEW m \in Record, m.key = Len(given) + 1,
           AddAfterAll(m)
    PROVE  SeparateLists'
<1> DEFINE R == Segs(m)
           e == NewSegment(m)
           h == Append(given, m)
           c == Len(R) + 1
           S == Append(R, e)
<1>1. Known(m.sid) /\ Changed(m, S, c) /\ m.start - m.per - Tol(m) > Id(m).latest
  BY Zenon DEF AddAfterAll, AfterAll
<1>2. /\ R \in Seq(SegmentOf) /\ Len(R) \in Nat /\ \A j \in 1..Len(R) : R[j] \in SegmentOf
      /\ e \in SegmentOf /\ e.start = m.start /\ e.end = EndOf(m)
  BY <1>1, SegsAre, NewSegmentIs
<1>3. /\ h \in Seq(Record) /\ Good(e, h, m.sid) /\ First(e, h) = m /\ Final(e, h) = m
      /\ \A j \in 1..Len(R) : Good(R[j], h, m.sid)
  BY <1>1, OwnIs
<1>4. /\ Id(m).latest \in Int
      /\ \A j \in 1..Len(R) : R[j].end <= Id(m).latest /\ R[j].start <= R[j].end
  BY <1>1, OrderIs
<1> HIDE DEF R, e, h
<1>5. ASSUME NEW j \in 1..Len(R)
      PROVE  ~Close(h, R[j], e) /\ ~Close(h, e, R[j])
  <2> DEFINE r == R[j]
             l == Id(m).latest
             half == m.per \div 2
  <2>1. r \in SegmentOf /\ Good(r, h, m.sid) /\ r.start <= r.end /\ r.end <= l /\ l \in Int
    BY <1>2, <1>4, <1>3
  <2> HIDE DEF r, l
  <2>2. r.start \in Int /\ r.end \in Int /\ r.per \in Nat
    BY <2>1 DEF SegmentOf
  <2>3. /\ m.start \in Int /\ m.per \in Nat /\ EndOf(m) \in Int /\ m.start <= EndOf(m)
        /\ half \in Nat
    BY RecordIs
  <2>4. m.start - m.per - half > l
    BY <1>1 DEF l, Tol
  <2> HIDE DEF half
  <2>5. ~Close(h, e, r)
    <3>1. r.start <= EndOf(m)
      BY <2>1, <2>2, <2>3, <2>4, SMTT(30)
    <3> QED
      BY <1>2, <1>3, <2>1, <3>1, FarIs
  <2>6. ~Close(h, r, e)
    <3>1. r.end + m.per + half < m.start
      BY <2>1, <2>2, <2>3, <2>4, SMTT(30)
    <3> QED
      BY <1>2, <1>3, <2>1, <3>1, FarIs DEF half
  <2> QED
    BY <2>5, <2>6 DEF r
<1>6. /\ S \in Seq(SegmentOf) /\ Len(S) = Len(R) + 1
      /\ \A x \in 1..Len(R)+1 : S[x] = IF x < c THEN R[x] ELSE IF x = c THEN e ELSE R[x-1]
  BY <1>2, PutInIs
<1>7. c \in 1..Len(R)+1
  BY <1>2
<1> HIDE DEF S, c
<1> QED
  BY <1>1, <1>5, <1>6, <1>7, AddedSeparate DEF R, e, h

LEMMA BeforeAllSeparate ==
    ASSUME ListInv, SeparateLists, torn = {}, NEW m \in Record, m.key = Len(given) + 1,
           AddBeforeAll(m)
    PROVE  SeparateLists'
<1> DEFINE R == Segs(m)
           e == NewSegment(m)
           h == Append(given, m)
           S == <<e>> \o R
<1>1. Known(m.sid) /\ Changed(m, S, 1) /\ EndOf(m) + m.per + Tol(m) < Id(m).earliest
  BY Zenon DEF AddBeforeAll, BeforeAll
<1>2. /\ R \in Seq(SegmentOf) /\ Len(R) \in Nat /\ \A j \in 1..Len(R) : R[j] \in SegmentOf
      /\ e \in SegmentOf /\ e.start = m.start /\ e.end = EndOf(m)
  BY <1>1, SegsAre, NewSegmentIs
<1>3. /\ h \in Seq(Record) /\ Good(e, h, m.sid) /\ First(e, h) = m /\ Final(e, h) = m
      /\ \A j \in 1..Len(R) : Good(R[j], h, m.sid)
  BY <1>1, OwnIs
<1>4. /\ Id(m).earliest \in Int
      /\ \A j \in 1..Len(R) : Id(m).earliest <= R[j].start /\ R[j].start <= R[j].end
  BY <1>1, OrderIs
<1> HIDE DEF R, e, h
<1>5. ASSUME NEW j \in 1..Len(R)
      PROVE  ~Close(h, R[j], e) /\ ~Close(h, e, R[j])
  <2> DEFINE r == R[j]
             l == Id(m).earliest
             half == m.per \div 2
  <2>1. r \in SegmentOf /\ Good(r, h, m.sid) /\ r.start <= r.end /\ l <= r.start /\ l \in Int
    BY <1>2, <1>4, <1>3
  <2> HIDE DEF r, l
  <2>2. r.start \in Int /\ r.end \in Int /\ r.per \in Nat
    BY <2>1 DEF SegmentOf
  <2>3. /\ m.start \in Int /\ m.per \in Nat /\ EndOf(m) \in Int /\ m.start <= EndOf(m)
        /\ half \in Nat
    BY RecordIs
  <2>4. EndOf(m) + m.per + half < l
    BY <1>1 DEF l, Tol
  <2> HIDE DEF half
  <2>5. ~Close(h, e, r)
    <3>1. EndOf(m) + m.per + half < r.start
      BY <2>1, <2>2, <2>3, <2>4, SMTT(30)
    <3> QED
      BY <1>2, <1>3, <2>1, <3>1, FarIs DEF half
  <2>6. ~Close(h, r, e)
    <3>1. m.start <= r.end
      BY <2>1, <2>2, <2>3, <2>4, SMTT(30)
    <3> QED
      BY <1>2, <1>3, <2>1, <3>1, FarIs
  <2> QED
    BY <2>5, <2>6 DEF r
<1>6. /\ S \in Seq(SegmentOf) /\ Len(S) = Len(R) + 1
      /\ \A x \in 1..Len(R)+1 : S[x] = IF x < 1 THEN R[x] ELSE IF x = 1 THEN e ELSE R[x-1]
  BY <1>2, PutInIs
<1>7. 1 \in 1..Len(R)+1
  BY <1>2
<1> HIDE DEF S
<1> QED
  BY <1>1, <1>5, <1>6, <1>7, AddedSeparate DEF R, e, h

LEMMA BetweenSeparate ==
    ASSUME ListInv, SeparateLists, torn = {}, NEW m \in Record, m.key = Len(given) + 1,
           AddBetween(m)
    PROVE  SeparateLists'
<1> DEFINE R == Segs(m)
           e == NewSegment(m)
           h == Append(given, m)
           f == IF Followed(m) = {} THEN 0 ELSE Max(Followed(m))
           c == f + 1
           S == InsertAt(R, c, e)
<1>1. Known(m.sid) /\ Changed(m, S, c) /\ Before(m) = {} /\ After(m) = {}
  BY Zenon DEF AddBetween
<1>2. /\ R \in Seq(SegmentOf) /\ Len(R) \in Nat /\ DOMAIN R = 1..Len(R)
      /\ \A j \in 1..Len(R) : R[j] \in SegmentOf
      /\ e \in SegmentOf /\ e.start = m.start /\ e.end = EndOf(m)
  BY <1>1, SegsAre, NewSegmentIs
<1>3. /\ h \in Seq(Record) /\ Good(e, h, m.sid) /\ First(e, h) = m /\ Final(e, h) = m
      /\ \A j \in 1..Len(R) : Good(R[j], h, m.sid)
  BY <1>1, OwnIs
<1>4. Followed(m) \subseteq 1..Len(R)
  BY <1>2 DEF Followed
<1>5. \A j \in 1..Len(R) : /\ ~(FitsAfter(m, R[j]) /\ RateFits(m, R[j]))
                           /\ ~(FitsBefore(m, R[j]) /\ RateFits(m, R[j]))
  BY <1>1, NotFoundIs
<1> HIDE DEF R, e, h
<1>6. f \in 0..Len(R)
  <2>1. Followed(m) \subseteq 0..Len(R)
    BY <1>4
  <2>2. Followed(m) # {} => Max(Followed(m)) \in Followed(m)
    BY <1>2, <2>1, LargestIs
  <2> QED
    BY <1>2, <2>1, <2>2
<1> HIDE DEF f
<1>7. c \in 1..Len(R)+1
  BY <1>2, <1>6
<1> HIDE DEF c
<1>8. /\ S \in Seq(SegmentOf) /\ Len(S) = Len(R) + 1
      /\ \A x \in 1..Len(R)+1 : S[x] = IF x < c THEN R[x] ELSE IF x = c THEN e ELSE R[x-1]
  <2>1. R \in Seq(SegmentOf) /\ e \in SegmentOf
    BY <1>2
  <2> QED
    BY <1>7, <2>1, InsertedIs
<1>9. \A j \in 1..Len(R) : ~Close(h, R[j], e) /\ ~Close(h, e, R[j])
  BY <1>5, <1>3, CloseIsFit
<1> HIDE DEF S
<1> QED
  BY <1>1, <1>7, <1>8, <1>9, AddedSeparate DEF R, e, h

\* What two segments and the record between them become begins as the first
\* and ends as the second.
LEMMA HealSeparate ==
    ASSUME ListInv, SeparateLists, torn = {}, NEW m \in Record, m.key = Len(given) + 1,
           Heal(m)
    PROVE  SeparateLists'
<1> DEFINE R == Segs(m)
           b == Min(Before(m))
           a == Min(After(m))
           t == Joined(AddedToEnd(m, R[b]), R[a])
           E == [R EXCEPT ![b] = t]
           S == RemoveAt(E, a)
           h == Append(given, m)
           k == IF a < b THEN b - 1 ELSE b
<1>1. /\ Known(m.sid) /\ Searched(m) /\ Before(m) # {} /\ After(m) # {}
      /\ TypeFits(m.type, m.n, R[b]) /\ TypeFits(R[a].type, R[a].numsamples, R[b])
      /\ Changed(m, S, k)
  BY Zenon DEF Heal
<1>2. /\ b \in 1..Len(R) /\ RateFits(m, R[b]) /\ FitsAfter(m, R[b])
      /\ a \in 1..Len(R) /\ RateFits(m, R[a]) /\ FitsBefore(m, R[a])
  BY <1>1, FoundIs
<1>3. a # b
  BY <1>1, HealedAreTwo
<1>4. /\ R \in Seq(SegmentOf) /\ Len(R) \in Nat /\ Separate(h, R) /\ GoodList(R, given, m.sid)
      /\ \A j \in 1..Len(R) : R[j] \in SegmentOf /\ Good(R[j], given, m.sid) /\ Once(R[j])
      /\ Handed(m, given, h)
  BY <1>1, SegsAre, SeparateSegs, SMTT(30)
<1> HIDE DEF a, b, R, h
<1>5. t \in SegmentOf
  <2>1. \A key : ~(In(R[b], key) /\ In(R[a], key))
    BY <1>2, <1>3, <1>4 DEF GoodList, Apart
  <2>2. Good(t, h, m.sid)
    BY <1>1, <1>2, <1>4, <2>1, HealedIs
  <2> QED
    BY <2>2 DEF Good
<1>6. /\ t.start = R[b].start /\ t.end = R[a].end
      /\ First(t, h) = First(R[b], h) /\ Final(t, h) = Final(R[a], h)
      /\ Pers(R[b], h) \subseteq Pers(t, h) /\ Pers(R[a], h) \subseteq Pers(t, h)
  <2>1. t.start = R[b].start /\ t.end = R[a].end
    BY <1>2, <1>4, HealedEnds DEF t
  <2>2. Good(R[b], given, m.sid) /\ Good(R[a], given, m.sid)
    BY <1>2, <1>4
  <2> QED
    BY <1>4, <2>1, <2>2, HealJoinedIs DEF t
<1> HIDE DEF t
<1>7. /\ E \in Seq(SegmentOf) /\ Len(E) = Len(R)
      /\ \A j \in 1..Len(R) : E[j] = IF j = b THEN t ELSE R[j]
  BY <1>2, <1>4, <1>5, ExceptSeq
<1> HIDE DEF E
<1>8. ASSUME NEW j \in 1..Len(R), j # a, j # b
      PROVE  ~Close(h, R[j], t) /\ ~Close(h, t, R[j])
  <2>1. ~Close(h, R[j], R[b]) /\ ~Close(h, R[a], R[j])
    BY <1>2, <1>4, <1>8 DEF Separate
  <2>2. ~Close(h, R[j], t)
    BY <1>6, <2>1, CloseDepends
  <2>3. ~Close(h, t, R[j])
    BY <1>6, <2>1, CloseDepends
  <2> QED
    BY <2>2, <2>3
<1>9. ASSUME NEW i \in 1..Len(R), NEW j \in 1..Len(R), i # j, i # a, j # a
      PROVE  ~Close(h, E[i], E[j])
  <2>1. CASE i = b
    BY <1>2, <1>7, <1>8, <1>9, <2>1
  <2>2. CASE j = b
    BY <1>2, <1>7, <1>8, <1>9, <2>2
  <2>3. CASE i # b /\ j # b
    BY <1>4, <1>7, <1>9, <2>3 DEF Separate
  <2> QED
    BY <2>1, <2>2, <2>3
<1> DEFINE g(x) == IF x < a THEN x ELSE x + 1
<1>10. /\ S \in Seq(SegmentOf) /\ Len(S) = Len(R) - 1
       /\ \A x \in 1..Len(R)-1 : S[x] = IF x < a THEN E[x] ELSE E[x+1]
  <2>1. E \in Seq(SegmentOf) /\ Len(E) = Len(R) /\ a \in 1..Len(E)
    BY <1>2, <1>7
  <2> QED
    BY <2>1, RemovedIs
<1> HIDE DEF S
<1>11. \A x \in 1..Len(S) : g(x) \in 1..Len(R) /\ g(x) # a /\ S[x] = E[g(x)]
  BY <1>2, <1>4, <1>10
<1>12. \A x, y \in 1..Len(S) : x # y => g(x) # g(y)
  BY <1>2, <1>4, <1>10
<1> HIDE DEF g
<1>13. Separate(h, S)
  BY <1>9, <1>11, <1>12 DEF Separate
<1>14. k \in 1..Len(S)
  BY <1>2, <1>3, <1>4, <1>10
<1> HIDE DEF k
<1> QED
  BY <1>1, <1>10, <1>13, <1>14, ChangedSeparate DEF h

\* One segment is close to no other.
LEMMA IdSeparate ==
    ASSUME ListInv, SeparateLists, torn = {}, NEW m \in Record, m.key = Len(given) + 1,
           AddId(m)
    PROVE  SeparateLists'
<1> DEFINE h   == Append(given, m)
           one == <<NewSegment(m)>>
           id  == [sid |-> m.sid, earliest |-> m.start, latest |-> EndOf(m), segs |-> one]
           c   == IF LessIds(m.sid) = {} THEN 1 ELSE Closest(m.sid) + 1
<1>1. /\ traces' = InsertAt(traces, c, id) /\ traces \in Seq(TraceId) /\ ~Known(m.sid)
      /\ given' = h /\ Handed(m, given, h)
  BY DEF AddId, ListInv, Stored, Handed
<1>2. one \in Seq(SegmentOf) /\ Len(one) = 1
  BY NewSegmentIs
<1>3. Separate(h, one)
  BY <1>2 DEF Separate
<1>4. id \in TraceId /\ id.segs = one
  BY <1>2, RecordIs DEF TraceId
<1> HIDE DEF id, c, one, h
<1>5. c \in 1..Len(traces)+1
  BY <1>1, RecordIs, PlaceIs DEF c
<1>6. /\ Len(traces') = Len(traces) + 1
      /\ \A x \in 1..Len(traces)+1 :
            traces'[x] = IF x < c THEN traces[x] ELSE IF x = c THEN id ELSE traces[x-1]
  <2> DEFINE T == InsertAt(traces, c, id)
  <2>1. traces \in Seq(TraceId) /\ id \in TraceId /\ c \in 1..Len(traces)+1
    BY <1>1, <1>4, <1>5
  <2>2. /\ T \in Seq(TraceId) /\ Len(T) = Len(traces) + 1
        /\ \A x \in 1..Len(traces)+1 :
              T[x] = IF x < c THEN traces[x] ELSE IF x = c THEN id ELSE traces[x-1]
    <3> HIDE DEF T
    <3>1. \A S : /\ S \in Seq(TraceId) /\ c \in 1..Len(S)+1 =>
                    /\ InsertAt(S, c, id) \in Seq(TraceId) /\ Len(InsertAt(S, c, id)) = Len(S) + 1
                    /\ \A x \in 1..Len(S)+1 : InsertAt(S, c, id)[x] =
                          IF x < c THEN S[x] ELSE IF x = c THEN id ELSE S[x-1]
      <4>1. ASSUME NEW S \in Seq(TraceId), c \in 1..Len(S)+1, id \in TraceId
            PROVE  /\ InsertAt(S, c, id) \in Seq(TraceId) /\ Len(InsertAt(S, c, id)) = Len(S) + 1
                   /\ \A x \in 1..Len(S)+1 : InsertAt(S, c, id)[x] =
                         IF x < c THEN S[x] ELSE IF x = c THEN id ELSE S[x-1]
        BY <4>1, InsertedIs
      <4> QED
        BY <2>1, <4>1
    <3> QED
      BY <2>1, <3>1 DEF T
  <2>3. traces' = T
    BY <1>1
  <2> HIDE DEF T
  <2> QED
    BY <2>2, <2>3
<1>7. Len(traces) \in Nat
  BY <1>1, LenProperties
<1>8. ASSUME NEW j \in 1..Len(traces)
      PROVE  Separate(h, traces[j].segs)
  <2>1. GoodList(traces[j].segs, given, traces[j].sid) /\ Separate(given, traces[j].segs)
    BY DEF ListInv, SeparateLists
  <2> QED
    BY <1>1, <2>1, SeparateLater
<1>9. ASSUME NEW x \in 1..Len(traces')
      PROVE  Separate(h, traces'[x].segs)
  <2>1. CASE x = c
    BY <1>3, <1>4, <1>6, <2>1
  <2>2. CASE x < c
    <3>1. x \in 1..Len(traces) /\ traces'[x] = traces[x]
      BY <1>5, <1>6, <1>7, <2>2
    <3> QED
      BY <1>8, <3>1
  <2>3. CASE x > c
    <3>1. x - 1 \in 1..Len(traces) /\ traces'[x] = traces[x-1]
      BY <1>5, <1>6, <1>7, <2>3
    <3> QED
      BY <1>8, <3>1
  <2> QED
    BY <1>5, <1>6, <1>7, <2>1, <2>2, <2>3
<1> QED
  BY <1>1, <1>9 DEF SeparateLists

\* Of the segments of an ID whose rates are tolerable to each other, none
\* begins where another ends, as long as no heal has broken off.
THEOREM GapsAreHealed == ListSpec => []Healed
<1>1. ListInit => SeparateLists
  <2>1. ListInit => traces = <<>> /\ Len(<<>>) = 0
    BY DEF ListInit
  <2> QED
    BY <2>1 DEF SeparateLists
<1>2. /\ ListInv /\ SeparateLists
      /\ [\E m \in Record : m.key = Len(given) + 1 /\ AddMsr(m)]_listvars
      => SeparateLists'
  <2>1. SUFFICES ASSUME ListInv, SeparateLists,
                        [\E m \in Record : m.key = Len(given) + 1 /\ AddMsr(m)]_listvars
                 PROVE  SeparateLists'
    OBVIOUS
  <2>2. ASSUME NEW m \in Record, m.key = Len(given) + 1, AddMsr(m), torn = {}
        PROVE  SeparateLists'
    <3>1. CASE AddId(m)
      BY <2>1, <2>2, <3>1, IdSeparate
    <3>2. CASE JoinLast(m)
      BY <2>1, <2>2, <3>2, LastSeparate
    <3>3. CASE AddAfterAll(m)
      BY <2>1, <2>2, <3>3, AfterAllSeparate
    <3>4. CASE AddBeforeAll(m)
      BY <2>1, <2>2, <3>4, BeforeAllSeparate
    <3>5. CASE JoinFirst(m)
      BY <2>1, <2>2, <3>5, FirstSeparate
    <3>6. CASE JoinBefore(m)
      BY <2>1, <2>2, <3>6, BeforeSeparate
    <3>7. CASE Heal(m)
      BY <2>1, <2>2, <3>7, HealSeparate
    <3>8. CASE JoinAfter(m)
      BY <2>1, <2>2, <3>8, AfterSeparate
    <3>9. CASE AddBetween(m)
      BY <2>1, <2>2, <3>9, BetweenSeparate
    <3>10. CASE RefuseType(m)
      <4>1. traces' = traces /\ given' = Append(given, m) /\ Handed(m, given, given')
        BY <2>1, <2>2, <3>10 DEF RefuseType, Refused, ListInv, Handed
      <4>2. PICK h : h = given'
        OBVIOUS
      <4>3. ASSUME NEW i \in 1..Len(traces)
            PROVE  Separate(h, traces[i].segs)
        <5>1. GoodList(traces[i].segs, given, traces[i].sid) /\ Separate(given, traces[i].segs)
          BY <2>1, <2>2 DEF ListInv, SeparateLists
        <5> QED
          BY <4>1, <4>2, <5>1, SeparateLater
      <4> QED
        BY <4>1, <4>2, <4>3 DEF SeparateLists
    <3>11. CASE RefuseHeal(m)
      <4>1. torn' # {}
        BY <3>11 DEF RefuseHeal
      <4> QED
        BY <4>1 DEF SeparateLists
    <3> QED
      BY <2>2, <3>1, <3>2, <3>3, <3>4, <3>5, <3>6, <3>7, <3>8, <3>9, <3>10, <3>11, Zenon
         DEF AddMsr
  <2>3. ASSUME NEW m \in Record, AddMsr(m), torn # {}
        PROVE  SeparateLists'
    <3>1. torn \subseteq torn'
      BY <2>3 DEF AddMsr, AddId, JoinLast, AddAfterAll, AddBeforeAll, JoinFirst, JoinBefore,
                  Heal, JoinAfter, AddBetween, RefuseType, RefuseHeal, Changed, Stored
    <3> QED
      BY <2>3, <3>1, SMTT(30) DEF SeparateLists
  <2>4. CASE UNCHANGED listvars
    BY <2>1, <2>4 DEF SeparateLists, listvars
  <2> QED
    BY <2>1, <2>2, <2>3, <2>4
<1>3. ListInv /\ SeparateLists => Healed
  <2>1. SUFFICES ASSUME ListInv, SeparateLists, torn = {}, NEW p \in Segments, NEW q \in Segments,
                        p[1] = q[1], p # q,
                        \A a \in Rates(Seg(p)), b \in Rates(Seg(q)) : Near(a, b) /\ Near(b, a)
                 PROVE  LET before == given[LastOf(Seg(p).data)]
                            after  == given[Seg(q).data[1]]
                            gap    == Seg(q).start - Seg(p).end
                        IN  ~Fits(before, gap - before.per) \/ ~Fits(after, gap - after.per)
    BY DEF Healed
  <2>2. /\ p = <<p[1], p[2]>> /\ p[1] \in 1..Len(traces) /\ p[2] \in 1..Len(traces[p[1]].segs)
        /\ q = <<q[1], q[2]>> /\ q[2] \in 1..Len(traces[q[1]].segs)
        /\ Seg(p) \in SegmentOf /\ Seg(q) \in SegmentOf
    BY <2>1, NamedIs
  <2>3. p[2] # q[2] /\ Separate(given, traces[p[1]].segs)
    BY <2>1, <2>2 DEF SeparateLists
  <2>4. ~Close(given, Seg(p), Seg(q))
    BY <2>1, <2>2, <2>3 DEF Separate, Seg
  <2>5. Rates(Seg(p)) = Pers(Seg(p), given) /\ Rates(Seg(q)) = Pers(Seg(q), given)
    BY <2>2, LenProperties DEF Rates, Pers, SegmentOf
  <2> QED
    BY <2>1, <2>4, <2>5 DEF Close, First, Final, LastOf
<1> QED
  BY <1>1, <1>2, <1>3, ListInvariant, PTL DEF ListSpec
=============================================================================
