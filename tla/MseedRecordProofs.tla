------------------------- MODULE MseedRecordProofs -------------------------
(***************************************************************************)
(* RecordTypeOK, WithinBuffers, SamplesBack, TimesBack and HeaderBack, for *)
(* every segment a caller may hand over: every encoding, version, length   *)
(* of record, start, rate, identifier, samples and extra headers.          *)
(***************************************************************************)
EXTENDS MseedRecord, CalendarProofs, SequenceTheorems, FiniteSetTheorems, WellFoundedInduction, TLAPS

-----------------------------------------------------------------------------
(* Sums and sequences of sequences *)

\* The sums that a total of k numbers runs through.
Sums(f, n, k) == f[0] = 0 /\ \A x \in 1..k : f[x] = f[x - 1] + n[x]
SameNumbers(n, m, k) == \A x \in 1..k : n[x] = m[x]

LEMMA SumsExist ==
    ASSUME NEW n \in Seq(Int)
    PROVE  \A m \in 0..Len(n) : \E f \in [0..m -> Int] :
               f = [x \in 0..m |-> IF x = 0 THEN 0 ELSE f[x - 1] + n[x]]
<1> DEFINE F(m, f) == f = [x \in 0..m |-> IF x = 0 THEN 0 ELSE f[x - 1] + n[x]]
           Has(m) == \E f \in [0..m -> Int] : F(m, f)
           T == {m \in 0..Len(n) : ~Has(m)}
<1>0. Len(n) \in Nat
  BY LenProperties
<1>1. SUFFICES ASSUME T # {} PROVE FALSE
  OBVIOUS
<1>2. PICK m \in T : \A k \in T : m <= k
  <2> HIDE DEF Has
  <2>1. T \subseteq Nat
    BY <1>0
  <2> QED
    BY <1>1, <2>1, LeastOne
<1>3. ~Has(m) /\ m \in 0..Len(n)
  <2> HIDE DEF Has
  <2> QED
    BY <1>2
<1>4. Has(0)
  <2> DEFINE f == [x \in 0..0 |-> 0]
  <2>1. f \in [0..0 -> Int] /\ \A x \in 0..0 : f[x] = IF x = 0 THEN 0 ELSE f[x - 1] + n[x]
    OBVIOUS
  <2>2. F(0, f)
    BY <2>1
  <2> QED
    BY <2>1, <2>2
<1>5. m # 0
  <2> HIDE DEF Has
  <2> QED
    BY <1>3, <1>4
<1>6. m - 1 \in 0..Len(n) /\ m \in 1..Len(n) /\ m \in Nat /\ ~(m <= m - 1)
  BY <1>3, <1>5, <1>0
<1>7. Has(m - 1)
  <2> HIDE DEF Has
  <2> QED
    BY <1>6, <1>2
<1>8. PICK f \in [0..m-1 -> Int] : F(m - 1, f)
  BY <1>7
<1> DEFINE g == [x \in 0..m |-> IF x = m THEN f[m - 1] + n[m] ELSE f[x]]
<1>9. f[m - 1] \in Int /\ n[m] \in Int
  BY <1>6, <1>8, ElementOfSeq
<1>10. g \in [0..m -> Int]
  BY <1>6, <1>9
<1>11. \A x \in 0..m : g[x] = IF x = 0 THEN 0 ELSE g[x - 1] + n[x]
  <2>1. \A x \in 0..m - 1 : f[x] = IF x = 0 THEN 0 ELSE f[x - 1] + n[x]
    BY <1>8
  <2> QED
    BY <2>1, <1>6
<1>12. F(m, g)
  BY <1>11
<1> QED
  BY <1>10, <1>12, <1>3

\* A total adds up from the first number on.
LEMMA TotalSteps ==
    ASSUME NEW n \in Seq(Int)
    PROVE  \E f \in [0..Len(n) -> Int] :
               /\ Total(n) = f[Len(n)] /\ f[0] = 0
               /\ \A x \in 1..Len(n) : f[x] = f[x - 1] + n[x]
<1> DEFINE U(f) == f = [x \in 0..Len(n) |-> IF x = 0 THEN 0 ELSE f[x - 1] + n[x]]
<1>1. PICK g \in [0..Len(n) -> Int] : U(g)
  <2>1. Len(n) \in 0..Len(n)
    BY LenProperties
  <2> QED
    BY <2>1, SumsExist
<1> DEFINE f == CHOOSE f : U(f)
<1>2. U(f)
  BY <1>1, Zenon
<1>3. Total(n) = f[Len(n)]
  BY Zenon DEF Total
<1>4. /\ DOMAIN f = 0..Len(n) /\ Len(n) \in Nat
      /\ \A x \in 0..Len(n) : f[x] = IF x = 0 THEN 0 ELSE f[x - 1] + n[x]
  <2> HIDE DEF f
  <2> QED
    BY <1>2, LenProperties
<1>5. \A x \in 0..Len(n) : f[x] = g[x]
  <2> HIDE DEF f
  <2> DEFINE T == {x \in 0..Len(n) : f[x] # g[x]}
  <2>1. SUFFICES ASSUME T # {} PROVE FALSE
    OBVIOUS
  <2>2. PICK m \in T : \A k \in T : m <= k
    <3>1. T \subseteq Nat
      BY LenProperties
    <3> QED
      BY <2>1, <3>1, LeastOne
  <2>3. \A x \in 0..Len(n) : g[x] = IF x = 0 THEN 0 ELSE g[x - 1] + n[x]
    BY <1>1
  <2>4. m # 0
    BY <2>2, <2>3, <1>4
  <2>5. m - 1 \in 0..Len(n) /\ m - 1 \notin T
    BY <2>2, <2>4, <1>4
  <2>6. f[m - 1] = g[m - 1]
    BY <2>5
  <2>7. f[m] = g[m]
    BY <2>2, <2>3, <2>4, <1>4, <2>6
  <2> QED
    BY <2>2, <2>7
<1> HIDE DEF f
<1>6. Total(n) = g[Len(n)]
  BY <1>3, <1>4, <1>5
<1>7. g[0] = 0 /\ \A x \in 1..Len(n) : g[x] = g[x - 1] + n[x]
  <2>1. \A x \in 0..Len(n) : g[x] = IF x = 0 THEN 0 ELSE g[x - 1] + n[x]
    BY <1>1
  <2> QED
    BY <2>1, <1>4
<1> HIDE DEF U
<1> QED
  BY <1>1, <1>6, <1>7

\* What makes two functions of sums agree.
LEMMA SumsAgree ==
    ASSUME NEW k \in Nat, NEW n, NEW m, NEW f, NEW g,
           SameNumbers(n, m, k), Sums(f, n, k), Sums(g, m, k)
    PROVE  f[k] = g[k]
<1>0. /\ \A x \in 1..k : n[x] = m[x]
      /\ f[0] = g[0]
      /\ \A x \in 1..k : f[x] = f[x - 1] + n[x]
      /\ \A x \in 1..k : g[x] = g[x - 1] + m[x]
  BY DEF SameNumbers, Sums
<1> DEFINE T == {x \in 0..k : f[x] # g[x]}
<1>1. SUFFICES ASSUME k \in T PROVE FALSE
  OBVIOUS
<1>2. PICK x \in T : \A y \in T : x <= y
  <2>1. T \subseteq Nat /\ T # {}
    BY <1>1
  <2> QED
    BY <2>1, LeastOne
<1>3. x # 0
  BY <1>0, <1>2
<1>4. x - 1 \in 0..k /\ x - 1 \notin T /\ x \in 1..k
  BY <1>2, <1>3
<1> QED
  BY <1>0, <1>2, <1>4

LEMMA TotalNext ==
    ASSUME NEW n \in Seq(Int), NEW m \in Seq(Int), Len(m) = Len(n) + 1,
           \A x \in 1..Len(n) : m[x] = n[x]
    PROVE  Total(m) = Total(n) + m[Len(m)] /\ Total(n) \in Int
<1>1. PICK f \in [0..Len(n) -> Int] :
          /\ Total(n) = f[Len(n)] /\ f[0] = 0
          /\ \A x \in 1..Len(n) : f[x] = f[x - 1] + n[x]
  BY TotalSteps
<1>2. PICK g \in [0..Len(m) -> Int] :
          /\ Total(m) = g[Len(m)] /\ g[0] = 0
          /\ \A x \in 1..Len(m) : g[x] = g[x - 1] + m[x]
  BY TotalSteps
<1>3. Len(n) \in Nat /\ Len(m) - 1 = Len(n) /\ Len(m) \in 1..Len(m)
  BY LenProperties
<1>4. \A x \in 1..Len(n) : x \in 1..Len(m)
  BY <1>3
<1>5. f[Len(n)] = g[Len(n)]
  <2>1. SameNumbers(n, m, Len(n)) /\ Sums(f, n, Len(n)) /\ Sums(g, m, Len(n))
    BY <1>1, <1>2, <1>4 DEF SameNumbers, Sums
  <2> QED
    BY <2>1, <1>3, SumsAgree
<1>6. f[Len(n)] \in Int
  BY <1>1, <1>3, SMTT(60)
<1> QED
  BY <1>1, <1>2, <1>3, <1>5, <1>6

LEMMA TotalNone ==
    ASSUME NEW n \in Seq(Int), Len(n) = 0
    PROVE  Total(n) = 0
  BY TotalSteps

\* A total of counts is a count.
LEMMA TotalNat ==
    ASSUME NEW n \in Seq(Nat)
    PROVE  Total(n) \in Nat
<1>1. n \in Seq(Int)
  OBVIOUS
<1>2. PICK f \in [0..Len(n) -> Int] :
          /\ Total(n) = f[Len(n)] /\ f[0] = 0
          /\ \A x \in 1..Len(n) : f[x] = f[x - 1] + n[x]
  BY <1>1, TotalSteps
<1> DEFINE T == {x \in 0..Len(n) : f[x] \notin Nat}
<1>3. Len(n) \in Nat
  BY LenProperties
<1>4. SUFFICES ASSUME T # {} PROVE FALSE
  BY <1>2, <1>3
<1>5. PICK x \in T : \A y \in T : x <= y
  <2>1. T \subseteq Nat /\ T # {}
    BY <1>3, <1>4
  <2> QED
    BY <2>1, LeastOne
<1>6. x - 1 \in 0..Len(n) /\ x - 1 \notin T /\ x \in 1..Len(n)
  BY <1>5, <1>2, <1>3
<1>7. n[x] \in Nat
  BY <1>6, ElementOfSeq
<1> QED
  BY <1>2, <1>5, <1>6, <1>7
\* Sequences put in one another's wake.
LEMMA FlattenSteps ==
    ASSUME NEW S, NEW s \in Seq(Seq(S)), Len(s) # 0
    PROVE  \E f \in [1..Len(s) -> Seq(S)] :
               /\ FlattenSeq(s) = f[Len(s)] /\ f[1] = s[1]
               /\ \A x \in 2..Len(s) : f[x] = f[x - 1] \o s[x]
<1> DEFINE F(m, f) == f = [x \in 1..m |-> IF x = 1 THEN s[x] ELSE f[x - 1] \o s[x]]
           Has(m) == \E f \in [1..m -> Seq(S)] : F(m, f)
           T == {m \in 1..Len(s) : ~Has(m)}
<1>0. Len(s) \in Nat /\ Len(s) \in 1..Len(s) /\ s[1] \in Seq(S)
  BY LenProperties, ElementOfSeq
<1>1. Has(Len(s))
  <2>1. SUFFICES ASSUME T # {} PROVE FALSE
    <3> HIDE DEF Has
    <3> QED
      BY <1>0
  <2>2. PICK m \in T : \A k \in T : m <= k
    <3> HIDE DEF Has
    <3>1. T \subseteq Nat
      BY <1>0
    <3> QED
      BY <2>1, <3>1, LeastOne
  <2>3. ~Has(m) /\ m \in 1..Len(s)
    <3> HIDE DEF Has
    <3> QED
      BY <2>2
  <2>4. Has(1)
    <3> DEFINE f == [x \in 1..1 |-> s[1]]
    <3>1. f \in [1..1 -> Seq(S)]
          /\ \A x \in 1..1 : f[x] = IF x = 1 THEN s[x] ELSE f[x - 1] \o s[x]
      BY <1>0
    <3>2. F(1, f)
      BY <3>1
    <3> QED
      BY <3>1, <3>2
  <2>5. m # 1
    <3> HIDE DEF Has
    <3> QED
      BY <2>3, <2>4
  <2>6. m - 1 \in 1..Len(s) /\ m \in Nat /\ ~(m <= m - 1)
    BY <2>3, <2>5, <1>0
  <2>7. Has(m - 1)
    <3> HIDE DEF Has
    <3> QED
      BY <2>6, <2>2
  <2>8. PICK f \in [1..m-1 -> Seq(S)] : F(m - 1, f)
    BY <2>7
  <2> DEFINE g == [x \in 1..m |-> IF x = m THEN f[m - 1] \o s[m] ELSE f[x]]
  <2>9. f[m - 1] \in Seq(S) /\ s[m] \in Seq(S)
    BY <2>3, <2>6, <2>8, ElementOfSeq
  <2>10. f[m - 1] \o s[m] \in Seq(S)
    BY <2>9, ConcatProperties
  <2>11. g \in [1..m -> Seq(S)]
    <3> DEFINE h == f[m - 1] \o s[m]
    <3> HIDE DEF h
    <3>1. h \in Seq(S)
      BY <2>10 DEF h
    <3>2. g = [x \in 1..m |-> IF x = m THEN h ELSE f[x]]
      BY DEF h
    <3> QED
      BY <3>1, <3>2, <2>6
  <2>12. \A x \in 1..m : g[x] = IF x = 1 THEN s[x] ELSE g[x - 1] \o s[x]
    <3>1. \A x \in 1..m - 1 : f[x] = IF x = 1 THEN s[x] ELSE f[x - 1] \o s[x]
      BY <2>8
    <3>2. \A x \in 1..m : x # m => x \in 1..m - 1 /\ (x # 1 => x - 1 \in 1..m - 1 /\ x - 1 # m)
      BY <2>6
    <3>3. m \in 1..m /\ m - 1 \in 1..m /\ m - 1 # m
      BY <2>6
    <3>4. g[m] = f[m - 1] \o s[m] /\ \A x \in 1..m : x # m => g[x] = f[x]
      BY <3>3, Zenon
    <3> HIDE DEF g
    <3>5. g[m - 1] = f[m - 1]
      BY <3>3, <3>4, Zenon
    <3>6. ASSUME NEW x \in 1..m
          PROVE  g[x] = IF x = 1 THEN s[x] ELSE g[x - 1] \o s[x]
      <4>1. CASE x = m
        BY <4>1, <3>4, <3>5, <2>5, Zenon
      <4>2. CASE x # m /\ x = 1
        BY <4>2, <3>1, <3>2, <3>4, Zenon
      <4>3. CASE x # m /\ x # 1
        <5>1. x - 1 \in 1..m /\ x \in 1..m - 1
          BY <4>3, <3>2, <2>6
        <5> QED
          BY <4>3, <5>1, <3>1, <3>2, <3>4, Zenon
      <4> QED
        BY <4>1, <4>2, <4>3
    <3> QED
      BY <3>6
  <2>13. F(m, g)
    BY <2>12
  <2> QED
    BY <2>11, <2>13, <2>3
<1> DEFINE U(f) == F(Len(s), f)
<1>2. PICK g \in [1..Len(s) -> Seq(S)] : U(g)
  BY <1>1
<1> DEFINE f == CHOOSE f : U(f)
<1>3. U(f)
  BY <1>2, Zenon
<1>4. FlattenSeq(s) = f[Len(s)]
  BY Zenon DEF FlattenSeq
<1>5. /\ \A x \in 1..Len(s) : f[x] = IF x = 1 THEN s[x] ELSE f[x - 1] \o s[x]
      /\ \A x \in 1..Len(s) : g[x] = IF x = 1 THEN s[x] ELSE g[x - 1] \o s[x]
  <2> HIDE DEF f
  <2> QED
    BY <1>2, <1>3
<1> HIDE DEF f, U
<1>6. \A x \in 1..Len(s) : f[x] = g[x]
  <2> DEFINE D == {x \in 1..Len(s) : f[x] # g[x]}
  <2>1. SUFFICES ASSUME D # {} PROVE FALSE
    OBVIOUS
  <2>2. PICK m \in D : \A k \in D : m <= k
    <3>1. D \subseteq Nat
      BY <1>0
    <3> QED
      BY <2>1, <3>1, LeastOne
  <2>3. m # 1
    BY <2>2, <1>5
  <2>4. m - 1 \in 1..Len(s) /\ m - 1 \notin D
    BY <2>2, <2>3, <1>0
  <2>5. f[m - 1] = g[m - 1]
    BY <2>4
  <2>6. m \in 1..Len(s) /\ f[m] = f[m - 1] \o s[m] /\ g[m] = g[m - 1] \o s[m]
    <3>1. m \in 1..Len(s)
      BY <2>2
    <3> QED
      BY <1>5, <2>3, <3>1
  <2>7. f[m] = g[m]
    BY <2>5, <2>6
  <2> QED
    BY <2>2, <2>7
<1>7. \A x \in 2..Len(s) : x \in 1..Len(s) /\ x # 1
  BY <1>0
<1>8. g[1] = s[1] /\ \A x \in 2..Len(s) : g[x] = g[x - 1] \o s[x]
  <2>1. 1 \in 1..Len(s)
    BY <1>0
  <2> QED
    BY <1>5, <1>7, <2>1
<1> QED
  BY <1>2, <1>4, <1>6, <1>8, <1>0, Zenon

LEMMA Flattened ==
    ASSUME NEW S, NEW s \in Seq(Seq(S))
    PROVE  FlattenSeq(s) \in Seq(S)
<1>1. CASE Len(s) = 0
  <2>1. FlattenSeq(s) = s /\ s = <<>>
    BY <1>1, EmptySeq DEF FlattenSeq
  <2> QED
    BY <2>1
<1>2. CASE Len(s) # 0
  <2>1. PICK f \in [1..Len(s) -> Seq(S)] : FlattenSeq(s) = f[Len(s)]
    BY <1>2, FlattenSteps
  <2>2. Len(s) \in 1..Len(s)
    BY <1>2, LenProperties
  <2> QED
    BY <2>1, <2>2
<1> QED
  BY <1>1, <1>2

-----------------------------------------------------------------------------
(* The header *)

\* Fields of two objects put together.
LEMMA FieldWith ==
    ASSUME NEW object, NEW rest, NEW key \in DOMAIN object
    PROVE  With(object, rest)[key] = object[key] /\ key \in DOMAIN With(object, rest)
  BY DEF With
LEMMA OtherWith ==
    ASSUME NEW object, NEW rest, NEW key \in DOMAIN rest, key \notin DOMAIN object
    PROVE  With(object, rest)[key] = rest[key] /\ key \in DOMAIN With(object, rest)
  BY DEF With

\* A blockette has a length.
IsBlockette(b) == b.length \in Nat

LEMMA EventIs == \A d : IsBlockette(EventBlockette(d))
<1> SUFFICES ASSUME NEW d PROVE IsBlockette(EventBlockette(d))
  OBVIOUS
<1> DEFINE r == IF Says(d, "Type", "MURDOCK") THEN B201(d) ELSE B200(d)
<1>1. "length" \notin DOMAIN Detection(d)
  BY DEF Detection
<1>2. "length" \in DOMAIN r /\ r.length \in Nat
  BY DEF B201, B200
<1>3. EventBlockette(d) = With(Detection(d), r)
  BY DEF EventBlockette
<1> HIDE DEF r
<1>4. With(Detection(d), r)["length"] = r["length"]
  BY <1>1, <1>2, OtherWith
<1> QED
  BY <1>2, <1>3, <1>4 DEF IsBlockette
LEMMA BegunIs ==
    ASSUME NEW c, NEW b, "length" \in DOMAIN b, b.length \in Nat
    PROVE  \E d : Begun(c, b) = <<d>> /\ IsBlockette(d)
<1> DEFINE d == With(With(b, Calibration(c)), [time |-> Time(c, "BeginTime")])
<1>1. With(b, Calibration(c))["length"] = b["length"] /\ "length" \in DOMAIN With(b, Calibration(c))
  BY FieldWith
<1>2. d["length"] = With(b, Calibration(c))["length"]
  BY <1>1, FieldWith
<1>3. Begun(c, b) = <<d>>
  BY DEF Begun
<1> HIDE DEF d
<1> QED
  BY <1>1, <1>2, <1>3 DEF IsBlockette

LEMMA CalibrationIs ==
    ASSUME NEW c
    PROVE  CalibrationOf(c) = <<>> \/ \E b : CalibrationOf(c) = <<b>> /\ IsBlockette(b)
<1>1. /\ "length" \in DOMAIN B300(c) /\ B300(c).length \in Nat
      /\ "length" \in DOMAIN B320(c) /\ B320(c).length \in Nat
  <2> DEFINE r == [type |-> 300, length |-> 60, steps |-> At0(c, "Steps"),
                   sign |-> Bit(0, On(c, "StepFirstPulsePositive"))
                                \union Bit(1, On(c, "StepAlternateSign")),
                   between |-> Cut(At0(c, "StepBetween"))]
             s == [type |-> 320, length |-> 64, range |-> Bit(4, Says(c, "AmplitudeRange", "RANDOM")),
                   noise |-> Text(c, "Noise", 8)]
  <2>1. "length" \in DOMAIN r /\ r["length"] = 60 /\ "length" \in DOMAIN s /\ s["length"] = 64
    OBVIOUS
  <2>2. B300(c) = With(r, Filtered(c)) /\ B320(c) = With(s, Filtered(c))
    BY DEF B300, B320
  <2> HIDE DEF r, s
  <2>3. /\ With(r, Filtered(c))["length"] = 60 /\ "length" \in DOMAIN With(r, Filtered(c))
        /\ With(s, Filtered(c))["length"] = 64 /\ "length" \in DOMAIN With(s, Filtered(c))
    BY <2>1, FieldWith
  <2> QED
    BY <2>2, <2>3
<1>2. /\ "length" \in DOMAIN B310(c) /\ B310(c).length \in Nat
      /\ "length" \in DOMAIN B390 /\ B390.length \in Nat
  BY DEF B310, B390
<1>3. \A b \in {B300(c), B310(c), B320(c), B390} : \E d : Begun(c, b) = <<d>> /\ IsBlockette(d)
  BY <1>1, <1>2, BegunIs
<1>4. \E b : Untyped = <<b>> /\ IsBlockette(b)
  <2>1. Untyped = <<[type |-> 0, length |-> 0, time |-> BadTime]>>
    BY DEF Untyped
  <2>2. IsBlockette([type |-> 0, length |-> 0, time |-> BadTime])
    BY DEF IsBlockette
  <2> QED
    BY <2>1, <2>2, Zenon
<1>5. CalibrationOf(c) \in {Begun(c, B300(c)), Begun(c, B310(c)), Begun(c, B320(c)), Begun(c, B390),
                            <<>>, Untyped}
  BY Zenon DEF CalibrationOf
<1> QED
  BY <1>3, <1>4, <1>5

LEMMA CalibrationAndEnd ==
    ASSUME NEW c
    PROVE  LET q == CalibrationOf(c) \o B395(c)
           IN  /\ Len(q) \in Nat /\ DOMAIN q = 1..Len(q) /\ q \in Seq({q[y] : y \in DOMAIN q})
               /\ \A y \in DOMAIN q : IsBlockette(q[y])
<1>1. PICK b : CalibrationOf(c) = <<>> \/ (CalibrationOf(c) = <<b>> /\ IsBlockette(b))
  BY CalibrationIs
<1>2. PICK e : B395(c) = <<>> \/ (B395(c) = <<e>> /\ IsBlockette(e))
  BY DEF B395, IsBlockette
<1> DEFINE q == CalibrationOf(c) \o B395(c)
<1>3. q \in {<<>>, <<b>>, <<e>>, <<b, e>>} /\ q \in Seq({b, e})
  <2>1. /\ CalibrationOf(c) \in {<<>>, <<b>>} /\ B395(c) \in {<<>>, <<e>>}
    BY <1>1, <1>2
  <2> DEFINE l == CalibrationOf(c)  r == B395(c)
  <2>2. l \in {<<>>, <<b>>} /\ r \in {<<>>, <<e>>} /\ q = l \o r
    BY <2>1
  <2> HIDE DEF l, r, q
  <2>3. /\ <<>> \o <<>> = <<>> /\ <<b>> \o <<>> = <<b>> /\ <<>> \o <<e>> = <<e>>
        /\ <<b>> \o <<e>> = <<b, e>>
    <3>1. <<>> \in Seq({b, e}) /\ <<b>> \in Seq({b, e}) /\ <<e>> \in Seq({b, e})
      OBVIOUS
    <3>2. <<b>> \o <<e>> = <<b, e>>
      <4> DEFINE u == <<b>> \o <<e>>
      <4>1. Len(<<b>>) = 1 /\ Len(<<e>>) = 1 /\ <<b>>[1] = b /\ <<e>>[1] = e
        OBVIOUS
      <4>2. u \in Seq({b, e}) /\ Len(u) = 1 + 1
        BY <3>1, <4>1, ConcatProperties
      <4>3. u[1] = b /\ u[2] = e
        BY <3>1, <4>1, ConcatProperties
      <4> HIDE DEF u
      <4>4. u = <<b, e>>
        BY <4>2, <4>3
      <4> QED
        BY <4>4 DEF u
    <3> QED
      BY <3>1, <3>2, ConcatEmptySeq
  <2>4. q \in {<<>>, <<b>>, <<e>>, <<b, e>>}
    BY <2>2, <2>3
  <2>5. <<>> \in Seq({b, e}) /\ <<b>> \in Seq({b, e}) /\ <<e>> \in Seq({b, e}) /\ <<b, e>> \in Seq({b, e})
    OBVIOUS
  <2> QED
    BY <2>4, <2>5
<1>4. \A y \in DOMAIN q : IsBlockette(q[y])
  <2>1. CASE CalibrationOf(c) = <<>> /\ B395(c) = <<>>
    BY <2>1
  <2>2. CASE CalibrationOf(c) = <<b>> /\ B395(c) = <<>> /\ IsBlockette(b)
    BY <2>2
  <2>3. CASE CalibrationOf(c) = <<>> /\ B395(c) = <<e>> /\ IsBlockette(e)
    BY <2>3
  <2>4. CASE CalibrationOf(c) = <<b>> /\ B395(c) = <<e>> /\ IsBlockette(b) /\ IsBlockette(e)
    BY <2>4
  <2> QED
    BY <1>1, <1>2, <2>1, <2>2, <2>3, <2>4
<1>5. q \in Seq({b, e})
  BY <1>3
<1> HIDE DEF q
<1>6. Len(q) \in Nat /\ DOMAIN q = 1..Len(q)
  BY <1>5
<1>7. q \in Seq({q[y] : y \in DOMAIN q})
  BY <1>5, <1>6
<1> QED
  BY <1>4, <1>6, <1>7 DEF q

\* What stands in a sequence.
Members(s) == {s[x] : x \in DOMAIN s}

\* The blockettes of the extra headers.
Written(extra, micro) ==
    {B500(e, Text(extra, "FDSN.Clock.Model", 32), micro) : e \in Members(List(extra, Exceptions))}
    \union {EventBlockette(d) : d \in Members(List(extra, Detections))}
    \union UNION {Members(CalibrationOf(c) \o B395(c)) : c \in Members(List(extra, Calibrations))}

\* What PackExtras makes is a sequence of blockettes.
LEMMA ExtrasAre ==
    ASSUME NEW extra, NEW micro, \A list \in Lists : IsSequence(List(extra, list))
    PROVE  LET b == PackExtras(extra, micro)
           IN  /\ b \in Seq({b[x] : x \in DOMAIN b})
               /\ \A x \in DOMAIN b : IsBlockette(b[x]) /\ b[x] \in Written(extra, micro)
<1> DEFINE le == List(extra, Exceptions)
           ld == List(extra, Detections)
           lc == List(extra, Calibrations)
           e == Mapped(le, LAMBDA x : B500(x, Text(extra, "FDSN.Clock.Model", 32), micro))
           d == Mapped(ld, EventBlockette)
           p == Mapped(lc, LAMBDA c : CalibrationOf(c) \o B395(c))
           S == {e[x] : x \in DOMAIN le} \union {d[x] : x \in DOMAIN ld}
                  \union UNION {{p[x][y] : y \in DOMAIN p[x]} : x \in DOMAIN lc}
<1>1. /\ Len(le) \in Nat /\ DOMAIN le = 1..Len(le) /\ Len(ld) \in Nat /\ DOMAIN ld = 1..Len(ld)
      /\ Len(lc) \in Nat /\ DOMAIN lc = 1..Len(lc)
  <2>1. IsSequence(le) /\ IsSequence(ld) /\ IsSequence(lc)
    BY DEF Lists
  <2> HIDE DEF le, ld, lc
  <2> QED
    BY <2>1, LenProperties DEF IsSequence
<1>2. \A x \in DOMAIN le : IsBlockette(e[x])
  BY DEF Mapped, B500, IsBlockette
<1>3. \A x \in DOMAIN ld : IsBlockette(d[x])
  BY EventIs DEF Mapped
<1>4. \A x \in DOMAIN lc : /\ p[x] \in Seq({p[x][y] : y \in DOMAIN p[x]})
                           /\ \A y \in DOMAIN p[x] : IsBlockette(p[x][y])
  BY CalibrationAndEnd DEF Mapped
<1>5. e = [x \in 1..Len(le) |-> e[x]] /\ d = [x \in 1..Len(ld) |-> d[x]] /\ p = [x \in 1..Len(lc) |-> p[x]]
  BY <1>1, Zenon DEF Mapped
<1>6. PackExtras(extra, micro) = e \o d \o FlattenSeq(p)
  BY Zenon DEF PackExtras
<1>60. S = Written(extra, micro)
  <2>1. /\ \A x \in DOMAIN le : e[x] = B500(le[x], Text(extra, "FDSN.Clock.Model", 32), micro)
        /\ \A x \in DOMAIN ld : d[x] = EventBlockette(ld[x])
        /\ \A x \in DOMAIN lc : p[x] = CalibrationOf(lc[x]) \o B395(lc[x])
    BY DEF Mapped
  <2> HIDE DEF le, ld, lc, e, d, p
  <2>2. /\ {e[x] : x \in DOMAIN le} = {B500(z, Text(extra, "FDSN.Clock.Model", 32), micro) : z \in Members(le)}
        /\ {d[x] : x \in DOMAIN ld} = {EventBlockette(z) : z \in Members(ld)}
    BY <2>1 DEF Members
  <2>3. UNION {{p[x][y] : y \in DOMAIN p[x]} : x \in DOMAIN lc}
          = UNION {Members(CalibrationOf(z) \o B395(z)) : z \in Members(lc)}
    <3> DEFINE M(z) == Members(CalibrationOf(z) \o B395(z))
    <3>1. \A x \in DOMAIN lc : {p[x][y] : y \in DOMAIN p[x]} = M(lc[x])
      BY <2>1 DEF Members
    <3> HIDE DEF M
    <3>2. {{p[x][y] : y \in DOMAIN p[x]} : x \in DOMAIN lc} = {M(z) : z \in Members(lc)}
      BY <3>1 DEF Members
    <3> QED
      BY <3>2, Zenon DEF M
  <2> QED
    BY <2>2, <2>3, Zenon DEF Written, le, ld, lc
<1> HIDE DEF le, ld, lc, e, d, p
<1>7. e \in Seq(S) /\ d \in Seq(S)
  BY <1>1, <1>5
<1>8. p \in Seq(Seq(S))
  <2>1. ASSUME NEW x \in DOMAIN lc
        PROVE  p[x] \in Seq(S)
    <3> DEFINE R == {p[x][y] : y \in DOMAIN p[x]}
    <3>1. R \subseteq S
      OBVIOUS
    <3>2. p[x] \in Seq(R)
      BY <1>4
    <3> HIDE DEF R, S
    <3> QED
      BY <3>1, <3>2
  <2> QED
    BY <2>1, <1>1, <1>5
<1>9. \A b \in S : IsBlockette(b)
  BY <1>2, <1>3, <1>4
<1> HIDE DEF S
<1>10. FlattenSeq(p) \in Seq(S)
  BY <1>8, Flattened
<1>11. e \o d \o FlattenSeq(p) \in Seq(S)
  BY <1>7, <1>10, ConcatProperties
<1> DEFINE b == PackExtras(extra, micro)
<1>12. b \in Seq(S)
  BY <1>6, <1>11
<1> HIDE DEF b
<1>13. \A x \in DOMAIN b : b[x] \in S
  BY <1>12
<1>14. b \in Seq({b[x] : x \in DOMAIN b})
  BY <1>12
<1> QED
  BY <1>9, <1>13, <1>14, <1>60 DEF b
LEMMA LengthIsNat ==
    ASSUME NEW b, b \in Seq({b[x] : x \in DOMAIN b}), \A x \in DOMAIN b : IsBlockette(b[x])
    PROVE  LengthOf(b) \in Nat
<1> DEFINE n == [x \in DOMAIN b |-> b[x].length]
<1>1. DOMAIN b = 1..Len(b) /\ Len(b) \in Nat
  BY LenProperties
<1>2. n \in Seq(Nat)
  <2>1. \A x \in DOMAIN b : b[x].length \in Nat
    BY DEF IsBlockette
  <2>2. n \in [1..Len(b) -> Nat]
    BY <1>1, <2>1
  <2> HIDE DEF n
  <2> QED
    BY <1>1, <2>2, SMTT(60)
<1> HIDE DEF n
<1>3. LengthOf(b) = Total(n)
  BY DEF LengthOf, n
<1> QED
  BY <1>2, <1>3, TotalNat

\* Where the data begin depends on neither the time nor the number of samples.
AlikeBut(g, h) ==
    /\ DOMAIN g = DOMAIN h
    /\ \A key \in DOMAIN h \ {"time", "numsamples"} : g[key] = h[key]

LEMMA HeaderIs ==
    ASSUME JobOK, NEW h \in Header
    PROVE  /\ h.version = job.version
           /\ h.encoding = (IF N = 0 THEN "text" ELSE job.encoding)
           /\ {"version", "encoding", "time", "numsamples"} \subseteq DOMAIN h
           /\ h.time = Stamp(job.start) /\ h.numsamples = 0
           /\ job.version = 2 =>
                /\ {"b1001", "b100", "blockettes"} \subseteq DOMAIN h
                /\ Expressible(Codes) /\ Factors # NoFactors
                /\ h = Header2With(Factors, job.extra)
                /\ ExtrasFit(h.blockettes, HeaderWritten(h), job.reclen)
           /\ job.version = 3 => {"sid", "extra"} \subseteq DOMAIN h /\ h = Header3
           /\ HeaderLength(h) \in Nat
<1>1. CASE job.version = 2
  <2>1. /\ h = Header2With(Factors, job.extra) /\ Expressible(Codes) /\ Factors # NoFactors
        /\ ExtrasFit(h.blockettes, HeaderWritten(h), job.reclen)
    BY <1>1 DEF Header, Header2, NoHeader
  <2>2. /\ h.version = 2 /\ h.encoding = (IF N = 0 THEN "text" ELSE job.encoding)
        /\ {"version", "encoding", "time", "numsamples", "b1001", "b100", "blockettes"} \subseteq DOMAIN h
        /\ h.time = Stamp(job.start) /\ h.numsamples = 0
        /\ h.blockettes = PackExtras(job.extra, Micro)
    BY <2>1 DEF Header2With
  <2>3. LengthOf(h.blockettes) \in Nat
    <3>1. \A list \in Lists : IsSequence(List(job.extra, list))
      BY DEF JobOK
    <3> DEFINE b == PackExtras(job.extra, Micro)
    <3>2. b \in Seq({b[x] : x \in DOMAIN b}) /\ \A x \in DOMAIN b : IsBlockette(b[x])
      BY <3>1, ExtrasAre
    <3> HIDE DEF b
    <3>3. LengthOf(b) \in Nat
      BY <3>2, LengthIsNat
    <3> QED
      BY <2>2, <3>3 DEF b
  <2>4. HeaderLength(h) = HeaderWritten(h) + LengthOf(h.blockettes)
    BY <2>2 DEF HeaderLength
  <2>5. HeaderWritten(h) \in Nat
    BY DEF HeaderWritten
  <2> QED
    BY <1>1, <2>1, <2>2, <2>3, <2>4, <2>5
<1>2. CASE job.version = 3
  <2>1. h = Header3
    BY <1>2 DEF Header
  <2>2. /\ h.version = 3 /\ h.encoding = (IF N = 0 THEN "text" ELSE job.encoding)
        /\ {"version", "encoding", "time", "numsamples", "sid", "extra"} \subseteq DOMAIN h
        /\ h.time = Stamp(job.start) /\ h.numsamples = 0
        /\ h.sid = job.sid /\ h.extra = job.extra
    BY <2>1 DEF Header3
  <2>3. Len(job.sid) \in Nat /\ Cardinality(DOMAIN job.extra) \in Nat /\ ExtraBytes \in Nat
    BY FS_CardinalityType, LenProperties, RecordAssumption DEF JobOK, IsSequence
  <2>4. HeaderLength(h) = 45 + Len(job.sid) + ExtraBytes * Cardinality(DOMAIN job.extra)
    BY <2>2 DEF HeaderLength
  <2> QED
    BY <1>2, <2>1, <2>2, <2>3, <2>4
<1> QED
  BY <1>1, <1>2 DEF JobOK

\* The header of the buffer, but for its time.
MadeHeader(g) == \E h \in Header : AlikeBut(g, h)

LEMMA MadeIs ==
    ASSUME JobOK, NEW g, NEW h \in Header, AlikeBut(g, h)
    PROVE  /\ g.version = job.version
           /\ g.encoding = (IF N = 0 THEN "text" ELSE job.encoding)
           /\ {"version", "encoding", "time", "numsamples"} \subseteq DOMAIN g
           /\ HeaderLength(g) = HeaderLength(h)
           /\ MaxDataBytes(g) = MaxDataBytes(h) /\ MaxFrames(g) = MaxFrames(h)
           /\ DataOffset(g) \in Nat /\ MaxDataBytes(g) \in Int /\ MaxFrames(g) \in Int
           /\ DataOffset(g) = DataOffset(h)
<1>1. g.version = h.version /\ g.encoding = h.encoding
  BY HeaderIs DEF AlikeBut
<1>2. HeaderLength(g) = HeaderLength(h)
  <2>1. CASE job.version = 2
    <3>1. g.b1001 = h.b1001 /\ g.b100 = h.b100 /\ g.blockettes = h.blockettes
      BY <2>1, HeaderIs DEF AlikeBut
    <3> QED
      BY <1>1, <2>1, <3>1, HeaderIs DEF HeaderLength, HeaderWritten
  <2>2. CASE job.version = 3
    <3>1. g.sid = h.sid /\ g.extra = h.extra
      BY <2>2, HeaderIs DEF AlikeBut
    <3> QED
      BY <1>1, <2>2, <3>1, HeaderIs DEF HeaderLength
  <2> QED
    BY <2>1, <2>2 DEF JobOK
<1>3. DataOffset(g) = DataOffset(h) /\ DataOffset(h) \in Nat
  <2>1. HeaderLength(h) \in Nat
    BY HeaderIs
  <2>2. DataOffset(h) \in Nat
    BY <2>1 DEF DataOffset
  <2> QED
    BY <2>2, <1>1, <1>2 DEF DataOffset
<1>4. job.reclen \in Nat
  BY DEF JobOK
<1>5. MaxDataBytes(h) \in Int /\ MaxDataBytes(g) = MaxDataBytes(h)
  BY <1>3, <1>4 DEF MaxDataBytes
<1>6. MaxFrames(h) \in Int /\ MaxFrames(g) = MaxFrames(h)
  BY <1>5 DEF MaxFrames
<1> QED
  BY <1>1, <1>2, <1>3, <1>5, <1>6, HeaderIs DEF AlikeBut

-----------------------------------------------------------------------------
(* Sequences of whatever. *)

LEMMA SequenceOf ==
    ASSUME NEW S, NEW s \in Seq(S)
    PROVE  IsSequence(s) /\ Len(s) \in Nat /\ DOMAIN s = 1..Len(s)
  BY LenProperties DEF IsSequence

LEMMA SequenceIs ==
    ASSUME NEW s, IsSequence(s)
    PROVE  /\ Len(s) \in Nat /\ DOMAIN s = 1..Len(s)
           /\ \E S : s \in Seq(S)
  BY LenProperties DEF IsSequence

LEMMA AppendIs ==
    ASSUME NEW s, IsSequence(s), NEW e
    PROVE  /\ IsSequence(Append(s, e)) /\ Len(Append(s, e)) = Len(s) + 1
           /\ \A x \in 1..Len(s) : Append(s, e)[x] = s[x]
           /\ Append(s, e)[Len(s) + 1] = e
<1> DEFINE S == {s[x] : x \in DOMAIN s} \union {e}
           u == Append(s, e)
<1>1. s \in Seq(S) /\ e \in S
  BY DEF IsSequence
<1> HIDE DEF S
<1>2. u \in Seq(S) /\ Len(u) = Len(s) + 1
  BY <1>1, AppendProperties
<1>3. \A x \in 1..Len(s) : u[x] = s[x]
  BY <1>1, AppendProperties
<1>4. u[Len(s) + 1] = e
  BY <1>1, AppendProperties
<1> HIDE DEF u
<1>5. IsSequence(u)
  BY <1>2, SequenceOf
<1> QED
  BY <1>2, <1>3, <1>4, <1>5 DEF u

LEMMA ConcatIs ==
    ASSUME NEW s, IsSequence(s), NEW t, IsSequence(t)
    PROVE  /\ IsSequence(s \o t) /\ Len(s \o t) = Len(s) + Len(t)
           /\ \A x \in 1..Len(s) : (s \o t)[x] = s[x]
           /\ \A x \in 1..Len(t) : (s \o t)[Len(s) + x] = t[x]
<1> DEFINE S == {s[x] : x \in DOMAIN s} \union {t[x] : x \in DOMAIN t}
<1>1. s \in Seq(S) /\ t \in Seq(S)
  BY DEF IsSequence
<1> HIDE DEF S
<1>2. Len(s) \in Nat /\ Len(t) \in Nat
  BY <1>1, LenProperties
<1>3. s \o t \in Seq(S) /\ Len(s \o t) = Len(s) + Len(t)
  BY <1>1, ConcatProperties
<1>4. \A i \in 1..Len(s) + Len(t) : (s \o t)[i] = IF i <= Len(s) THEN s[i] ELSE t[i - Len(s)]
  BY <1>1, ConcatProperties
<1> DEFINE u == s \o t
<1> HIDE DEF u
<1>5. \A x \in 1..Len(s) : u[x] = s[x]
  BY <1>2, <1>4 DEF u
<1>6. ASSUME NEW x \in 1..Len(t)
      PROVE  u[Len(s) + x] = t[x]
  <2>1. Len(s) + x \in 1..Len(s) + Len(t) /\ ~(Len(s) + x <= Len(s)) /\ (Len(s) + x) - Len(s) = x
    BY <1>2
  <2> QED
    BY <1>4, <2>1 DEF u
<1> QED
  BY <1>3, <1>5, <1>6, SequenceOf DEF u

LEMMA FromTo ==
    ASSUME NEW s, IsSequence(s), NEW m \in Nat \ {0}, NEW n \in Nat, n <= Len(s), m <= n + 1
    PROVE  /\ IsSequence(SubSeq(s, m, n)) /\ Len(SubSeq(s, m, n)) = n - m + 1
           /\ \A x \in 1..n - m + 1 : SubSeq(s, m, n)[x] = s[m + x - 1]
<1> DEFINE S == {s[x] : x \in DOMAIN s}
<1>1. s \in Seq(S) /\ Len(s) \in Nat
  BY LenProperties DEF IsSequence
<1> HIDE DEF S
<1>2. m \in 1..Len(s) + 1 /\ n \in m - 1..Len(s)
  BY <1>1
<1>3. /\ SubSeq(s, m, n) \in Seq(S) /\ Len(SubSeq(s, m, n)) = n - m + 1
      /\ \A x \in 1..n - m + 1 : SubSeq(s, m, n)[x] = s[m + x - 1]
  BY <1>1, <1>2, SubSeqProperties
<1> QED
  BY <1>3, SequenceOf

LEMMA MadeOf ==
    ASSUME NEW f, NEW n \in Nat, DOMAIN f = 1..n, f = [x \in 1..n |-> f[x]]
    PROVE  IsSequence(f) /\ Len(f) = n
<1> DEFINE S == {f[x] : x \in DOMAIN f}
<1>1. f \in [1..n -> S]
  OBVIOUS
<1> HIDE DEF S
<1>2. f \in Seq(S) /\ Len(f) = n
  BY <1>1
<1> QED
  BY <1>2, SequenceOf

-----------------------------------------------------------------------------
(* Packings *)

LEMMA PackingIs ==
    ASSUME NEW e \in {Steim1, Steim2}, NEW p \in Packings(e)
    PROVE  /\ p.n \in 1..7 /\ p.n <= Ahead(e) /\ p.nibble \in 1..3 /\ p.dnib \in 0..3
           /\ p.w \in Widths \union {32}
  BY DEF Packings, Packing, Ahead, Steim1, Steim2, Widths

LEMMA FullestIs ==
    ASSUME NEW e \in {Steim1, Steim2}, NEW P, P \subseteq Packings(e), P # {}
    PROVE  Fullest(P) \in P /\ \A q \in P : q.n <= Fullest(P).n
<1> DEFINE T == {7 - p.n : p \in P}
<1>1. \A p \in P : p.n \in 1..7
  BY PackingIs
<1>2. T \subseteq Nat /\ T # {}
  BY <1>1
<1>3. PICK t \in T : \A u \in T : t <= u
  BY <1>2, LeastOne
<1>4. PICK p \in P : t = 7 - p.n
  BY <1>3
<1>5. \A q \in P : q.n <= p.n
  BY <1>1, <1>3, <1>4, SMTT(60)
<1> QED
  BY <1>5, Zenon DEF Fullest

LEMMA Power2 ==
    /\ Power(3) = 8 /\ Power(4) = 16 /\ Power(5) = 32 /\ Power(6) = 64 /\ Power(7) = 128
    /\ Power(8) = 256 /\ Power(9) = 512 /\ Power(10) = 1024 /\ Power(14) = 16384
    /\ Power(15) = 32768 /\ Power(16) = 65536 /\ Power(29) = 536870912 /\ Power(30) = 1073741824
  BY DEF Power

\* The width of a number has room for it.
LEMMA WidthFits ==
    ASSUME NEW d \in Int, NEW w \in Widths, BitWidth(d) <= w
    PROVE  FitsIn(d, w)
<1> DEFINE W == {v \in Widths : FitsIn(d, v)} \union {32}
<1>1. W \subseteq Nat /\ W # {}
  BY DEF Widths
<1>2. PICK v \in W : \A u \in W : v <= u
  BY <1>1, LeastOne
<1>3. BitWidth(d) \in W
  BY <1>2, Zenon DEF BitWidth, Min
<1>4. BitWidth(d) \in Widths /\ FitsIn(d, BitWidth(d))
  <2>1. BitWidth(d) # 32
    BY DEF Widths
  <2> QED
    BY <1>3, <2>1
<1> QED
  <2> DEFINE v0 == BitWidth(d)
  <2>1. v0 \in Widths /\ FitsIn(d, v0) /\ v0 <= w
    BY <1>4
  <2> HIDE DEF v0
  <2> QED
    BY <2>1, Power2 DEF Widths, FitsIn

\* A number that fits comes back from its field.
LEMMA FieldBack ==
    ASSUME NEW d \in Int, NEW w \in Widths \union {32}, w = 32 \/ BitWidth(d) <= w
    PROVE  SignExtended(Field(d, w), w) = d /\ Field(d, w) \in Int
<1>1. CASE w = 32
  BY <1>1 DEF SignExtended, Field
<1>2. CASE w # 32
  <2>1. w \in Widths /\ FitsIn(d, w)
    BY <1>2, WidthFits
  <2> QED
    BY <2>1, <1>2, Power2 DEF SignExtended, Field, FitsIn, Widths
<1> QED
  BY <1>1, <1>2

-----------------------------------------------------------------------------
(* Buffers *)

\* While there are records to pack, the buffer has the header of the segment,
\* as many samples are read as are encoded or looked ahead at, and the words
\* are within the frames of the record.
Capacity(h) == IF MaxFrames(h) > 0 THEN Room(MaxFrames(h)) ELSE 0
SteimOK ==
    /\ Len(area) = Capacity(hdr) /\ Len(words) <= Len(area)
    /\ out > 0 => MaxFrames(hdr) > 0
PackingOK ==
    phase = "encode" =>
        /\ MadeHeader(hdr)
        /\ next + 1 = out + Len(diffs) /\ next < Rest /\ Len(diffs) <= 7
        /\ IsSteim(job.encoding) => SteimOK
RecordInv ==
    /\ RecordTypeOK /\ PackingOK
    /\ phase \in {"header", "encode"} => cur = 1
    /\ phase = "header" => total = 0 /\ file = <<>>

LEMMA InvWithin == RecordInv => WithinBuffers
  BY DEF RecordInv, PackingOK, WithinBuffers, SteimOK

\* The buffers the packing works on.
LEMMA Sizes ==
    ASSUME RecordTypeOK
    PROVE  /\ N \in Nat /\ total \in Nat /\ Rest \in Nat /\ (phase = "encode" => Rest > 0)
           /\ Len(words) \in Nat /\ Len(diffs) \in Nat /\ Len(area) \in Nat /\ Len(file) \in Nat
<1>1. N \in Nat
  BY LenProperties DEF RecordTypeOK, JobOK, N
<1>2. total \in 0..N /\ (phase = "encode" => total < N)
  BY DEF RecordTypeOK
<1>3. total \in Nat /\ Rest \in Nat /\ (phase = "encode" => Rest > 0)
  BY <1>1, <1>2 DEF Rest
<1>4. Len(words) \in Nat /\ Len(area) \in Nat /\ Len(file) \in Nat
  BY SequenceIs DEF RecordTypeOK
<1>5. Len(diffs) \in Nat
  BY LenProperties DEF RecordTypeOK
<1> QED
  BY <1>1, <1>3, <1>4, <1>5

\* The numbers of frames and of words go together.
LEMMA Frames ==
    ASSUME NEW w \in Nat, NEW m \in Nat \ {0}, w <= Room(m)
    PROVE  FramesOf(w) \in Nat \ {0} /\ FramesOf(w) <= m /\ w <= Room(FramesOf(w))
           /\ Room(FramesOf(w)) <= Room(m) /\ Room(FramesOf(w)) \in Nat
  BY DEF Room, FramesOf

LEMMA ZeroedIs ==
    ASSUME RecordTypeOK
    PROVE  /\ IsSequence(Zeroed) /\ Len(Zeroed) = Room(FramesOf(Len(words)))
           /\ \A x \in 1..Len(words) : Zeroed[x] = words[x]
           /\ \A x \in Len(words) + 1..Len(Zeroed) : Zeroed[x] = NullWord
<1> DEFINE k == Room(FramesOf(Len(words))) - Len(words)
           z == [x \in 1..k |-> NullWord]
<1>1. k \in Nat /\ Len(words) \in Nat
  BY Sizes DEF Room, FramesOf
<1>2. IsSequence(words)
  BY DEF RecordTypeOK
<1>3. Zeroed = words \o z
  BY Zenon DEF Zeroed
<1>4. Room(FramesOf(Len(words))) = Len(words) + k /\ Room(FramesOf(Len(words))) \in Int
  BY <1>1 DEF Room, FramesOf
<1> HIDE DEF k
<1>5. IsSequence(z) /\ Len(z) = k /\ \A x \in 1..k : z[x] = NullWord
  BY <1>1, MadeOf
<1> HIDE DEF z
<1>6. /\ IsSequence(Zeroed) /\ Len(Zeroed) = Len(words) + k
      /\ \A x \in 1..Len(words) : Zeroed[x] = words[x]
      /\ \A x \in 1..k : Zeroed[Len(words) + x] = NullWord
  BY <1>2, <1>3, <1>5, ConcatIs
<1> HIDE DEF Zeroed
<1>7. ASSUME NEW x \in Len(words) + 1..Len(Zeroed)
      PROVE  Zeroed[x] = NullWord
  <2>1. x - Len(words) \in 1..k /\ Len(words) + (x - Len(words)) = x
    BY <1>1, <1>6
  <2> QED
    BY <1>6, <2>1
<1> QED
  BY <1>4, <1>6, <1>7

LEMMA OverlaidIs ==
    ASSUME RecordTypeOK, Len(Zeroed) <= Len(area)
    PROVE  /\ IsSequence(Overlaid) /\ Len(Overlaid) = Len(area)
           /\ \A x \in 1..Len(Zeroed) : Overlaid[x] = Zeroed[x]
<1>1. IsSequence(Zeroed) /\ IsSequence(area)
  BY ZeroedIs DEF RecordTypeOK
<1>2. Len(Zeroed) \in Nat /\ Len(area) \in Nat
  BY <1>1, SequenceIs
<1> DEFINE t == SubSeq(area, Len(Zeroed) + 1, Len(area))
<1>3. IsSequence(t) /\ Len(t) = Len(area) - (Len(Zeroed) + 1) + 1
  BY <1>1, <1>2, FromTo
<1>4. Overlaid = Zeroed \o t
  BY DEF Overlaid
<1> HIDE DEF t
<1>5. /\ IsSequence(Overlaid) /\ Len(Overlaid) = Len(Zeroed) + Len(t)
      /\ \A x \in 1..Len(Zeroed) : Overlaid[x] = Zeroed[x]
  BY <1>1, <1>3, <1>4, ConcatIs
<1> QED
  BY <1>2, <1>3, <1>5

-----------------------------------------------------------------------------
(* The steps keep to the buffers. *)

LEMMA InitInv ==
    ASSUME JobOK, RecordInit(job)
    PROVE  RecordInv
<1>1. N \in Nat
  BY LenProperties DEF JobOK, N
<1>2. IsSequence(<<>>) /\ Len(<<>>) = 0
  BY DEF IsSequence
<1>3. total \in 0..N
  BY <1>1 DEF RecordInit
<1> QED
  BY <1>2, <1>3 DEF RecordInit, RecordInv, RecordTypeOK, PackingOK

\* The header of the segment does not change.
LEMMA HeaderStays ==
    ASSUME job' = job
    PROVE  Header' = Header /\ N' = N
  BY DEF Header, Header2, Header3, Header2With, Factors, Codes, Stamp, Micro, Timed, ExactRate, N
LEMMA CapacityStays ==
    ASSUME job' = job, hdr' = hdr
    PROVE  MaxFrames(hdr)' = MaxFrames(hdr) /\ Capacity(hdr)' = Capacity(hdr)
  BY DEF Capacity, MaxFrames, MaxDataBytes
LEMMA JobStays ==
    ASSUME JobOK, job' = job
    PROVE  JobOK'
  BY DEF JobOK

\* What the reading keeps.
ReadOK ==
    /\ cur \in 1..Len(file) + 1 /\ at \in Nat \ {0}
    /\ IsSequence(back) /\ Len(back) = cur - 1
    /\ phase = "decode" => cur <= Len(file)

LEMMA ReadStep ==
    ASSUME RecordInv, UNCHANGED <<job, result, packvars>>, phase' \in {"read", "decode", "done"},
           ReadOK'
    PROVE  RecordInv'
<1>1. JobOK' /\ N' = N
  BY HeaderStays, JobStays DEF RecordInv, RecordTypeOK
<1> QED
  BY <1>1 DEF RecordInv, RecordTypeOK, PackingOK, ReadOK, packvars, IsSequence

LEMMA StutterInv ==
    ASSUME RecordInv, UNCHANGED recordvars
    PROVE  RecordInv'
<1>1. JobOK' /\ N' = N /\ Header' = Header /\ MaxFrames(hdr)' = MaxFrames(hdr)
      /\ Capacity(hdr)' = Capacity(hdr)
  BY HeaderStays, JobStays, CapacityStays DEF RecordInv, RecordTypeOK, recordvars, packvars
<1>2. RecordTypeOK'
  BY <1>1 DEF RecordInv, RecordTypeOK, recordvars, packvars, readvars, IsSequence
<1>3. PackingOK'
  BY <1>1 DEF RecordInv, PackingOK, MadeHeader, AlikeBut, SteimOK, Rest, recordvars, packvars
<1> QED
  BY <1>1, <1>2, <1>3 DEF RecordInv, recordvars, packvars, readvars

\* A record is read to its end.
LEMMA ReturnKeeps ==
    ASSUME RecordInv, NEW r, Return(r), cur <= Len(file), UNCHANGED <<job, result, packvars>>,
           at' \in Nat \ {0}
    PROVE  RecordInv'
<1>1. IsSequence(Append(back, r)) /\ Len(Append(back, r)) = Len(back) + 1
  BY AppendIs DEF RecordInv, RecordTypeOK
<1>2. Len(file) \in Nat
  BY Sizes DEF RecordInv
<1>3. IsSequence(back') /\ Len(back') = cur' - 1 /\ phase' = "read" /\ cur' = cur + 1
  <2>1. Len(back) = cur - 1 /\ cur \in Nat
    BY <1>2 DEF RecordInv, RecordTypeOK
  <2> HIDE DEF IsSequence
  <2>2. back' = Append(back, r) /\ cur' = cur + 1 /\ phase' = "read"
    BY DEF Return
  <2>3. IsSequence(back')
    BY <1>1, <2>2 DEF IsSequence
  <2>4. Len(back') = Len(back) + 1
    BY <1>1, <2>2
  <2> QED
    BY <2>1, <2>2, <2>3, <2>4
<1>4. ReadOK'
  BY <1>2, <1>3 DEF ReadOK, RecordInv, RecordTypeOK, packvars, IsSequence
<1> QED
  BY <1>3, <1>4, ReadStep

LEMMA ReadFailsKeeps == ASSUME RecordInv, ReadFails PROVE RecordInv'
<1>1. Return(Failed) /\ cur <= Len(file) /\ UNCHANGED <<job, result, packvars>> /\ at' = at
  BY DEF ReadFails, Reading
<1> QED
  BY <1>1, ReturnKeeps DEF RecordInv, RecordTypeOK

LEMMA ReadHeaderKeeps == ASSUME RecordInv, ReadHeader PROVE RecordInv'
<1>1. cur <= Len(file) /\ UNCHANGED <<job, result, packvars>> /\ at' = 1
  BY DEF ReadHeader, Reading
<1>2. CASE Return(msr')
  BY <1>1, <1>2, ReturnKeeps
<1>3. CASE phase' = "decode" /\ UNCHANGED <<cur, back>>
  <2>1. ReadOK'
    BY <1>1, <1>3 DEF ReadOK, RecordInv, RecordTypeOK, packvars, IsSequence
  <2> QED
    BY <1>1, <1>3, <2>1, ReadStep
<1> QED
  BY <1>2, <1>3 DEF ReadHeader

LEMMA DecodeWordKeeps == ASSUME RecordInv, DecodeWord PROVE RecordInv'
<1>1. /\ UNCHANGED <<job, result, packvars>> /\ at' = at + 1 /\ phase' = "decode" /\ phase = "decode"
      /\ UNCHANGED <<cur, back>>
  BY DEF DecodeWord, Decoding
<1>2. ReadOK'
  BY <1>1 DEF ReadOK, RecordInv, RecordTypeOK, packvars, IsSequence
<1> QED
  BY <1>1, <1>2, ReadStep

LEMMA DecodeFixedKeeps == ASSUME RecordInv, DecodeFixed PROVE RecordInv'
<1>1. /\ \E r : Return(r)
      /\ cur <= Len(file) /\ UNCHANGED <<job, result, packvars>> /\ at' = at
  BY DEF DecodeFixed, RecordInv, RecordTypeOK
<1> QED
  BY <1>1, ReturnKeeps DEF RecordInv, RecordTypeOK

LEMMA DecodeEndsKeeps == ASSUME RecordInv, DecodeEnds PROVE RecordInv'
<1>1. /\ \E r : Return(r)
      /\ cur <= Len(file) /\ UNCHANGED <<job, result, packvars>> /\ at' = at
  BY DEF DecodeEnds, RecordInv, RecordTypeOK
<1> QED
  BY <1>1, ReturnKeeps DEF RecordInv, RecordTypeOK

LEMMA FinishKeeps == ASSUME RecordInv, Finish PROVE RecordInv'
<1>1. ReadOK'
  BY DEF ReadOK, Finish, RecordInv, RecordTypeOK, packvars, readvars, IsSequence
<1> QED
  BY <1>1, ReadStep DEF Finish

\* A packing that fails leaves everything else as it is.
LEMMA FailureKeeps ==
    ASSUME RecordInv, Fails, UNCHANGED <<job, packvars, readvars>>
    PROVE  RecordInv'
<1>1. JobOK' /\ N' = N
  BY HeaderStays, JobStays DEF RecordInv, RecordTypeOK
<1> QED
  BY <1>1 DEF Fails, RecordInv, RecordTypeOK, PackingOK, packvars, readvars, IsSequence

LEMMA PackEmptyKeeps == ASSUME RecordInv, PackEmpty PROVE RecordInv'
<1>1. JobOK' /\ N' = N
  BY HeaderStays, JobStays DEF RecordInv, RecordTypeOK, PackEmpty
<1>2. PICK r : file' = <<r>>
  BY DEF PackEmpty
<1>3. IsSequence(file') /\ Len(file') = 1
  BY <1>2 DEF IsSequence
<1>4. phase' = "read" /\ result' = 1 /\ phase = "header" /\ cur = 1
  BY DEF PackEmpty, RecordInv
<1> QED
  BY <1>1, <1>3, <1>4 DEF PackEmpty, RecordInv, RecordTypeOK, PackingOK, readvars, IsSequence

LEMMA PackHeaderKeeps == ASSUME RecordInv, PackHeader PROVE RecordInv'
<1>1. JobOK' /\ N' = N /\ job' = job /\ Header' = Header /\ JobOK
  BY HeaderStays, JobStays DEF RecordInv, RecordTypeOK, PackHeader
<1>2. PICK h \in Header : hdr' = h
  BY DEF PackHeader
<1>3. MadeHeader(hdr')
  BY <1>2 DEF MadeHeader, AlikeBut
<1>4. MaxFrames(h) \in Int /\ MaxFrames(hdr)' = MaxFrames(h)
  <2>1. AlikeBut(h, h)
    BY DEF AlikeBut
  <2> QED
    BY <1>1, <1>2, <2>1, MadeIs DEF MaxFrames, MaxDataBytes
<1>5. total < N /\ phase' = "encode" /\ UNCHANGED <<job, result, total, file, cur, at, back>> /\ cur = 1
  BY DEF PackHeader, RecordInv, readvars
<1>6. Rest' > 0 /\ Rest' = Rest
  BY <1>1, <1>5, Sizes DEF Rest, RecordInv
<1>7. words' = <<>> /\ diffs' = <<0>> /\ next' = 0 /\ out' = 0
  BY DEF PackHeader, StartEncoding
<1>8. /\ IsSequence(area')
      /\ IsSteim(job.encoding) => Len(area') = IF MaxFrames(h) > 0 THEN Room(MaxFrames(h)) ELSE 0
  <2> DEFINE m == Room(MaxFrames(h))
             a == [x \in 1..m |-> job.memory]
  <2>1. area' = IF IsSteim(job.encoding) THEN a ELSE <<>>
    <3>1. area' = IF IsSteim(job.encoding)
                  THEN [x \in 1..Room(MaxFrames(hdr')) |-> job.memory] ELSE <<>>
      BY Zenon DEF PackHeader
    <3> QED
      BY <3>1, <1>2, Zenon
  <2>2. m \in Int /\ (m > 0 <=> MaxFrames(h) > 0)
    BY <1>4 DEF Room
  <2>3. IsSequence(<<>>) /\ Len(<<>>) = 0
    BY DEF IsSequence
  <2>4. IsSequence(a) /\ Len(a) = IF MaxFrames(h) > 0 THEN m ELSE 0
    <3>1. CASE MaxFrames(h) > 0
      <4>1. m \in Nat
        BY <2>2, <3>1
      <4> HIDE DEF m
      <4>2. a = [x \in 1..m |-> a[x]] /\ DOMAIN a = 1..m
        OBVIOUS
      <4> HIDE DEF a
      <4> QED
        BY <3>1, <4>1, <4>2, MadeOf
    <3>2. CASE ~(MaxFrames(h) > 0)
      <4>1. ~(m > 0)
        BY <2>2, <3>2
      <4> HIDE DEF m
      <4>2. 1..m = {}
        BY <4>1, <2>2
      <4>3. a = <<>>
        BY <4>2
      <4> HIDE DEF a
      <4> QED
        BY <3>2, <4>3, <2>3
    <3> QED
      BY <3>1, <3>2
  <2> HIDE DEF a, m
  <2> QED
    BY <2>1, <2>3, <2>4 DEF m
<1>9. IsSequence(<<>>) /\ Len(<<>>) = 0 /\ Len(<<0>>) = 1 /\ <<0>> \in Seq(Int)
  BY DEF IsSequence
<1>10. RecordTypeOK'
  <2>1. IsSequence(words') /\ IsSequence(area') /\ diffs' \in Seq(Int) /\ next' \in Nat /\ out' \in Nat
    BY <1>7, <1>8, <1>9
  <2> QED
    BY <1>1, <1>5, <2>1 DEF RecordInv, RecordTypeOK, IsSequence
<1>11. PackingOK'
  <2>1. MadeHeader(hdr)'
    BY <1>1, <1>3 DEF MadeHeader
  <2>2. next' + 1 = out' + Len(diffs') /\ next' < Rest' /\ Len(diffs') <= 7
    BY <1>6, <1>7, <1>9
  <2>3. IsSteim(job.encoding) => SteimOK'
    <3>1. IsSteim(job.encoding) => Len(area') = Capacity(hdr)'
      BY <1>8, <1>4 DEF Capacity
    <3>2. Len(words') = 0 /\ out' = 0
      BY <1>7, <1>9
    <3>3. Len(area') \in Nat
      BY <1>8, SequenceIs
    <3> QED
      BY <3>1, <3>2, <3>3 DEF SteimOK
  <2> QED
    BY <1>1, <2>1, <2>2, <2>3 DEF PackingOK
<1> QED
  BY <1>5, <1>10, <1>11 DEF RecordInv

LEMMA SampleIs ==
    ASSUME RecordTypeOK, NEW x \in 1..Rest
    PROVE  Sample(x) \in Int
<1>1. total + x \in 1..N
  BY Sizes DEF Rest
<1> QED
  BY <1>1, ElementOfSeq DEF Sample, N, RecordTypeOK, JobOK

\* How many differences are looked at more.
LEMMA TakenIs ==
    ASSUME RecordTypeOK, PackingOK, Encoding
    PROVE  LET t == Taken(Len(diffs))
           IN  /\ t \in Nat /\ next + t < Rest /\ Len(diffs) + t <= 7
               /\ t > 0 => Len(diffs) + t <= Ahead(job.encoding)
<1>1. Ahead(job.encoding) \in {4, 7} /\ Len(diffs) \in Nat /\ Rest \in Nat /\ next \in Nat
  BY Sizes DEF Ahead, RecordTypeOK
<1>2. phase = "encode" /\ next < Rest /\ Len(diffs) <= 7
  BY DEF Encoding, PackingOK
<1>3. CASE Len(diffs) >= Ahead(job.encoding)
  BY <1>1, <1>2, <1>3 DEF Taken
<1>4. CASE ~(Len(diffs) >= Ahead(job.encoding))
  <2> DEFINE a == Ahead(job.encoding) - Len(diffs)
             b == Rest - 1 - next
  <2>1. a \in Nat /\ b \in Nat
    BY <1>1, <1>2, <1>4
  <2> HIDE DEF a, b
  <2>2. Min({a, b}) \in {a, b} /\ Min({a, b}) <= a /\ Min({a, b}) <= b
    <3>1. \E z \in {a, b} : \A y \in {a, b} : z <= y
      BY <2>1
    <3> QED
      BY <3>1, Zenon DEF Min
  <2>3. Taken(Len(diffs)) = Min({a, b})
    BY <1>4, Zenon DEF Taken, a, b
  <2> DEFINE t == Min({a, b})
  <2> HIDE DEF t
  <2>4. t \in Nat /\ t <= a /\ t <= b
    BY <2>1, <2>2 DEF t
  <2>5. next + t < Rest /\ Len(diffs) + t <= Ahead(job.encoding)
    BY <1>1, <2>4 DEF a, b
  <2> QED
    BY <1>1, <2>3, <2>4, <2>5 DEF t
<1> QED
  BY <1>3, <1>4

LEMMA RefilledIs ==
    ASSUME RecordTypeOK, PackingOK, Encoding
    PROVE  /\ Refilled \in Seq(Int) /\ Len(Refilled) = Len(diffs) + Taken(Len(diffs))
           /\ \A x \in 1..Len(diffs) : Refilled[x] = diffs[x]
           /\ \A x \in 1..Taken(Len(diffs)) :
                 Refilled[Len(diffs) + x] = Sample(next + x + 1) - Sample(next + x)
<1> DEFINE t == Taken(Len(diffs))
           u == [x \in 1..t |-> Sample(next + x + 1) - Sample(next + x)]
<1>1. t \in Nat /\ next + t < Rest
  BY TakenIs
<1>2. next \in Nat /\ Rest \in Nat /\ Len(diffs) \in Nat /\ diffs \in Seq(Int)
  BY Sizes DEF RecordTypeOK
<1>3. \A x \in 1..t : Sample(next + x + 1) \in Int /\ Sample(next + x) \in Int
  <2>1. ASSUME NEW x \in 1..t
        PROVE  next + x + 1 \in 1..Rest /\ next + x \in 1..Rest
    <3> HIDE DEF t
    <3> QED
      BY <1>1, <1>2
  <2> QED
    BY <2>1, SampleIs
<1>4. Refilled = diffs \o u
  BY Zenon DEF Refilled
<1> HIDE DEF t
<1>5. u \in Seq(Int) /\ Len(u) = t /\ \A x \in 1..t : u[x] = Sample(next + x + 1) - Sample(next + x)
  <2> DEFINE c == [x \in 1..t |-> Sample(next + x + 1) - Sample(next + x)]
  <2>1. \A x \in 1..t : Sample(next + x + 1) - Sample(next + x) \in Int
    BY <1>3
  <2>2. u \in [1..t -> Int]
    BY <2>1
  <2>3. \A x \in 1..t : u[x] = Sample(next + x + 1) - Sample(next + x)
    OBVIOUS
  <2> HIDE DEF u
  <2> QED
    BY <1>1, <2>2, <2>3
<1> HIDE DEF u
<1>6. Refilled \in Seq(Int) /\ Len(Refilled) = Len(diffs) + t
  BY <1>2, <1>4, <1>5, ConcatProperties
<1>7. IsSequence(diffs) /\ IsSequence(u)
  BY <1>2, <1>5, SequenceOf
<1>8. /\ \A x \in 1..Len(diffs) : Refilled[x] = diffs[x]
      /\ \A x \in 1..Len(u) : Refilled[Len(diffs) + x] = u[x]
  BY <1>4, <1>7, ConcatIs
<1> QED
  BY <1>5, <1>6, <1>8 DEF t

\* The packing chosen uses differences there are, and the word is one more.
LEMMA ChosenIs ==
    ASSUME RecordTypeOK, PackingOK, Encoding, Possible(Refilled, job.encoding) # {},
           NEW p, p = Fullest(Possible(Refilled, job.encoding))
    PROVE  /\ p \in Packings(job.encoding) /\ p.n \in 1..7 /\ p.n <= Len(Refilled)
           /\ \A x \in 1..p.n : p.w = 32 \/ BitWidth(Refilled[x]) <= p.w
<1>1. job.encoding \in {Steim1, Steim2}
  BY DEF Encoding, IsSteim
<1>2. Possible(Refilled, job.encoding) \subseteq Packings(job.encoding)
  BY DEF Possible
<1>3. p \in Possible(Refilled, job.encoding)
  BY <1>1, <1>2, FullestIs
<1>4. p \in Packings(job.encoding) /\ p.n <= Len(Refilled)
      /\ \A x \in 1..p.n : p.w = 32 \/ BitWidth(Refilled[x]) <= p.w
  BY <1>3 DEF Possible
<1> QED
  BY <1>1, <1>4, PackingIs

LEMMA EncodeWordKeeps == ASSUME RecordInv, EncodeWord PROVE RecordInv'
<1>1. /\ JobOK' /\ N' = N /\ job' = job /\ Header' = Header /\ hdr' = hdr
      /\ MaxFrames(hdr)' = MaxFrames(hdr) /\ Capacity(hdr)' = Capacity(hdr)
  BY HeaderStays, JobStays, CapacityStays DEF RecordInv, RecordTypeOK, EncodeWord
<1>2. /\ RecordTypeOK /\ PackingOK /\ Encoding /\ phase = "encode" /\ IsSteim(job.encoding)
      /\ MaxFrames(hdr) > 0 /\ Possible(Refilled, job.encoding) # {}
      /\ Len(words) < Room(MaxFrames(hdr)) /\ UNCHANGED <<phase, result, area, total, file, readvars>>
  BY DEF RecordInv, EncodeWord, Encoding
<1> DEFINE p == Fullest(Possible(Refilled, job.encoding))
           t == Taken(Len(diffs))
<1>3. p.n \in 1..7 /\ p.n <= Len(Refilled)
  BY <1>2, ChosenIs
<1>4. PackWord(Refilled, p)
  BY DEF EncodeWord
<1> HIDE DEF p
<1>5. t \in Nat /\ next + t < Rest /\ Len(diffs) + t <= 7
  BY <1>2, TakenIs
<1>6. Refilled \in Seq(Int) /\ Len(Refilled) = Len(diffs) + t
  BY <1>2, RefilledIs
<1>7. next' = next + t /\ out' = out + p.n
      /\ diffs' = SubSeq(Refilled, p.n + 1, Len(Refilled)) /\ words' = Append(words, Word(Refilled, p))
  BY <1>4, Zenon DEF PackWord
<1> HIDE DEF t
<1>8. next \in Nat /\ out \in Nat /\ Len(diffs) \in Nat /\ Rest \in Nat /\ Len(words) \in Nat
  BY <1>2, Sizes DEF RecordTypeOK
<1>9. diffs' \in Seq(Int) /\ Len(diffs') = Len(diffs) + t - p.n /\ Len(diffs') <= 7
  <2> DEFINE q == Refilled
             k == p.n
  <2>1. q \in Seq(Int) /\ k \in Nat /\ k <= Len(q) /\ Len(q) \in Nat /\ Len(q) = Len(diffs) + t
    BY <1>3, <1>6, LenProperties
  <2>2. diffs' = SubSeq(q, k + 1, Len(q))
    BY <1>7
  <2>3. k \in 1..7
    BY <1>3
  <2> HIDE DEF q, k
  <2>4. k + 1 \in 1..Len(q) + 1 /\ Len(q) \in (k + 1) - 1..Len(q)
    BY <2>1, <2>3
  <2>5. SubSeq(q, k + 1, Len(q)) \in Seq(Int) /\ Len(SubSeq(q, k + 1, Len(q))) = Len(q) - (k + 1) + 1
    BY <2>1, <2>4, SubSeqProperties
  <2>6. Len(diffs') = Len(diffs) + t - k /\ Len(diffs') <= 7 /\ diffs' \in Seq(Int)
    BY <1>5, <1>8, <2>1, <2>2, <2>3, <2>5
  <2> QED
    BY <2>6 DEF k
<1>10. IsSequence(words') /\ Len(words') = Len(words) + 1
  <2>1. IsSequence(words)
    BY <1>2 DEF RecordTypeOK
  <2> DEFINE e == Word(Refilled, p)
             u == Append(words, e)
  <2>2. IsSequence(u) /\ Len(u) = Len(words) + 1
    <3> HIDE DEF e
    <3> QED
      BY <2>1, AppendIs
  <2>3. words' = u
    BY <1>7
  <2> HIDE DEF u
  <2> QED
    BY <2>2, <2>3 DEF IsSequence
<1>11. RecordTypeOK'
  <2>1. next' \in Nat /\ out' \in Nat
    <3> DEFINE k == p.n
    <3>1. k \in Nat /\ next' = next + t /\ out' = out + k
      BY <1>3, <1>7
    <3> HIDE DEF k
    <3> QED
      BY <1>5, <1>8, <3>1
  <2> QED
    BY <1>1, <1>2, <1>9, <1>10, <2>1 DEF RecordTypeOK, readvars, IsSequence
<1>12. PackingOK'
  <2>1. MadeHeader(hdr)'
    BY <1>1, <1>2 DEF PackingOK, MadeHeader, AlikeBut
  <2>2. next' + 1 = out' + Len(diffs')
    <3>1. next + 1 = out + Len(diffs)
      BY <1>2 DEF PackingOK
    <3> DEFINE k == p.n
               l == Len(diffs)
    <3>2. k \in Nat /\ l \in Nat /\ next' = next + t /\ out' = out + k /\ Len(diffs') = l + t - k
      <4>1. k \in Nat /\ l \in Nat
        BY <1>3, <1>8
      <4>2. next' = next + t /\ out' = out + k
        BY <1>7
      <4>3. Len(diffs') = l + t - k
        BY <1>9
      <4> QED
        BY <4>1, <4>2, <4>3
    <3>3. next + 1 = out + l
      BY <3>1
    <3> HIDE DEF k, l
    <3> QED
      BY <1>5, <1>8, <3>2, <3>3
  <2>3. next' < Rest' /\ Len(diffs') <= 7
    BY <1>1, <1>2, <1>5, <1>7, <1>9 DEF Rest
  <2>4. SteimOK'
    <3>1. Len(area) = Capacity(hdr) /\ Capacity(hdr) = Room(MaxFrames(hdr))
      BY <1>2 DEF PackingOK, SteimOK, Capacity
    <3>2. Len(words') <= Len(area)
      BY <1>2, <1>8, <1>10, <3>1, Sizes
    <3>3. Len(area') = Capacity(hdr)' /\ Len(words') <= Len(area') /\ MaxFrames(hdr)' > 0
      BY <1>1, <1>2, <3>1, <3>2
    <3> QED
      BY <3>3 DEF SteimOK
  <2> QED
    BY <1>1, <2>1, <2>2, <2>3, <2>4 DEF PackingOK
<1> QED
  BY <1>2, <1>11, <1>12 DEF RecordInv, readvars

LEMMA HandOnKeeps ==
    ASSUME RecordInv, phase = "encode", NEW n \in 1..Rest, NEW data, HandOn(n, data),
           UNCHANGED <<job, readvars>>, IsSequence(area'),
           IsSteim(job.encoding) => Len(area') = Len(area)
    PROVE  RecordInv'
<1>1. JobOK' /\ N' = N /\ Header' = Header /\ RecordTypeOK /\ PackingOK
  BY HeaderStays, JobStays DEF RecordInv, RecordTypeOK
<1>2. /\ N \in Nat /\ total \in Nat /\ Rest = N - total /\ Len(file) \in Nat /\ Len(area) \in Nat
  BY <1>1, Sizes DEF Rest
<1>3. total' = total + n /\ total' \in 0..N
  BY <1>2 DEF HandOn
<1> DEFINE r == [hdr |-> [hdr EXCEPT !.numsamples = n], data |-> data,
                 first |-> Sample(1), last |-> Sample(n)]
<1>4. file' = Append(file, r)
  BY Zenon DEF HandOn
<1> HIDE DEF r
<1>5. IsSequence(file') /\ Len(file') = Len(file) + 1
  <2>1. IsSequence(file)
    BY <1>1 DEF RecordTypeOK
  <2> DEFINE u == Append(file, r)
  <2>2. IsSequence(u) /\ Len(u) = Len(file) + 1
    BY <2>1, AppendIs
  <2>3. file' = u
    BY <1>4
  <2> HIDE DEF u
  <2> QED
    BY <2>2, <2>3 DEF IsSequence
<1>6. words' = <<>> /\ diffs' = <<0>> /\ next' = 0 /\ out' = 0
  BY DEF HandOn, StartEncoding
<1>7. IsSequence(<<>>) /\ Len(<<>>) = 0 /\ Len(<<0>>) = 1 /\ <<0>> \in Seq(Int)
  BY DEF IsSequence
<1>8. \/ total + n >= N /\ phase' = "read" /\ result' = Len(file') /\ hdr' = hdr
      \/ /\ ~(total + n >= N) /\ phase' = "encode" /\ result' = result
         /\ hdr' = [hdr EXCEPT !.time = Stamp(NextStart(n))]
  BY Zenon DEF HandOn, AllPacked
<1>9. cur = 1 /\ cur' = 1 /\ at' = at /\ back' = back
  BY DEF RecordInv, readvars
<1>10. RecordTypeOK'
  <2>1. /\ IsSequence(words') /\ diffs' \in Seq(Int) /\ next' \in Nat /\ out' \in Nat
    BY <1>6, <1>7
  <2>2. /\ phase' \in {"header", "encode", "read", "decode", "done"} /\ result' \in Nat \union {-1}
        /\ phase' # "decode" /\ (phase' = "encode" => total' < N)
    <3>1. Len(file') \in Nat /\ (~(total + n >= N) => total' < N)
      BY <1>2, <1>3, <1>5
    <3> QED
      BY <1>1, <1>8, <3>1 DEF RecordTypeOK
  <2>3. cur' \in 1..Len(file') + 1
    BY <1>2, <1>5, <1>9
  <2> QED
    BY <1>1, <1>3, <1>5, <1>9, <2>1, <2>2, <2>3 DEF RecordTypeOK, IsSequence
<1>11. ASSUME phase' = "encode"
       PROVE  /\ MadeHeader(hdr)' /\ MaxFrames(hdr)' = MaxFrames(hdr)
              /\ total + n < N /\ Capacity(hdr)' = Capacity(hdr)
  <2> DEFINE z == Stamp(NextStart(n))
  <2>1. hdr' = [hdr EXCEPT !.time = z] /\ ~(total + n >= N)
    BY <1>8, <1>11, Zenon
  <2> HIDE DEF z
  <2>2. PICK h \in Header : AlikeBut(hdr, h)
    BY <1>1 DEF PackingOK, MadeHeader
  <2>3. AlikeBut(hdr', h)
    <3>1. DOMAIN hdr' = DOMAIN hdr /\ \A key \in DOMAIN hdr \ {"time"} : hdr'[key] = hdr[key]
      BY <2>1
    <3> QED
      BY <2>2, <3>1 DEF AlikeBut
  <2>4. MaxFrames(hdr') = MaxFrames(h) /\ MaxFrames(hdr) = MaxFrames(h)
    BY <1>1, <2>2, <2>3, MadeIs DEF RecordTypeOK
  <2>5. MaxFrames(hdr)' = MaxFrames(hdr')
    BY DEF MaxFrames, MaxDataBytes
  <2>6. Capacity(hdr)' = Capacity(hdr)
    BY <2>4, <2>5 DEF Capacity
  <2>7. MadeHeader(hdr)'
    <3>1. MadeHeader(hdr')
      BY <2>3 DEF MadeHeader
    <3>2. MadeHeader(hdr') => \E g \in Header' : AlikeBut(hdr', g)
      BY <1>1 DEF MadeHeader
    <3> QED
      BY <3>1, <3>2 DEF MadeHeader, AlikeBut
  <2>8. total + n < N
    BY <1>2, <2>1
  <2> QED
    BY <2>4, <2>5, <2>6, <2>7, <2>8
<1>12. PackingOK'
  <2>1. SUFFICES ASSUME phase' = "encode"
                 PROVE  /\ MadeHeader(hdr)'
                        /\ next' + 1 = out' + Len(diffs') /\ next' < Rest' /\ Len(diffs') <= 7
                        /\ IsSteim(job'.encoding) => SteimOK'
    BY DEF PackingOK
  <2>2. next' + 1 = out' + Len(diffs') /\ Len(diffs') <= 7
    BY <1>6, <1>7
  <2>3. next' < Rest'
    <3>1. Rest' = N - (total + n)
      BY <1>1, <1>3 DEF Rest
    <3> QED
      BY <1>2, <1>6, <1>11, <2>1, <3>1
  <2>4. IsSteim(job'.encoding) => SteimOK'
    <3>1. Len(words') = 0 /\ out' = 0
      BY <1>6, <1>7
    <3>2. IsSteim(job.encoding) => Len(area) = Capacity(hdr)
      BY <1>1 DEF PackingOK, SteimOK
    <3>3. IsSteim(job.encoding) => Len(area') = Capacity(hdr)' /\ 0 <= Len(area')
      BY <1>2, <1>11, <2>1, <3>2
    <3> QED
      BY <3>1, <3>3 DEF SteimOK
  <2> QED
    BY <1>11, <2>1, <2>2, <2>3, <2>4
<1> QED
  BY <1>8, <1>9, <1>10, <1>12 DEF RecordInv

\* What a record of Steim frames is made from.
LEMMA SteimPacked ==
    ASSUME RecordInv, phase = "encode", IsSteim(job.encoding), out > 0
    PROVE  /\ out \in 1..Rest /\ Len(Zeroed) <= Len(area) /\ MaxFrames(hdr) \in Nat \ {0}
           /\ Len(area) = Room(MaxFrames(hdr)) /\ Len(words) \in Nat
           /\ Len(words) <= Room(MaxFrames(hdr)) /\ Len(words) <= Len(Zeroed)
<1>2. RecordTypeOK /\ PackingOK /\ SteimOK
  BY DEF RecordInv, PackingOK
<1>3. out \in 1..Rest
  <2>1. next + 1 = out + Len(diffs) /\ next < Rest
    BY <1>2 DEF PackingOK
  <2>2. next \in Nat /\ out \in Nat /\ Len(diffs) \in Nat /\ Rest \in Nat
    BY <1>2, Sizes DEF RecordTypeOK
  <2> QED
    BY <2>1, <2>2
<1>4. PICK h \in Header : AlikeBut(hdr, h)
  BY <1>2 DEF PackingOK, MadeHeader
<1>5. MaxFrames(hdr) \in Int
  BY <1>2, <1>4, MadeIs DEF RecordTypeOK
<1>6. MaxFrames(hdr) > 0 /\ Len(words) <= Len(area) /\ Len(area) = Room(MaxFrames(hdr))
  BY <1>2 DEF SteimOK, Capacity
<1>7. Len(words) \in Nat
  BY <1>2, Sizes
<1>8. Room(FramesOf(Len(words))) <= Room(MaxFrames(hdr)) /\ Len(words) <= Room(FramesOf(Len(words)))
  <2>1. Len(words) <= Room(MaxFrames(hdr)) /\ MaxFrames(hdr) \in Nat \ {0}
    BY <1>5, <1>6
  <2> QED
    BY <1>7, <2>1, Frames
<1>9. Len(Zeroed) = Room(FramesOf(Len(words)))
  BY <1>2, ZeroedIs
<1> QED
  BY <1>3, <1>5, <1>6, <1>7, <1>8, <1>9

\* A record of samples of a fixed size has some, and none more than there are.
LEMMA FixedPacked ==
    ASSUME RecordInv, phase = "encode", ~IsSteim(job.encoding), ~NoRoomFor(hdr)
    PROVE  Min({Rest, MaxDataBytes(hdr) \div SampleBytes(job.encoding)}) \in 1..Rest
<1> DEFINE m == MaxDataBytes(hdr) \div SampleBytes(job.encoding)
           n == Min({Rest, m})
<1>2. RecordTypeOK /\ PackingOK
  BY DEF RecordInv
<1>3. MaxDataBytes(hdr) \in Int
  <2>1. PICK h \in Header : AlikeBut(hdr, h)
    BY <1>2 DEF PackingOK, MadeHeader
  <2> QED
    BY <1>2, <2>1, MadeIs DEF RecordTypeOK
<1>4. SampleBytes(job.encoding) \in {1, 2, 4, 8}
  BY <1>2 DEF RecordTypeOK, JobOK, SampleBytes, IsSteim
<1>5. m \in Nat \ {0}
  <2>1. ~(MaxDataBytes(hdr) < SampleBytes(job.encoding))
    BY DEF NoRoomFor
  <2> QED
    BY <1>3, <1>4, <2>1
<1>6. Rest \in Nat \ {0}
  BY <1>2, Sizes
<1> HIDE DEF m
<1>7. n \in 1..Rest
  <2>1. \E z \in {Rest, m} : \A y \in {Rest, m} : z <= y
    BY <1>5, <1>6
  <2>2. n \in {Rest, m} /\ n <= Rest
    BY <2>1, Zenon DEF Min
  <2> HIDE DEF n
  <2> QED
    BY <1>5, <1>6, <2>2
<1> QED
  BY <1>7 DEF n, m

LEMMA PackSteimKeeps == ASSUME RecordInv, PackSteim PROVE RecordInv'
<1>1. /\ phase = "encode" /\ IsSteim(job.encoding) /\ out > 0
      /\ area' = Overlaid /\ UNCHANGED <<job, readvars>>
      /\ \E data : HandOn(out, data)
  BY DEF PackSteim
<1>2. out \in 1..Rest /\ Len(Zeroed) <= Len(area)
  BY <1>1, SteimPacked
<1>3. IsSequence(area') /\ Len(area') = Len(area)
  <2>1. IsSequence(Overlaid) /\ Len(Overlaid) = Len(area)
    BY <1>2, OverlaidIs DEF RecordInv
  <2> QED
    BY <1>1, <2>1 DEF IsSequence
<1> QED
  BY <1>1, <1>2, <1>3, HandOnKeeps

LEMMA PackFixedKeeps == ASSUME RecordInv, PackFixed PROVE RecordInv'
<1> DEFINE n == Min({Rest, MaxDataBytes(hdr) \div SampleBytes(job.encoding)})
<1>1. /\ phase = "encode" /\ ~IsSteim(job.encoding) /\ ~NoRoomFor(hdr)
      /\ UNCHANGED <<job, area, readvars>> /\ \E data : HandOn(n, data)
  BY DEF PackFixed
<1>2. n \in 1..Rest
  BY <1>1, FixedPacked
<1> HIDE DEF n
<1>3. IsSequence(area')
  BY <1>1 DEF RecordInv, RecordTypeOK, IsSequence
<1> QED
  BY <1>1, <1>2, <1>3, HandOnKeeps

\* Every step keeps the invariant.
LEMMA NextKeeps == ASSUME RecordInv, [RecordNext]_recordvars PROVE RecordInv'
<1>1. CASE PackHeaderFails
  BY <1>1, FailureKeeps DEF PackHeaderFails
<1>2. CASE DifferenceTooWide
  BY <1>2, FailureKeeps DEF DifferenceTooWide
<1>3. CASE NoRoom
  BY <1>3, FailureKeeps DEF NoRoom
<1>4. CASE PackHeader
  BY <1>4, PackHeaderKeeps
<1>5. CASE PackEmpty
  BY <1>5, PackEmptyKeeps
<1>6. CASE EncodeWord
  BY <1>6, EncodeWordKeeps
<1>7. CASE PackSteim
  BY <1>7, PackSteimKeeps
<1>8. CASE PackFixed
  BY <1>8, PackFixedKeeps
<1>9. CASE ReadFails
  BY <1>9, ReadFailsKeeps
<1>10. CASE ReadHeader
  BY <1>10, ReadHeaderKeeps
<1>11. CASE DecodeWord
  BY <1>11, DecodeWordKeeps
<1>12. CASE DecodeFixed
  BY <1>12, DecodeFixedKeeps
<1>13. CASE DecodeEnds
  BY <1>13, DecodeEndsKeeps
<1>14. CASE Finish
  BY <1>14, FinishKeeps
<1>15. CASE UNCHANGED recordvars
  BY <1>15, StutterInv
<1> QED
  BY <1>1, <1>2, <1>3, <1>4, <1>5, <1>6, <1>7, <1>8, <1>9, <1>10, <1>11, <1>12, <1>13, <1>14,
     <1>15 DEF RecordNext

LEMMA InvHolds == JobOK /\ RecordSpec => []RecordInv
<1>1. JobOK /\ RecordInit(job) => RecordInv
  BY InitInv
<1>2. RecordInv /\ [RecordNext]_recordvars => RecordInv'
  BY NextKeeps
<1> QED
  BY <1>1, <1>2, PTL DEF RecordSpec

\* RecordTypeOK: the variables of a packing and its reading back are of their
\* types, for every segment that a caller may hand over.
THEOREM TypeHolds == JobOK /\ RecordSpec => []RecordTypeOK
<1>1. RecordInv => RecordTypeOK
  BY DEF RecordInv
<1> QED
  BY <1>1, InvHolds, PTL

\* WithinBuffers: the samples read and the words encoded are within the arrays,
\* for every segment, length of record and header.
THEOREM BuffersHold == JobOK /\ RecordSpec => []WithinBuffers
  BY InvHolds, InvWithin, PTL

-----------------------------------------------------------------------------
(* What words and records hold *)

\* The difference that sample x of a record has, counted from its first: what
\* a word of it says, and what it reads as.
Delta(base, x) == IF x = 1 THEN 0 ELSE job.samples[base + x] - job.samples[base + x - 1]
WordHolds(word, base, before, upto) ==
    /\ word.nibble # 0
    /\ \E p \in Packings(job.encoding) :
          /\ TakenFor(word, job.encoding) = {p}
          /\ upto = before + p.n
          /\ \A x \in 1..p.n : DiffsOf(word, p)[x] = Delta(base, before + x)

\* The first k words say the differences of a record, so many after each.
Spells(ws, k, base, after) ==
    /\ after \in [0..k -> Nat] /\ after[0] = 0
    /\ \A y \in 1..k : WordHolds(ws[y], base, after[y - 1], after[y])

\* The samples of a record can be read from it.
SteimHolds(r, base) ==
    /\ r.first = job.samples[base + 1]
    /\ \E k \in Nat : \E after :
          /\ DataWords(r) \in Nat /\ k <= DataWords(r) /\ Spells(r.data, k, base, after)
          /\ after[k] = r.hdr.numsamples
FixedHolds(r, base) ==
    r.data = [x \in 1..r.hdr.numsamples |-> job.samples[base + x]]
RecordHolds(r, base) ==
    /\ MadeHeader(r.hdr)
    /\ r.hdr.numsamples \in Nat \ {0} /\ base + r.hdr.numsamples <= N
    /\ IF IsSteim(job.encoding) THEN SteimHolds(r, base) ELSE FixedHolds(r, base)

LEMMA DeltaStays ==
    ASSUME job' = job PROVE \A base, x : Delta(base, x)' = Delta(base, x)
  BY DEF Delta
LEMMA WordStays ==
    ASSUME job' = job
    PROVE  \A word, base, m, n : WordHolds(word, base, m, n)' <=> WordHolds(word, base, m, n)
  BY DeltaStays DEF WordHolds
LEMMA SpellsStays ==
    ASSUME job' = job
    PROVE  \A ws, k, base, after : Spells(ws, k, base, after)' <=> Spells(ws, k, base, after)
  BY WordStays DEF Spells
LEMMA DataWordsStays ==
    ASSUME job' = job PROVE \A r : DataWords(r)' = DataWords(r)
  BY DEF DataWords, DataOffset, MaxFrames, MaxDataBytes
LEMMA SteimStays ==
    ASSUME job' = job PROVE \A r, base : SteimHolds(r, base)' <=> SteimHolds(r, base)
  BY SpellsStays, DataWordsStays DEF SteimHolds
LEMMA FixedStays ==
    ASSUME job' = job PROVE \A r, base : FixedHolds(r, base)' <=> FixedHolds(r, base)
  BY DEF FixedHolds
LEMMA MadeStays ==
    ASSUME job' = job PROVE \A h : MadeHeader(h)' <=> MadeHeader(h)
  BY HeaderStays DEF MadeHeader, AlikeBut
LEMMA RecordStays ==
    ASSUME job' = job PROVE \A r, base : RecordHolds(r, base)' <=> RecordHolds(r, base)
  BY SteimStays, FixedStays, MadeStays, HeaderStays DEF RecordHolds
LEMMA RefusedStays ==
    ASSUME job' = job PROVE \A r : Refused(r)' <=> Refused(r)
  BY Zenon DEF Refused, StartTime, Blocks
LEMMA BeforeStays ==
    ASSUME file' = file PROVE \A x : Before(x)' = Before(x)
  BY Zenon DEF Before

\* A decoder takes a word for the packing it was made with.
LEMMA WordTaken ==
    ASSUME NEW e \in {Steim1, Steim2}, NEW p \in Packings(e), NEW ahead
    PROVE  TakenFor(Word(ahead, p), e) = {p} /\ Word(ahead, p).nibble # 0
<1> DEFINE w == Word(ahead, p)
<1>1. w.nibble = p.nibble /\ w.dnib = p.dnib
  BY DEF Word
<1> HIDE DEF w
<1>2. p.nibble # 0
  BY PackingIs
<1>3. ASSUME NEW q \in Packings(e), q.nibble = p.nibble, e = Steim1 \/ q.nibble = 1 \/ q.dnib = p.dnib
      PROVE  q = p
  <2>1. CASE e = Steim1
    BY <1>3, <2>1 DEF Packings, Packing, Steim1
  <2>2. CASE e = Steim2
    BY <1>3, <2>2 DEF Packings, Packing, Steim1, Steim2
  <2> QED
    BY <2>1, <2>2
<1>4. TakenFor(w, e) = {q \in Packings(e) :
          q.nibble = p.nibble /\ (e = Steim1 \/ q.nibble = 1 \/ q.dnib = p.dnib)}
  BY <1>1 DEF TakenFor
<1>5. e = Steim1 \/ p.nibble = 1 \/ p.dnib = p.dnib
  OBVIOUS
<1>6. \A q \in TakenFor(w, e) : q = p
  BY <1>3, <1>4
<1>7. p \in TakenFor(w, e)
  BY <1>4, <1>5
<1>8. TakenFor(w, e) = {p}
  BY <1>6, <1>7
<1> QED
  BY <1>1, <1>2, <1>8 DEF w

LEMMA WordEncodes ==
    ASSUME IsSteim(job.encoding), NEW p \in Packings(job.encoding), NEW ahead, NEW base, NEW before \in Nat,
           \A x \in 1..p.n : /\ ahead[x] \in Int /\ (p.w = 32 \/ BitWidth(ahead[x]) <= p.w)
                            /\ ahead[x] = Delta(base, before + x)
    PROVE  WordHolds(Word(ahead, p), base, before, before + p.n)
<1>1. job.encoding \in {Steim1, Steim2}
  BY DEF IsSteim
<1>2. TakenFor(Word(ahead, p), job.encoding) = {p} /\ Word(ahead, p).nibble # 0
  BY <1>1, WordTaken
<1>3. p.w \in Widths \union {32}
  BY <1>1, PackingIs
<1>4. ASSUME NEW x \in 1..p.n
      PROVE  DiffsOf(Word(ahead, p), p)[x] = Delta(base, before + x)
  <2>1. Word(ahead, p).fields[x] = Field(ahead[x], p.w)
    BY DEF Word
  <2>2. DiffsOf(Word(ahead, p), p)[x] = SignExtended(Field(ahead[x], p.w), p.w)
    BY <2>1 DEF DiffsOf
  <2>3. SignExtended(Field(ahead[x], p.w), p.w) = ahead[x]
    BY <1>3, FieldBack
  <2> QED
    BY <2>2, <2>3
<1> QED
  BY <1>2, <1>4 DEF WordHolds

LEMMA SpellsAgree ==
    ASSUME NEW ws, NEW k, NEW base, NEW after, Spells(ws, k, base, after),
           NEW us, \A y \in 1..k : us[y] = ws[y]
    PROVE  Spells(us, k, base, after)
  BY DEF Spells

LEMMA SpellsMore ==
    ASSUME NEW ws, NEW k \in Nat, NEW base, NEW after, Spells(ws, k, base, after),
           NEW us, \A y \in 1..k : us[y] = ws[y],
           NEW n \in Nat, WordHolds(us[k + 1], base, after[k], n)
    PROVE  \E later : Spells(us, k + 1, base, later) /\ later[k + 1] = n
<1> DEFINE later == [y \in 0..k + 1 |-> IF y = k + 1 THEN n ELSE after[y]]
<1>1. after \in [0..k -> Nat] /\ after[0] = 0 /\ \A y \in 1..k : WordHolds(ws[y], base, after[y - 1], after[y])
  BY DEF Spells
<1>2. later \in [0..k + 1 -> Nat] /\ later[k + 1] = n /\ later[0] = 0 /\ \A y \in 0..k : later[y] = after[y]
  BY <1>1
<1> HIDE DEF later
<1>3. ASSUME NEW y \in 1..k + 1
      PROVE  WordHolds(us[y], base, later[y - 1], later[y])
  <2>1. CASE y = k + 1
    <3>1. y - 1 = k /\ k \in 0..k
      BY <2>1
    <3>2. later[y - 1] = after[k] /\ later[y] = n
      BY <1>2, <2>1, <3>1
    <3> QED
      BY <2>1, <3>2
  <2>2. CASE y # k + 1
    <3>1. y \in 1..k /\ y \in 0..k /\ y - 1 \in 0..k
      BY <2>2
    <3>2. later[y - 1] = after[y - 1] /\ later[y] = after[y] /\ us[y] = ws[y]
      BY <1>2, <3>1
    <3> QED
      BY <1>1, <3>1, <3>2
  <2> QED
    BY <2>1, <2>2
<1>4. Spells(us, k + 1, base, later)
  BY <1>2, <1>3 DEF Spells
<1> QED
  BY <1>2, <1>4

\* Every word has samples, and none more than the record.
LEMMA SpellsGrows ==
    ASSUME IsSteim(job.encoding), NEW ws, NEW k \in Nat, NEW base, NEW after, Spells(ws, k, base, after)
    PROVE  \A y \in 0..k : after[y] \in Nat /\ after[y] <= after[k]
<1>1. after \in [0..k -> Nat] /\ \A y \in 1..k : WordHolds(ws[y], base, after[y - 1], after[y])
  BY DEF Spells
<1>2. ASSUME NEW y \in 1..k
      PROVE  after[y - 1] <= after[y]
  <2>1. PICK p \in Packings(job.encoding) : after[y] = after[y - 1] + p.n
    BY <1>1 DEF WordHolds
  <2>2. p.n \in 1..7
    BY PackingIs DEF IsSteim
  <2>3. y - 1 \in 0..k
    OBVIOUS
  <2>4. after[y - 1] \in Nat
    BY <1>1, <2>3
  <2> DEFINE a == after[y - 1]  n == p.n
  <2>5. a \in Nat /\ n \in Nat /\ after[y] = a + n
    BY <2>1, <2>2, <2>4
  <2> HIDE DEF a, n
  <2>6. a <= after[y]
    BY <2>5
  <2> QED
    BY <2>6 DEF a
<1> DEFINE T == {d \in 0..k : ~(after[k - d] <= after[k])}
<1>3. SUFFICES ASSUME T # {} PROVE FALSE
  <2>2. ASSUME NEW y \in 0..k, T = {}
        PROVE  after[y] <= after[k]
    <3>1. k - y \in 0..k /\ k - (k - y) = y
      OBVIOUS
    <3> QED
      BY <2>2, <3>1
  <2> QED
    BY <1>1, <2>2
<1>4. PICK d \in T : \A x \in T : d <= x
  <2>1. T \subseteq Nat
    OBVIOUS
  <2> QED
    BY <1>3, <2>1, LeastOne
<1>5. k \in 0..k /\ after[k] \in Nat
  BY <1>1
<1>6. d # 0
  BY <1>4, <1>5
<1>7. d - 1 \in 0..k /\ d - 1 \notin T /\ k - d \in 0..k /\ k - (d - 1) \in 1..k /\ (k - (d - 1)) - 1 = k - d
  BY <1>4, <1>6
<1>8. after[k - (d - 1)] <= after[k] /\ after[k - d] <= after[k - (d - 1)]
  BY <1>2, <1>7
<1>9. after[k - d] \in Nat /\ after[k - (d - 1)] \in Nat
  <2>1. k - (d - 1) \in 0..k
    BY <1>7
  <2> QED
    BY <1>1, <1>7, <2>1
<1> QED
  BY <1>4, <1>5, <1>8, <1>9

-----------------------------------------------------------------------------
(* What decoding adds up to *)

\* The first m samples of a record.
Slice(base, m) == [x \in 1..m |-> job.samples[base + x]]

LEMMA SliceIs ==
    ASSUME JobOK, NEW base \in Nat, NEW m \in Nat, base + m <= N
    PROVE  /\ Slice(base, m) \in Seq(Int) /\ Len(Slice(base, m)) = m
           /\ Slice(base, m) = SubSeq(job.samples, base + 1, base + m)
<1> DEFINE s == job.samples
           u == Slice(base, m)
           v == SubSeq(s, base + 1, base + m)
<1>1. s \in Seq(Int) /\ N = Len(s) /\ N \in Nat
  BY LenProperties DEF JobOK, N
<1>2. \A x \in 1..m : u[x] = s[base + x] /\ s[base + x] \in Int
  <2>1. \A x \in 1..m : base + x \in 1..N
    BY <1>1
  <2> QED
    BY <1>1, <2>1, ElementOfSeq DEF Slice
<1>3. u \in [1..m -> Int]
  BY <1>2 DEF Slice
<1> HIDE DEF s, u
<1>4. u \in Seq(Int) /\ Len(u) = m
  BY <1>3
<1>5. base + 1 \in 1..Len(s) + 1 /\ base + m \in (base + 1) - 1..Len(s)
  BY <1>1
<1>6. /\ v \in Seq(Int) /\ Len(v) = (base + m) - (base + 1) + 1
      /\ \A x \in 1..(base + m) - (base + 1) + 1 : v[x] = s[(base + 1) + x - 1]
  BY <1>1, <1>5, SubSeqProperties
<1> HIDE DEF v
<1>7. (base + m) - (base + 1) + 1 = m /\ \A x \in 1..m : (base + 1) + x - 1 = base + x
  OBVIOUS
<1>8. Len(v) = m /\ \A x \in 1..m : v[x] = s[base + x]
  BY <1>6, <1>7
<1>9. u = v
  BY <1>2, <1>4, <1>6, <1>8, SeqEqual
<1> QED
  BY <1>4, <1>9 DEF u, v, s

\* One more sample of a slice.
LEMMA SliceNext ==
    ASSUME JobOK, NEW base \in Nat, NEW m \in Nat, base + m + 1 <= N
    PROVE  Append(Slice(base, m), job.samples[base + m + 1]) = Slice(base, m + 1)
<1> DEFINE u == Slice(base, m)
           e == job.samples[base + m + 1]
           v == Slice(base, m + 1)
           w == Append(u, e)
<1>0. N \in Nat /\ base + m <= N /\ base + (m + 1) <= N /\ m + 1 \in Nat
  BY LenProperties DEF JobOK, N
<1>1. u \in Seq(Int) /\ Len(u) = m
  BY <1>0, SliceIs
<1>2. v \in Seq(Int) /\ Len(v) = m + 1
  BY <1>0, SliceIs
<1>3. v[m + 1] = e /\ \A x \in 1..m : v[x] = u[x]
  BY DEF Slice
<1>4. e \in Int
  <2>1. v[m + 1] \in Int
    BY <1>2, ElementOfSeq
  <2> QED
    BY <1>3, <2>1
<1> HIDE DEF u, e, v
<1>5. /\ w \in Seq(Int) /\ Len(w) = m + 1
      /\ \A x \in 1..m : w[x] = u[x]
      /\ w[m + 1] = e
  BY <1>1, <1>4, AppendProperties
<1> HIDE DEF w
<1>6. \A x \in 1..m + 1 : w[x] = v[x]
  BY <1>3, <1>5
<1>7. w = v
  BY <1>2, <1>5, <1>6, SeqEqual
<1> QED
  BY <1>7 DEF u, e, v, w

LEMMA SampleAt ==
    ASSUME JobOK, NEW x \in 1..N
    PROVE  job.samples[x] \in Int
  BY ElementOfSeq DEF JobOK, N

\* A difference adds the next sample.
LEMMA ChangedIs ==
    ASSUME JobOK, NEW base \in Nat, NEW m \in Nat, m < ThisHdr.numsamples, ThisHdr.numsamples \in Nat,
           base + ThisHdr.numsamples <= N, file[cur].first = job.samples[base + 1]
    PROVE  Changed(Slice(base, m), Delta(base, m + 1)) = Slice(base, m + 1)
<1> DEFINE u == Slice(base, m)
           n == ThisHdr.numsamples
<1>0. n \in Nat /\ m < n /\ base + n <= N /\ N \in Nat
  BY LenProperties DEF JobOK, N
<1> HIDE DEF n
<1>1. u \in Seq(Int) /\ Len(u) = m
  BY <1>0, SliceIs, base + m <= N
<1>2. Append(u, job.samples[base + m + 1]) = Slice(base, m + 1)
  BY <1>0, SliceNext, base + m + 1 <= N
<1>3. CASE m = 0
  <2>1. u = <<>> /\ file[cur].first = job.samples[base + m + 1]
    BY <1>1, <1>3, EmptySeq
  <2> HIDE DEF u
  <2>2. Changed(u, Delta(base, m + 1)) = Append(u, file[cur].first)
    BY <1>0, <1>1, <2>1 DEF Changed, n
  <2> QED
    BY <1>2, <2>1, <2>2 DEF u
<1>4. CASE m # 0
  <2>1. u # <<>> /\ u[m] = job.samples[base + m]
    <3>1. u[m] = job.samples[base + m]
      BY <1>4 DEF Slice
    <3> HIDE DEF u
    <3> QED
      BY <1>1, <1>4, <3>1
  <2> DEFINE a == job.samples[base + m]  b == job.samples[base + m + 1]
  <2>2. a \in Int /\ b \in Int
    <3>1. base + m \in 1..N /\ base + m + 1 \in 1..N
      BY <1>0, <1>4
    <3> QED
      BY <3>1, SampleAt
  <2>3. Delta(base, m + 1) = b - a
    <3>1. m + 1 # 1 /\ base + (m + 1) = base + m + 1 /\ base + (m + 1) - 1 = base + m
      BY <1>4
    <3> QED
      BY <3>1 DEF Delta
  <2> HIDE DEF u, a, b
  <2>4. Changed(u, Delta(base, m + 1)) = Append(u, u[m] + (b - a))
    BY <1>0, <1>1, <2>1, <2>3 DEF Changed, n
  <2>5. u[m] + (b - a) = b
    BY <2>1, <2>2 DEF a
  <2> QED
    BY <1>2, <2>4, <2>5 DEF u, b
<1> QED
  BY <1>3, <1>4

\* Differences add the samples that they are of.
AreDeltas(changes, base, m, l) == \A x \in 1..l : changes[x] = Delta(base, m + x)
LEMMA IntegratedIs ==
    ASSUME JobOK, NEW base \in Nat, NEW m \in Nat, NEW changes, NEW l \in Nat, Len(changes) = l,
           ThisHdr.numsamples \in Nat, m + l <= ThisHdr.numsamples,
           base + ThisHdr.numsamples <= N, file[cur].first = job.samples[base + 1],
           AreDeltas(changes, base, m, l)
    PROVE  Integrated(Slice(base, m), changes) = Slice(base, m + l)
<1> DEFINE s == Slice(base, m)
           U(f) == f = [x \in 0..Len(changes) |-> IF x = 0 THEN s ELSE Changed(f[x - 1], changes[x])]
           g == [x \in 0..l |-> Slice(base, m + x)]
           f == CHOOSE f : U(f)
<1>1. ASSUME NEW x \in 1..l
      PROVE  Changed(Slice(base, m + (x - 1)), changes[x]) = Slice(base, m + x)
  <2>1. m + (x - 1) \in Nat /\ m + (x - 1) < ThisHdr.numsamples /\ (m + (x - 1)) + 1 = m + x
    OBVIOUS
  <2> DEFINE y == m + (x - 1)
  <2> HIDE DEF y
  <2>2. Changed(Slice(base, y), Delta(base, y + 1)) = Slice(base, y + 1)
    BY <2>1, ChangedIs DEF y
  <2>3. changes[x] = Delta(base, m + x)
    BY DEF AreDeltas
  <2> QED
    BY <2>1, <2>2, <2>3 DEF y
<1>2. U(g)
  <2>1. \A x \in 0..l : g[x] = IF x = 0 THEN s ELSE Changed(g[x - 1], changes[x])
    <3>1. ASSUME NEW x \in 0..l
          PROVE  g[x] = IF x = 0 THEN s ELSE Changed(g[x - 1], changes[x])
      <4>1. CASE x = 0
        BY <4>1, m + 0 = m
      <4>2. CASE x # 0
        <5>1. x \in 1..l /\ x - 1 \in 0..l
          BY <4>2
        <5>2. g[x] = Slice(base, m + x) /\ g[x - 1] = Slice(base, m + (x - 1))
          BY <5>1
        <5> HIDE DEF g
        <5> QED
          BY <4>2, <5>1, <5>2, <1>1
      <4> QED
        BY <4>1, <4>2
    <3> HIDE DEF U, s, g
    <3> QED
      BY <3>1
  <2>2. g = [x \in 0..l |-> g[x]]
    OBVIOUS
  <2> HIDE DEF g, s
  <2>3. g = [x \in 0..l |-> IF x = 0 THEN s ELSE Changed(g[x - 1], changes[x])]
    BY <2>1, <2>2
  <2> QED
    BY <2>3
<1> HIDE DEF g
<1>3. U(f)
  BY <1>2, Zenon
<1>4. Integrated(s, changes) = f[Len(changes)]
  BY Zenon DEF Integrated
<1>5. g[l] = Slice(base, m + l)
  BY DEF g
<1> HIDE DEF f, s
<1>6. f[l] = g[l]
  <2> DEFINE T == {x \in 0..l : f[x] # g[x]}
  <2>1. SUFFICES ASSUME l \in T PROVE FALSE
    OBVIOUS
  <2>2. PICK x \in T : \A y \in T : x <= y
    <3>1. T \subseteq 0..l
      BY Zenon
    <3> HIDE DEF T
    <3>2. T \subseteq Nat /\ T # {}
      BY <2>1, <3>1
    <3> QED
      BY <3>2, LeastOne
  <2>3. \A y \in 0..l : /\ f[y] = IF y = 0 THEN s ELSE Changed(f[y - 1], changes[y])
                        /\ g[y] = IF y = 0 THEN s ELSE Changed(g[y - 1], changes[y])
    <3>1. ASSUME NEW h, U(h)
          PROVE  \A y \in 0..Len(changes) : h[y] = IF y = 0 THEN s ELSE Changed(h[y - 1], changes[y])
      BY <3>1
    <3>2. /\ \A y \in 0..Len(changes) : f[y] = IF y = 0 THEN s ELSE Changed(f[y - 1], changes[y])
          /\ \A y \in 0..Len(changes) : g[y] = IF y = 0 THEN s ELSE Changed(g[y - 1], changes[y])
      <4> HIDE DEF U
      <4> QED
        BY <1>2, <1>3, <3>1
    <3> QED
      BY <3>2
  <2>4. x # 0
    BY <2>2, <2>3
  <2>5. x - 1 \in 0..l /\ x - 1 \notin T
    BY <2>2, <2>4
  <2>6. f[x - 1] = g[x - 1]
    BY <2>5
  <2> QED
    BY <2>2, <2>3, <2>4, <2>6
<1> QED
  BY <1>4, <1>5, <1>6 DEF s

\* No word with differences is taken for the zeros at the end of a record.
LEMMA DataWordsReach ==
    ASSUME JobOK, N > 0, IsSteim(job.encoding), NEW r, MadeHeader(r.hdr),
           NEW w \in Nat \ {0}, \A y \in 1..w : r.data[y].nibble # 0,
           Len(r.data) \in Nat, w <= Len(r.data),
           job.version = 2 => MaxFrames(r.hdr) > 0 /\ w <= Room(MaxFrames(r.hdr))
    PROVE  w <= DataWords(r) /\ DataWords(r) \in Nat
<1>1. r.hdr.version = job.version /\ MaxFrames(r.hdr) \in Int /\ DataOffset(r.hdr) \in Nat
  BY MadeIs DEF MadeHeader
<1>2. CASE job.version = 3
  BY <1>1, <1>2 DEF DataWords
<1>3. CASE job.version = 2
  <2> DEFINE m == MaxFrames(r.hdr)
             shift == DataOffset(r.hdr) \div 64
             k == FramesOf(w)
             Null(d) == d > shift /\ \A x \in Room(d - shift - 1) + 1 .. Room(d - shift) : r.data[x] = NullWord
             D == {d \in 0..m : d = 0 \/ ~Null(d)}
             last == IF k + shift <= m THEN k + shift ELSE m
  <2>1. m \in Nat \ {0} /\ w <= Room(m) /\ shift \in Nat
    BY <1>1, <1>3
  <2>2. DataWords(r) = Room(Max(D))
    <3>1. r.hdr.version # 3
      BY <1>1, <1>3
    <3> QED
      BY <3>1, Zenon DEF DataWords
  <2> HIDE DEF m, shift
  <2>3. k \in Nat \ {0} /\ k <= m /\ w <= Room(k)
    BY <2>1, Frames
  <2>4. Room(k - 1) < w
    BY DEF Room, FramesOf
  <2> HIDE DEF k
  <2>5. last \in 0..m /\ k <= last /\ last - shift <= k /\ last - shift \in Int
    BY <2>1, <2>3
  <2> HIDE DEF last
  <2>6. ~Null(last)
    <3>1. SUFFICES ASSUME last > shift PROVE ~Null(last)
      OBVIOUS
    <3> DEFINE f == last - shift
    <3>2. f \in Nat \ {0} /\ f <= k
      BY <2>1, <2>5, <3>1
    <3> HIDE DEF f
    <3>3. /\ Room(f - 1) + 1 \in 1..w /\ Room(f - 1) + 1 \in Room(f - 1) + 1 .. Room(f)
      BY <2>3, <2>4, <3>2 DEF Room
    <3>4. r.data[Room(f - 1) + 1].nibble # 0
      BY <3>3
    <3>5. r.data[Room(f - 1) + 1] # NullWord
      BY <3>4 DEF NullWord
    <3>6. last - shift - 1 = f - 1 /\ last - shift = f
      BY <2>1, <2>5 DEF f
    <3> QED
      BY <3>3, <3>5, <3>6
  <2>7. last \in D
    BY <2>5, <2>6
  <2>8. D \subseteq 0..m
    OBVIOUS
  <2> HIDE DEF D
  <2>9. Max(D) \in 0..m /\ last <= Max(D)
    <3>1. m \in Nat
      BY <2>1
    <3>2. Max(D) \in D /\ last <= Max(D)
      BY <2>7, <2>8, <3>1, MaxIs
    <3> QED
      BY <2>8, <3>2
  <2> DEFINE e == Max(D)
  <2>10. e \in Nat /\ k <= e
    BY <2>1, <2>3, <2>5, <2>9
  <2> HIDE DEF e
  <2>11. Room(k) <= Room(e) /\ Room(e) \in Nat /\ Room(k) \in Nat
    BY <2>3, <2>10 DEF Room
  <2> QED
    BY <2>2, <2>3, <2>11 DEF e
<1> QED
  BY <1>2, <1>3 DEF JobOK

\* Samples before a record.
LEMMA BeforeIs ==
    ASSUME IsSequence(file), \A y \in 1..Len(file) : file[y].hdr.numsamples \in Nat
    PROVE  \A x \in 1..Len(file) + 1 : Before(x) \in Nat
<1>1. Len(file) \in Nat
  BY SequenceIs
<1>2. ASSUME NEW x \in 1..Len(file) + 1
      PROVE  Before(x) \in Nat
  <2> DEFINE n == [y \in 1..x - 1 |-> file[y].hdr.numsamples]
  <2>1. x - 1 \in Nat /\ \A y \in 1..x - 1 : y \in 1..Len(file)
    BY <1>1
  <2>2. n \in [1..x - 1 -> Nat]
    BY <2>1
  <2> HIDE DEF n
  <2>3. n \in Seq(Nat)
    BY <2>1, <2>2
  <2> QED
    BY <2>3, TotalNat DEF Before, n
<1> QED
  BY <1>2

LEMMA BeforeFirst == Before(1) = 0
<1> DEFINE n == [y \in 1..1 - 1 |-> file[y].hdr.numsamples]
<1>1. n = <<>>
  OBVIOUS
<1>2. <<>> \in Seq(Int) /\ Len(<<>>) = 0
  OBVIOUS
<1> HIDE DEF n
<1>3. Total(n) = 0
  BY <1>1, <1>2, TotalNone
<1> QED
  BY <1>3 DEF Before, n

\* One more record leaves those before it where they are.
LEMMA BeforeMore ==
    ASSUME IsSequence(file), \A y \in 1..Len(file) : file[y].hdr.numsamples \in Nat,
           NEW r, r.hdr.numsamples \in Nat, file' = Append(file, r), NEW l, l = Len(file)
    PROVE  /\ \A x \in 1..l + 1 : Before(x)' = Before(x)
           /\ Before(l + 2)' = Before(l + 1) + r.hdr.numsamples
<1> DEFINE g == file'
<1>1. l \in Nat
  BY SequenceIs
<1>2. \A y \in 1..l : g[y] = file[y]
  BY AppendIs
<1>3. g[l + 1] = r
  BY AppendIs
<1>4. ASSUME NEW x \in 1..l + 1
      PROVE  Before(x)' = Before(x)
  <2> DEFINE n == [y \in 1..x - 1 |-> file[y].hdr.numsamples]
             m == [y \in 1..x - 1 |-> g[y].hdr.numsamples]
  <2>1. \A y \in 1..x - 1 : y \in 1..l
    BY <1>1
  <2>2. n = m
    BY <1>2, <2>1
  <2>3. Before(x)' = Total(m) /\ Before(x) = Total(n)
    BY Zenon DEF Before
  <2> QED
    BY <2>2, <2>3
<1>5. Before(l + 2)' = Before(l + 1) + r.hdr.numsamples
  <2> DEFINE n == [y \in 1..(l + 1) - 1 |-> file[y].hdr.numsamples]
             m == [y \in 1..(l + 2) - 1 |-> g[y].hdr.numsamples]
  <2>1. Before(l + 2)' = Total(m) /\ Before(l + 1) = Total(n)
    BY DEF Before
  <2>2. (l + 1) - 1 = l /\ (l + 2) - 1 = l + 1 /\ l + 1 \in 1..l + 1 /\ \A y \in 1..l : y \in 1..l + 1
    BY <1>1
  <2>3. \A y \in 1..l : n[y] = file[y].hdr.numsamples
    BY <2>2
  <2>4. \A y \in 1..l + 1 : m[y] = g[y].hdr.numsamples
    BY <2>2
  <2>5. n \in [1..l -> Nat]
    BY <2>2
  <2>6. m \in [1..l + 1 -> Nat]
    <3>1. ASSUME NEW y \in 1..l + 1
          PROVE  g[y].hdr.numsamples \in Nat
      <4>1. CASE y = l + 1
        BY <4>1, <1>3
      <4>2. CASE y # l + 1
        <5>1. y \in 1..l
          BY <1>1, <4>2
        <5> QED
          BY <5>1, <1>2
      <4> QED
        BY <4>1, <4>2
    <3> QED
      BY <2>2, <3>1
  <2> HIDE DEF n, m, g
  <2>7. n \in Seq(Int) /\ m \in Seq(Int) /\ Len(n) = l /\ Len(m) = l + 1
    <3>1. n \in Seq(Nat) /\ Len(n) = l
      BY <1>1, <2>5
    <3>2. m \in Seq(Nat) /\ Len(m) = l + 1
      BY <1>1, <2>6
    <3> QED
      BY <3>1, <3>2
  <2>8. \A y \in 1..Len(n) : m[y] = n[y]
    BY <1>2, <2>2, <2>3, <2>4, <2>7
  <2>9. Total(m) = Total(n) + m[Len(m)]
    BY <2>7, <2>8, TotalNext
  <2>10. m[Len(m)] = r.hdr.numsamples
    BY <1>3, <2>2, <2>4, <2>7
  <2> QED
    BY <2>1, <2>9, <2>10
<1> QED
  BY <1>4, <1>5

-----------------------------------------------------------------------------
(* Samples come back *)

\* What is encoded of a record, and the differences ahead.
EncodeOK ==
    phase = "encode" =>
        /\ N > 0
        /\ IsSteim(job.encoding) =>
              /\ \E after : Spells(words, Len(words), total, after) /\ after[Len(words)] = out
              /\ \A x \in 1..Len(diffs) : diffs[x] = Delta(total, out + x)

\* The records of the file follow one another.
FileOK ==
    /\ \A x \in 1..Len(file) :
          IF N = 0 THEN file[x].data = <<>> /\ file[x].hdr.numsamples \in Nat
          ELSE RecordHolds(file[x], Before(x))
    /\ N > 0 => Before(Len(file) + 1) = total

\* Samples are left over only after an error.
LeftOK ==
    phase \in {"read", "decode", "done"} /\ N > 0 =>
        total = N \/ (result = -1 /\ Unencodable)

\* The samples of the words read.
GotOK(r, base) ==
    \E k \in Nat : \E after : \E y \in 0..k :
        /\ DataWords(r) \in Nat /\ k <= DataWords(r) /\ Spells(r.data, k, base, after)
        /\ after[k] = r.hdr.numsamples
        /\ at = y + 1 /\ got = Slice(base, after[y])
DecodeOK ==
    phase = "decode" =>
        /\ N > 0 /\ ~Refused(file[cur]) /\ "samples" \in DOMAIN msr
        /\ IsSteim(job.encoding) => GotOK(file[cur], Before(cur))

\* What is read of a record.
IsBack(r, base, b) ==
    IF Refused(r) THEN b = Failed
    ELSE /\ "samples" \in DOMAIN b
         /\ b.samples = SubSeq(job.samples, base + 1, base + r.hdr.numsamples)
AllBack == \A x \in 1..Len(back) : IsBack(file[x], Before(x), back[x])

SamplesInv == RecordInv /\ EncodeOK /\ FileOK /\ LeftOK /\ DecodeOK /\ AllBack

LEMMA InvSamples == SamplesInv => SamplesBack
<1>1. SUFFICES ASSUME SamplesInv, phase = "done" PROVE SamplesBack
  BY DEF SamplesBack
<1>2. IsSequence(back) /\ DOMAIN back = 1..Len(back)
  BY <1>1, SequenceIs DEF SamplesInv, RecordInv, RecordTypeOK
<1>3. ASSUME NEW x \in DOMAIN back
      PROVE  IF Refused(file[x]) THEN back[x] = Failed
             ELSE /\ back[x] # Failed
                  /\ back[x].samples =
                        SubSeq(job.samples, Before(x) + 1, Before(x) + file[x].hdr.numsamples)
  <2>1. IsBack(file[x], Before(x), back[x])
    BY <1>1, <1>2 DEF SamplesInv, AllBack
  <2>2. "samples" \notin DOMAIN Failed
    BY DEF Failed
  <2> QED
    BY <2>1, <2>2 DEF IsBack
<1>4. N > 0 /\ Before(Len(file) + 1) # N => result = -1 /\ Unencodable
  BY <1>1 DEF SamplesInv, FileOK, LeftOK
<1> QED
  BY <1>3, <1>4 DEF SamplesBack

\* The records have counts of samples, and begin where others end.
LEMMA FileIs ==
    ASSUME SamplesInv
    PROVE  /\ IsSequence(file) /\ Len(file) \in Nat
           /\ \A x \in 1..Len(file) : file[x].hdr.numsamples \in Nat
           /\ \A x \in 1..Len(file) + 1 : Before(x) \in Nat
<1>1. IsSequence(file) /\ Len(file) \in Nat
  BY SequenceIs DEF SamplesInv, RecordInv, RecordTypeOK
<1>2. \A x \in 1..Len(file) : file[x].hdr.numsamples \in Nat
  BY DEF SamplesInv, FileOK, RecordHolds
<1> QED
  BY <1>1, <1>2, BeforeIs

\* What does not change.
LEMMA FileStays ==
    ASSUME UNCHANGED <<job, total, file>>, FileOK
    PROVE  FileOK'
<1>1. /\ \A r, base : RecordHolds(r, base)' <=> RecordHolds(r, base)
      /\ \A x : Before(x)' = Before(x)
      /\ N' = N
  BY RecordStays, BeforeStays, HeaderStays
<1> QED
  BY <1>1 DEF FileOK
LEMMA SliceStays ==
    ASSUME job' = job PROVE \A base, m : Slice(base, m)' = Slice(base, m)
  BY DEF Slice
LEMMA IsBackStays ==
    ASSUME job' = job PROVE \A r, base, b : IsBack(r, base, b)' <=> IsBack(r, base, b)
  BY RefusedStays DEF IsBack
LEMMA UnencodableStays ==
    ASSUME UNCHANGED <<job, hdr>>, Unencodable
    PROVE  Unencodable'
<1>1. Header' = Header /\ N' = N
  BY HeaderStays
<1>2. NoRoomFor(hdr)' <=> NoRoomFor(hdr)
  BY DEF NoRoomFor, MaxFrames, MaxDataBytes
<1> QED
  BY <1>1, <1>2 DEF Unencodable
LEMMA LeftStays ==
    ASSUME UNCHANGED <<job, result, packvars>>, LeftOK, phase \in {"read", "decode", "done"}
    PROVE  LeftOK'
<1>1. N' = N
  BY HeaderStays
<1>2. Unencodable => Unencodable'
  BY UnencodableStays DEF packvars
<1> QED
  BY <1>1, <1>2 DEF LeftOK, packvars
LEMMA BackStays ==
    ASSUME UNCHANGED <<job, file, back>>, AllBack
    PROVE  AllBack'
<1>1. /\ \A r, base, b : IsBack(r, base, b)' <=> IsBack(r, base, b)
      /\ \A x : Before(x)' = Before(x)
  BY IsBackStays, BeforeStays
<1> QED
  BY <1>1 DEF AllBack

-----------------------------------------------------------------------------
(* Every step keeps the samples. *)

\* A record read to its end, with what it should give.
LEMMA ReturnBack ==
    ASSUME SamplesInv, NEW b, Return(b), cur <= Len(file), UNCHANGED <<job, result, packvars>>,
           RecordInv', phase \in {"read", "decode"}, IsBack(file[cur], Before(cur), b)
    PROVE  SamplesInv'
<1>1. phase' = "read" /\ back' = Append(back, b) /\ UNCHANGED <<file, total>>
  BY DEF Return, packvars
<1>2. FileOK' /\ LeftOK' /\ EncodeOK' /\ DecodeOK'
  BY <1>1, FileStays, LeftStays DEF SamplesInv, EncodeOK, DecodeOK
<1>3. AllBack'
  <2> PICK c : c = cur
    OBVIOUS
  <2>1. IsSequence(back) /\ Len(back) = c - 1 /\ c \in Nat
    BY FileIs, SMTT(60) DEF SamplesInv, RecordInv, RecordTypeOK
  <2>2. /\ Len(back') = (c - 1) + 1
        /\ \A x \in 1..c - 1 : back'[x] = back[x]
        /\ back'[(c - 1) + 1] = b
    BY <1>1, <2>1, AppendIs
  <2>3. /\ \A r, base, z : IsBack(r, base, z)' <=> IsBack(r, base, z)
        /\ \A x : Before(x)' = Before(x)
    BY <1>1, IsBackStays, BeforeStays
  <2>4. (c - 1) + 1 = c /\ \A x \in 1..c : x \in 1..c - 1 \/ x = c
    BY <2>1
  <2>5. ASSUME NEW x \in 1..c
        PROVE  IsBack(file[x], Before(x), back[x])'
    <3>1. PICK r, base, z : r = file[x] /\ base = Before(x) /\ z = IF x = c THEN b ELSE back[x]
      OBVIOUS
    <3>2. IsBack(r, base, z)
      <4>1. CASE x = c
        BY <3>1, <4>1
      <4>2. CASE x # c
        BY <2>1, <2>4, <3>1, <4>2 DEF SamplesInv, AllBack
      <4> QED
        BY <4>1, <4>2
    <3>3. IsBack(r, base, z)'
      BY <2>3, <3>2
    <3>4. r = file'[x] /\ base = Before(x)' /\ z = back'[x]
      BY <1>1, <2>2, <2>3, <2>4, <3>1
    <3> QED
      BY <3>3, <3>4
  <2> QED
    BY <2>2, <2>4, <2>5 DEF AllBack
<1> QED
  BY <1>2, <1>3 DEF SamplesInv

LEMMA ReadFailsBack == ASSUME SamplesInv, ReadFails PROVE SamplesInv'
<1>1. /\ Return(Failed) /\ cur <= Len(file) /\ UNCHANGED <<job, result, packvars>> /\ phase = "read"
      /\ Refused(file[cur])
  BY DEF ReadFails, Reading
<1>2. IsBack(file[cur], Before(cur), Failed)
  BY <1>1 DEF IsBack
<1>3. RecordInv'
  BY ReadFailsKeeps DEF SamplesInv
<1> QED
  BY <1>1, <1>2, <1>3, ReturnBack

\* The record being read.
LEMMA CurIs ==
    ASSUME SamplesInv, cur <= Len(file)
    PROVE  /\ cur \in 1..Len(file) /\ Before(cur) \in Nat
           /\ N > 0 => RecordHolds(file[cur], Before(cur))
           /\ N = 0 => file[cur].data = <<>>
           /\ file[cur].hdr.numsamples \in Nat
<1>1. cur \in 1..Len(file) /\ cur \in 1..Len(file) + 1
  BY FileIs DEF SamplesInv, RecordInv, RecordTypeOK
<1> QED
  BY <1>1, FileIs DEF SamplesInv, FileOK

LEMMA SpellsNone ==
    ASSUME NEW r, NEW base, NEW k \in Nat, NEW after, Spells(r, k, base, after)
    PROVE  after[0] = 0
  BY DEF Spells

LEMMA ReadHeaderBack == ASSUME SamplesInv, ReadHeader PROVE SamplesInv'
<1>1. /\ cur <= Len(file) /\ UNCHANGED <<job, result, packvars>> /\ at' = 1 /\ got' = <<>>
      /\ phase = "read" /\ ~Refused(file[cur])
  BY DEF ReadHeader, Reading
<1>2. RecordInv'
  BY ReadHeaderKeeps DEF SamplesInv
<1>3. msr' = IF ThisHdr.version = 3 THEN Read3(ThisHdr) ELSE Read2(ThisHdr)
  BY DEF ReadHeader
<1>4. "samples" \in DOMAIN msr' /\ msr'.samples = <<>>
  BY <1>3 DEF Read2, Read3
<1>5. /\ cur \in 1..Len(file) /\ Before(cur) \in Nat
      /\ N > 0 => RecordHolds(file[cur], Before(cur))
      /\ N = 0 => file[cur].data = <<>>
      /\ ThisHdr.numsamples \in Nat /\ ThisHdr = file[cur].hdr
  BY <1>1, CurIs DEF ThisHdr
<1>6. CASE ThisHdr.numsamples = 0
  <2>1. Return(msr')
    BY <1>6 DEF ReadHeader
  <2>2. SubSeq(job.samples, Before(cur) + 1, Before(cur) + 0) = <<>>
    <3> DEFINE z == Before(cur)
    <3>1. z \in Nat
      BY <1>5
    <3> HIDE DEF z
    <3>2. z + 1 > z + 0 /\ z + 1 \in Int /\ z + 0 \in Int
      BY <3>1
    <3>3. JobOK
      BY DEF SamplesInv, RecordInv, RecordTypeOK
    <3>4. SubSeq(job.samples, z + 1, z + 0) = <<>>
      BY <3>2, <3>3 DEF JobOK
    <3> QED
      BY <3>4 DEF z
  <2>3. IsBack(file[cur], Before(cur), msr')
    BY <1>1, <1>4, <1>5, <1>6, <2>2 DEF IsBack
  <2> QED
    BY <1>1, <1>2, <2>1, <2>3, ReturnBack
<1>7. CASE ThisHdr.numsamples # 0
  <2>1. phase' = "decode" /\ UNCHANGED <<cur, back>> /\ UNCHANGED <<total, file>>
    BY <1>1, <1>7 DEF ReadHeader, packvars
  <2>2. N > 0
    <3>1. N # 0
      BY <1>1, <1>5, <1>7 DEF Refused
    <3>2. N \in Nat
      BY Sizes DEF SamplesInv, RecordInv
    <3> QED
      BY <3>1, <3>2
  <2>3. FileOK' /\ LeftOK' /\ AllBack' /\ EncodeOK'
    BY <1>1, <2>1, FileStays, LeftStays, BackStays DEF SamplesInv, EncodeOK
  <2>4. DecodeOK'
    <3> PICK r, base : r = file[cur] /\ base = Before(cur)
      OBVIOUS
    <3>1. N' > 0 /\ (Refused(r)' <=> Refused(r)) /\ Before(cur)' = base /\ file'[cur'] = r
      <4>1. \A x : Before(x)' = Before(x)
        BY <2>1, BeforeStays
      <4>2. PICK c : c = cur
        OBVIOUS
      <4>3. Before(c)' = Before(c)
        BY <4>1
      <4>4. N' = N /\ (Refused(r)' <=> Refused(r))
        BY <1>1, HeaderStays, RefusedStays
      <4> QED
        BY <2>1, <2>2, <4>2, <4>3, <4>4
    <3>2. ASSUME IsSteim(job.encoding)
          PROVE  GotOK(r, base)'
      <4>1. SteimHolds(r, base)
        BY <1>5, <2>2, <3>2 DEF RecordHolds
      <4>2a. PICK k \in Nat : \E after :
                 /\ DataWords(r) \in Nat /\ k <= DataWords(r) /\ Spells(r.data, k, base, after)
                 /\ after[k] = r.hdr.numsamples
        BY <4>1 DEF SteimHolds
      <4>2. PICK after :
                /\ DataWords(r) \in Nat /\ k <= DataWords(r) /\ Spells(r.data, k, base, after)
                /\ after[k] = r.hdr.numsamples
        BY <4>2a
      <4>3. (Spells(r.data, k, base, after)' <=> Spells(r.data, k, base, after)) /\ DataWords(r)' = DataWords(r)
        BY <1>1, SpellsStays, DataWordsStays
      <4>4. got' = Slice(base, after[0])'
        <5>1. after[0] = 0
          BY <4>2, SpellsNone
        <5>2. Slice(base, 0) = <<>>
          BY DEF Slice
        <5>3. Slice(base, 0)' = <<>>
          BY <1>1, <5>2, SliceStays
        <5> QED
          BY <1>1, <5>1, <5>3
      <4>5. 0 \in 0..k /\ at' = 0 + 1
        BY <1>1
      <4> QED
        BY <4>2, <4>3, <4>4, <4>5 DEF GotOK
    <3>3. "samples" \in DOMAIN msr'
      BY <1>4
    <3> QED
      BY <1>1, <3>1, <3>2, <3>3 DEF DecodeOK
  <2> QED
    BY <1>2, <2>3, <2>4 DEF SamplesInv
<1> QED
  BY <1>6, <1>7

LEMMA DecodeWordBack == ASSUME SamplesInv, DecodeWord PROVE SamplesInv'
<1>1. /\ UNCHANGED <<job, phase, result, packvars, cur, msr, back>> /\ phase = "decode" /\ at' = at + 1
      /\ IsSteim(job.encoding) /\ Len(got) < ThisHdr.numsamples
  <2>1. phase = "decode" /\ IsSteim(ThisHdr.encoding) /\ Len(got) < ThisHdr.numsamples
    BY DEF DecodeWord, Decoding
  <2>2. cur <= Len(file)
    BY <2>1 DEF SamplesInv, RecordInv, RecordTypeOK
  <2>3. N > 0 /\ MadeHeader(file[cur].hdr) /\ JobOK
    BY <2>1, <2>2, CurIs DEF SamplesInv, DecodeOK, RecordHolds, RecordInv, RecordTypeOK
  <2>4. file[cur].hdr.encoding = job.encoding
    BY <2>3, MadeIs DEF MadeHeader
  <2> QED
    BY <2>1, <2>4 DEF DecodeWord, ThisHdr
<1>2. RecordInv'
  BY DecodeWordKeeps DEF SamplesInv
<1>3. cur \in 1..Len(file) /\ RecordHolds(file[cur], Before(cur)) /\ Before(cur) \in Nat /\ N > 0
  BY <1>1, CurIs DEF SamplesInv, DecodeOK, RecordInv, RecordTypeOK
<1>4. FileOK' /\ LeftOK' /\ AllBack' /\ EncodeOK'
  BY <1>1, FileStays, LeftStays, BackStays DEF SamplesInv, EncodeOK, packvars
<1>5. DecodeOK'
  <2> PICK r, base, c : r = file[cur] /\ base = Before(cur) /\ c = cur
    OBVIOUS
  <2>1. GotOK(r, base)
    BY <1>1 DEF SamplesInv, DecodeOK
  <2>2a. PICK k \in Nat : \E after : \E y \in 0..k :
            /\ DataWords(r) \in Nat /\ k <= DataWords(r) /\ Spells(r.data, k, base, after)
            /\ after[k] = r.hdr.numsamples
            /\ at = y + 1 /\ got = Slice(base, after[y])
    BY <2>1 DEF GotOK
  <2>2b. PICK after : \E y \in 0..k :
            /\ DataWords(r) \in Nat /\ k <= DataWords(r) /\ Spells(r.data, k, base, after)
            /\ after[k] = r.hdr.numsamples
            /\ at = y + 1 /\ got = Slice(base, after[y])
    BY <2>2a
  <2>2. PICK y \in 0..k :
            /\ DataWords(r) \in Nat /\ k <= DataWords(r) /\ Spells(r.data, k, base, after)
            /\ after[k] = r.hdr.numsamples
            /\ at = y + 1 /\ got = Slice(base, after[y])
    BY <2>2b
  <2>3. JobOK /\ at \in Nat \ {0} /\ base \in Nat /\ r.hdr.numsamples \in Nat /\ base + r.hdr.numsamples <= N
        /\ r.first = job.samples[base + 1] /\ N \in Nat
    BY <1>1, <1>3, Sizes DEF SamplesInv, RecordInv, RecordTypeOK, RecordHolds, SteimHolds
  <2>4. \A x \in 0..k : after[x] \in Nat /\ after[x] <= after[k]
    BY <1>1, <2>2, SpellsGrows
  <2> DEFINE m == after[y]
             n == after[y + 1]
             s == r.hdr.numsamples
  <2>5. m \in Nat /\ m <= s
    BY <2>2, <2>3, <2>4
  <2>6. Len(got) = m
    <3>1. base + m <= N /\ got = Slice(base, m)
      <4> HIDE DEF m, s
      <4> QED
        BY <2>2, <2>3, <2>5 DEF m, s
    <3> HIDE DEF m
    <3> QED
      BY <2>3, <2>5, <3>1, SliceIs
  <2>7. y # k
    BY <1>1, <2>2, <2>6 DEF ThisHdr
  <2>8. y + 1 \in 1..k /\ y + 1 \in 0..k /\ n \in Nat /\ n <= s
    <3>1. y + 1 \in 1..k /\ y + 1 \in 0..k
      BY <2>7
    <3> QED
      BY <2>2, <2>4, <3>1
  <2>9. WordHolds(r.data[at], base, m, n)
    <3>1. WordHolds(r.data[y + 1], base, after[(y + 1) - 1], after[y + 1]) /\ (y + 1) - 1 = y
      BY <2>2, <2>8 DEF Spells
    <3> QED
      BY <2>2, <3>1
  <2>10. PICK p \in Packings(job.encoding) :
             /\ TakenFor(r.data[at], job.encoding) = {p} /\ n = m + p.n
             /\ \A x \in 1..p.n : DiffsOf(r.data[at], p)[x] = Delta(base, m + x)
    BY <2>9 DEF WordHolds
  <2>11. ThisWord = r.data[at] /\ ThisWord.nibble # 0 /\ ThisHdr = r.hdr
    BY <2>9 DEF ThisWord, WordHolds, ThisHdr
  <2>12. r.hdr.encoding = job.encoding
    BY <1>3, <2>3, MadeIs DEF RecordHolds, MadeHeader
  <2>13. ThisPacking = p
    BY <2>10, <2>11, <2>12 DEF ThisPacking
  <2> DEFINE d == DiffsOf(r.data[at], p)
             l == p.n
  <2>14. l \in Nat /\ Len(d) = l
    <3>1. l \in 1..7
      BY <1>1, PackingIs DEF IsSteim
    <3>2. IsSequence(d) /\ Len(d) = l
      <4>1. d = [x \in 1..l |-> d[x]] /\ DOMAIN d = 1..l
        BY DEF DiffsOf
      <4>2. l \in Nat
        BY <3>1
      <4> HIDE DEF d, l
      <4> QED
        BY <4>1, <4>2, MadeOf
    <3> HIDE DEF d, l
    <3> QED
      BY <3>1, <3>2
  <2>15. got' = Integrated(got, d)
    BY <2>11, <2>13 DEF DecodeWord
  <2>16. \A x \in 1..l : d[x] = Delta(base, m + x)
    BY <2>10
  <2>17. n = m + l /\ got = Slice(base, m) /\ file[cur].first = job.samples[base + 1]
         /\ ThisHdr.numsamples = s
    BY <2>2, <2>3, <2>10, <2>11
  <2>18. got' = Slice(base, n)
    <3> HIDE DEF d, l, m, n, s
    <3>1. s \in Nat /\ base + s <= N
      BY <2>3 DEF s
    <3>2. /\ JobOK /\ base \in Nat /\ m \in Nat /\ l \in Nat /\ Len(d) = l
          /\ ThisHdr.numsamples \in Nat /\ m + l <= ThisHdr.numsamples
          /\ base + ThisHdr.numsamples <= N /\ file[cur].first = job.samples[base + 1]
          /\ AreDeltas(d, base, m, l)
      BY <2>3, <2>5, <2>8, <2>14, <2>16, <2>17, <3>1 DEF AreDeltas
    <3>3. Integrated(Slice(base, m), d) = Slice(base, m + l)
      BY <3>2, IntegratedIs
    <3> QED
      BY <2>15, <2>17, <3>3
  <2>19. GotOK(r, base)'
    <3>1. /\ (Spells(r.data, k, base, after)' <=> Spells(r.data, k, base, after))
          /\ DataWords(r)' = DataWords(r)
      BY <1>1, SpellsStays, DataWordsStays
    <3>2. at' = (y + 1) + 1
      BY <1>1, <2>2
    <3>3. Slice(base, after[y + 1])' = Slice(base, after[y + 1])
      BY <1>1, SliceStays
    <3>4. DataWords(r)' \in Nat /\ k <= DataWords(r)' /\ Spells(r.data, k, base, after)' /\ after[k] = r.hdr.numsamples
          /\ got' = Slice(base, after[y + 1])'
      BY <2>2, <2>18, <3>1, <3>3
    <3> QED
      BY <2>8, <3>2, <3>4 DEF GotOK
  <2>20. Before(cur)' = base /\ file'[cur'] = r /\ N' > 0 /\ (Refused(r)' <=> Refused(r))
    <3>1. \A x : Before(x)' = Before(x)
      BY <1>1, BeforeStays DEF packvars
    <3>2. Before(c)' = Before(c)
      BY <3>1
    <3>3. N' = N /\ (Refused(r)' <=> Refused(r))
      BY <1>1, HeaderStays, RefusedStays
    <3> QED
      BY <1>1, <1>3, <3>2, <3>3 DEF packvars
  <2>21. "samples" \in DOMAIN msr' /\ ~Refused(r)
    BY <1>1 DEF SamplesInv, DecodeOK
  <2> QED
    BY <2>19, <2>20, <2>21 DEF DecodeOK
<1> QED
  BY <1>2, <1>4, <1>5 DEF SamplesInv

\* The record being decoded has the encoding of the segment.
LEMMA DecodedIs ==
    ASSUME SamplesInv, phase = "decode"
    PROVE  /\ cur <= Len(file) /\ N > 0 /\ RecordHolds(file[cur], Before(cur))
           /\ Before(cur) \in Nat /\ ThisHdr = file[cur].hdr
           /\ ThisHdr.encoding = job.encoding
           /\ ~Refused(file[cur]) /\ "samples" \in DOMAIN msr /\ JobOK
<1>1. cur <= Len(file) /\ JobOK
  BY DEF SamplesInv, RecordInv, RecordTypeOK
<1>2. N > 0 /\ ~Refused(file[cur]) /\ "samples" \in DOMAIN msr
  BY DEF SamplesInv, DecodeOK
<1>3. RecordHolds(file[cur], Before(cur)) /\ Before(cur) \in Nat
  BY <1>1, <1>2, CurIs
<1>4. file[cur].hdr.encoding = job.encoding
  BY <1>1, <1>2, <1>3, MadeIs DEF MadeHeader, RecordHolds
<1> QED
  BY <1>1, <1>2, <1>3, <1>4 DEF ThisHdr

\* A record with the samples of its place is as it should be.
LEMMA SliceBack ==
    ASSUME JobOK, NEW r, NEW base \in Nat, RecordHolds(r, base), ~Refused(r),
           NEW m, "samples" \in DOMAIN m, NEW s, s = Slice(base, r.hdr.numsamples)
    PROVE  IsBack(r, base, [m EXCEPT !.samples = s])
<1> DEFINE n == r.hdr.numsamples
           b == [m EXCEPT !.samples = s]
<1>1. n \in Nat /\ base + n <= N
  BY DEF RecordHolds
<1>2. b.samples = s /\ "samples" \in DOMAIN b
  OBVIOUS
<1> HIDE DEF n, b
<1>3. Slice(base, n) = SubSeq(job.samples, base + 1, base + n)
  BY <1>1, SliceIs
<1>4. b.samples = SubSeq(job.samples, base + 1, base + n)
  BY <1>2, <1>3 DEF n
<1> QED
  BY <1>2, <1>4 DEF IsBack, n, b

LEMMA DecodeFixedBack == ASSUME SamplesInv, DecodeFixed PROVE SamplesInv'
<1>1. /\ cur <= Len(file) /\ N > 0 /\ RecordHolds(file[cur], Before(cur))
      /\ Before(cur) \in Nat /\ ThisHdr = file[cur].hdr
      /\ ThisHdr.encoding = job.encoding
      /\ ~Refused(file[cur]) /\ "samples" \in DOMAIN msr /\ JobOK
  BY DecodedIs DEF DecodeFixed
<1> DEFINE r == file[cur]
           base == Before(cur)
           n == r.hdr.numsamples
           s == SubSeq(r.data, 1, n)
<1>2. /\ UNCHANGED <<job, result, packvars>> /\ phase = "decode" /\ ~IsSteim(job.encoding)
      /\ Return([msr EXCEPT !.samples = s])
  BY <1>1 DEF DecodeFixed
<1>3. n \in Nat /\ base + n <= N /\ r.data = Slice(base, n)
  BY <1>1, <1>2 DEF RecordHolds, FixedHolds, Slice
<1>4. s = Slice(base, n)
  <2> DEFINE d == r.data
  <2> HIDE DEF r, base, n, d
  <2>1. d \in Seq(Int) /\ Len(d) = n
    BY <1>1, <1>3, SliceIs DEF d, base
  <2>2. SubSeq(d, 1, Len(d)) = d
    BY <2>1, SubSeqFull
  <2> QED
    BY <1>3, <2>1, <2>2 DEF d
<1>5. IsBack(r, base, [msr EXCEPT !.samples = s])
  <2> HIDE DEF s
  <2> QED
    BY <1>1, <1>4, SliceBack
<1>6. RecordInv'
  BY DecodeFixedKeeps DEF SamplesInv
<1> HIDE DEF s
<1> QED
  BY <1>1, <1>2, <1>5, <1>6, ReturnBack

LEMMA DecodeEndsBack == ASSUME SamplesInv, DecodeEnds PROVE SamplesInv'
<1>1. /\ cur <= Len(file) /\ N > 0 /\ RecordHolds(file[cur], Before(cur))
      /\ Before(cur) \in Nat /\ ThisHdr = file[cur].hdr
      /\ ThisHdr.encoding = job.encoding
      /\ ~Refused(file[cur]) /\ "samples" \in DOMAIN msr /\ JobOK
  BY DecodedIs DEF DecodeEnds
<1> DEFINE r == file[cur]
           base == Before(cur)
           n == r.hdr.numsamples
<1>2. /\ UNCHANGED <<job, result, packvars>> /\ phase = "decode" /\ IsSteim(job.encoding) /\ ~Decoding
      /\ Return(IF Len(got) = n THEN [msr EXCEPT !.samples = got] ELSE Failed)
  BY <1>1 DEF DecodeEnds
<1>3. n \in Nat /\ base + n <= N
  BY <1>1 DEF RecordHolds
<1>4. GotOK(r, base)
  BY <1>2 DEF SamplesInv, DecodeOK
<1>5. PICK k \in Nat : \E after : \E y \in 0..k :
          /\ DataWords(r) \in Nat /\ k <= DataWords(r) /\ Spells(r.data, k, base, after)
          /\ after[k] = n
          /\ at = y + 1 /\ got = Slice(base, after[y])
  BY <1>4 DEF GotOK
<1>6. PICK after : \E y \in 0..k :
          /\ DataWords(r) \in Nat /\ k <= DataWords(r) /\ Spells(r.data, k, base, after)
          /\ after[k] = n
          /\ at = y + 1 /\ got = Slice(base, after[y])
  BY <1>5
<1>7. PICK y \in 0..k :
          /\ DataWords(r) \in Nat /\ k <= DataWords(r) /\ Spells(r.data, k, base, after)
          /\ after[k] = n
          /\ at = y + 1 /\ got = Slice(base, after[y])
  BY <1>6
<1>8. after[y] \in Nat /\ after[y] <= n
  BY <1>2, <1>7, SpellsGrows
<1>9. Len(got) = after[y]
  <2> DEFINE m == after[y]
  <2> HIDE DEF m, n, base
  <2>1. m \in Nat /\ base + m <= N /\ got = Slice(base, m)
    <3>1. N \in Nat /\ base \in Nat
      BY <1>1, Sizes DEF SamplesInv, RecordInv, base
    <3> QED
      BY <1>3, <1>7, <1>8, <3>1 DEF m
  <2>2. Len(Slice(base, m)) = m
    BY <1>1, <2>1, SliceIs DEF base
  <2> QED
    BY <2>1, <2>2 DEF m
<1>10. Len(got) = n
  <2>1. SUFFICES ASSUME Len(got) # n PROVE FALSE
    OBVIOUS
  <2>2. Len(got) < n /\ y # k
    BY <1>3, <1>7, <1>8, <1>9, <2>1
  <2>3. at \in 1..k /\ at <= DataWords(r)
    <3>1. DataWords(r) \in Nat
      BY <1>7
    <3> QED
      BY <1>7, <2>2, <3>1
  <2>4. \E m, z : WordHolds(r.data[at], base, m, z)
    BY <1>7, <2>3 DEF Spells
  <2>5. TakenFor(r.data[at], job.encoding) # {}
    BY <2>4 DEF WordHolds
  <2>6. Decoding
    BY <1>1, <1>2, <2>2, <2>3, <2>5 DEF Decoding, ThisWord, ThisHdr
  <2> QED
    BY <1>2, <2>6
<1>11. IsBack(r, base, [msr EXCEPT !.samples = got])
  <2>1. got = Slice(base, n)
    BY <1>7, <1>9, <1>10
  <2> QED
    BY <1>1, <2>1, SliceBack
<1>12. RecordInv'
  BY DecodeEndsKeeps DEF SamplesInv
<1>13. Return([msr EXCEPT !.samples = got])
  BY <1>2, <1>10
<1> QED
  BY <1>1, <1>2, <1>11, <1>12, <1>13, ReturnBack

LEMMA FinishBack == ASSUME SamplesInv, Finish PROVE SamplesInv'
<1>1. UNCHANGED <<job, result, packvars, back, file, total>> /\ phase = "read" /\ phase' = "done"
  BY DEF Finish, packvars, readvars
<1>2. RecordInv'
  BY FinishKeeps DEF SamplesInv
<1> QED
  BY <1>1, <1>2, FileStays, LeftStays, BackStays DEF SamplesInv, EncodeOK, DecodeOK

\* Nothing is read while records are packed.
LEMMA NoneBack ==
    ASSUME RecordInv, phase \in {"header", "encode"}, back' = back
    PROVE  AllBack'
<1>1. Len(back) = 0
  BY DEF RecordInv, RecordTypeOK
<1> QED
  BY <1>1 DEF AllBack

\* A packing fails only for a reason.
LEMMA FailureBack ==
    ASSUME SamplesInv, Fails, UNCHANGED <<job, packvars, readvars>>, phase \in {"header", "encode"},
           N > 0 => Unencodable
    PROVE  SamplesInv'
<1>1. RecordInv'
  BY FailureKeeps DEF SamplesInv
<1>2. UNCHANGED <<job, total, file, hdr, back>> /\ phase' = "read" /\ result' = -1
  BY DEF Fails, packvars, readvars
<1>3. FileOK'
  BY <1>2, FileStays DEF SamplesInv
<1>4. AllBack'
  BY <1>2, NoneBack DEF SamplesInv
<1>5. LeftOK'
  <2>1. N' = N /\ (Unencodable => Unencodable')
    BY <1>2, HeaderStays, UnencodableStays
  <2> QED
    BY <1>2, <2>1 DEF LeftOK
<1> QED
  BY <1>1, <1>2, <1>3, <1>4, <1>5 DEF SamplesInv, EncodeOK, DecodeOK

\* A record is begun without words and with the difference 0.
LEMMA Begun0 ==
    ASSUME StartEncoding, N' > 0
    PROVE  EncodeOK'
<1>1. Len(<<>>) = 0 /\ Len(<<0>>) = 1 /\ <<0>>[1] = 0
  OBVIOUS
<1>2. words' = <<>> /\ diffs' = <<0>> /\ out' = 0
  BY DEF StartEncoding
<1>3. \A x \in 1..Len(diffs') : diffs'[x] = 0 /\ out' + x = 1
  BY <1>1, <1>2
<1>4. \A base : Delta(base, 1)' = 0
  BY DEF Delta
<1>5. \A x \in 1..Len(diffs') : diffs'[x] = Delta(total, out + x)'
  <2>1. ASSUME NEW x \in 1..Len(diffs')
        PROVE  diffs'[x] = Delta(total, out + x)'
    <3>1. (out + x)' = 1 /\ diffs'[x] = 0
      BY <1>3, <2>1
    <3> QED
      BY <3>1 DEF Delta
  <2> QED
    BY <2>1
<1>6. \E after : Spells(words, Len(words), total, after)' /\ after[Len(words')] = out'
  <2> DEFINE after == [y \in 0..0 |-> 0]
  <2>1. after \in [0..0 -> Nat] /\ after[0] = 0 /\ 1..0 = {}
    OBVIOUS
  <2> HIDE DEF after
  <2>2. Len(words') = 0
    BY <1>1, <1>2
  <2>3. Spells(words, Len(words), total, after)'
    BY <2>1, <2>2 DEF Spells
  <2> QED
    BY <1>2, <2>1, <2>2, <2>3
<1> QED
  BY <1>5, <1>6 DEF EncodeOK

LEMMA PackHeaderFailsBack == ASSUME SamplesInv, PackHeaderFails PROVE SamplesInv'
<1>1. Fails /\ UNCHANGED <<job, packvars, readvars>> /\ phase = "header" /\ Unencodable
  BY DEF PackHeaderFails, Unencodable
<1> QED
  BY <1>1, FailureBack

LEMMA NoRoomBack == ASSUME SamplesInv, NoRoom PROVE SamplesInv'
<1>1. Fails /\ UNCHANGED <<job, packvars, readvars>> /\ phase = "encode" /\ Unencodable
  BY DEF NoRoom, Unencodable
<1> QED
  BY <1>1, FailureBack

\* No packing takes a difference only if it is too wide for Steim-2.
LEMMA DifferenceTooWideBack == ASSUME SamplesInv, DifferenceTooWide PROVE SamplesInv'
<1>1. /\ Fails /\ UNCHANGED <<job, packvars, readvars>> /\ phase = "encode" /\ Encoding
      /\ Possible(Refilled, job.encoding) = {} /\ RecordTypeOK /\ PackingOK
  BY DEF DifferenceTooWide, Encoding, SamplesInv, RecordInv
<1>2. /\ Refilled \in Seq(Int) /\ Len(Refilled) = Len(diffs) + Taken(Len(diffs))
      /\ \A x \in 1..Len(diffs) : Refilled[x] = diffs[x]
      /\ \A x \in 1..Taken(Len(diffs)) :
            Refilled[Len(diffs) + x] = Sample(next + x + 1) - Sample(next + x)
  BY <1>1, RefilledIs
<1>3. /\ next \in Nat /\ out \in Nat /\ Rest \in Nat /\ Len(diffs) \in Nat /\ next < Rest
      /\ next + 1 = out + Len(diffs) /\ out < Rest /\ total \in Nat /\ N \in Nat
      /\ job.encoding \in {Steim1, Steim2} /\ JobOK /\ Rest = N - total
  BY <1>1, Sizes DEF RecordTypeOK, PackingOK, Encoding, IsSteim, Rest
<1> DEFINE d == Refilled[1]
           y == total + out + 1
\* The first difference not yet encoded.
<1>4. Len(Refilled) \in Nat \ {0} /\ d \in Int
      /\ \/ out = 0 /\ d = 0
         \/ y \in 2..N /\ d = job.samples[y] - job.samples[y - 1]
  <2>1. CASE Len(diffs) # 0
    <3>1. 1 \in 1..Len(diffs) /\ d = diffs[1] /\ Len(Refilled) \in Nat
      BY <1>2, <1>3, <2>1, LenProperties
    <3>2. diffs[1] = Delta(total, out + 1)
      BY <1>1, <3>1 DEF SamplesInv, EncodeOK, Encoding
    <3>3. Len(Refilled) # 0
      <4>1. Taken(Len(diffs)) \in Nat
        BY <1>1, TakenIs
      <4> QED
        BY <1>2, <1>3, <2>1, <4>1
    <3>4. d \in Int
      BY <1>2, <3>1, <3>3, ElementOfSeq
    <3>5. CASE out = 0
      BY <3>1, <3>2, <3>3, <3>4, <3>5 DEF Delta
    <3>6. CASE out # 0
      <4>1. y \in 2..N /\ out + 1 # 1 /\ total + (out + 1) = y /\ total + (out + 1) - 1 = y - 1
        BY <1>3, <3>6
      <4> HIDE DEF y
      <4> QED
        BY <3>1, <3>2, <3>3, <3>4, <4>1 DEF Delta
    <3> QED
      BY <3>5, <3>6
  <2>2. CASE Len(diffs) = 0
    <3> DEFINE t == Taken(Len(diffs))
    <3>1. t \in Nat
      BY <1>1, TakenIs
    <3>2. t # 0
      <4>1. Ahead(job.encoding) \in {4, 7}
        BY DEF Ahead
      <4> DEFINE a == Ahead(job.encoding) - Len(diffs)
                 b == Rest - 1 - next
      <4>2. a \in Nat \ {0} /\ b \in Nat \ {0} /\ ~(Len(diffs) >= Ahead(job.encoding))
        BY <1>3, <2>2, <4>1
      <4>3. t = Min({a, b})
        BY <4>2, Zenon DEF Taken
      <4> HIDE DEF a, b
      <4>4. \E z \in {a, b} : \A x \in {a, b} : z <= x
        BY <4>2
      <4>5. Min({a, b}) \in {a, b}
        BY <4>4, Zenon DEF Min
      <4> HIDE DEF t
      <4> QED
        BY <4>2, <4>3, <4>5
    <3>3. Refilled[Len(diffs) + 1] = Sample(next + 1 + 1) - Sample(next + 1)
      BY <1>2, <3>1, <3>2
    <3>4. d = Sample(out + 1) - Sample(out) /\ out # 0
      <4>1. Len(diffs) + 1 = 1 /\ next + 1 + 1 = out + 1 /\ next + 1 = out
        BY <1>3, <2>2
      <4> QED
        BY <1>3, <3>3, <4>1
    <3>5. y \in 2..N /\ total + (out + 1) = y /\ total + out = y - 1
      BY <1>3, <3>4
    <3>6. d = job.samples[y] - job.samples[y - 1]
      <4> HIDE DEF y
      <4> QED
        BY <3>4, <3>5 DEF Sample
    <3>7. Len(Refilled) \in Nat \ {0}
      BY <1>2, <1>3, <3>1, <3>2
    <3>8. d \in Int
      BY <1>2, <3>7, ElementOfSeq
    <3> QED
      BY <3>5, <3>6, <3>7, <3>8
  <2> QED
    BY <2>1, <2>2
<1> HIDE DEF d, y
<1>5. job.encoding = Steim2 /\ ~(BitWidth(d) <= 30)
  <2>1. CASE job.encoding = Steim1
    <3>1. Packing(1, 32, 3, 0) \in Packings(job.encoding)
      BY <2>1 DEF Packings
    <3>2. Packing(1, 32, 3, 0).n = 1 /\ Packing(1, 32, 3, 0).w = 32
      BY DEF Packing
    <3>3. Packing(1, 32, 3, 0) \in Possible(Refilled, job.encoding)
      BY <1>4, <3>1, <3>2 DEF Possible
    <3> QED
      BY <1>1, <3>3
  <2>2. CASE job.encoding = Steim2
    <3>1. Packing(1, 30, 2, 1) \in Packings(job.encoding)
      BY <2>2 DEF Packings, Steim1, Steim2
    <3>2. Packing(1, 30, 2, 1).n = 1 /\ Packing(1, 30, 2, 1).w = 30
      BY DEF Packing
    <3>3. ~(BitWidth(Refilled[1]) <= 30)
      <4>1. SUFFICES ASSUME BitWidth(Refilled[1]) <= 30 PROVE FALSE
        OBVIOUS
      <4>2. Packing(1, 30, 2, 1) \in Possible(Refilled, job.encoding)
        BY <1>4, <3>1, <3>2, <4>1 DEF Possible
      <4> QED
        BY <1>1, <4>2
    <3> QED
      BY <2>2, <3>3 DEF d
  <2> QED
    BY <1>3, <2>1, <2>2
<1>6. ~FitsIn(d, 30)
  <2>1. SUFFICES ASSUME FitsIn(d, 30) PROVE FALSE
    OBVIOUS
  <2> DEFINE W == {w \in Widths : FitsIn(d, w)} \union {32}
  <2>2. 30 \in W /\ W \subseteq Nat
    BY <2>1 DEF Widths
  <2> HIDE DEF W
  <2>3. PICK v \in W : \A u \in W : v <= u
    BY <2>2, LeastOne
  <2>4. BitWidth(d) = Min(W)
    BY DEF BitWidth, W
  <2>5. \A u \in W : Min(W) <= u
    BY <2>3, Zenon DEF Min
  <2> QED
    BY <1>5, <2>2, <2>4, <2>5
<1>7. d # 0
  BY <1>6, Power2 DEF FitsIn
<1>8. Unencodable
  BY <1>4, <1>5, <1>6, <1>7 DEF Unencodable
<1> QED
  BY <1>1, <1>8, FailureBack

LEMMA PackEmptyBack == ASSUME SamplesInv, PackEmpty PROVE SamplesInv'
<1>1. RecordInv'
  BY PackEmptyKeeps DEF SamplesInv
<1>2. N = 0 /\ phase = "header" /\ phase' = "read" /\ job' = job /\ back' = back
  BY DEF PackEmpty, readvars
<1>3. N' = 0
  BY <1>2, HeaderStays
<1>4. PICK h \in Header, left \in {0, 7} :
          file' = <<[hdr |-> [h EXCEPT !.numsamples = left], data |-> <<>>, first |-> 0, last |-> 0]>>
  BY DEF PackEmpty
<1>5. "numsamples" \in DOMAIN h
  BY HeaderIs DEF SamplesInv, RecordInv, RecordTypeOK
<1>6. FileOK'
  <2> DEFINE r == [hdr |-> [h EXCEPT !.numsamples = left], data |-> <<>>, first |-> 0, last |-> 0]
  <2>1. r.data = <<>> /\ r.hdr.numsamples \in Nat
    BY <1>5
  <2> HIDE DEF r
  <2>2. Len(file') = 1 /\ file'[1] = r
    BY <1>4 DEF r
  <2> QED
    BY <1>3, <2>1, <2>2 DEF FileOK
<1>7. AllBack'
  BY <1>2, NoneBack DEF SamplesInv
<1> QED
  BY <1>1, <1>2, <1>3, <1>6, <1>7 DEF SamplesInv, EncodeOK, LeftOK, DecodeOK

LEMMA PackHeaderBack == ASSUME SamplesInv, PackHeader PROVE SamplesInv'
<1>1. RecordInv'
  BY PackHeaderKeeps DEF SamplesInv
<1>2. N > 0 /\ StartEncoding /\ phase = "header" /\ phase' = "encode" /\ UNCHANGED <<job, total, file, back>>
  BY DEF PackHeader, readvars
<1>3. EncodeOK'
  BY <1>2, HeaderStays, Begun0
<1>4. FileOK' /\ AllBack'
  BY <1>2, FileStays, NoneBack DEF SamplesInv
<1> QED
  BY <1>1, <1>2, <1>3, <1>4 DEF SamplesInv, LeftOK, DecodeOK

\* The differences ahead are those of the samples that follow.
LEMMA RefilledDeltas ==
    ASSUME SamplesInv, Encoding
    PROVE  \A x \in 1..Len(Refilled) : Refilled[x] = Delta(total, out + x) /\ Refilled[x] \in Int
<1>1. RecordTypeOK /\ PackingOK /\ phase = "encode" /\ IsSteim(job.encoding)
  BY DEF SamplesInv, RecordInv, Encoding
<1>2. /\ Refilled \in Seq(Int) /\ Len(Refilled) = Len(diffs) + Taken(Len(diffs))
      /\ \A x \in 1..Len(diffs) : Refilled[x] = diffs[x]
      /\ \A x \in 1..Taken(Len(diffs)) :
            Refilled[Len(diffs) + x] = Sample(next + x + 1) - Sample(next + x)
  BY <1>1, RefilledIs
<1>3. Taken(Len(diffs)) \in Nat
  BY <1>1, TakenIs
<1>4. /\ next \in Nat /\ out \in Nat /\ Len(diffs) \in Nat /\ next + 1 = out + Len(diffs) /\ total \in Nat
  BY <1>1, Sizes DEF RecordTypeOK, PackingOK
<1>5. ASSUME NEW x \in 1..Len(Refilled)
      PROVE  Refilled[x] = Delta(total, out + x)
  <2>1. CASE x <= Len(diffs)
    <3>1. x \in 1..Len(diffs)
      BY <1>4, <2>1
    <3>2. diffs[x] = Delta(total, out + x)
      BY <1>1, <3>1 DEF SamplesInv, EncodeOK
    <3> QED
      BY <1>2, <3>1, <3>2
  <2>2. CASE ~(x <= Len(diffs))
    <3> DEFINE z == x - Len(diffs)
    <3>1. z \in 1..Taken(Len(diffs)) /\ Len(diffs) + z = x /\ z \in Nat
      BY <1>2, <1>3, <1>4, <2>2
    <3>2. out + x = next + z + 1 /\ out + x # 1
      BY <1>4, <3>1
    <3> HIDE DEF z
    <3>3. Refilled[x] = Sample(next + z + 1) - Sample(next + z)
      BY <1>2, <3>1
    <3>4. total + (out + x) = total + (next + z + 1) /\ total + (out + x) - 1 = total + (next + z)
      BY <1>4, <3>1, <3>2
    <3> QED
      BY <3>2, <3>3, <3>4 DEF Delta, Sample
  <2> QED
    BY <2>1, <2>2
<1> QED
  BY <1>2, <1>5, ElementOfSeq

LEMMA EncodeWordBack == ASSUME SamplesInv, EncodeWord PROVE SamplesInv'
<1> DEFINE p == Fullest(Possible(Refilled, job.encoding))
           q == Refilled
<1>1. /\ RecordTypeOK /\ PackingOK /\ Encoding /\ phase = "encode" /\ IsSteim(job.encoding)
      /\ Possible(q, job.encoding) # {} /\ UNCHANGED <<job, phase, total, file, back>>
  BY DEF SamplesInv, RecordInv, EncodeWord, Encoding, readvars
<1>2. /\ p \in Packings(job.encoding) /\ p.n \in 1..7 /\ p.n <= Len(q)
      /\ \A x \in 1..p.n : p.w = 32 \/ BitWidth(q[x]) <= p.w
  BY <1>1, ChosenIs
<1>3. PackWord(q, p)
  BY DEF EncodeWord
<1>4. \A x \in 1..Len(q) : q[x] = Delta(total, out + x) /\ q[x] \in Int
  BY <1>1, RefilledDeltas
<1>5. q \in Seq(Int) /\ Len(q) \in Nat
  BY <1>1, RefilledIs, LenProperties
<1> HIDE DEF p, q
<1>6. /\ words' = Append(words, Word(q, p)) /\ out' = out + p.n
      /\ diffs' = SubSeq(q, p.n + 1, Len(q))
  BY <1>3, Zenon DEF PackWord
<1>7. out \in Nat /\ IsSequence(words)
  BY <1>1 DEF RecordTypeOK
<1>8. PICK k, base, n : k = Len(words) /\ base = total /\ n = out + p.n
  OBVIOUS
<1>9. k \in Nat /\ n \in Nat
  BY <1>2, <1>7, <1>8, SequenceIs
<1>10. WordHolds(Word(q, p), base, out, n)
  <2>1. \A x \in 1..p.n : x \in 1..Len(q)
    BY <1>2, <1>5
  <2>2. \A x \in 1..p.n : /\ q[x] \in Int /\ (p.w = 32 \/ BitWidth(q[x]) <= p.w)
                         /\ q[x] = Delta(base, out + x)
    BY <1>2, <1>4, <1>8, <2>1
  <2> QED
    BY <1>1, <1>2, <1>7, <1>8, <2>2, WordEncodes
<1>11. PICK after : Spells(words, k, base, after) /\ after[k] = out
  BY <1>1, <1>8 DEF SamplesInv, EncodeOK
<1>12. PICK u : u = words'
  OBVIOUS
<1>13. /\ Len(u) = k + 1 /\ \A y \in 1..k : u[y] = words[y]
       /\ u[k + 1] = Word(q, p)
  <2> DEFINE e == Word(q, p)
             v == Append(words, e)
  <2> HIDE DEF e
  <2>1. /\ Len(v) = k + 1 /\ \A y \in 1..k : v[y] = words[y]
        /\ v[k + 1] = e
    BY <1>7, <1>8, AppendIs
  <2>2. u = v
    BY <1>6, <1>12 DEF e
  <2> HIDE DEF v
  <2> QED
    BY <2>1, <2>2 DEF e
<1>14. PICK later : Spells(u, k + 1, base, later) /\ later[k + 1] = n
  <2>1. WordHolds(u[k + 1], base, after[k], n)
    BY <1>10, <1>11, <1>13
  <2>2. \A y \in 1..k : u[y] = words[y]
    BY <1>13
  <2>3. \E later : Spells(u, k + 1, base, later) /\ later[k + 1] = n
    BY <1>9, <1>11, <2>1, <2>2, SpellsMore, SMTT(60)
  <2> QED
    BY <2>3
<1>15. \A x \in 1..Len(diffs') : diffs'[x] = Delta(total, out + x)'
  <2> DEFINE m == p.n
  <2>1. m \in Nat /\ m <= Len(q) /\ n = out + m
    BY <1>2, <1>8
  <2> HIDE DEF m
  <2>2. m + 1 \in 1..Len(q) + 1 /\ Len(q) \in (m + 1) - 1..Len(q)
    BY <1>5, <2>1
  <2> DEFINE v == SubSeq(q, m + 1, Len(q))
  <2>3. /\ Len(v) = Len(q) - (m + 1) + 1
        /\ \A x \in 1..Len(q) - (m + 1) + 1 : v[x] = q[(m + 1) + x - 1]
    BY <1>5, <2>2, SubSeqProperties, SMTT(60)
  <2>4. diffs' = v
    BY <1>6 DEF m
  <2> HIDE DEF v
  <2>5. ASSUME NEW x \in 1..Len(diffs')
        PROVE  diffs'[x] = Delta(total, out + x)'
    <3>1. (m + 1) + x - 1 = m + x /\ m + x \in 1..Len(q) /\ x \in 1..Len(q) - (m + 1) + 1
      BY <1>5, <2>1, <2>3, <2>4
    <3>2. diffs'[x] = q[m + x]
      BY <2>3, <2>4, <3>1
    <3>3. q[m + x] = Delta(base, out + (m + x))
      BY <1>4, <1>8, <3>1
    <3>4. out + (m + x) = n + x
      BY <1>7, <2>1, <3>1
    <3>5. Delta(base, n + x)' = Delta(base, n + x)
      BY <1>1, DeltaStays
    <3>6. total' = base /\ out' = n
      BY <1>1, <1>6, <1>8
    <3> QED
      BY <3>2, <3>3, <3>4, <3>5, <3>6
  <2> QED
    BY <2>5
<1>16. \E z : Spells(words, Len(words), total, z)' /\ z[Len(words')] = out'
  <2>1. Spells(u, k + 1, base, later)'
    BY <1>1, <1>14, SpellsStays
  <2>2. u = words' /\ k + 1 = Len(words') /\ base = total' /\ n = out'
    BY <1>1, <1>6, <1>8, <1>12, <1>13
  <2>3. PICK j : j = k + 1
    OBVIOUS
  <2>4. Spells(u, j, base, later)'
    BY <2>1, <2>3
  <2>5. Spells(words, Len(words), total, later)'
    BY <2>2, <2>3, <2>4
  <2> QED
    BY <1>14, <2>2, <2>5
<1>17. EncodeOK'
  <2>1. N' > 0
    BY <1>1, HeaderStays DEF SamplesInv, EncodeOK
  <2> QED
    BY <1>15, <1>16, <2>1 DEF EncodeOK
<1>18. RecordInv'
  BY EncodeWordKeeps DEF SamplesInv
<1>19. FileOK' /\ AllBack'
  BY <1>1, FileStays, NoneBack DEF SamplesInv
<1> QED
  BY <1>1, <1>17, <1>18, <1>19 DEF SamplesInv, LeftOK, DecodeOK

\* A record that holds its samples is handed on.
LEMMA HandedOn ==
    ASSUME SamplesInv, phase = "encode", NEW r, file' = Append(file, r), RecordHolds(r, total),
           total' = total + r.hdr.numsamples, StartEncoding, UNCHANGED <<job, back>>, RecordInv',
           phase' \in {"read", "encode"}, phase' = "read" => total' >= N
    PROVE  SamplesInv'
<1>1. N > 0 /\ N' = N /\ N \in Nat
  BY HeaderStays, Sizes DEF SamplesInv, EncodeOK, RecordInv
<1>2. IsSequence(file) /\ \A x \in 1..Len(file) : file[x].hdr.numsamples \in Nat
  BY FileIs
<1>3. PICK l : l = Len(file)
  OBVIOUS
<1>4. l \in Nat /\ r.hdr.numsamples \in Nat
  BY <1>3, FileIs DEF RecordHolds
<1>5. /\ \A x \in 1..l + 1 : Before(x)' = Before(x)
      /\ Before(l + 2)' = Before(l + 1) + r.hdr.numsamples
  BY <1>2, <1>3, <1>4, BeforeMore
<1>6. /\ Len(file') = l + 1 /\ \A x \in 1..l : file'[x] = file[x]
      /\ file'[l + 1] = r
  BY <1>2, <1>3, AppendIs
<1>7. Before(l + 1) = total /\ \A x \in 1..l : RecordHolds(file[x], Before(x))
  BY <1>1, <1>3 DEF SamplesInv, FileOK
<1>8. \A z, base : RecordHolds(z, base)' <=> RecordHolds(z, base)
  BY RecordStays
<1>9. FileOK'
  <2>1. ASSUME NEW x \in 1..l + 1
        PROVE  RecordHolds(file[x], Before(x))'
    <3>1. PICK z, base : z = file'[x] /\ base = Before(x)'
      OBVIOUS
    <3>2. RecordHolds(z, base)
      <4>1. CASE x = l + 1
        <5>1. z = r /\ base = total
          BY <1>4, <1>5, <1>6, <1>7, <3>1, <4>1
        <5> QED
          BY <5>1
      <4>2. CASE x # l + 1
        <5>1. x \in 1..l /\ x \in 1..l + 1
          BY <1>4, <4>2
        <5>2. z = file[x] /\ base = Before(x)
          BY <1>5, <1>6, <3>1, <5>1
        <5> QED
          BY <1>7, <5>1, <5>2
      <4> QED
        BY <4>1, <4>2
    <3>3. RecordHolds(z, base)'
      BY <1>8, <3>2
    <3> QED
      BY <3>1, <3>3
  <2>2. Before(Len(file) + 1)' = total'
    <3>1. PICK m : m = l + 2
      OBVIOUS
    <3>2. Before(m)' = total'
      BY <1>5, <1>7, <3>1
    <3>3. m = Len(file') + 1
      BY <1>4, <1>6, <3>1
    <3> QED
      BY <3>2, <3>3
  <2> QED
    BY <1>1, <1>6, <2>1, <2>2 DEF FileOK
<1>10. EncodeOK'
  BY <1>1, Begun0
<1>11. LeftOK'
  <2>1. total' \in 0..N
    BY <1>1 DEF RecordInv, RecordTypeOK
  <2>2. phase' = "read" => total' = N'
    BY <1>1, <2>1
  <2> QED
    BY <2>2 DEF LeftOK
<1>12. AllBack'
  BY NoneBack DEF SamplesInv
<1> QED
  BY <1>9, <1>10, <1>11, <1>12 DEF SamplesInv, DecodeOK

\* The record that HandOn makes.
Handed(n, data) == [hdr |-> [hdr EXCEPT !.numsamples = n], data |-> data,
                    first |-> Sample(1), last |-> Sample(n)]

LEMMA HandedIs ==
    ASSUME SamplesInv, phase = "encode", NEW n \in 1..Rest, NEW data
    PROVE  LET r == Handed(n, data)
           IN  /\ MadeHeader(r.hdr) /\ r.hdr.numsamples = n /\ r.data = data
               /\ r.first = job.samples[total + 1] /\ n \in Nat \ {0} /\ total + n <= N
               /\ MaxFrames(r.hdr) = MaxFrames(hdr) /\ DataOffset(r.hdr) = DataOffset(hdr)
<1> DEFINE r == Handed(n, data)
           g == [hdr EXCEPT !.numsamples = n]
<1>1. RecordTypeOK /\ PackingOK /\ JobOK
  BY DEF SamplesInv, RecordInv, RecordTypeOK
<1>2. PICK h \in Header : AlikeBut(hdr, h)
  BY <1>1 DEF PackingOK, MadeHeader
<1>3. "numsamples" \in DOMAIN hdr
  BY <1>1, <1>2, MadeIs
<1>4. AlikeBut(g, h) /\ g.numsamples = n
  BY <1>2, <1>3 DEF AlikeBut
<1> HIDE DEF g
<1>5. r.hdr = g /\ r.data = data /\ r.first = Sample(1)
  BY DEF Handed, g
<1> HIDE DEF r
<1>6. MadeHeader(g)
  BY <1>2, <1>4 DEF MadeHeader
<1>7. MaxFrames(g) = MaxFrames(h) /\ DataOffset(g) = DataOffset(h)
  BY <1>1, <1>2, <1>4, MadeIs
<1>8. MaxFrames(hdr) = MaxFrames(h) /\ DataOffset(hdr) = DataOffset(h)
  BY <1>1, <1>2, MadeIs
<1>9. n \in Nat \ {0} /\ total + n <= N
  BY <1>1, Sizes DEF Rest
<1> QED
  BY <1>4, <1>5, <1>6, <1>7, <1>8, <1>9 DEF r, Sample

LEMMA HandOnBack ==
    ASSUME SamplesInv, phase = "encode", NEW n \in 1..Rest, NEW data, HandOn(n, data),
           UNCHANGED <<job, readvars>>, RecordInv',
           IF IsSteim(job.encoding) THEN SteimHolds(Handed(n, data), total)
           ELSE FixedHolds(Handed(n, data), total)
    PROVE  SamplesInv'
<1> DEFINE r == Handed(n, data)
<1>1. file' = Append(file, r) /\ total' = total + n /\ StartEncoding
  BY Zenon DEF HandOn, Handed
<1>2. /\ MadeHeader(r.hdr) /\ r.hdr.numsamples = n /\ n \in Nat \ {0} /\ total + n <= N
  BY HandedIs
<1> HIDE DEF r
<1>3. RecordHolds(r, total)
  BY <1>2 DEF RecordHolds, r
<1>4. phase' \in {"read", "encode"} /\ (phase' = "read" => total' >= N)
  BY <1>1 DEF HandOn, AllPacked
<1>5. UNCHANGED <<job, back>>
  BY DEF readvars
<1> QED
  BY <1>1, <1>2, <1>3, <1>4, <1>5, HandedOn

LEMMA PackSteimBack == ASSUME SamplesInv, PackSteim PROVE SamplesInv'
<1> DEFINE data == IF job.version = 2 THEN Overlaid ELSE Zeroed
<1>1. /\ phase = "encode" /\ IsSteim(job.encoding) /\ out > 0
      /\ UNCHANGED <<job, readvars>> /\ HandOn(out, data)
  BY DEF PackSteim
<1>2. RecordInv /\ RecordTypeOK /\ JobOK /\ N > 0
  BY <1>1 DEF SamplesInv, RecordInv, RecordTypeOK, EncodeOK
<1>3. /\ out \in 1..Rest /\ Len(Zeroed) <= Len(area) /\ MaxFrames(hdr) \in Nat \ {0}
      /\ Len(area) = Room(MaxFrames(hdr)) /\ Len(words) \in Nat
      /\ Len(words) <= Room(MaxFrames(hdr)) /\ Len(words) <= Len(Zeroed)
  BY <1>1, <1>2, SteimPacked
<1>4. Len(data) \in Nat /\ Len(words) <= Len(data) /\ \A y \in 1..Len(words) : data[y] = words[y]
  <2>1. /\ IsSequence(Zeroed) /\ \A x \in 1..Len(words) : Zeroed[x] = words[x]
    BY <1>2, ZeroedIs
  <2>2. Len(Zeroed) \in Nat
    BY <2>1, SequenceIs
  <2>3. /\ IsSequence(Overlaid) /\ Len(Overlaid) = Len(area)
        /\ \A x \in 1..Len(Zeroed) : Overlaid[x] = Zeroed[x]
    BY <1>2, <1>3, OverlaidIs
  <2>4. Len(Overlaid) \in Nat
    BY <2>3, SequenceIs
  <2>5. ASSUME NEW y \in 1..Len(words)
        PROVE  Zeroed[y] = words[y] /\ Overlaid[y] = words[y]
    <3>1. y \in 1..Len(Zeroed)
      BY <1>3, <2>2
    <3> QED
      BY <2>1, <2>3, <3>1
  <2>6. /\ Len(Zeroed) \in Nat /\ Len(words) <= Len(Zeroed)
        /\ Len(Overlaid) \in Nat /\ Len(words) <= Len(Overlaid)
    BY <1>3, <2>2, <2>3, <2>4
  <2> HIDE DEF Zeroed, Overlaid
  <2> QED
    BY <2>5, <2>6
<1> HIDE DEF data
<1>5. PICK k, base : k = Len(words) /\ base = total
  OBVIOUS
<1>6. PICK after : Spells(words, k, base, after) /\ after[k] = out
  BY <1>1, <1>5 DEF SamplesInv, EncodeOK
<1>7. k \in Nat \ {0}
  <2>1. after[0] = 0
    BY <1>6 DEF Spells
  <2> QED
    BY <1>1, <1>3, <1>5, <1>6, <2>1
<1> DEFINE r == Handed(out, data)
<1>8. /\ MadeHeader(r.hdr) /\ r.hdr.numsamples = out /\ r.data = data
      /\ r.first = job.samples[total + 1] /\ MaxFrames(r.hdr) = MaxFrames(hdr)
  BY <1>1, <1>3, HandedIs
<1> HIDE DEF r
<1>9. Spells(r.data, k, base, after)
  <2>1. \A y \in 1..k : r.data[y] = words[y]
    BY <1>4, <1>5, <1>8
  <2> QED
    BY <1>6, <2>1, SpellsAgree
<1>10. k <= DataWords(r) /\ DataWords(r) \in Nat
  <2>1. \A y \in 1..k : r.data[y].nibble # 0
    BY <1>9 DEF Spells, WordHolds
  <2>2. Len(r.data) \in Nat /\ k <= Len(r.data)
    BY <1>4, <1>5, <1>8
  <2>3. MaxFrames(r.hdr) > 0 /\ k <= Room(MaxFrames(r.hdr))
    BY <1>3, <1>5, <1>8
  <2> QED
    BY <1>1, <1>2, <1>7, <1>8, <2>1, <2>2, <2>3, DataWordsReach
<1>11. SteimHolds(r, total)
  BY <1>5, <1>6, <1>7, <1>8, <1>9, <1>10 DEF SteimHolds
<1>12. RecordInv'
  BY <1>2, PackSteimKeeps
<1> QED
  BY <1>1, <1>3, <1>11, <1>12, HandOnBack DEF r

\* A sample that fits is cast to itself.
LEMMA CastIs ==
    ASSUME JobOK, NEW x \in 1..N
    PROVE  Cast(job.samples[x], job.encoding) = job.samples[x]
<1> DEFINE s == job.samples[x]
<1>1. s \in Int /\ (job.encoding = "int16" => FitsIn(s, 16))
  <2>1. DOMAIN job.samples = 1..N
    BY LenProperties DEF JobOK, N
  <2> QED
    BY <2>1, SampleAt DEF JobOK
<1> HIDE DEF s
<1>2. Cast(s, job.encoding) = s
  <2>1. CASE job.encoding = "int16"
    <3>1. SignExtended(Field(s, 16), 16) = s
      BY <1>1, <2>1, Power2 DEF SignExtended, Field, FitsIn
    <3> QED
      BY <2>1, <3>1 DEF Cast
  <2>2. CASE job.encoding # "int16"
    BY <2>2 DEF Cast
  <2> QED
    BY <2>1, <2>2
<1> QED
  BY <1>2 DEF s

LEMMA PackFixedBack == ASSUME SamplesInv, PackFixed PROVE SamplesInv'
<1> DEFINE m == MaxDataBytes(hdr) \div SampleBytes(job.encoding)
           n == Min({Rest, m})
           data == [x \in 1..n |-> Cast(Sample(x), job.encoding)]
<1>1. /\ phase = "encode" /\ ~IsSteim(job.encoding) /\ ~NoRoomFor(hdr)
      /\ UNCHANGED <<job, readvars>> /\ HandOn(n, data)
  BY DEF PackFixed
<1>2. RecordInv /\ RecordTypeOK /\ JobOK
  BY DEF SamplesInv, RecordInv, RecordTypeOK
<1>3. n \in 1..Rest
  BY <1>1, <1>2, FixedPacked
<1> HIDE DEF n
<1> DEFINE r == Handed(n, data)
<1>4. /\ MadeHeader(r.hdr) /\ r.hdr.numsamples = n /\ r.data = data
      /\ n \in Nat \ {0} /\ total + n <= N
  BY <1>1, <1>3, HandedIs
<1> HIDE DEF r
<1>5. ASSUME NEW x \in 1..n
      PROVE  data[x] = job.samples[total + x]
  <2>1. total + x \in 1..N
    BY <1>2, <1>4, Sizes
  <2>2. data[x] = Cast(job.samples[total + x], job.encoding)
    BY DEF Sample
  <2> QED
    BY <1>2, <2>1, <2>2, CastIs
<1>6. FixedHolds(r, total)
  <2>1. data = [x \in 1..n |-> job.samples[total + x]]
    BY <1>5
  <2> HIDE DEF data
  <2> QED
    BY <1>4, <2>1 DEF FixedHolds
<1>7. RecordInv'
  BY <1>2, PackFixedKeeps
<1> HIDE DEF data
<1> QED
  BY <1>1, <1>3, <1>6, <1>7, HandOnBack DEF r

LEMMA InitBack ==
    ASSUME JobOK, RecordInit(job)
    PROVE  SamplesInv
<1>1. RecordInv
  BY InitInv
<1>2. phase = "header" /\ file = <<>> /\ back = <<>> /\ total = 0 /\ Len(<<>>) = 0
  BY DEF RecordInit
<1>3. FileOK
  <2>1. Len(file) = 0 /\ Len(file) + 1 = 1
    BY <1>2
  <2> QED
    BY <1>2, <2>1, BeforeFirst DEF FileOK
<1> QED
  BY <1>1, <1>2, <1>3 DEF SamplesInv, EncodeOK, LeftOK, DecodeOK, AllBack

LEMMA StutterBack ==
    ASSUME SamplesInv, UNCHANGED recordvars
    PROVE  SamplesInv'
<1>1. RecordInv'
  BY StutterInv DEF SamplesInv
<1>2. /\ UNCHANGED <<job, result, packvars>> /\ phase' = phase
      /\ UNCHANGED <<job, total, file, back, hdr, words, diffs, out, cur, msr, at, got>>
  BY DEF recordvars, packvars, readvars
<1>3. FileOK' /\ AllBack'
  BY <1>2, FileStays, BackStays DEF SamplesInv
<1>4. LeftOK'
  BY <1>2, LeftStays DEF SamplesInv, LeftOK
<1>5. EncodeOK'
  <2> PICK w, k, base, n, d : w = words /\ k = Len(words) /\ base = total /\ n = out /\ d = diffs
    OBVIOUS
  <2>1. SUFFICES ASSUME phase = "encode" PROVE EncodeOK'
    BY <1>2 DEF EncodeOK
  <2>2. N' = N /\ N > 0
    BY <1>2, <2>1, HeaderStays DEF SamplesInv, EncodeOK
  <2>3. SUFFICES ASSUME IsSteim(job.encoding) PROVE EncodeOK'
    BY <1>2, <2>2 DEF EncodeOK
  <2>4. PICK after : Spells(w, k, base, after) /\ after[k] = n
    BY <2>1, <2>3 DEF SamplesInv, EncodeOK
  <2>5. Spells(w, k, base, after)'
    BY <1>2, <2>4, SpellsStays
  <2>6. Spells(words, Len(words), total, after)' /\ after[Len(words')] = out'
    BY <1>2, <2>4, <2>5
  <2>7. \A x \in 1..Len(d) : d[x] = Delta(base, n + x)
    BY <2>1, <2>3 DEF SamplesInv, EncodeOK
  <2>8. \A x : Delta(base, n + x)' = Delta(base, n + x)
    BY <1>2, DeltaStays
  <2>9. \A x \in 1..Len(diffs') : diffs'[x] = Delta(total, out + x)'
    BY <1>2, <2>7, <2>8
  <2> QED
    BY <2>2, <2>6, <2>9 DEF EncodeOK
<1>6. DecodeOK'
  <2>1. SUFFICES ASSUME phase = "decode" PROVE DecodeOK'
    BY <1>2 DEF DecodeOK
  <2> PICK c, r, base : c = cur /\ r = file[cur] /\ base = Before(cur)
    OBVIOUS
  <2>2. N > 0 /\ N' = N /\ ~Refused(r) /\ (Refused(r)' <=> Refused(r)) /\ "samples" \in DOMAIN msr'
    BY <1>2, <2>1, HeaderStays, RefusedStays DEF SamplesInv, DecodeOK
  <2>3. Before(c)' = Before(c)
    BY <1>2, BeforeStays
  <2>4. cur' = c /\ file'[cur'] = r /\ Before(cur)' = base
    BY <1>2, <2>3
  <2>5. ASSUME IsSteim(job.encoding)
        PROVE  GotOK(r, base)'
    <3>1. GotOK(r, base)
      BY <2>1, <2>5 DEF SamplesInv, DecodeOK
    <3>2. /\ \A k, after : Spells(r.data, k, base, after)' <=> Spells(r.data, k, base, after)
          /\ DataWords(r)' = DataWords(r) /\ \A m : Slice(base, m)' = Slice(base, m)
      BY <1>2, SpellsStays, DataWordsStays, SliceStays
    <3> QED
      BY <1>2, <3>1, <3>2 DEF GotOK
  <2> QED
    BY <1>2, <2>2, <2>4, <2>5 DEF DecodeOK
<1> QED
  BY <1>1, <1>3, <1>4, <1>5, <1>6 DEF SamplesInv

\* Every step keeps what makes the samples come back.
LEMMA NextBack == ASSUME SamplesInv, [RecordNext]_recordvars PROVE SamplesInv'
<1>1. CASE PackHeaderFails
  BY <1>1, PackHeaderFailsBack
<1>2. CASE DifferenceTooWide
  BY <1>2, DifferenceTooWideBack
<1>3. CASE NoRoom
  BY <1>3, NoRoomBack
<1>4. CASE PackHeader
  BY <1>4, PackHeaderBack
<1>5. CASE PackEmpty
  BY <1>5, PackEmptyBack
<1>6. CASE EncodeWord
  BY <1>6, EncodeWordBack
<1>7. CASE PackSteim
  BY <1>7, PackSteimBack
<1>8. CASE PackFixed
  BY <1>8, PackFixedBack
<1>9. CASE ReadFails
  BY <1>9, ReadFailsBack
<1>10. CASE ReadHeader
  BY <1>10, ReadHeaderBack
<1>11. CASE DecodeWord
  BY <1>11, DecodeWordBack
<1>12. CASE DecodeFixed
  BY <1>12, DecodeFixedBack
<1>13. CASE DecodeEnds
  BY <1>13, DecodeEndsBack
<1>14. CASE Finish
  BY <1>14, FinishBack
<1>15. CASE UNCHANGED recordvars
  BY <1>15, StutterBack
<1> QED
  BY <1>1, <1>2, <1>3, <1>4, <1>5, <1>6, <1>7, <1>8, <1>9, <1>10, <1>11, <1>12, <1>13, <1>14,
     <1>15 DEF RecordNext

LEMMA SamplesInvHolds == JobOK /\ RecordSpec => []SamplesInv
<1>1. JobOK /\ RecordInit(job) => SamplesInv
  BY InitBack
<1>2. SamplesInv /\ [RecordNext]_recordvars => SamplesInv'
  BY NextBack
<1> QED
  BY <1>1, <1>2, PTL DEF RecordSpec

\* SamplesBack: every record that is not refused for its times gives back the
\* samples of its place, and all samples are packed unless the header does not
\* fit, a record has no room, or a difference is too wide: for every segment,
\* encoding, version and length of record.
THEOREM SamplesHold == JobOK /\ RecordSpec => []SamplesBack
  BY SamplesInvHolds, InvSamples, PTL

-----------------------------------------------------------------------------
(* The times of a header are read *)

\* A blockette whose time is read, unless it cannot be packed.
Timely(b) == b.time = BadTime \/ BTime2NsTime(b.time) # NSTERROR

LEMMA TimelyIs ==
    ASSUME NEW o, NEW key, ~Lost(o, key), TimeStr2NsTime(o[key]) \in Int
    PROVE  Time(o, key) = BadTime \/ BTime2NsTime(Time(o, key)) # NSTERROR
<1> DEFINE t == TimeStr2NsTime(o[key])
<1>1. /\ key \in DOMAIN o /\ Floored(t) # NSTERROR /\ ValidYear(NsTime2Time(t).year)
  BY Zenon DEF Lost, Floored
<1>2. Time(o, key) = TimeField(t)
  BY <1>1, Zenon DEF Time
<1> HIDE DEF t
<1>3. CASE t = NSTERROR
  BY <1>2, <1>3 DEF TimeField
<1>4. CASE t # NSTERROR
  <2>1. TimeField(t) = InTenths(NsTime2Time(t))
    BY <1>4, Zenon DEF TimeField, BTime, InTenths
  <2>2. BTime2NsTime(InTenths(NsTime2Time(t))) = Floored(t)
    BY <1>1, TenthsComeBack DEF t
  <2> QED
    BY <1>1, <1>2, <2>1, <2>2
<1> QED
  BY <1>3, <1>4

\* The times of an extra header of a list.
TimesRead(o) == \A key \in Times \intersect DOMAIN o : TimeStr2NsTime(o[key]) \in Int
NoneLost(list, o) ==
    /\ list = Exceptions => ~Lost(o, "Time")
    /\ list = Detections => ~Lost(o, "OnsetTime")
    /\ list = Calibrations /\ "Type" \in DOMAIN o => ~Lost(o, "BeginTime")
    /\ list = Calibrations /\ "EndTime" \in DOMAIN o => ~Lost(o, "EndTime")

LEMMA ReadIs ==
    ASSUME NEW o, NEW key \in Times, TimesRead(o), ~Lost(o, key)
    PROVE  Time(o, key) = BadTime \/ BTime2NsTime(Time(o, key)) # NSTERROR
<1>1. key \in DOMAIN o
  BY Zenon DEF Lost
<1>2. TimeStr2NsTime(o[key]) \in Int
  BY <1>1 DEF TimesRead
<1> QED
  BY <1>2, TimelyIs

LEMMA BeginningIs ==
    ASSUME NEW c, NEW b, "time" \notin DOMAIN b
    PROVE  \E d : Begun(c, b) = <<d>> /\ d.time = Time(c, "BeginTime")
<1> DEFINE d == With(With(b, Calibration(c)), [time |-> Time(c, "BeginTime")])
<1>1. "time" \notin DOMAIN Calibration(c)
  BY DEF Calibration
<1>2. "time" \notin DOMAIN With(b, Calibration(c))
  BY <1>1 DEF With
<1> DEFINE w == With(b, Calibration(c))  r == [time |-> Time(c, "BeginTime")]
<1>3. "time" \in DOMAIN r /\ r.time = Time(c, "BeginTime")
  OBVIOUS
<1> HIDE DEF w, r
<1>4. With(w, r)["time"] = r["time"]
  BY <1>2, <1>3, OtherWith DEF w
<1>5. d.time = Time(c, "BeginTime")
  BY <1>3, <1>4 DEF w, r
<1>6. Begun(c, b) = <<d>>
  BY DEF Begun
<1> HIDE DEF d
<1> QED
  BY <1>5, <1>6

LEMMA CalibrationTimely ==
    ASSUME NEW c, TimesRead(c), NoneLost(Calibrations, c)
    PROVE  CalibrationOf(c) = <<>> \/ \E d : CalibrationOf(c) = <<d>> /\ Timely(d)
<1>1. /\ "time" \notin DOMAIN B300(c) /\ "time" \notin DOMAIN B310(c)
      /\ "time" \notin DOMAIN B320(c) /\ "time" \notin DOMAIN B390
  <2>1. "time" \notin DOMAIN Filtered(c)
    BY DEF Filtered
  <2> DEFINE r == [type |-> 300, length |-> 60, steps |-> At0(c, "Steps"),
                   sign |-> Bit(0, On(c, "StepFirstPulsePositive"))
                                \union Bit(1, On(c, "StepAlternateSign")),
                   between |-> Cut(At0(c, "StepBetween"))]
             s == [type |-> 320, length |-> 64, range |-> Bit(4, Says(c, "AmplitudeRange", "RANDOM")),
                   noise |-> Text(c, "Noise", 8)]
  <2>2. "time" \notin DOMAIN r /\ "time" \notin DOMAIN s
    OBVIOUS
  <2>3. B300(c) = With(r, Filtered(c)) /\ B320(c) = With(s, Filtered(c))
    BY DEF B300, B320
  <2> HIDE DEF r, s
  <2>4. "time" \notin DOMAIN With(r, Filtered(c)) /\ "time" \notin DOMAIN With(s, Filtered(c))
    BY <2>1, <2>2 DEF With
  <2>5. "time" \notin DOMAIN B310(c) /\ "time" \notin DOMAIN B390
    BY DEF B310, B390
  <2> QED
    BY <2>3, <2>4, <2>5
<1>2. \A b \in {B300(c), B310(c), B320(c), B390} :
          \E d : Begun(c, b) = <<d>> /\ d.time = Time(c, "BeginTime")
  BY <1>1, BeginningIs
<1>3. CASE CalibrationOf(c) = Untyped
  <2> DEFINE d == [type |-> 0, length |-> 0, time |-> BadTime]
  <2>1. Untyped = <<d>> /\ Timely(d)
    BY DEF Untyped, Timely
  <2> QED
    BY <1>3, <2>1, Zenon
<1>4. CASE "Type" \in DOMAIN c
  <2>1. Time(c, "BeginTime") = BadTime \/ BTime2NsTime(Time(c, "BeginTime")) # NSTERROR
    BY <1>4, ReadIs DEF NoneLost, Times
  <2>2. CalibrationOf(c) \in {Begun(c, B300(c)), Begun(c, B310(c)), Begun(c, B320(c)), Begun(c, B390),
                              <<>>, Untyped}
    BY Zenon DEF CalibrationOf
  <2>3. \A b \in {B300(c), B310(c), B320(c), B390} : \E d : Begun(c, b) = <<d>> /\ Timely(d)
    <3> SUFFICES ASSUME NEW b \in {B300(c), B310(c), B320(c), B390}
                 PROVE  \E d : Begun(c, b) = <<d>> /\ Timely(d)
      OBVIOUS
    <3>1. PICK d : Begun(c, b) = <<d>> /\ d.time = Time(c, "BeginTime")
      BY <1>2
    <3>2. Timely(d)
      BY <2>1, <3>1, Zenon DEF Timely
    <3> QED
      BY <3>1, <3>2, Zenon
  <2> QED
    BY <1>3, <2>2, <2>3
<1>5. CASE "Type" \notin DOMAIN c
  <2>1. \A word : ~Says(c, "Type", word)
    BY <1>5 DEF Says
  <2>2. CalibrationOf(c) \in {<<>>, Untyped}
    BY <2>1, Zenon DEF CalibrationOf
  <2> QED
    BY <1>3, <2>2
<1> QED
  BY <1>4, <1>5

LEMMA EndTimely ==
    ASSUME NEW c, TimesRead(c), NoneLost(Calibrations, c)
    PROVE  B395(c) = <<>> \/ \E d : B395(c) = <<d>> /\ Timely(d)
<1> DEFINE d == [type |-> 395, length |-> 16, time |-> Time(c, "EndTime")]
<1>1. CASE "EndTime" \in DOMAIN c
  <2>1. Time(c, "EndTime") = BadTime \/ BTime2NsTime(Time(c, "EndTime")) # NSTERROR
    BY <1>1, ReadIs DEF NoneLost, Times
  <2>2. d.time = Time(c, "EndTime") /\ B395(c) = <<d>>
    BY <1>1 DEF B395
  <2> HIDE DEF d
  <2>3. Timely(d)
    BY <2>1, <2>2, Zenon DEF Timely
  <2> QED
    BY <2>2, <2>3, Zenon
<1>2. CASE "EndTime" \notin DOMAIN c
  BY <1>2 DEF B395
<1> QED
  BY <1>1, <1>2

LEMMA MembersOf ==
    ASSUME NEW s, NEW t, s = <<>> \/ (\E d : s = <<d>> /\ Timely(d)),
           t = <<>> \/ (\E d : t = <<d>> /\ Timely(d))
    PROVE  \A b \in Members(s \o t) : Timely(b)
<1>1. /\ IsSequence(s) /\ Len(s) \in 0..1 /\ IsSequence(t) /\ Len(t) \in 0..1
  <2>1. <<>> \in Seq(Nat) /\ \A d : <<d>> \in Seq({d})
    OBVIOUS
  <2>2. IsSequence(<<>>) /\ \A d : IsSequence(<<d>>)
    BY <2>1, SequenceOf
  <2> QED
    BY <2>2
<1>2. /\ IsSequence(s \o t) /\ Len(s \o t) = Len(s) + Len(t)
      /\ \A x \in 1..Len(s) : (s \o t)[x] = s[x]
      /\ \A x \in 1..Len(t) : (s \o t)[Len(s) + x] = t[x]
  BY <1>1, ConcatIs
<1>3. (\A x \in 1..Len(s) : Timely(s[x])) /\ (\A x \in 1..Len(t) : Timely(t[x]))
  OBVIOUS
<1> DEFINE u == s \o t
<1>4. DOMAIN u = 1..Len(u)
  BY <1>2, SequenceIs
<1> HIDE DEF u
<1>5. ASSUME NEW x \in 1..Len(u)
      PROVE  Timely(u[x])
  <2>1. CASE x <= Len(s)
    <3>1. x \in 1..Len(s)
      BY <1>1, <1>2, <2>1 DEF u
    <3> QED
      BY <1>2, <1>3, <3>1 DEF u
  <2>2. CASE ~(x <= Len(s))
    <3>1. x - Len(s) \in 1..Len(t) /\ Len(s) + (x - Len(s)) = x
      BY <1>1, <1>2, <2>2 DEF u
    <3> DEFINE y == x - Len(s)
    <3>2. u[Len(s) + y] = t[y] /\ Timely(t[y])
      BY <1>2, <1>3, <3>1 DEF u
    <3> QED
      BY <3>1, <3>2
  <2> QED
    BY <2>1, <2>2
<1> QED
  BY <1>4, <1>5 DEF Members, u

\* Every blockette of the extra headers of a segment can be read.
LEMMA WrittenTimely ==
    ASSUME NEW extra, NEW micro, ~Untimed(extra),
           \A list \in Lists : \A o \in Members(List(extra, list)) : TimesRead(o)
    PROVE  \A b \in Written(extra, micro) : Timely(b)
<1>1. \A list \in Lists : \A o \in Members(List(extra, list)) : TimesRead(o) /\ NoneLost(list, o)
  BY Zenon DEF Untimed, Members, NoneLost
<1>2. Exceptions \in Lists /\ Detections \in Lists /\ Calibrations \in Lists
  BY DEF Lists
<1>3. ASSUME NEW e \in Members(List(extra, Exceptions)), NEW model
      PROVE  Timely(B500(e, model, micro))
  <2>1. TimesRead(e) /\ ~Lost(e, "Time")
    BY <1>1, <1>2, Zenon DEF NoneLost
  <2>2. B500(e, model, micro).time = Time(e, "Time")
    BY DEF B500
  <2>3. Time(e, "Time") = BadTime \/ BTime2NsTime(Time(e, "Time")) # NSTERROR
    BY <2>1, ReadIs DEF Times
  <2> QED
    BY <2>2, <2>3, Zenon DEF Timely
<1>4. ASSUME NEW d \in Members(List(extra, Detections))
      PROVE  Timely(EventBlockette(d))
  <2>1. TimesRead(d) /\ ~Lost(d, "OnsetTime")
    BY <1>1, <1>2, Zenon DEF NoneLost
  <2> DEFINE r == IF Says(d, "Type", "MURDOCK") THEN B201(d) ELSE B200(d)
  <2>2. "time" \in DOMAIN Detection(d) /\ Detection(d).time = Time(d, "OnsetTime")
    BY DEF Detection
  <2>3. EventBlockette(d) = With(Detection(d), r)
    BY DEF EventBlockette
  <2> HIDE DEF r
  <2>4. EventBlockette(d).time = Time(d, "OnsetTime")
    BY <2>2, <2>3, FieldWith
  <2>5. Time(d, "OnsetTime") = BadTime \/ BTime2NsTime(Time(d, "OnsetTime")) # NSTERROR
    BY <2>1, ReadIs DEF Times
  <2> QED
    BY <2>4, <2>5, Zenon DEF Timely
<1>5. ASSUME NEW c \in Members(List(extra, Calibrations)),
             NEW b \in Members(CalibrationOf(c) \o B395(c))
      PROVE  Timely(b)
  <2>1. TimesRead(c) /\ NoneLost(Calibrations, c)
    BY <1>1, <1>2, Zenon
  <2> QED
    BY <2>1, CalibrationTimely, EndTimely, MembersOf
<1> QED
  BY <1>3, <1>4, <1>5 DEF Written

\* What is read of the blockettes is some of them.
LEMMA ChainedIs ==
    ASSUME NEW b, IsSequence(b), \A x \in DOMAIN b : BTime2NsTime(b[x].time) # NSTERROR,
           NEW written, NEW reclen
    PROVE  ~Unmapped(Chained(b, written, reclen))
<1> DEFINE S == {n \in 0..Len(b) : \A x \in 1..n :
                   written + LengthOf(SubSeq(b, 1, x - 1)) + BlktLen(b[x].type) <= reclen}
           m == Max(S)
           q == SubSeq(b, 1, m)
<1>1. Len(b) \in Nat /\ DOMAIN b = 1..Len(b)
  BY SequenceIs
<1>2. 0 \in S
  BY <1>1
<1>3. m \in 0..Len(b)
  <2>1. S \subseteq 0..Len(b)
    OBVIOUS
  <2> HIDE DEF S
  <2> QED
    BY <1>1, <1>2, <2>1, MaxIs
<1>4. Chained(b, written, reclen) = q
  BY Zenon DEF Chained
<1> HIDE DEF S, m
<1>5. IsSequence(q) /\ Len(q) = m - 1 + 1 /\ \A x \in 1..m - 1 + 1 : q[x] = b[1 + x - 1]
  BY <1>1, <1>3, FromTo
<1>6. DOMAIN q = 1..Len(q)
  BY <1>5, SequenceIs
<1> HIDE DEF q
<1>7. \A x \in DOMAIN q : x \in DOMAIN b /\ q[x] = b[x]
  BY <1>1, <1>3, <1>5, <1>6
<1> QED
  BY <1>4, <1>7, Zenon DEF Unmapped

\* The bytes of the year and the day in the other order make sense only on
\* three days of some years.
LEMMA NativeIs ==
    ASSUME NEW t, NEW nstime \in Int, t = NsTime2Time(nstime), ValidYear(t.year),
           ~Ambiguous(t.year, t.day)
    PROVE  ~TakenForNative(BTime(t))
<1>1. t.year \in 1678..2262 /\ t.day \in 1..366
  <2>1. TimeIs(t, nstime)
    BY NsTime2TimeIs
  <2>2. t.year \in Int /\ t.day \in Int /\ t.day - 1 \in 0..YearLength(t.year) - 1
    BY <2>1 DEF TimeIs
  <2>3. YearLength(t.year) \in {365, 366}
    BY <2>2, LengthIs
  <2> QED
    BY <2>2, <2>3 DEF ValidYear
<1> DEFINE y == t.year  d == t.day
<1>2. BTime(t).year = y /\ BTime(t).day = d
  BY DEF BTime
<1> HIDE DEF y, d
<1>3. SUFFICES ASSUME MsIsValidYearDay(Swap16(y), Swap16(d)) PROVE FALSE
  BY <1>2, Zenon DEF TakenForNative
<1>4. y \in 1678..2262 /\ d \in 1..366
  BY <1>1 DEF y, d
<1>5. y % 256 = 8
  <2>1. 256 * (y % 256) + ((y \div 256) % 256) \in 1900..2100
    BY <1>3 DEF MsIsValidYearDay, Swap16
  <2>2. (y \div 256) % 256 \in 0..255 /\ y % 256 \in 0..255
    BY <1>4
  <2>3. (y \div 256) \in 6..8
    BY <1>4
  <2>4. (y \div 256) % 256 \in 6..8
    BY <2>3
  <2> DEFINE a == y % 256  b == (y \div 256) % 256
  <2>5. 256 * a + b \in 1900..2100 /\ a \in 0..255 /\ b \in 6..8
    BY <2>1, <2>2, <2>4
  <2> HIDE DEF a, b
  <2>6. a = 8
    BY <2>5
  <2> QED
    BY <2>6 DEF a
<1>6. d \in {1, 256, 257}
  <2>1. 256 * (d % 256) + ((d \div 256) % 256) \in 1..366
    BY <1>3 DEF MsIsValidYearDay, Swap16
  <2>2. CASE d < 256
    <3>1. d % 256 = d /\ d \div 256 = 0
      BY <1>4, <2>2
    <3> QED
      BY <1>4, <2>1, <3>1
  <2>3. CASE d >= 256
    <3>1. d % 256 = d - 256 /\ d \div 256 = 1
      BY <1>4, <2>3
    <3> QED
      BY <1>4, <2>1, <3>1
  <2> QED
    BY <1>4, <2>2, <2>3
<1>7. ~(y % 256 = 8 /\ d \in {1, 256, 257})
  BY DEF Ambiguous, y, d
<1> QED
  BY <1>5, <1>6, <1>7

\* A start that has a correction is not corrected, and one that has none is
\* what it is.
LEMMA UncorrectedIs ==
    ASSUME NEW h, h = Header2With(Factors, job.extra), NEW start \in Int, start # NSTERROR,
           job.start \in Int
    PROVE  Corrected(start, h) = start + Micro * NsPerUs
<1>1. h.micro = Micro /\ h.correct = Correction(job.extra)
      /\ h.act = Act(job.extra, job.flags, At0(job.extra, "FDSN.Time.LeapSecond"))
  BY DEF Header2With
<1>2. 1 \in h.act \/ h.correct = 0
  <2>1. CASE "FDSN.Time.Correction" \in DOMAIN job.extra
    <3>1. 1 \in Bit(1, "FDSN.Time.Correction" \in DOMAIN job.extra)
      BY <2>1 DEF Bit
    <3> QED
      BY <1>1, <3>1, Zenon DEF Act
  <2>2. CASE "FDSN.Time.Correction" \notin DOMAIN job.extra
    <3>1. At0(job.extra, "FDSN.Time.Correction") = 0
      BY <2>2, Zenon DEF At0
    <3>2. Cut(0) = 0
      BY CutAssumption DEF Cut
    <3> QED
      BY <1>1, <3>1, <3>2 DEF Correction
  <2> QED
    BY <2>1, <2>2
<1>3. (IF 1 \in h.act THEN 0 ELSE h.correct * NsPerFsec) = 0
  BY <1>2, ScalesAre
<1>4. Micro * NsPerUs \in Int
  <2>1. Micro = MicroOf(job.start)
    BY Zenon DEF Micro, MicroOf
  <2>2. MicroOf(job.start) * NsPerUs \in 0..NsPerFsec - 1
    BY MicroIs
  <2> QED
    BY <2>1, <2>2
<1> QED
  BY <1>1, <1>3, <1>4 DEF Corrected

\* A start that can be read: what is read of it.
Clear(t) == Kept(t) # NSTERROR /\ ~Unclear(NsTime2Time(t))

LEMMA StartIs ==
    ASSUME JobOK, NEW g, NEW h \in Header, AlikeBut(g, h), NEW t \in Int, g.time = Stamp(t), Clear(t)
    PROVE  /\ StartTime(g) # NSTERROR
           /\ job.version = 3 => StartTime(g) = t
           /\ job.version = 2 =>
                /\ ~TakenForNative(g.time)
                /\ StartTime(g) = Floored(t) + MicroOf(job.start) * NsPerUs
<1> DEFINE c == NsTime2Time(t)
<1>1. ValidYear(c.year) /\ (job.version = 2 => ~Ambiguous(c.year, c.day))
  BY Zenon DEF Clear, Unclear
<1>2. g.version = job.version /\ job.version \in {2, 3} /\ job.start \in Int
  BY MadeIs DEF JobOK
<1>3. CASE job.version = 3
  <2>1. StartTime(g) = Time2NsTime(c)
    BY <1>2, <1>3, Zenon DEF StartTime, Stamp
  <2>2. Time2NsTime(c) = t
    BY <1>1, TimeComesBack
  <2>3. t # NSTERROR
    BY <1>3 DEF Clear, Kept
  <2> QED
    BY <1>3, <2>1, <2>2, <2>3
<1>4. CASE job.version = 2
  <2>1. g.time = BTime(c)
    BY <1>4 DEF Stamp
  <2>2. ~TakenForNative(g.time)
    BY <1>1, <1>4, <2>1, NativeIs
  <2>3. BTime2NsTime(g.time) = Floored(t)
    <3>1. BTime(c) = InTenths(c)
      BY Zenon DEF BTime, InTenths
    <3> QED
      BY <1>1, <2>1, <3>1, TenthsComeBack
  <2>4. Floored(t) # NSTERROR /\ Floored(t) \in Int
    <3>1. Floored(t) # NSTERROR
      BY <1>4 DEF Clear, Kept, Floored
    <3> QED
      BY <3>1, FlooredIs
  <2>5. h = Header2With(Factors, job.extra)
    BY <1>4, HeaderIs
  <2>6. g.micro = h.micro /\ g.act = h.act /\ g.correct = h.correct
    <3>1. {"micro", "act", "correct"} \subseteq DOMAIN h
      BY <2>5 DEF Header2With
    <3> QED
      BY <3>1 DEF AlikeBut
  <2>7. Corrected(Floored(t), h) = Floored(t) + Micro * NsPerUs
    BY <1>2, <2>4, <2>5, UncorrectedIs
  <2>8. Corrected(Floored(t), g) = Corrected(Floored(t), h)
    BY <2>6, Zenon DEF Corrected
  <2>9. StartTime(g) = Corrected(Floored(t), g)
    BY <1>2, <1>4, <2>2, <2>3 DEF StartTime
  <2>10. Micro = MicroOf(job.start)
    BY Zenon DEF Micro, MicroOf
  <2>11. StartTime(g) = Floored(t) + MicroOf(job.start) * NsPerUs
    BY <2>7, <2>8, <2>9, <2>10
  <2>12. StartTime(g) # NSTERROR
    <3> DEFINE m == MicroOf(job.start) * NsPerUs
    <3>1. m \in 0..NsPerFsec - 1
      BY <1>2, MicroIs
    <3> HIDE DEF m
    <3>2. Floored(t) + m # NSTERROR
      BY <2>4, <3>1, NoErrorIs
    <3> QED
      BY <2>11, <3>2 DEF m
  <2> QED
    BY <1>4, <2>2, <2>11, <2>12
<1> QED
  BY <1>2, <1>3, <1>4

LEMMA NotRefused ==
    ASSUME JobOK, NEW r, NEW h \in Header, AlikeBut(r.hdr, h), NEW t \in Int,
           r.hdr.time = Stamp(t), Clear(t), job.version = 2 => ~Untimed(job.extra),
           r.data # <<>> \/ r.hdr.numsamples = 0
    PROVE  ~Refused(r)
<1> DEFINE g == r.hdr
<1> HIDE DEF g
<1>1. /\ StartTime(g) # NSTERROR /\ g.version = job.version /\ job.version \in {2, 3}
      /\ job.version = 2 => ~TakenForNative(g.time)
  BY StartIs, MadeIs DEF JobOK, g
<1>2. ~Unmapped(Blocks(g))
  <2>1. CASE job.version = 3
    <3>1. Blocks(g) = <<>>
      BY <1>1, <2>1 DEF Blocks
    <3> QED
      BY <3>1 DEF Unmapped
  <2>2. CASE job.version = 2
    <3> DEFINE b == PackExtras(job.extra, Micro)
    <3>1. h.blockettes = b /\ "blockettes" \in DOMAIN h
          /\ ExtrasFit(h.blockettes, HeaderWritten(h), job.reclen)
      BY <2>2, HeaderIs DEF Header2With
    <3>2. g.blockettes = b
      BY <3>1 DEF AlikeBut, g
    <3>3. /\ \A list \in Lists : IsSequence(List(job.extra, list))
          /\ \A list \in Lists : \A o \in Members(List(job.extra, list)) : TimesRead(o)
      BY Zenon DEF JobOK, Members, TimesRead
    <3>4. IsSequence(b) /\ \A x \in DOMAIN b : b[x] \in Written(job.extra, Micro)
      <4>1. b \in Seq({b[x] : x \in DOMAIN b}) /\ \A x \in DOMAIN b : b[x] \in Written(job.extra, Micro)
        BY <3>3, ExtrasAre
      <4> HIDE DEF b
      <4> QED
        BY <4>1 DEF IsSequence
    <3>5. \A x \in DOMAIN b : Timely(b[x])
      <4> HIDE DEF b
      <4> QED
        BY <2>2, <3>3, <3>4, WrittenTimely
    <3>6. \A x \in DOMAIN b : b[x].time # BadTime
      BY <3>1, Zenon DEF ExtrasFit
    <3> HIDE DEF b
    <3>7. \A x \in DOMAIN b : BTime2NsTime(b[x].time) # NSTERROR
      BY <3>5, <3>6, Zenon DEF Timely
    <3>8. Blocks(g) = Chained(b, HeaderWritten(g), job.reclen)
      BY <1>1, <2>2, <3>2 DEF Blocks
    <3> QED
      BY <3>4, <3>7, <3>8, ChainedIs
  <2> QED
    BY <1>1, <2>1, <2>2
<1>3. ~(g.numsamples > 0 /\ g.version = 2 /\ TakenForNative(g.time))
  BY <1>1
<1>4. ~(g.numsamples > 0 /\ r.data = <<>>)
  BY DEF g
<1> QED
  BY <1>1, <1>2, <1>3, <1>4 DEF Refused, g

-----------------------------------------------------------------------------
(* Headers are dated and read *)

\* What the header of a record says, and a record with its samples.
HdrRead(h) == IF h.version = 3 THEN Read3(h) ELSE Read2(h)
SaysOf(b, m) ==
    DOMAIN b = DOMAIN m /\ \A key \in DOMAIN m \ {"samples"} : b[key] = m[key]

\* A record of the file that begins at time t.
DatedRecord(r, t) ==
    /\ MadeHeader(r.hdr) /\ r.hdr.time = Stamp(t)
    /\ N > 0 => r.data # <<>>
    /\ N = 0 /\ job.version = 2 => r.hdr.numsamples = 0

\* The header in the buffer is dated for the record to come, those in the file
\* by the first sample of their record; what was read is what they say.
BufferDated == phase = "encode" => hdr.time = Stamp(SampleTime(job.start, total, job.rate))
FileDated   == \A x \in 1..Len(file) : DatedRecord(file[x], TrueStart(x))
HeadRead    == phase = "decode" => msr = HdrRead(file[cur].hdr)
BackRead    ==
    \A x \in 1..Len(back) : back[x] = Failed \/ SaysOf(back[x], HdrRead(file[x].hdr))
TimesInv == SamplesInv /\ BufferDated /\ FileDated /\ HeadRead /\ BackRead

LEMMA StampStays ==
    ASSUME job' = job PROVE \A n : Stamp(n)' = Stamp(n)
  BY Zenon DEF Stamp
LEMMA HdrReadStays ==
    ASSUME job' = job PROVE \A h : HdrRead(h)' = HdrRead(h)
  BY Zenon DEF HdrRead, Read3, Read2, Blocks, StartTime
LEMMA DatedStays ==
    ASSUME job' = job PROVE \A r, t : DatedRecord(r, t)' <=> DatedRecord(r, t)
  BY MadeStays, StampStays, HeaderStays DEF DatedRecord
LEMMA StartStays ==
    ASSUME UNCHANGED <<job, file>> PROVE \A x : TrueStart(x)' = TrueStart(x)
  BY BeforeStays DEF TrueStart
LEMMA FileDatedStays ==
    ASSUME UNCHANGED <<job, file>>, FileDated PROVE FileDated'
<1>1. /\ \A r, t : DatedRecord(r, t)' <=> DatedRecord(r, t)
      /\ \A x : TrueStart(x)' = TrueStart(x)
  BY DatedStays, StartStays
<1> QED
  BY <1>1 DEF FileDated
LEMMA BackReadStays ==
    ASSUME UNCHANGED <<job, file, back>>, BackRead PROVE BackRead'
<1>1. \A h : HdrRead(h)' = HdrRead(h)
  BY HdrReadStays
<1> QED
  BY <1>1 DEF BackRead, SaysOf
LEMMA NoneRead ==
    ASSUME RecordInv, phase \in {"header", "encode"}, back' = back
    PROVE  BackRead'
<1>1. Len(back) = 0
  BY DEF RecordInv, RecordTypeOK
<1> QED
  BY <1>1 DEF BackRead

\* A record read to its end, with what its header says.
LEMMA ReturnDated ==
    ASSUME TimesInv, NEW b, Return(b), cur <= Len(file), UNCHANGED <<job, result, packvars>>,
           SamplesInv', b = Failed \/ SaysOf(b, HdrRead(file[cur].hdr))
    PROVE  TimesInv'
<1>1. phase' = "read" /\ back' = Append(back, b) /\ UNCHANGED <<job, file>>
  BY DEF Return, packvars
<1>2. FileDated' /\ BufferDated' /\ HeadRead'
  BY <1>1, FileDatedStays DEF TimesInv, BufferDated, HeadRead
<1>3. BackRead'
  <2> PICK c : c = cur
    OBVIOUS
  <2>1. IsSequence(back) /\ Len(back) = c - 1 /\ c \in Nat
    <3>1. RecordTypeOK
      BY Zenon DEF TimesInv, SamplesInv, RecordInv
    <3>2. IsSequence(back) /\ Len(back) = cur - 1 /\ cur \in 1..Len(file) + 1 /\ IsSequence(file)
      BY <3>1, Zenon DEF RecordTypeOK
    <3>3. Len(file) \in Nat
      BY <3>2, SequenceIs
    <3> QED
      BY <3>2, <3>3
  <2>2. /\ Len(back') = (c - 1) + 1
        /\ \A x \in 1..c - 1 : back'[x] = back[x]
        /\ back'[(c - 1) + 1] = b
    BY <1>1, <2>1, AppendIs
  <2>3. \A h : HdrRead(h)' = HdrRead(h)
    BY <1>1, HdrReadStays
  <2>4. (c - 1) + 1 = c /\ \A x \in 1..c : x \in 1..c - 1 \/ x = c
    BY <2>1
  <2>5. ASSUME NEW x \in 1..c
        PROVE  (back[x] = Failed \/ SaysOf(back[x], HdrRead(file[x].hdr)))'
    <3>1. PICK h, z : h = file[x].hdr /\ z = IF x = c THEN b ELSE back[x]
      OBVIOUS
    <3>2. z = Failed \/ SaysOf(z, HdrRead(h))
      <4>1. CASE x = c
        BY <3>1, <4>1
      <4>2. CASE x # c
        BY <2>1, <2>4, <3>1, <4>2 DEF TimesInv, BackRead
      <4> QED
        BY <4>1, <4>2
    <3>3. h = file'[x].hdr /\ z = back'[x]
      BY <1>1, <2>2, <2>4, <3>1
    <3>4. HdrRead(h)' = HdrRead(h)
      BY <2>3
    <3> QED
      BY <3>2, <3>3, <3>4 DEF SaysOf
  <2> QED
    BY <2>2, <2>4, <2>5 DEF BackRead
<1> QED
  BY <1>2, <1>3 DEF TimesInv

LEMMA SaysSamples ==
    ASSUME NEW m, NEW s
    PROVE  SaysOf([m EXCEPT !.samples = s], m) /\ SaysOf(m, m)
  BY DEF SaysOf

LEMMA ReadFailsDated == ASSUME TimesInv, ReadFails PROVE TimesInv'
<1>1. Return(Failed) /\ cur <= Len(file) /\ UNCHANGED <<job, result, packvars>>
  BY DEF ReadFails, Reading
<1>2. SamplesInv'
  BY ReadFailsBack DEF TimesInv
<1> QED
  BY <1>1, <1>2, ReturnDated

LEMMA ReadHeaderDated == ASSUME TimesInv, ReadHeader PROVE TimesInv'
<1>1. cur <= Len(file) /\ UNCHANGED <<job, result, packvars>>
  BY DEF ReadHeader, Reading
<1>2. SamplesInv'
  BY ReadHeaderBack DEF TimesInv
<1>3. msr' = HdrRead(file[cur].hdr)
  BY Zenon DEF ReadHeader, HdrRead, ThisHdr
<1>4. CASE Return(msr')
  <2>1. SaysOf(msr', HdrRead(file[cur].hdr))
    BY <1>3, SaysSamples
  <2> QED
    BY <1>1, <1>2, <1>4, <2>1, ReturnDated
<1>5. CASE phase' = "decode" /\ UNCHANGED <<cur, back>>
  <2>1. UNCHANGED <<job, file, back>>
    BY <1>1, <1>5 DEF packvars
  <2>2. FileDated' /\ BackRead' /\ BufferDated'
    BY <1>5, <2>1, FileDatedStays, BackReadStays DEF TimesInv, BufferDated
  <2>3. HeadRead'
    <3>1. \A h : HdrRead(h)' = HdrRead(h)
      BY <2>1, HdrReadStays
    <3>2. HdrRead(file[cur].hdr)' = HdrRead(file[cur].hdr)
      BY <1>5, <2>1, <3>1
    <3> QED
      BY <1>3, <3>2 DEF HeadRead
  <2> QED
    BY <1>2, <2>2, <2>3 DEF TimesInv
<1> QED
  BY <1>4, <1>5 DEF ReadHeader

LEMMA DecodeWordDated == ASSUME TimesInv, DecodeWord PROVE TimesInv'
<1>1. /\ UNCHANGED <<job, file, back, cur, msr>> /\ phase = "decode" /\ phase' = "decode"
  BY DEF DecodeWord, Decoding, packvars
<1>2. SamplesInv'
  BY DecodeWordBack DEF TimesInv
<1>3. FileDated' /\ BackRead' /\ BufferDated'
  BY <1>1, FileDatedStays, BackReadStays DEF TimesInv, BufferDated
<1>4. HeadRead'
  <2>1. \A h : HdrRead(h)' = HdrRead(h)
    BY <1>1, HdrReadStays
  <2>2. HdrRead(file[cur].hdr)' = HdrRead(file[cur].hdr)
    BY <1>1, <2>1
  <2> QED
    BY <1>1, <2>2 DEF TimesInv, HeadRead
<1> QED
  BY <1>2, <1>3, <1>4 DEF TimesInv

\* The samples are put into what the header says.
LEMMA DecodedDated ==
    ASSUME TimesInv, phase = "decode", NEW s, NEW b, b = Failed \/ b = [msr EXCEPT !.samples = s],
           Return(b), UNCHANGED <<job, result, packvars>>, SamplesInv'
    PROVE  TimesInv'
<1>1. cur <= Len(file)
  BY DEF TimesInv, SamplesInv, RecordInv, RecordTypeOK
<1>2. msr = HdrRead(file[cur].hdr)
  BY DEF TimesInv, HeadRead
<1>3. b = Failed \/ SaysOf(b, HdrRead(file[cur].hdr))
  BY <1>2, SaysSamples
<1> QED
  BY <1>1, <1>3, ReturnDated

LEMMA DecodeFixedDated == ASSUME TimesInv, DecodeFixed PROVE TimesInv'
<1>1. SamplesInv'
  BY DecodeFixedBack DEF TimesInv
<1>2. /\ \E s : Return([msr EXCEPT !.samples = s])
      /\ phase = "decode" /\ UNCHANGED <<job, result, packvars>>
  BY DEF DecodeFixed
<1> QED
  BY <1>1, <1>2, DecodedDated

LEMMA DecodeEndsDated == ASSUME TimesInv, DecodeEnds PROVE TimesInv'
<1>1. SamplesInv'
  BY DecodeEndsBack DEF TimesInv
<1>2. /\ Return(Failed) \/ Return([msr EXCEPT !.samples = got])
      /\ phase = "decode" /\ UNCHANGED <<job, result, packvars>>
  BY DEF DecodeEnds
<1> QED
  BY <1>1, <1>2, DecodedDated

LEMMA FinishDated == ASSUME TimesInv, Finish PROVE TimesInv'
<1>1. UNCHANGED <<job, file, back>> /\ phase' = "done"
  BY DEF Finish, packvars, readvars
<1>2. SamplesInv'
  BY FinishBack DEF TimesInv
<1> QED
  BY <1>1, <1>2, FileDatedStays, BackReadStays DEF TimesInv, BufferDated, HeadRead

\* A packing that fails leaves the file as it is.
LEMMA FailureDated ==
    ASSUME TimesInv, Fails, UNCHANGED <<job, packvars, readvars>>, SamplesInv'
    PROVE  TimesInv'
<1>1. UNCHANGED <<job, file, back>> /\ phase' = "read"
  BY DEF Fails, packvars, readvars
<1> QED
  BY <1>1, FileDatedStays, BackReadStays DEF TimesInv, BufferDated, HeadRead

LEMMA StutterDated == ASSUME TimesInv, UNCHANGED recordvars PROVE TimesInv'
<1>1. UNCHANGED <<job, file, back, phase, hdr, total, cur, msr>>
  BY DEF recordvars, packvars, readvars
<1>2. SamplesInv'
  BY StutterBack DEF TimesInv
<1>3. FileDated' /\ BackRead'
  BY <1>1, FileDatedStays, BackReadStays DEF TimesInv
<1>4. HeadRead'
  <2>1. \A h : HdrRead(h)' = HdrRead(h)
    BY <1>1, HdrReadStays
  <2>2. HdrRead(file[cur].hdr)' = HdrRead(file[cur].hdr)
    BY <1>1, <2>1
  <2> QED
    BY <1>1, <2>2 DEF TimesInv, HeadRead
<1>5. BufferDated'
  <2>1. \A n : Stamp(n)' = Stamp(n)
    BY <1>1, StampStays
  <2> QED
    BY <1>1, <2>1 DEF TimesInv, BufferDated
<1> QED
  BY <1>2, <1>3, <1>4, <1>5 DEF TimesInv

LEMMA EncodeWordDated == ASSUME TimesInv, EncodeWord PROVE TimesInv'
<1>1. UNCHANGED <<job, file, back, phase, hdr, total>> /\ phase = "encode"
  BY DEF EncodeWord, Encoding, readvars
<1>2. SamplesInv'
  BY EncodeWordBack DEF TimesInv
<1>3. FileDated' /\ BackRead' /\ HeadRead'
  BY <1>1, FileDatedStays, BackReadStays DEF TimesInv, HeadRead
<1>4. BufferDated'
  <2>1. \A n : Stamp(n)' = Stamp(n)
    BY <1>1, StampStays
  <2> QED
    BY <1>1, <2>1 DEF TimesInv, BufferDated
<1> QED
  BY <1>2, <1>3, <1>4 DEF TimesInv

LEMMA FromStart0 == SampleTime(job.start, 0, job.rate) = job.start
  BY DEF SampleTime

LEMMA PackHeaderDated == ASSUME TimesInv, PackHeader PROVE TimesInv'
<1>1. SamplesInv'
  BY PackHeaderBack DEF TimesInv
<1>2. /\ UNCHANGED <<job, file, back, total>> /\ phase = "header" /\ phase' = "encode" /\ total = 0
      /\ \E h \in Header : hdr' = h
  BY DEF PackHeader, readvars, TimesInv, SamplesInv, RecordInv
<1>3. FileDated' /\ BackRead' /\ HeadRead'
  BY <1>2, FileDatedStays, BackReadStays DEF TimesInv, HeadRead
<1>4. hdr'.time = Stamp(job.start)
  BY <1>2, HeaderIs DEF TimesInv, SamplesInv, RecordInv, RecordTypeOK
<1>5. BufferDated'
  <2>1. \A n : Stamp(n)' = Stamp(n)
    BY <1>2, StampStays
  <2>2. SampleTime(job.start, total, job.rate)' = job.start
    BY <1>2, FromStart0
  <2>3. hdr'.time = Stamp(SampleTime(job.start, total, job.rate))'
    BY <1>4, <2>1, <2>2
  <2> QED
    BY <2>3 DEF BufferDated
<1> QED
  BY <1>1, <1>3, <1>5 DEF TimesInv

\* One more record in the file.
LEMMA RecordDated ==
    ASSUME TimesInv, NEW r, file' = Append(file, r), job' = job, r.hdr.numsamples \in Nat,
           DatedRecord(r, TrueStart(Len(file) + 1))
    PROVE  FileDated'
<1>1. PICK l : l = Len(file)
  OBVIOUS
<1>2. /\ IsSequence(file) /\ l \in Nat /\ \A x \in 1..l : file[x].hdr.numsamples \in Nat
  BY <1>1, FileIs DEF TimesInv
<1>3. \A x \in 1..l + 1 : Before(x)' = Before(x)
  BY <1>1, <1>2, BeforeMore
<1>4. \A x \in 1..l + 1 : TrueStart(x)' = TrueStart(x)
  BY <1>3 DEF TrueStart
<1>5. Len(file') = l + 1 /\ (\A x \in 1..l : file'[x] = file[x]) /\ file'[l + 1] = r
  BY <1>1, <1>2, AppendIs
<1>6. \A z, t : DatedRecord(z, t)' <=> DatedRecord(z, t)
  BY DatedStays
<1>7. ASSUME NEW x \in 1..l + 1
      PROVE  DatedRecord(file[x], TrueStart(x))'
  <2>1. PICK z, t : z = file'[x] /\ t = TrueStart(x)
    OBVIOUS
  <2>2. DatedRecord(z, t)
    <3>1. CASE x = l + 1
      BY <1>1, <1>5, <2>1, <3>1
    <3>2. CASE x # l + 1
      <4>1. x \in 1..l
        BY <1>2, <3>2
      <4> QED
        BY <1>1, <1>5, <2>1, <4>1 DEF TimesInv, FileDated
    <3> QED
      BY <3>1, <3>2
  <2>3. DatedRecord(z, t)'
    BY <1>6, <2>2
  <2> QED
    BY <1>4, <2>1, <2>3
<1> QED
  BY <1>5, <1>7 DEF FileDated

LEMMA PackEmptyDated == ASSUME TimesInv, PackEmpty PROVE TimesInv'
<1>1. SamplesInv'
  BY PackEmptyBack DEF TimesInv
<1>2. /\ N = 0 /\ phase = "header" /\ phase' = "read" /\ job' = job /\ back' = back
      /\ file = <<>> /\ JobOK
  BY DEF PackEmpty, readvars, TimesInv, SamplesInv, RecordInv, RecordTypeOK
<1>3. PICK h \in Header, left \in IF job.version = 3 THEN {0, 7} ELSE {0} :
          file' = <<[hdr |-> [h EXCEPT !.numsamples = left], data |-> <<>>, first |-> 0, last |-> 0]>>
  BY DEF PackEmpty
<1> DEFINE g == [h EXCEPT !.numsamples = left]
           r == [hdr |-> g, data |-> <<>>, first |-> 0, last |-> 0]
<1>4. /\ {"time", "numsamples"} \subseteq DOMAIN h /\ h.time = Stamp(job.start)
  BY <1>2, HeaderIs
<1>5. /\ AlikeBut(g, h) /\ g.time = Stamp(job.start) /\ g.numsamples = left
  BY <1>4 DEF AlikeBut
<1>6. r.hdr = g
  OBVIOUS
<1>7. file' = Append(file, r)
  <2>1. file' = <<r>>
    BY <1>3
  <2> HIDE DEF r
  <2> QED
    BY <1>2, <2>1
<1> HIDE DEF g, r
<1>8. DatedRecord(r, TrueStart(Len(file) + 1))
  <2>1. TrueStart(Len(file) + 1) = job.start
    <3>1. Len(file) + 1 = 1
      BY <1>2
    <3>2. TrueStart(1) = job.start
      BY BeforeFirst, FromStart0 DEF TrueStart
    <3> QED
      BY <3>1, <3>2
  <2> QED
    BY <1>2, <1>5, <1>6, <2>1 DEF DatedRecord, MadeHeader
<1>9. FileDated'
  BY <1>2, <1>5, <1>6, <1>7, <1>8, RecordDated
<1>10. BackRead'
  BY <1>2, NoneRead DEF TimesInv, SamplesInv
<1> QED
  BY <1>1, <1>2, <1>9, <1>10 DEF TimesInv, BufferDated, HeadRead

\* A record handed on is dated by its first sample, and the header for the
\* sample behind its last.
LEMMA HandOnDated ==
    ASSUME TimesInv, phase = "encode", NEW n \in 1..Rest, NEW data, data # <<>>, HandOn(n, data),
           UNCHANGED <<job, readvars>>, SamplesInv'
    PROVE  TimesInv'
<1> DEFINE r == Handed(n, data)
<1>1. file' = Append(file, r) /\ total' = total + n /\ back' = back
  BY Zenon DEF HandOn, Handed, readvars
<1>2. /\ MadeHeader(r.hdr) /\ r.hdr.numsamples = n /\ n \in Nat \ {0} /\ r.data = data
  BY HandedIs DEF TimesInv
<1>3. JobOK /\ MadeHeader(hdr) /\ N > 0 /\ RecordInv
  BY DEF TimesInv, SamplesInv, RecordInv, RecordTypeOK, PackingOK, EncodeOK
<1>4. {"time", "numsamples"} \subseteq DOMAIN hdr
  BY <1>3, MadeIs DEF MadeHeader
<1>5. r.hdr.time = hdr.time
  <2>1. r.hdr = [hdr EXCEPT !.numsamples = n]
    BY DEF Handed
  <2> QED
    BY <1>4, <2>1
<1> HIDE DEF r
<1>6. TrueStart(Len(file) + 1) = SampleTime(job.start, total, job.rate)
  BY <1>3 DEF TimesInv, SamplesInv, FileOK, TrueStart
<1>7. DatedRecord(r, TrueStart(Len(file) + 1))
  BY <1>2, <1>3, <1>5, <1>6 DEF DatedRecord, TimesInv, BufferDated
<1>8. FileDated'
  BY <1>1, <1>2, <1>7, RecordDated
<1>9. BackRead'
  BY <1>1, <1>3, NoneRead
<1>10. BufferDated' /\ HeadRead'
  <2>1. CASE AllPacked(n)
    BY <2>1 DEF HandOn, BufferDated, HeadRead
  <2>2. CASE ~AllPacked(n)
    <3>1. hdr' = [hdr EXCEPT !.time = Stamp(NextStart(n))] /\ phase' = "encode"
      BY <2>2 DEF HandOn
    <3>2. hdr'.time = Stamp(NextStart(n))
      BY <1>4, <3>1
    <3>3. \A m : Stamp(m)' = Stamp(m)
      BY StampStays
    <3>4. SampleTime(job.start, total, job.rate)' = NextStart(n)
      BY <1>1 DEF NextStart
    <3>5. hdr'.time = Stamp(SampleTime(job.start, total, job.rate))'
      BY <3>2, <3>3, <3>4
    <3> QED
      BY <3>1, <3>5 DEF BufferDated, HeadRead
  <2> QED
    BY <2>1, <2>2
<1> QED
  BY <1>8, <1>9, <1>10 DEF TimesInv

LEMMA PackSteimDated == ASSUME TimesInv, PackSteim PROVE TimesInv'
<1> DEFINE data == IF job.version = 2 THEN Overlaid ELSE Zeroed
<1>1. /\ phase = "encode" /\ IsSteim(job.encoding) /\ out > 0
      /\ UNCHANGED <<job, readvars>> /\ HandOn(out, data)
  BY DEF PackSteim
<1>2. RecordInv /\ RecordTypeOK /\ SamplesInv
  BY DEF TimesInv, SamplesInv, RecordInv
<1>3. /\ out \in 1..Rest /\ Len(Zeroed) <= Len(area) /\ Len(words) \in Nat /\ Len(words) <= Len(Zeroed)
  BY <1>1, <1>2, SteimPacked
<1>4. Len(words) # 0
  <2>1. PICK k, base : k = Len(words) /\ base = total
    OBVIOUS
  <2>2. PICK after : Spells(words, k, base, after) /\ after[k] = out
    BY <1>1, <1>2, <2>1 DEF SamplesInv, EncodeOK
  <2>3. after[0] = 0
    BY <2>2 DEF Spells
  <2> QED
    BY <1>1, <1>3, <2>1, <2>2, <2>3
<1>5. data # <<>>
  <2>1. Len(Zeroed) \in Nat
    BY <1>2, ZeroedIs, SequenceIs
  <2>2. Len(Overlaid) = Len(area)
    BY <1>2, <1>3, OverlaidIs
  <2>3. Len(Zeroed) > 0 /\ Len(Overlaid) > 0
    BY <1>2, <1>3, <1>4, <2>1, <2>2, Sizes
  <2>4. Len(<<>>) = 0
    OBVIOUS
  <2> HIDE DEF Zeroed, Overlaid
  <2> QED
    BY <2>3, <2>4
<1>6. SamplesInv'
  BY <1>2, PackSteimBack
<1> HIDE DEF data
<1> QED
  BY <1>1, <1>3, <1>5, <1>6, HandOnDated

LEMMA PackFixedDated == ASSUME TimesInv, PackFixed PROVE TimesInv'
<1> DEFINE m == MaxDataBytes(hdr) \div SampleBytes(job.encoding)
           n == Min({Rest, m})
           data == [x \in 1..n |-> Cast(Sample(x), job.encoding)]
<1>1. /\ phase = "encode" /\ ~IsSteim(job.encoding) /\ ~NoRoomFor(hdr)
      /\ UNCHANGED <<job, readvars>> /\ HandOn(n, data)
  BY DEF PackFixed
<1>2. RecordInv /\ SamplesInv
  BY DEF TimesInv, SamplesInv
<1>3. n \in 1..Rest
  BY <1>1, <1>2, FixedPacked
<1>4. Rest \in Nat
  BY <1>2, Sizes DEF RecordInv
<1> HIDE DEF n
<1>5. data # <<>>
  <2>1. 1 \in DOMAIN data
    BY <1>3, <1>4
  <2> HIDE DEF data
  <2> QED
    BY <2>1
<1>6. SamplesInv'
  BY <1>2, PackFixedBack
<1> HIDE DEF data
<1> QED
  BY <1>1, <1>3, <1>5, <1>6, HandOnDated

LEMMA InitDated ==
    ASSUME JobOK, RecordInit(job)
    PROVE  TimesInv
<1>1. SamplesInv
  BY InitBack
<1>2. phase = "header" /\ file = <<>> /\ back = <<>> /\ Len(<<>>) = 0
  BY DEF RecordInit
<1> QED
  BY <1>1, <1>2 DEF TimesInv, BufferDated, FileDated, HeadRead, BackRead

\* Every step keeps the dates.
LEMMA NextDated == ASSUME TimesInv, [RecordNext]_recordvars PROVE TimesInv'
<1>0. SamplesInv
  BY DEF TimesInv
<1>1. CASE PackHeaderFails
  BY <1>0, <1>1, PackHeaderFailsBack, FailureDated DEF PackHeaderFails
<1>2. CASE DifferenceTooWide
  BY <1>0, <1>2, DifferenceTooWideBack, FailureDated DEF DifferenceTooWide
<1>3. CASE NoRoom
  BY <1>0, <1>3, NoRoomBack, FailureDated DEF NoRoom
<1>4. CASE PackHeader
  BY <1>4, PackHeaderDated
<1>5. CASE PackEmpty
  BY <1>5, PackEmptyDated
<1>6. CASE EncodeWord
  BY <1>6, EncodeWordDated
<1>7. CASE PackSteim
  BY <1>7, PackSteimDated
<1>8. CASE PackFixed
  BY <1>8, PackFixedDated
<1>9. CASE ReadFails
  BY <1>9, ReadFailsDated
<1>10. CASE ReadHeader
  BY <1>10, ReadHeaderDated
<1>11. CASE DecodeWord
  BY <1>11, DecodeWordDated
<1>12. CASE DecodeFixed
  BY <1>12, DecodeFixedDated
<1>13. CASE DecodeEnds
  BY <1>13, DecodeEndsDated
<1>14. CASE Finish
  BY <1>14, FinishDated
<1>15. CASE UNCHANGED recordvars
  BY <1>15, StutterDated
<1> QED
  BY <1>1, <1>2, <1>3, <1>4, <1>5, <1>6, <1>7, <1>8, <1>9, <1>10, <1>11, <1>12, <1>13, <1>14,
     <1>15 DEF RecordNext

LEMMA TimesInvHolds == JobOK /\ RecordSpec => []TimesInv
<1>1. JobOK /\ RecordInit(job) => TimesInv
  BY InitDated
<1>2. TimesInv /\ [RecordNext]_recordvars => TimesInv'
  BY NextDated
<1> QED
  BY <1>1, <1>2, PTL DEF RecordSpec

\* The time of a sample is a number.
LEMMA SampleTimeIs ==
    ASSUME NEW time \in Int, NEW offset \in Nat, NEW rate, rate[1] \in Nat, rate[2] \in Nat \ {0}
    PROVE  SampleTime(time, offset, rate) \in Int
<1> DEFINE p == rate[1]  q == rate[2]  a == 2 * offset * q * NSTMODULUS + p  b == 2 * p
<1>1. CASE offset <= 0 \/ p = 0
  BY <1>1 DEF SampleTime
<1>2. CASE ~(offset <= 0 \/ p = 0)
  <2>1. a \in Int /\ b \in Nat \ {0}
    <3>1. p \in Nat \ {0} /\ q \in Nat /\ NSTMODULUS \in Nat
      BY <1>2, ScalesAre
    <3> HIDE DEF p, q
    <3> QED
      BY <3>1
  <2>2. SampleTime(time, offset, rate) = time + (a \div b)
    BY <1>2, Zenon DEF SampleTime
  <2> HIDE DEF a, b
  <2>3. a \div b \in Int
    BY <2>1
  <2> QED
    BY <2>2, <2>3
<1> QED
  BY <1>1, <1>2

\* What version 2 has no room for in the time it writes: less than a tenth of
\* a millisecond either way, and for the start itself less than a microsecond.
LEMMA LateIs ==
    ASSUME NEW start \in Int, NEW t \in Int
    PROVE  LET late == t - (Floored(t) + MicroOf(start) * NsPerUs)
           IN  /\ t = start => late \in 0..NsPerUs - 1
               /\ Abs(late) < NsPerFsec
<1> DEFINE f == Floored(t)  m == MicroOf(start) * NsPerUs
<1>1. f \in Int /\ t - f \in 0..NsPerFsec - 1
  BY FlooredIs
<1>2. m \in 0..NsPerFsec - 1 /\ (start - Floored(start)) - m \in 0..NsPerUs - 1
  BY MicroIs
<1>3. NsPerFsec \in Nat /\ NsPerUs \in Nat
  BY ScalesAre
<1>4. t = start => (t - f) - m \in 0..NsPerUs - 1
  BY <1>2
<1> HIDE DEF f, m
<1>5. t - (f + m) = (t - f) - m /\ t - (f + m) \in Int
  BY <1>1, <1>2, <1>3
<1>6. Abs(t - (f + m)) < NsPerFsec
  BY <1>1, <1>2, <1>3, <1>5 DEF Abs
<1> QED
  BY <1>4, <1>5, <1>6 DEF f, m

LEMMA InvTimes == TimesInv => TimesBack
<1>1. SUFFICES ASSUME TimesInv, phase = "done", NEW x \in Readable
               PROVE  /\ back[x] # Failed
                      /\ LET late == TrueStart(x) - back[x].start
                         IN  CASE job.version = 3 -> late = 0
                               [] job.version = 2 /\ x = 1 -> late \in 0..NsPerUs - 1
                               [] OTHER -> Abs(late) < NsPerFsec
  BY Zenon DEF TimesBack
<1>2. /\ SamplesInv /\ RecordTypeOK /\ JobOK /\ FileDated /\ BackRead /\ AllBack
  BY <1>1 DEF TimesInv, SamplesInv, RecordInv, RecordTypeOK
<1>3. x \in DOMAIN back /\ ~Misread(x)
  BY DEF Readable
<1>4. x \in 1..Len(back) /\ x \in 1..Len(file) /\ x \in 1..Len(file) + 1
  <2>1. DOMAIN back = 1..Len(back) /\ Len(back) \in Nat
    BY <1>2, SequenceIs DEF RecordTypeOK
  <2>2. Len(file) \in Nat /\ cur \in 1..Len(file) + 1 /\ Len(back) = cur - 1
    BY <1>2, FileIs DEF RecordTypeOK
  <2> QED
    BY <1>3, <2>1, <2>2
<1>5. /\ job.start \in Int /\ job.version \in {2, 3} /\ job.rate[1] \in Nat
      /\ job.rate[2] \in Nat \ {0} /\ N \in Nat
  <2>1. N \in Nat
    BY <1>2, Sizes
  <2> QED
    BY <1>2, <2>1 DEF JobOK
<1> DEFINE t == TrueStart(x)  r == file[x]  b == back[x]
<1>6. t \in Int
  <2>1. Before(x) \in Nat
    BY <1>2, <1>4, FileIs
  <2> QED
    BY <1>5, <2>1, SampleTimeIs DEF TrueStart
<1>7. DatedRecord(r, t) /\ IsBack(r, Before(x), b)
      /\ (b = Failed \/ SaysOf(b, HdrRead(r.hdr)))
  BY <1>2, <1>4 DEF FileDated, AllBack, BackRead
<1>8. /\ Clear(t) /\ ~(job.version = 3 /\ N = 0) /\ ~(job.version = 2 /\ Untimed(job.extra))
  BY <1>3, Zenon DEF Misread, Clear
<1>9. t = job.start \/ x # 1
  BY BeforeFirst, FromStart0 DEF TrueStart
<1> HIDE DEF t, r, b
<1>10. /\ r.hdr.time = Stamp(t) /\ (r.data # <<>> \/ r.hdr.numsamples = 0)
       /\ \E h \in Header : AlikeBut(r.hdr, h)
  <2>1. N > 0 \/ N = 0
    BY <1>5
  <2> QED
    BY <1>5, <1>7, <1>8, <2>1 DEF DatedRecord, MadeHeader
<1>11. PICK h \in Header : AlikeBut(r.hdr, h)
  BY <1>10
<1>12. ~Refused(r)
  BY <1>2, <1>6, <1>8, <1>10, <1>11, NotRefused
<1>13. b # Failed /\ b.start = StartTime(r.hdr)
  <2>1. "samples" \in DOMAIN b
    BY <1>7, <1>12 DEF IsBack
  <2>2. b # Failed
    BY <2>1 DEF Failed
  <2>3. /\ "start" \in DOMAIN HdrRead(r.hdr) \ {"samples"}
        /\ HdrRead(r.hdr).start = StartTime(r.hdr)
    BY DEF HdrRead, Read3, Read2
  <2> QED
    BY <1>7, <2>2, <2>3 DEF SaysOf
<1>14. /\ job.version = 3 => b.start = t
       /\ job.version = 2 => b.start = Floored(t) + MicroOf(job.start) * NsPerUs
  BY <1>2, <1>6, <1>8, <1>10, <1>11, <1>13, StartIs
<1> DEFINE late == t - b.start
<1>15. job.version = 3 => late = 0
  BY <1>6, <1>14
<1>16. job.version = 2 => (x = 1 => late \in 0..NsPerUs - 1) /\ Abs(late) < NsPerFsec
  BY <1>5, <1>6, <1>9, <1>14, LateIs
<1>17. b # Failed /\ CASE job.version = 3 -> late = 0
                       [] job.version = 2 /\ x = 1 -> late \in 0..NsPerUs - 1
                       [] OTHER -> Abs(late) < NsPerFsec
  <2> HIDE DEF late
  <2>1. CASE job.version = 3
    BY <1>13, <1>15, <2>1
  <2>2. CASE job.version = 2
    BY <1>13, <1>16, <2>2
  <2> QED
    BY <1>5, <2>1, <2>2
<1> QED
  BY <1>17 DEF t, b

\* TimesBack: every record whose start and extra headers can be written is
\* read, and begins when its first sample was taken: to the nanosecond in
\* version 3, in version 2 to the microsecond for the first record and to the
\* tenth of a millisecond for those after it: for every start, rate, count of
\* samples, encoding, length of record and extra headers.
THEOREM TimesHold == JobOK /\ RecordSpec => []TimesBack
  BY TimesInvHolds, InvTimes, PTL

-----------------------------------------------------------------------------
(* Identifiers and the codes of version 2 *)

LEMMA AlikeIs ==
    ASSUME NEW s, IsSequence(s), NEW t, IsSequence(t), Len(s) = Len(t),
           \A x \in 1..Len(s) : s[x] = t[x]
    PROVE  s = t
<1> DEFINE S == {s[x] : x \in DOMAIN s} \union {t[x] : x \in DOMAIN t}
<1>1. s \in Seq(S) /\ t \in Seq(S)
  BY DEF IsSequence
<1> HIDE DEF S
<1> QED
  BY <1>1, SeqEqual

\* A sequence is the parts before and behind one of its places.
LEMMA PartsJoin ==
    ASSUME NEW s, IsSequence(s), NEW m \in Nat, NEW k \in Nat, k = m + 1,
           NEW n \in Nat, m <= n, n <= Len(s)
    PROVE  SubSeq(s, 1, m) \o SubSeq(s, k, n) = SubSeq(s, 1, n)
<1>0. Len(s) \in Nat /\ 1 \in Nat \ {0} /\ k \in Nat \ {0}
  BY SequenceIs
<1> DEFINE p == SubSeq(s, 1, m)  q == SubSeq(s, k, n)  r == SubSeq(s, 1, n)
<1>1. IsSequence(p) /\ Len(p) = m - 1 + 1 /\ \A x \in 1..m - 1 + 1 : p[x] = s[1 + x - 1]
  BY <1>0, FromTo
<1>2. IsSequence(q) /\ Len(q) = n - k + 1 /\ \A x \in 1..n - k + 1 : q[x] = s[k + x - 1]
  BY <1>0, FromTo
<1>3. IsSequence(r) /\ Len(r) = n - 1 + 1 /\ \A x \in 1..n - 1 + 1 : r[x] = s[1 + x - 1]
  BY <1>0, FromTo
<1> DEFINE u == p \o q
<1>4. /\ IsSequence(u) /\ Len(u) = Len(p) + Len(q)
      /\ \A x \in 1..Len(p) : u[x] = p[x]
      /\ \A x \in 1..Len(q) : u[Len(p) + x] = q[x]
  BY <1>1, <1>2, ConcatIs
<1> HIDE DEF p, q, r, u
<1>5. Len(p) = m /\ Len(q) = n - m /\ Len(u) = n /\ Len(r) = n
  BY <1>0, <1>1, <1>2, <1>3, <1>4
<1>6. ASSUME NEW x \in 1..n
      PROVE  u[x] = r[x]
  <2>1. r[x] = s[x]
    BY <1>3
  <2>2. CASE x <= m
    <3>1. u[x] = p[x] /\ p[x] = s[x]
      BY <1>1, <1>4, <1>5, <2>2
    <3> QED
      BY <2>1, <3>1
  <2>3. CASE x > m
    <3> DEFINE y == x - m
    <3>1. y \in 1..n - m /\ m + y = x /\ y \in 1..n - k + 1 /\ k + y - 1 = x
      BY <2>3
    <3> HIDE DEF y
    <3>2. u[m + y] = q[y]
      BY <1>4, <1>5, <3>1
    <3>3. q[y] = s[k + y - 1]
      BY <1>2, <3>1
    <3> QED
      BY <2>1, <3>1, <3>2, <3>3
  <2> QED
    BY <2>2, <2>3
<1> QED
  BY <1>3, <1>4, <1>5, <1>6, AlikeIs DEF u, p, q, r

LEMMA OneIs ==
    ASSUME NEW s, IsSequence(s), NEW k \in 1..Len(s)
    PROVE  SubSeq(s, k, k) = <<s[k]>>
<1>0. Len(s) \in Nat /\ k \in Nat \ {0}
  BY SequenceIs
<1> DEFINE p == SubSeq(s, k, k)  q == <<s[k]>>
<1>1. IsSequence(p) /\ Len(p) = k - k + 1 /\ \A x \in 1..k - k + 1 : p[x] = s[k + x - 1]
  BY <1>0, FromTo
<1>2. IsSequence(q) /\ Len(q) = 1 /\ q[1] = s[k]
  BY DEF IsSequence
<1> HIDE DEF p, q
<1>3. Len(p) = 1 /\ p[1] = s[k]
  <2>1. k - k + 1 = 1 /\ 1 \in 1..1 /\ k + 1 - 1 = k
    BY <1>0
  <2> QED
    BY <1>1, <2>1
<1>4. \A x \in 1..Len(p) : p[x] = q[x]
  BY <1>2, <1>3
<1>5. p = q
  BY <1>1, <1>2, <1>3, <1>4, AlikeIs
<1> QED
  BY <1>5 DEF p, q

LEMMA AllIs ==
    ASSUME NEW s, IsSequence(s)
    PROVE  SubSeq(s, 1, Len(s)) = s
<1>0. Len(s) \in Nat /\ 1 \in Nat \ {0}
  BY SequenceIs
<1> DEFINE p == SubSeq(s, 1, Len(s))
<1>1. IsSequence(p) /\ Len(p) = Len(s) - 1 + 1 /\ \A x \in 1..Len(s) - 1 + 1 : p[x] = s[1 + x - 1]
  BY <1>0, FromTo
<1> HIDE DEF p
<1>2. Len(p) = Len(s) /\ \A x \in 1..Len(s) : p[x] = s[x]
  BY <1>0, <1>1
<1> QED
  BY <1>1, <1>2, AlikeIs DEF p

\* Part of a text of whole characters is one if no character is cut.
LEMMA WholePart ==
    ASSUME NEW s, IsSequence(s), Whole(s, Len(s)), NEW m \in Nat \ {0}, NEW n \in Nat,
           n <= Len(s), m <= n + 1, m = 1 \/ s[m - 1] # "lead", n = Len(s) \/ s[n + 1] # "cont"
    PROVE  LET p == SubSeq(s, m, n)
           IN  IsSequence(p) /\ Len(p) = n - m + 1 /\ Whole(p, Len(p))
               /\ \A x \in 1..Len(p) : p[x] = s[m + x - 1]
<1>0. Len(s) \in Nat
  BY SequenceIs
<1> DEFINE p == SubSeq(s, m, n)
<1>1. IsSequence(p) /\ Len(p) = n - m + 1 /\ \A x \in 1..n - m + 1 : p[x] = s[m + x - 1]
  BY FromTo
<1> HIDE DEF p
<1>2. \A y \in 1..Len(s) : /\ s[y] = "lead" => y < Len(s) /\ s[y + 1] = "cont"
                           /\ s[y] = "cont" => y > 1 /\ s[y - 1] = "lead"
  BY Zenon DEF Whole
<1>3. ASSUME NEW x \in 1..n - m + 1
      PROVE  /\ p[x] = "lead" => x < n - m + 1 /\ p[x + 1] = "cont"
             /\ p[x] = "cont" => x > 1 /\ p[x - 1] = "lead"
  <2> DEFINE y == m + x - 1
  <2>1. y \in 1..Len(s) /\ p[x] = s[y]
    BY <1>0, <1>1
  <2>2. ASSUME p[x] = "lead" PROVE x < n - m + 1 /\ p[x + 1] = "cont"
    <3>1. y < Len(s) /\ s[y + 1] = "cont"
      BY <1>2, <2>1, <2>2
    <3>2. x # n - m + 1
      <4> SUFFICES ASSUME x = n - m + 1 PROVE FALSE
        OBVIOUS
      <4>1. y = n
        OBVIOUS
      <4> QED
        BY <1>0, <3>1, <4>1
    <3>3. x + 1 \in 1..n - m + 1 /\ m + (x + 1) - 1 = y + 1
      BY <3>2
    <3>4. p[x + 1] = s[m + (x + 1) - 1]
      BY <1>1, <3>3
    <3> QED
      BY <3>1, <3>3, <3>4
  <2>3. ASSUME p[x] = "cont" PROVE x > 1 /\ p[x - 1] = "lead"
    <3>1. y > 1 /\ s[y - 1] = "lead"
      BY <1>2, <2>1, <2>3
    <3>2. x # 1
      <4> SUFFICES ASSUME x = 1 PROVE FALSE
        OBVIOUS
      <4>1. y = m
        OBVIOUS
      <4> QED
        BY <3>1, <4>1
    <3>3. x - 1 \in 1..n - m + 1 /\ m + (x - 1) - 1 = y - 1
      BY <3>2
    <3>4. p[x - 1] = s[m + (x - 1) - 1]
      BY <1>1, <3>3
    <3> QED
      BY <3>1, <3>3, <3>4
  <2> QED
    BY <2>2, <2>3
<1>4. Whole(p, Len(p))
  BY <1>1, <1>3, Zenon DEF Whole
<1> QED
  BY <1>1, <1>4 DEF p

LEMMA LengthOfWhole ==
    ASSUME NEW p, Len(p) \in Nat, Whole(p, Len(p)), NEW n \in Nat, Len(p) <= n
    PROVE  Utf8Length(p, n) = Len(p)
<1> DEFINE k == Len(p)  S == {y \in 0..Min({k, n}) : Whole(p, y)}
<1>1. Min({k, n}) = k
  BY DEF Min
<1>2. S \subseteq 0..k /\ k \in S
  BY <1>1
<1>3. Max(S) \in S /\ k <= Max(S)
  <2> HIDE DEF S
  <2> QED
    BY <1>2, MaxIs
<1>4. Max(S) = k
  <2> HIDE DEF S, k
  <2>1. Max(S) \in 0..k /\ k \in Nat
    BY <1>2, <1>3 DEF k
  <2> QED
    BY <1>3, <2>1
<1> QED
  BY <1>4 DEF Utf8Length

\* A code of whole characters without spaces, as it stands in a header, and
\* read from there.
LEMMA OpenIs ==
    ASSUME NEW p, IsSequence(p), Whole(p, Len(p)), NEW n \in Nat, Len(p) <= n
    PROVE  LET o == Open(p, n)
           IN  IsSequence(o) /\ Len(o) = n /\ Whole(o, n)
               /\ \A x \in 1..n : o[x] = IF x <= Len(p) THEN p[x] ELSE Space
<1> DEFINE o == Open(p, n)
<1>1. Len(p) \in Nat /\ Utf8Length(p, n) = Len(p)
  BY SequenceIs, LengthOfWhole
<1>2. o = [x \in 1..n |-> IF x <= Len(p) THEN p[x] ELSE Space]
  BY <1>1 DEF Open
<1>3. DOMAIN o = 1..n /\ \A x \in 1..n : o[x] = IF x <= Len(p) THEN p[x] ELSE Space
  BY <1>2
<1>4. o = [x \in 1..n |-> o[x]]
  BY <1>2
<1> HIDE DEF o
<1>5. IsSequence(o) /\ Len(o) = n
  BY <1>3, <1>4, MadeOf
<1>6. Whole(o, n)
  <2>1. SUFFICES ASSUME NEW x \in 1..n
                 PROVE  /\ o[x] = "lead" => x < n /\ o[x + 1] = "cont"
                        /\ o[x] = "cont" => x > 1 /\ o[x - 1] = "lead"
    BY Zenon DEF Whole
  <2>2. Space # "lead" /\ Space # "cont"
    BY Zenon DEF Space
  <2>3. CASE x <= Len(p)
    <3>1. /\ p[x] = "lead" => x < Len(p) /\ p[x + 1] = "cont"
          /\ p[x] = "cont" => x > 1 /\ p[x - 1] = "lead"
      BY <1>1, <2>3 DEF Whole
    <3>2. o[x] = p[x]
      BY <1>3, <2>3
    <3>3. x < Len(p) => x < n /\ o[x + 1] = p[x + 1]
      BY <1>1, <1>3
    <3>4. x > 1 => o[x - 1] = p[x - 1]
      BY <1>1, <1>3, <2>3
    <3> QED
      BY <3>1, <3>2, <3>3, <3>4
  <2>4. CASE ~(x <= Len(p))
    BY <1>3, <2>2, <2>4
  <2> QED
    BY <2>3, <2>4
<1> QED
  BY <1>3, <1>5, <1>6 DEF o

\* What a text without its spaces is made up to.
Cleaned(f, s, k) ==
    f = [x \in 0..k |-> IF x = 0 THEN <<>>
                        ELSE IF s[x] = Space THEN f[x - 1] ELSE Append(f[x - 1], s[x])]

LEMMA AppendSub ==
    ASSUME NEW p, IsSequence(p), NEW k \in 1..Len(p)
    PROVE  Append(SubSeq(p, 1, k - 1), p[k]) = SubSeq(p, 1, k)
<1>0. Len(p) \in Nat /\ 1 \in Nat \ {0} /\ k - 1 \in Nat /\ k \in Nat
  BY SequenceIs
<1> DEFINE m == k - 1  q == SubSeq(p, 1, m)  r == SubSeq(p, 1, k)  a == Append(q, p[k])
<1>1. m \in Nat /\ m <= Len(p) /\ 1 <= m + 1
  BY <1>0
<1> HIDE DEF m
<1>2. IsSequence(q) /\ Len(q) = m - 1 + 1 /\ \A x \in 1..m - 1 + 1 : q[x] = p[1 + x - 1]
  BY <1>0, <1>1, FromTo
<1>3. IsSequence(r) /\ Len(r) = k - 1 + 1 /\ \A x \in 1..k - 1 + 1 : r[x] = p[1 + x - 1]
  <2>1. k \in Nat /\ k <= Len(p) /\ 1 <= k + 1
    BY <1>0
  <2> HIDE DEF r
  <2>2. r = SubSeq(p, 1, k)
    BY DEF r
  <2> QED
    BY <1>0, <2>1, <2>2, FromTo
<1>4. IsSequence(a) /\ Len(a) = Len(q) + 1 /\ (\A x \in 1..Len(q) : a[x] = q[x]) /\ a[Len(q) + 1] = p[k]
  BY <1>2, AppendIs, ZenonT(60)
<1> HIDE DEF q, r, a
<1>5. Len(q) = m /\ k = m + 1 /\ Len(a) = k /\ Len(r) = k
  BY <1>0, <1>1, <1>2, <1>3, <1>4 DEF m
<1>6. \A x \in 1..k : r[x] = p[x]
  BY <1>0, <1>3
<1>7. \A x \in 1..m : a[x] = p[x]
  BY <1>1, <1>2, <1>4, <1>5
<1>8. \A x \in 1..k : x \in 1..m \/ x = m + 1
  BY <1>1, <1>5
<1>9. \A x \in 1..k : a[x] = r[x]
  BY <1>4, <1>5, <1>6, <1>7, <1>8
<1>10. a = r
  BY <1>3, <1>4, <1>5, <1>9, AlikeIs
<1> QED
  BY <1>10 DEF a, q, r, m

LEMMA CleanIs ==
    ASSUME NEW p, IsSequence(p), Whole(p, Len(p)), \A x \in 1..Len(p) : p[x] # Space,
           NEW n \in Nat, Len(p) <= n
    PROVE  Clean(Open(p, n), n) = p
<1> DEFINE o == Open(p, n)
<1>0. Len(p) \in Nat
  BY SequenceIs
<1>1. /\ IsSequence(o) /\ Len(o) = n /\ Whole(o, n)
      /\ \A x \in 1..n : o[x] = IF x <= Len(p) THEN p[x] ELSE Space
  BY OpenIs
<1> HIDE DEF o
<1>2. Utf8Length(o, n) = n
  BY <1>1, LengthOfWhole
<1> DEFINE Upto(x) == SubSeq(p, 1, IF x <= Len(p) THEN x ELSE Len(p))
           g == [x \in 0..n |-> Upto(x)]
<1>3. Upto(0) = <<>>
  <2>1. Upto(0) = SubSeq(p, 1, 0)
    BY <1>0
  <2> HIDE DEF Upto
  <2> QED
    BY <2>1
<1>4. \A x \in 1..n : Upto(x) = IF o[x] = Space THEN Upto(x - 1) ELSE Append(Upto(x - 1), o[x])
  <2> TAKE x \in 1..n
  <2>1. CASE x <= Len(p)
    <3>1. o[x] = p[x] /\ p[x] # Space
      BY <1>0, <1>1, <2>1
    <3>2. Upto(x) = SubSeq(p, 1, x) /\ Upto(x - 1) = SubSeq(p, 1, x - 1)
      BY <1>0, <2>1
    <3>3. Append(SubSeq(p, 1, x - 1), p[x]) = SubSeq(p, 1, x)
      BY <1>0, <2>1, AppendSub
    <3> HIDE DEF Upto
    <3> QED
      BY <3>1, <3>2, <3>3
  <2>2. CASE ~(x <= Len(p))
    <3>1. o[x] = Space
      BY <1>1, <2>2
    <3>2. Upto(x) = SubSeq(p, 1, Len(p)) /\ Upto(x - 1) = SubSeq(p, 1, Len(p))
      BY <1>0, <2>2
    <3> QED
      BY <3>1, <3>2
  <2> QED
    BY <2>1, <2>2
<1> HIDE DEF Upto
<1>5. Cleaned(g, o, n)
  <2>1. \A x \in 1..n : x - 1 \in 0..n /\ x # 0
    OBVIOUS
  <2>2. \A x \in 0..n : x = 0 \/ x \in 1..n
    OBVIOUS
  <2>3. \A x \in 0..n : Upto(x) = IF x = 0 THEN <<>>
                                  ELSE IF o[x] = Space THEN g[x - 1] ELSE Append(g[x - 1], o[x])
    BY <1>3, <1>4, <2>1, <2>2
  <2> QED
    BY <2>3 DEF Cleaned
<1>6. ASSUME NEW f, Cleaned(f, o, n)
      PROVE  f[n] = g[n]
  <2>1. /\ f[0] = <<>> /\ g[0] = <<>>
        /\ \A x \in 1..n : f[x] = IF o[x] = Space THEN f[x - 1] ELSE Append(f[x - 1], o[x])
        /\ \A x \in 1..n : g[x] = IF o[x] = Space THEN g[x - 1] ELSE Append(g[x - 1], o[x])
    <3> HIDE DEF g
    <3>1. \A h : Cleaned(h, o, n) =>
             /\ h[0] = <<>>
             /\ \A x \in 1..n : h[x] = IF o[x] = Space THEN h[x - 1] ELSE Append(h[x - 1], o[x])
      <4> TAKE h
      <4> HAVE Cleaned(h, o, n)
      <4> DEFINE e == [x \in 0..n |-> IF x = 0 THEN <<>>
                        ELSE IF o[x] = Space THEN h[x - 1] ELSE Append(h[x - 1], o[x])]
      <4>1. h = e
        BY Zenon DEF Cleaned
      <4>2. e[0] = <<>> /\ \A x \in 1..n : e[x] = IF o[x] = Space THEN h[x - 1] ELSE Append(h[x - 1], o[x])
        OBVIOUS
      <4> HIDE DEF e
      <4> QED
        BY <4>1, <4>2
    <3> QED
      BY <1>5, <1>6, <3>1
  <2> HIDE DEF g
  <2> DEFINE T == {x \in 0..n : f[x] # g[x]}
  <2>2. SUFFICES ASSUME n \in T PROVE FALSE
    OBVIOUS
  <2>3. PICK x \in T : \A y \in T : x <= y
    <3>1. T \subseteq Nat /\ T # {}
      BY <2>2
    <3> QED
      BY <3>1, LeastOne
  <2>4. x # 0
    BY <2>1, <2>3
  <2>5. x - 1 \in 0..n /\ x - 1 \notin T /\ x \in 1..n
    BY <2>3, <2>4
  <2> QED
    BY <2>1, <2>3, <2>5
<1>7. g[n] = p
  <2>1. Upto(n) = SubSeq(p, 1, Len(p))
    <3>1. (IF n <= Len(p) THEN n ELSE Len(p)) = Len(p)
      BY <1>0
    <3> QED
      BY <3>1, Zenon DEF Upto
  <2>2. SubSeq(p, 1, Len(p)) = p
    BY AllIs
  <2> QED
    BY <2>1, <2>2
<1>8. Clean(o, n) = (CHOOSE f : Cleaned(f, o, n))[n]
  BY <1>2, Zenon DEF Clean, Cleaned
<1> HIDE DEF g
<1>9. (CHOOSE f : Cleaned(f, o, n))[n] = g[n]
  <2> DEFINE c == CHOOSE f : Cleaned(f, o, n)
  <2>1. Cleaned(c, o, n)
    BY <1>5, Zenon
  <2> HIDE DEF c
  <2>2. c[n] = g[n]
    BY <1>6, <2>1
  <2> QED
    BY <2>2 DEF c
<1> QED
  BY <1>7, <1>8, <1>9 DEF o

LEMMA AtMostThree ==
    ASSUME NEW S, NEW a, NEW b, NEW c, S \subseteq {a, b, c}
    PROVE  Cardinality(S) # 5
<1>1. IsFiniteSet({}) /\ Cardinality({}) = 0
  BY FS_EmptySet
<1>2. IsFiniteSet({} \union {a}) /\ Cardinality({} \union {a}) \in {0, 1}
  BY <1>1, FS_AddElement
<1>3. /\ IsFiniteSet(({} \union {a}) \union {b})
      /\ Cardinality(({} \union {a}) \union {b}) \in {0, 1, 2}
  BY <1>2, FS_AddElement
<1>4. /\ IsFiniteSet((({} \union {a}) \union {b}) \union {c})
      /\ Cardinality((({} \union {a}) \union {b}) \union {c}) \in {0, 1, 2, 3}
  BY <1>3, FS_AddElement, SMTT(60)
<1>5. (({} \union {a}) \union {b}) \union {c} = {a, b, c}
  OBVIOUS
<1>6. Cardinality(S) <= Cardinality({a, b, c}) /\ Cardinality(S) \in Nat
  BY <1>4, <1>5, FS_Subset, FS_CardinalityType
<1> QED
  BY <1>4, <1>5, <1>6

LEMMA MarksOf ==
    ASSUME NEW s, IsSequence(s)
    PROVE  /\ Len(s) \in Nat /\ Marks(s) \subseteq Nat
           /\ \A x : x \in Marks(s) <=> x \in 1..Len(s) /\ s[x] = Mark
<1>1. DOMAIN s = 1..Len(s) /\ Len(s) \in Nat
  BY SequenceIs
<1>2. \A x : x \in Marks(s) <=> x \in 1..Len(s) /\ s[x] = Mark
  BY <1>1, Zenon DEF Marks
<1>3. Marks(s) \subseteq Nat
  BY <1>1, <1>2
<1> QED
  BY <1>1, <1>2, <1>3

LEMMA MarkAfterIs ==
    ASSUME NEW s, IsSequence(s), NEW x, \E y \in Marks(s) : y > x
    PROVE  LET m == MarkAfter(s, x)
           IN  m \in 1..Len(s) /\ s[m] = Mark /\ m > x /\ \A y \in Marks(s) : y > x => m <= y
<1> DEFINE S == {y \in Marks(s) : y > x}
<1>1. /\ Len(s) \in Nat /\ Marks(s) \subseteq Nat
      /\ \A y : y \in Marks(s) <=> y \in 1..Len(s) /\ s[y] = Mark
  BY MarksOf
<1>2. S \subseteq Nat /\ S # {}
  BY <1>1
<1>3. \E n \in S : \A m \in S : n <= m
  <2> HIDE DEF S
  <2> QED
    BY <1>2, LeastOne
<1>4. Min(S) \in S /\ \A m \in S : Min(S) <= m
  <2> HIDE DEF S
  <2> QED
    BY <1>3, Zenon DEF Min
<1>5. MarkAfter(s, x) = Min(S)
  BY Zenon DEF MarkAfter
<1> QED
  BY <1>1, <1>4, <1>5

\* The first three of five marks, and one more behind them.
LEMMA MarksAre ==
    ASSUME NEW s, IsSequence(s), Cardinality(Marks(s)) = 5
    PROVE  LET a == MarkAfter(s, 0)  b == MarkAfter(s, a)  c == MarkAfter(s, b)
           IN  /\ a \in 1..Len(s) /\ b \in 1..Len(s) /\ c \in 1..Len(s) /\ a < b /\ b < c
               /\ s[a] = Mark /\ s[b] = Mark /\ s[c] = Mark
               /\ \E x \in 1..Len(s) : x > c /\ s[x] = Mark
<1> DEFINE a == MarkAfter(s, 0)  b == MarkAfter(s, a)  c == MarkAfter(s, b)
<1>0. /\ Len(s) \in Nat /\ Marks(s) \subseteq Nat
      /\ \A x \in Marks(s) : x \in 1..Len(s) /\ s[x] = Mark /\ x > 0
  <2>1. /\ Len(s) \in Nat /\ Marks(s) \subseteq Nat
        /\ \A x : x \in Marks(s) <=> x \in 1..Len(s) /\ s[x] = Mark
    BY MarksOf
  <2> QED
    BY <2>1
<1>1. a \in 1..Len(s) /\ s[a] = Mark /\ a > 0 /\ \A y \in Marks(s) : y > 0 => a <= y
  <2>1. \E y \in Marks(s) : y > 0
    <3> SUFFICES ASSUME ~\E y \in Marks(s) : y > 0 PROVE FALSE
      OBVIOUS
    <3>1. Marks(s) \subseteq {0, 0, 0}
      BY <1>0
    <3> QED
      BY <3>1, AtMostThree
  <2> QED
    BY <2>1, MarkAfterIs
<1> HIDE DEF a
<1>2. \A y \in Marks(s) : y = a \/ y > a
  <2> TAKE y \in Marks(s)
  <2>1. y \in Nat /\ a \in Nat /\ a <= y
    BY <1>0, <1>1
  <2> QED
    BY <2>1
<1>3. b \in 1..Len(s) /\ s[b] = Mark /\ b > a /\ \A y \in Marks(s) : y > a => b <= y
  <2>1. \E y \in Marks(s) : y > a
    <3> SUFFICES ASSUME ~\E y \in Marks(s) : y > a PROVE FALSE
      OBVIOUS
    <3>1. Marks(s) \subseteq {a, a, a}
      BY <1>2
    <3> QED
      BY <3>1, AtMostThree
  <2> QED
    BY <2>1, MarkAfterIs
<1> HIDE DEF b
<1>4. \A y \in Marks(s) : y = a \/ y = b \/ y > b
  <2> TAKE y \in Marks(s)
  <2>1. y \in Nat /\ b \in Nat /\ (y = a \/ b <= y)
    BY <1>0, <1>2, <1>3
  <2> QED
    BY <2>1
<1>5. c \in 1..Len(s) /\ s[c] = Mark /\ c > b /\ \A y \in Marks(s) : y > b => c <= y
  <2>1. \E y \in Marks(s) : y > b
    <3> SUFFICES ASSUME ~\E y \in Marks(s) : y > b PROVE FALSE
      OBVIOUS
    <3>1. Marks(s) \subseteq {a, b, b}
      BY <1>4
    <3> QED
      BY <3>1, AtMostThree
  <2> QED
    BY <2>1, MarkAfterIs
<1> HIDE DEF c
<1>6. \A y \in Marks(s) : y = a \/ y = b \/ y = c \/ y > c
  <2> TAKE y \in Marks(s)
  <2>1. y \in Nat /\ c \in Nat /\ (y = a \/ y = b \/ c <= y)
    BY <1>0, <1>4, <1>5
  <2> QED
    BY <2>1
<1>7. \E y \in Marks(s) : y > c
  <2> SUFFICES ASSUME ~\E y \in Marks(s) : y > c PROVE FALSE
    OBVIOUS
  <2>1. Marks(s) \subseteq {a, b, c}
    BY <1>6
  <2> QED
    BY <2>1, AtMostThree
<1>8. a < b /\ b < c /\ \E x \in 1..Len(s) : x > c /\ s[x] = Mark
  BY <1>0, <1>1, <1>3, <1>5, <1>7
<1> QED
  BY <1>1, <1>3, <1>5, <1>8 DEF a, b, c

\* An identifier without colons is taken apart as it stands.
LEMMA SplitIs ==
    ASSUME NEW s, IsSequence(s), \A x \in DOMAIN s : s[x] # ":"
    PROVE  Sid2Nslc(s) = Split(s)
<1>1. {x \in DOMAIN s : s[x] = ":"} \union {0} = {0}
  OBVIOUS
<1>2. Max({0}) = 0
  <2>1. {0} \subseteq 0..0 /\ 0 \in {0}
    OBVIOUS
  <2>2. Max({0}) \in {0}
    BY <2>1, MaxIs
  <2> QED
    BY <2>2
<1>3. 0 + 1 = 1
  OBVIOUS
<1>4. SubSeq(s, 1, Len(s)) = s
  BY AllIs
<1>5. Sid2Nslc(s) = Split(SubSeq(s, 0 + 1, Len(s)))
  BY <1>1, <1>2, Zenon DEF Sid2Nslc
<1> QED
  BY <1>3, <1>4, <1>5

\* Three codes between marks are three whole characters.
LEMMA CodesOfThree ==
    ASSUME NEW s, IsSequence(s), Whole(s, Len(s)), IsExtended(s)
    PROVE  /\ IsSequence(Seed(s)) /\ Len(Seed(s)) = 3 /\ Whole(Seed(s), 3)
           /\ Extended(Open(Seed(s), 3)) = s
<1> DEFINE q == Seed(s)  o == Open(q, 3)
<1>1. Len(s) = 5 /\ s[2] = Mark /\ s[4] = Mark
  BY DEF IsExtended
<1>2. IsSequence(q) /\ Len(q) = 3 /\ q[1] = s[1] /\ q[2] = s[3] /\ q[3] = s[5]
  BY DEF IsSequence, Seed
<1>3. /\ s[1] # "lead" /\ s[1] # "cont" /\ s[3] # "lead" /\ s[3] # "cont"
      /\ s[5] # "lead" /\ s[5] # "cont"
  <2>1. \A x \in 1..5 : /\ s[x] = "lead" => x < 5 /\ s[x + 1] = "cont"
                        /\ s[x] = "cont" => x > 1 /\ s[x - 1] = "lead"
    BY <1>1, Zenon DEF Whole
  <2>3. Mark # "lead" /\ Mark # "cont"
    BY Zenon DEF Mark
  <2>2. 1 + 1 = 2 /\ 3 - 1 = 2 /\ 3 + 1 = 4 /\ 5 - 1 = 4 /\ ~(1 > 1) /\ ~(5 < 5)
        /\ 1 \in 1..5 /\ 3 \in 1..5 /\ 5 \in 1..5
    OBVIOUS
  <2> QED
    BY <1>1, <2>1, <2>2, <2>3
<1> HIDE DEF q
<1>4. \A x \in 1..3 : q[x] # "lead" /\ q[x] # "cont"
  <2>1. \A x \in 1..3 : x = 1 \/ x = 2 \/ x = 3
    OBVIOUS
  <2> QED
    BY <1>2, <1>3, <2>1
<1>5. Whole(q, 3)
  BY <1>4, Zenon DEF Whole
<1>6. \A x \in 1..3 : o[x] = q[x]
  <2>1. \A x \in 1..3 : o[x] = IF x <= Len(q) THEN q[x] ELSE Space
    <3>1. Len(q) <= 3 /\ 3 \in Nat /\ Whole(q, Len(q))
      BY <1>2, <1>5
    <3> QED
      BY <1>2, <3>1, OpenIs
  <2> QED
    BY <1>2, <2>1
<1> HIDE DEF o
<1> DEFINE e == Extended(o)
<1>7. /\ IsSequence(e) /\ Len(e) = 5 /\ e[1] = o[1] /\ e[2] = Mark /\ e[3] = o[2] /\ e[4] = Mark
      /\ e[5] = o[3]
  <2>1. \A f, g, h, k, m : IsSequence(<<f, g, h, k, m>>) /\ Len(<<f, g, h, k, m>>) = 5
    BY DEF IsSequence
  <2>2. e = <<o[1], Mark, o[2], Mark, o[3]>>
    BY Zenon DEF Extended
  <2> HIDE DEF e
  <2>3. IsSequence(e) /\ Len(e) = 5
    BY <2>1, <2>2, Zenon
  <2> QED
    BY <2>2, <2>3
<1> HIDE DEF e
<1>8. e[1] = s[1] /\ e[2] = s[2] /\ e[3] = s[3] /\ e[4] = s[4] /\ e[5] = s[5]
  <2>1. o[1] = q[1] /\ o[2] = q[2] /\ o[3] = q[3]
    BY <1>6
  <2> QED
    BY <1>1, <1>2, <1>7, <2>1
<1>9. \A x \in 1..Len(e) : e[x] = s[x]
  <2>1. \A x \in 1..5 : x = 1 \/ x = 2 \/ x = 3 \/ x = 4 \/ x = 5
    OBVIOUS
  <2> QED
    BY <1>7, <1>8, <2>1
<1>10. e = s
  BY <1>1, <1>7, <1>9, AlikeIs
<1> QED
  BY <1>2, <1>5, <1>10 DEF e, o, q

\* A part of an identifier between marks, put in a header and read from it.
LEMMA CodeBack ==
    ASSUME NEW s, IsSequence(s), Whole(s, Len(s)), \A x \in 1..Len(s) : s[x] # Space,
           NEW m \in Nat, m = 0 \/ (m <= Len(s) /\ s[m] = Mark),
           NEW n \in 1..Len(s), s[n] = Mark, m < n,
           NEW k \in Nat, k = m + 1, NEW j \in Nat, j = n - 1, NEW w \in Nat,
           Len(SubSeq(s, k, j)) <= w
    PROVE  Clean(Open(SubSeq(s, k, j), w), w) = SubSeq(s, k, j)
<1> DEFINE p == SubSeq(s, k, j)
<1>0. Len(s) \in Nat
  BY SequenceIs
<1>1. Mark # "lead" /\ Mark # "cont"
  BY Zenon DEF Mark
<1>2. /\ k \in Nat \ {0} /\ j <= Len(s) /\ k <= j + 1 /\ (k = 1 \/ s[k - 1] # "lead")
      /\ s[j + 1] # "cont"
  BY <1>0, <1>1
<1>3. /\ IsSequence(p) /\ Len(p) = j - k + 1 /\ Whole(p, Len(p))
      /\ \A x \in 1..Len(p) : p[x] = s[k + x - 1]
  BY <1>2, WholePart
<1>4. Len(p) <= w
  OBVIOUS
<1> HIDE DEF p
<1>5. \A x \in 1..Len(p) : p[x] # Space
  <2> TAKE x \in 1..Len(p)
  <2>1. k + x - 1 \in 1..Len(s)
    BY <1>0, <1>2, <1>3
  <2> QED
    BY <1>3, <2>1
<1>6. Clean(Open(p, w), w) = p
  BY <1>3, <1>4, <1>5, CleanIs
<1> QED
  BY <1>6 DEF p

\* A code of an identifier, short enough for its field, comes back from the field.
ReadBack(p, w) == Clean(Open(p, w), w) = p
\* p lies in s between m, the mark before it or none, and the mark n.
Between(s, m, n, p) ==
    /\ m \in Nat /\ n \in 1..Len(s) /\ m < n /\ s[n] = Mark
    /\ m = 0 \/ (m <= Len(s) /\ s[m] = Mark)
    /\ p = SubSeq(s, m + 1, n - 1)

LEMMA CodeReadBack ==
    ASSUME NEW s, IsSequence(s), Whole(s, Len(s)), \A x \in 1..Len(s) : s[x] # Space,
           NEW m, NEW n, NEW p, Between(s, m, n, p), NEW w \in Nat, Len(p) <= w
    PROVE  ReadBack(p, w)
<1>0. Len(s) \in Nat
  BY SequenceIs
<1> DEFINE k == m + 1  j == n - 1
<1>1. /\ m \in Nat /\ (m = 0 \/ (m <= Len(s) /\ s[m] = Mark))
      /\ n \in 1..Len(s) /\ s[n] = Mark /\ m < n /\ p = SubSeq(s, k, j)
  BY DEF Between
<1>2. k \in Nat /\ k = m + 1 /\ j \in Nat /\ j = n - 1
  BY <1>0, <1>1
<1> HIDE DEF k, j
<1>3. Len(SubSeq(s, k, j)) <= w
  BY <1>1
<1>4. Clean(Open(SubSeq(s, k, j), w), w) = SubSeq(s, k, j)
  BY <1>1, <1>2, <1>3, CodeBack, SMTT(60)
<1> QED
  BY <1>1, <1>4 DEF ReadBack

\* The parts put together again, with the marks between them.
LEMMA CodesJoin ==
    ASSUME NEW s, IsSequence(s), NEW a \in 1..Len(s), NEW b \in 1..Len(s), NEW c \in 1..Len(s),
           a < b, b < c, s[a] = Mark, s[b] = Mark, s[c] = Mark
    PROVE  SubSeq(s, 1, a - 1) \o <<Mark>> \o SubSeq(s, a + 1, b - 1) \o <<Mark>>
               \o SubSeq(s, b + 1, c - 1) \o <<Mark>> \o SubSeq(s, c + 1, Len(s)) = s
<1>0. Len(s) \in Nat
  BY SequenceIs
<1> DEFINE a0 == a - 1  a1 == a + 1  b0 == b - 1  b1 == b + 1  c0 == c - 1  c1 == c + 1  n == Len(s)
<1>1. /\ a0 \in Nat /\ a \in Nat /\ a1 \in Nat /\ b0 \in Nat /\ b \in Nat /\ b1 \in Nat
      /\ c0 \in Nat /\ c \in Nat /\ c1 \in Nat /\ n \in Nat
      /\ a = a0 + 1 /\ a1 = a + 1 /\ b = b0 + 1 /\ b1 = b + 1 /\ c = c0 + 1 /\ c1 = c + 1
      /\ a0 <= a /\ a <= b0 /\ b0 <= b /\ b <= c0 /\ c0 <= c /\ c <= n
      /\ a <= n /\ b0 <= n /\ b <= n /\ c0 <= n /\ n <= Len(s)
  BY <1>0
<1>2. SubSeq(s, a, a) = <<Mark>> /\ SubSeq(s, b, b) = <<Mark>> /\ SubSeq(s, c, c) = <<Mark>>
  BY OneIs
<1>3. n = Len(s)
  OBVIOUS
<1> HIDE DEF a0, a1, b0, b1, c0, c1, n
<1>4. SubSeq(s, 1, a0) \o SubSeq(s, a, a) = SubSeq(s, 1, a)
  BY <1>1, PartsJoin
<1>5. SubSeq(s, 1, a) \o SubSeq(s, a1, b0) = SubSeq(s, 1, b0)
  BY <1>1, PartsJoin
<1>6. SubSeq(s, 1, b0) \o SubSeq(s, b, b) = SubSeq(s, 1, b)
  BY <1>1, PartsJoin
<1>7. SubSeq(s, 1, b) \o SubSeq(s, b1, c0) = SubSeq(s, 1, c0)
  BY <1>1, PartsJoin
<1>8. SubSeq(s, 1, c0) \o SubSeq(s, c, c) = SubSeq(s, 1, c)
  BY <1>1, PartsJoin
<1>9. SubSeq(s, 1, c) \o SubSeq(s, c1, n) = SubSeq(s, 1, n)
  BY <1>1, PartsJoin
<1>10. SubSeq(s, 1, n) = s
  BY <1>3, AllIs
<1>11. SubSeq(s, 1, a0) \o <<Mark>> \o SubSeq(s, a1, b0) \o <<Mark>>
               \o SubSeq(s, b1, c0) \o <<Mark>> \o SubSeq(s, c1, n) = s
  BY <1>2, <1>4, <1>5, <1>6, <1>7, <1>8, <1>9, <1>10
<1> QED
  BY <1>11 DEF a0, a1, b0, b1, c0, c1, n

\* What an identifier must be for its codes to make it up again.
PlainSid(s) ==
    /\ Whole(s, Len(s)) /\ \A x \in DOMAIN s : s[x] # Space /\ s[x] # ":"
    /\ \A x \in DOMAIN Sid2Nslc(s).chan : Sid2Nslc(s).chan[x] # Mark

LEMMA IdentifierBack ==
    ASSUME NEW s, IsSequence(s), Len(s) < SidLen, PlainSid(s),
           Sid2Nslc(s) # NoCodes, CodesFit(Sid2Nslc(s))
    PROVE  RecordSid(HeaderCodes(Sid2Nslc(s))) = s
<1> DEFINE a == MarkAfter(s, 0)  b == MarkAfter(s, a)  c == MarkAfter(s, b)
           net == SubSeq(s, 1, a - 1)  sta == SubSeq(s, a + 1, b - 1)  loc == SubSeq(s, b + 1, c - 1)
           rest == SubSeq(s, c + 1, Len(s))  chan == ChanCode(rest)
           codes == [net |-> net, sta |-> sta, loc |-> loc, chan |-> chan]
<1>0. Len(s) \in Nat /\ DOMAIN s = 1..Len(s)
  BY SequenceIs
<1>1. Sid2Nslc(s) = Split(s)
  BY SplitIs, Zenon DEF PlainSid
<1>2. Cardinality(Marks(s)) = 5
  BY <1>1, Zenon DEF Split
<1>3. Sid2Nslc(s) = codes
  BY <1>1, <1>2, Zenon DEF Split
<1>4. /\ a \in 1..Len(s) /\ b \in 1..Len(s) /\ c \in 1..Len(s) /\ a < b /\ b < c
      /\ s[a] = Mark /\ s[b] = Mark /\ s[c] = Mark
      /\ \E x \in 1..Len(s) : x > c /\ s[x] = Mark
  BY <1>2, MarksAre
<1> HIDE DEF a, b, c
<1>5. /\ Whole(s, Len(s)) /\ \A x \in 1..Len(s) : s[x] # Space
  BY <1>0, Zenon DEF PlainSid
<1>6. Len(net) <= 2 /\ Len(sta) <= 5 /\ Len(loc) <= 2 /\ Len(chan) = 3
  <2> HIDE DEF net, sta, loc, chan
  <2> QED
    BY <1>3 DEF CodesFit
<1>7. \A x \in DOMAIN chan : chan[x] # Mark
  <2> HIDE DEF chan
  <2> QED
    BY <1>3 DEF PlainSid
<1>8. /\ Clean(Open(net, 2), 2) = net /\ Clean(Open(sta, 5), 5) = sta
      /\ Clean(Open(loc, 2), 2) = loc
  <2>1. Between(s, 0, a, net) /\ Between(s, a, b, sta) /\ Between(s, b, c, loc)
    BY <1>0, <1>4 DEF Between
  <2> HIDE DEF net, sta, loc
  <2>2. 2 \in Nat /\ 5 \in Nat
    OBVIOUS
  <2>3. ReadBack(net, 2) /\ ReadBack(sta, 5) /\ ReadBack(loc, 2)
    BY <1>5, <1>6, <2>1, <2>2, CodeReadBack
  <2> QED
    BY <2>3 DEF ReadBack
<1>9. IsSequence(rest) /\ Whole(rest, Len(rest)) /\ \E x \in DOMAIN rest : rest[x] = Mark
  <2> DEFINE c1 == c + 1  n == Len(s)
  <2>1. /\ c1 \in Nat \ {0} /\ n \in Nat /\ n <= Len(s) /\ c1 <= n + 1 /\ c1 - 1 = c /\ n = Len(s)
    BY <1>0, <1>4
  <2>2. s[c] # "lead"
    BY <1>4, Zenon DEF Mark
  <2> HIDE DEF c1, n
  <2>3. LET p == SubSeq(s, c1, n)
        IN  /\ IsSequence(p) /\ Len(p) = n - c1 + 1 /\ Whole(p, Len(p))
            /\ \A x \in 1..Len(p) : p[x] = s[c1 + x - 1]
    BY <1>5, <2>1, <2>2, WholePart
  <2>4. rest = SubSeq(s, c1, n)
    BY DEF c1, n
  <2> HIDE DEF rest
  <2>5. PICK x \in 1..Len(s) : x > c /\ s[x] = Mark
    BY <1>4
  <2> DEFINE y == x - c
  <2>6. y \in 1..n - c1 + 1 /\ c1 + y - 1 = x
    BY <1>4, <2>1, <2>5
  <2> HIDE DEF y
  <2>7. rest[y] = Mark /\ y \in DOMAIN rest
    <3>1. DOMAIN rest = 1..Len(rest)
      BY <2>3, <2>4, SequenceIs
    <3> QED
      BY <2>3, <2>4, <2>5, <2>6, <3>1
  <2> QED
    BY <2>3, <2>4, <2>7
<1> HIDE DEF rest
<1>10. IsExtended(rest) /\ chan = Seed(rest)
  <2>1. CASE IsExtended(rest)
    BY <2>1, Zenon DEF ChanCode
  <2>2. CASE ~IsExtended(rest)
    <3>1. chan = rest
      BY <2>2, Zenon DEF ChanCode
    <3> QED
      BY <1>7, <1>9, <3>1
  <2> QED
    BY <2>1, <2>2
<1>11. Extended(Open(chan, 3)) = rest
  BY <1>9, <1>10, CodesOfThree
<1>12. net \o <<Mark>> \o sta \o <<Mark>> \o loc \o <<Mark>> \o rest = s
  <2>1. rest = SubSeq(s, c + 1, Len(s))
    BY DEF rest
  <2> QED
    BY <1>4, <2>1, CodesJoin, Zenon
<1> HIDE DEF net, sta, loc, chan
<1>13. RecordSid(HeaderCodes(codes)) =
         Nslc2Sid([net |-> net, sta |-> sta, loc |-> loc, chan |-> rest], SidLen)
  BY <1>8, <1>11 DEF RecordSid, HeaderCodes
<1>14. Nslc2Sid([net |-> net, sta |-> sta, loc |-> loc, chan |-> rest], SidLen) = s
  <2>1. Len(rest) # 3
    BY <1>10 DEF IsExtended
  <2>2. ~(Len(s) >= SidLen)
    <3>1. SidLen \in Nat
      BY SidAssumption
    <3> QED
      BY <1>0, <3>1
  <2> QED
    BY <1>12, <2>1, <2>2 DEF Nslc2Sid
<1> QED
  BY <1>3, <1>13, <1>14

-----------------------------------------------------------------------------
(* Identifiers and rates are read *)

LEMMA RatioIs == ASSUME NEW p, NEW q PROVE Ratio(p, q) # NotThere
  BY DEF Ratio, Lowest, NotThere

\* What stands behind the last colon, with no colon.
LEMMA PlainIs ==
    ASSUME NEW s, IsSequence(s), Plain(s) PROVE PlainSid(s)
  BY Zenon DEF Plain, PlainSid

\* The rate of a header: in single precision, or by factors close enough.
LEMMA RateIs ==
    LET b == ExactRate(Factors)
        r == IF b # NotThere THEN b ELSE NomSampRate(Factors[1], Factors[2])
    IN  r = FloatOf(job.rate) \/ ~Apart(job.rate, r, Different)
<1> DEFINE f == FloatOf(job.rate)  nom == NomSampRate(Factors[1], Factors[2])
           b == ExactRate(Factors)
           apart == Apart(job.rate, nom, Different)
           r == IF b # NotThere THEN b ELSE nom
<1>1. f # NotThere
  BY RatioIs, Zenon DEF FloatOf
<1>2. b = IF apart THEN f ELSE NotThere
  BY Zenon DEF ExactRate
<1>3. CASE apart
  <2>1. b = f
    BY <1>2, <1>3, Zenon
  <2>2. r = f
    BY <1>1, <2>1, Zenon
  <2> QED
    BY <2>2, Zenon
<1>4. CASE ~apart
  <2>1. b = NotThere
    BY <1>2, <1>4, Zenon
  <2>2. r = nom
    BY <2>1, Zenon
  <2> QED
    BY <1>4, <2>2, Zenon
<1> QED
  BY <1>3, <1>4, Zenon

LEMMA InvHeaders == TimesInv => HeaderBack
<1>1. SUFFICES ASSUME TimesInv, phase = "done",
                      NEW x \in Readable \ {y \in DOMAIN back : back[y] = Failed}
               PROVE  IF job.version = 3 THEN back[x].sid = job.sid /\ back[x].rate = job.rate
                      ELSE /\ Plain(job.sid) => back[x].sid = job.sid
                           /\ \/ back[x].rate = FloatOf(job.rate)
                              \/ ~Apart(job.rate, back[x].rate, Different)
  BY Zenon DEF HeaderBack
<1>2. /\ RecordTypeOK /\ JobOK /\ FileDated /\ BackRead
  BY <1>1 DEF TimesInv, SamplesInv, RecordInv, RecordTypeOK
<1>3. x \in DOMAIN back /\ back[x] # Failed
  BY Zenon DEF Readable
<1>4. x \in 1..Len(back) /\ x \in 1..Len(file)
  <2>1. DOMAIN back = 1..Len(back) /\ Len(back) \in Nat
    BY <1>2, SequenceIs DEF RecordTypeOK
  <2>2. Len(file) \in Nat /\ cur \in 1..Len(file) + 1 /\ Len(back) = cur - 1
    BY <1>2, FileIs DEF RecordTypeOK
  <2> QED
    BY <1>3, <2>1, <2>2
<1> DEFINE g == file[x].hdr  b == back[x]
<1>5. SaysOf(b, HdrRead(g)) /\ MadeHeader(g)
  BY <1>2, <1>3, <1>4 DEF FileDated, DatedRecord, BackRead
<1> HIDE DEF g, b
<1>6. PICK h \in Header : AlikeBut(g, h)
  BY <1>5 DEF MadeHeader
<1>7. g.version = job.version
  BY <1>2, <1>6, MadeIs
<1>8. b.sid = HdrRead(g).sid /\ b.rate = HdrRead(g).rate
  <2>1. {"sid", "rate"} \subseteq DOMAIN HdrRead(g) \ {"samples"}
    BY DEF HdrRead, Read3, Read2
  <2> QED
    BY <1>5, <2>1 DEF SaysOf
<1>9. CASE job.version = 3
  <2>1. h = Header3
    BY <1>2, <1>9, HeaderIs
  <2>2. g.sid = job.sid /\ g.rate = job.rate
    BY <1>6, <2>1 DEF Header3, AlikeBut
  <2>3. HdrRead(g).sid = g.sid /\ HdrRead(g).rate = g.rate
    BY <1>7, <1>9 DEF HdrRead, Read3
  <2> QED
    BY <1>8, <1>9, <2>2, <2>3 DEF b
<1>10. CASE job.version # 3
  <2>1. job.version = 2
    BY <1>2, <1>10 DEF JobOK
  <2>2. h = Header2With(Factors, job.extra) /\ Expressible(Codes)
    BY <1>2, <2>1, HeaderIs
  <2>3. /\ g.codes = HeaderCodes(Codes) /\ g.b100 = ExactRate(Factors)
        /\ g.factor = Factors[1] /\ g.multiplier = Factors[2]
    <3>1. /\ {"codes", "b100", "factor", "multiplier"} \subseteq DOMAIN h
          /\ h.codes = HeaderCodes(Codes) /\ h.b100 = ExactRate(Factors)
          /\ h.factor = Factors[1] /\ h.multiplier = Factors[2]
      BY <2>2 DEF Header2With
    <3> QED
      BY <1>6, <3>1 DEF AlikeBut
  <2>4. /\ HdrRead(g).sid = RecordSid(g.codes)
        /\ HdrRead(g).rate = IF g.b100 # NotThere THEN g.b100 ELSE NomSampRate(g.factor, g.multiplier)
    BY <1>7, <2>1 DEF HdrRead, Read2
  <2>5. ASSUME Plain(job.sid) PROVE b.sid = job.sid
    <3>1. PlainSid(job.sid) /\ IsSequence(job.sid) /\ Len(job.sid) < SidLen
      BY <1>2, <2>5, PlainIs DEF JobOK
    <3>2. Sid2Nslc(job.sid) # NoCodes /\ CodesFit(Sid2Nslc(job.sid))
      BY <2>2 DEF Expressible, Codes
    <3>3. RecordSid(HeaderCodes(Sid2Nslc(job.sid))) = job.sid
      BY <3>1, <3>2, IdentifierBack
    <3> QED
      BY <1>8, <2>3, <2>4, <3>3 DEF Codes
  <2>6. b.rate = FloatOf(job.rate) \/ ~Apart(job.rate, b.rate, Different)
    <3>1. b.rate = IF ExactRate(Factors) # NotThere THEN ExactRate(Factors)
                   ELSE NomSampRate(Factors[1], Factors[2])
      BY <1>8, <2>3, <2>4
    <3> QED
      BY <3>1, RateIs, Zenon
  <2> QED
    BY <1>10, <2>5, <2>6 DEF b
<1> QED
  BY <1>9, <1>10

\* HeaderBack: every record read carries the identifier and the rate of the
\* segment: both as they were in version 3; in version 2 the identifier, when
\* it is plain, taken apart into codes, padded and put together again, and the
\* rate to one part of `Different' by its two factors, or else in single
\* precision by blockette 100.
THEOREM HeaderHolds == JobOK /\ RecordSpec => []HeaderBack
  BY TimesInvHolds, InvHeaders, PTL
=============================================================================
