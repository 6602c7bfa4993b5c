--------------------------- MODULE SacTraceProofs ---------------------------
(***************************************************************************)
(* Theorems about SacTrace, for every set of traces and every buffer size. *)
(***************************************************************************)
EXTENDS SacTrace, SequenceTheorems, TLAPS

Word == Nat \X Nat

-----------------------------------------------------------------------------
(* What the loop reads and appends.                                        *)

\* The index is a natural number.
LEMMA IndexIsNat ==
    ASSUME TypeOK
    PROVE  i \in Nat \ {0} /\ Len(list) \in Nat
BY LenProperties DEF TypeOK

\* The packet of the iteration is one of the list, and its words fit into
\* what one reallocation adds.
LEMMA PacketRead ==
    ASSUME TypeOK, i <= Len(list)
    PROVE  /\ Pkt \in Packet
           /\ i \in 1..Len(list)
           /\ Words(Pkt) \in Nat /\ Words(Pkt) <= Grow
           /\ Pkt.n >= 0 => Words(Pkt) = Pkt.n
<1>1. i \in 1..Len(list) /\ list \in Seq(Packet)
  BY DEF TypeOK
<1>2. Pkt \in Packet
  BY <1>1, ElementOfSeq DEF Pkt
<1>3. Pkt.n \in {m \in Int : m <= Grow}
  BY <1>2 DEF Packet
<1>4. Pkt.n \in Int /\ Pkt.n <= Grow
  BY <1>3
<1>5. /\ Words(Pkt) \in Nat /\ Words(Pkt) <= Grow
      /\ Pkt.n >= 0 => Words(Pkt) = Pkt.n
  BY <1>4, SizesAssumption DEF Words
<1> QED
  BY <1>1, <1>2, <1>5

\* A run of samples is a sequence of words of the length asked for.
LEMMA SamplesRun ==
    ASSUME NEW k \in Nat, NEW skip \in Nat, NEW count \in Nat
    PROVE  /\ Samples(k, skip, count) \in Seq(Word)
           /\ Len(Samples(k, skip, count)) = count
           /\ \A x \in 1..count : Samples(k, skip, count)[x] = <<k, skip + x>>
<1>1. \A x \in 1..count : <<k, skip + x>> \in Word
  BY DEF Word
<1> QED
  BY <1>1 DEF Samples

\* A run of fill words likewise.
LEMMA FillRunIs ==
    ASSUME NEW count \in Nat
    PROVE  /\ FillRun(count) \in Seq(Word)
           /\ Len(FillRun(count)) = count
BY DEF FillRun, FillWord, Word

\* Copying in two passes is copying in one, when the second pass starts at
\* the sample where the first one stopped.
LEMMA TwoPasses ==
    ASSUME NEW k \in Nat, NEW a \in Nat, NEW b \in Nat, NEW s \in Seq(Word)
    PROVE  s \o Samples(k, 0, a) \o Samples(k, a, b) = s \o Samples(k, 0, a + b)
<1> DEFINE one == Samples(k, 0, a)
           two == Samples(k, a, b)
           all == Samples(k, 0, a + b)
<1>0. 0 \in Nat /\ a + b \in Nat
  OBVIOUS
<1>1. /\ one \in Seq(Word) /\ Len(one) = a
      /\ \A x \in 1..a : one[x] = <<k, 0 + x>>
  BY <1>0, SamplesRun
<1>2. /\ two \in Seq(Word) /\ Len(two) = b
      /\ \A x \in 1..b : two[x] = <<k, a + x>>
  BY SamplesRun
<1>3. /\ all \in Seq(Word) /\ Len(all) = a + b
      /\ \A x \in 1..a + b : all[x] = <<k, 0 + x>>
  BY <1>0, SamplesRun
<1>4. one \o two = all
  <2> HIDE DEF one, two, all
  <2>1. /\ one \o two \in Seq(Word) /\ Len(one \o two) = a + b
        /\ \A x \in 1..a + b :
              (one \o two)[x] = IF x <= a THEN one[x] ELSE two[x - a]
    BY <1>1, <1>2, ConcatProperties
  <2>2. ASSUME NEW x \in 1..a + b
        PROVE  (one \o two)[x] = all[x]
    <3>1. all[x] = <<k, x>>
      BY <1>3
    <3>2. CASE x <= a
      <4>1. x \in 1..a /\ 0 + x = x
        BY <3>2
      <4> QED
        BY <1>1, <2>1, <3>1, <3>2, <4>1
    <3>3. CASE ~(x <= a)
      <4>1. x - a \in 1..b /\ a + (x - a) = x
        BY <3>3
      <4>2. two[x - a] = <<k, x>>
        BY <1>2, <4>1
      <4> QED
        BY <2>1, <3>1, <3>3, <4>2
    <3> QED
      BY <3>2, <3>3
  <2> QED
    BY <1>3, <2>1, <2>2, SeqEqual
<1>5. (s \o one) \o two = s \o (one \o two)
  <2> HIDE DEF one, two
  <2>1. one \in Seq(Word) /\ two \in Seq(Word)
    BY <1>1, <1>2
  <2> QED
    BY <2>1, ConcatAssociative, SMTT(30)
<1> QED
  BY <1>4, <1>5

\* Appending leaves the words that are there in their places.
LEMMA Appended ==
    ASSUME NEW s \in Seq(Word), NEW t \in Seq(Word)
    PROVE  /\ s \o t \in Seq(Word)
           /\ Len(s \o t) = Len(s) + Len(t)
           /\ Len(s) \in Nat /\ Len(t) \in Nat
           /\ \A x \in 1..Len(s) : (s \o t)[x] = s[x]
           /\ \A x \in 1..Len(t) : (s \o t)[Len(s) + x] = t[x]
<1>1. /\ s \o t \in Seq(Word)
      /\ Len(s \o t) = Len(s) + Len(t)
      /\ \A x \in 1..Len(s) + Len(t) :
            (s \o t)[x] = IF x <= Len(s) THEN s[x] ELSE t[x - Len(s)]
  BY ConcatProperties
<1>2. Len(s) \in Nat /\ Len(t) \in Nat
  BY LenProperties
<1>3. \A x \in 1..Len(t) : /\ Len(s) + x \in 1..Len(s) + Len(t)
                           /\ ~(Len(s) + x <= Len(s))
                           /\ (Len(s) + x) - Len(s) = x
  BY <1>2
<1> QED
  BY <1>1, <1>2, <1>3

LEMMA AppendedLen ==
    ASSUME NEW s \in Seq(Word), NEW t \in Seq(Word)
    PROVE  s \o t \in Seq(Word) /\ Len(s \o t) = Len(s) + Len(t)
BY ConcatProperties

\* Whichever way a packet is stored, all its words are appended and end
\* inside the buffer.
LEMMA StoreEffect ==
    ASSUME TypeOK, WritesInBuffer, StoreFits \/ StoreGrows
    PROVE  /\ out' = out \o Samples(i, 0, Words(Pkt))
           /\ cap' \in Nat
           /\ Len(out) + Words(Pkt) <= cap'
           /\ Stored /\ AtStore /\ Pkt.copyable
<1>0. /\ phase = "store" /\ i \in Nat
      /\ Words(Pkt) \in Nat /\ Words(Pkt) <= Grow
      /\ out \in Seq(Word) /\ Len(out) \in Nat /\ cap \in Nat /\ Len(out) <= cap
      /\ Grow \in Nat
  BY PacketRead, SizesAssumption, LenProperties, IndexIsNat
     DEF TypeOK, WritesInBuffer, StoreFits, StoreGrows, AtStore, Word
<1>1. CASE StoreFits
  BY <1>0, <1>1 DEF StoreFits
<1>2. CASE StoreGrows
  <2> DEFINE w == Words(Pkt)
             l == Len(out)
             first  == Smaller(w, cap - l)
             second == Smaller(w - first, cap' - (l + first))
  <2>1. /\ cap' = cap + Grow
        /\ out' = out \o Samples(i, 0, first) \o Samples(i, first, second)
        /\ Stored /\ AtStore /\ Pkt.copyable
    BY <1>2 DEF StoreGrows
  <2>2. w \in Nat /\ l \in Nat /\ w <= Grow /\ l <= cap
    BY <1>0
  <2>3. /\ first \in Nat /\ second \in Nat /\ first + second = w
        /\ l + w <= cap' /\ cap' \in Nat
    <3> HIDE DEF w, l
    <3> QED
      BY <1>0, <2>1, <2>2 DEF Smaller
  <2>4. out' = out \o Samples(i, 0, first + second)
    <3> HIDE DEF first, second
    <3>1. first \in Nat /\ second \in Nat /\ i \in Nat /\ out \in Seq(Word)
      BY <1>0, <2>3
    <3>2. out \o Samples(i, 0, first) \o Samples(i, first, second)
             = out \o Samples(i, 0, first + second)
      BY <3>1, TwoPasses, Zenon
    <3> QED
      BY <2>1, <3>2
  <2> QED
    BY <2>1, <2>3, <2>4
<1> QED
  BY <1>1, <1>2

\* A fill stays inside the buffer, counts at least what it writes, and is
\* marked in cut when it counts more.
LEMMA FillEffect ==
    ASSUME TypeOK, WritesInBuffer, FillGap
    PROVE  /\ AtHead /\ i > 1 /\ Gap(Pkt)
           /\ phase' = "store" /\ UNCHANGED <<i, reftime, bogus>>
           /\ cap' \in Nat
           /\ \E q \in Nat, written \in Nat :
                 /\ written <= q
                 /\ nsamp' = nsamp + q
                 /\ out' = out \o FillRun(written)
                 /\ Len(out) + written <= cap'
                 /\ cut' = IF written < q THEN cut \union {i} ELSE cut
<1>0. /\ Len(out) \in Nat /\ cap \in Nat /\ Len(out) <= cap /\ Grow \in Nat
      /\ AtHead /\ i > 1 /\ Gap(Pkt)
      /\ phase' = "store" /\ UNCHANGED <<i, reftime, bogus>>
  BY SizesAssumption, LenProperties DEF TypeOK, WritesInBuffer, FillGap, Gap
<1>1. PICK q \in Fills(Pkt) :
        /\ cap' = IF Overflows(q) THEN cap + Grow ELSE cap
        /\ out' = out \o FillRun(Smaller(q, cap' - Len(out)))
        /\ cut' = IF Smaller(q, cap' - Len(out)) < q THEN cut \union {i} ELSE cut
        /\ nsamp' = nsamp + q
  BY DEF FillGap
<1>2. q \in Nat
  BY DEF Fills
<1>3. cap' \in Nat /\ cap <= cap'
  BY <1>0, <1>1
<1> DEFINE written == Smaller(q, cap' - Len(out))
<1>4. written \in Nat /\ written <= q /\ Len(out) + written <= cap'
  BY <1>0, <1>2, <1>3 DEF Smaller
<1> QED
  BY <1>0, <1>1, <1>2, <1>3, <1>4

-----------------------------------------------------------------------------
(* Types and the bound of the buffer.                                      *)

BufferInv == TypeOK /\ WritesInBuffer

LEMMA BufferInit == Init => BufferInv
<1> SUFFICES ASSUME Init PROVE BufferInv
  OBVIOUS
<1>1. list \in Seq(Packet) /\ SortedByEnd(list) /\ Len(list) \in Nat
  BY TracesAssumption, LenProperties DEF Init
<1>2. out = <<>> /\ Len(out) = 0 /\ out \in Seq(Nat \X Nat)
  BY EmptySeq DEF Init
<1>3. TypeOK
  BY <1>1, <1>2, SizesAssumption DEF Init, TypeOK, SACUNDEF
<1>4. WritesInBuffer
  BY <1>2, SizesAssumption DEF Init, WritesInBuffer
<1> QED
  BY <1>3, <1>4 DEF BufferInv

LEMMA BufferStep == BufferInv /\ [Next]_vars => BufferInv'
<1> SUFFICES ASSUME TypeOK, WritesInBuffer, [Next]_vars
             PROVE  TypeOK' /\ WritesInBuffer'
  BY DEF BufferInv
<1>0. /\ i \in Nat \ {0} /\ Len(list) \in Nat
      /\ out \in Seq(Word) /\ Len(out) \in Nat /\ cap \in Nat /\ Len(out) <= cap
      /\ i <= Len(list) =>
            /\ Pkt.start \in Int /\ Pkt.end \in Int /\ Pkt.n \in Int
            /\ Pkt.per \in Nat \ {0}
            /\ Words(Pkt) \in Nat
            /\ i \in 1..Len(list)
  BY IndexIsNat, PacketRead, LenProperties DEF TypeOK, WritesInBuffer, Packet, Word
<1>1. CASE FirstPacket
  BY <1>0, <1>1 DEF TypeOK, WritesInBuffer, FirstPacket, AtHead
<1>2. CASE Follows
  BY <1>0, <1>2 DEF TypeOK, WritesInBuffer, Follows, AtHead
<1>3. CASE SkipDuplicate
  BY <1>0, <1>3 DEF TypeOK, WritesInBuffer, SkipDuplicate, AtHead
<1>4. CASE SkipBogus
  BY <1>0, <1>4 DEF TypeOK, WritesInBuffer, SkipBogus, AtHead
<1>5. CASE FillGap
  <2>1. /\ AtHead /\ phase' = "store" /\ UNCHANGED <<i, reftime, bogus>>
        /\ cap' \in Nat
    BY <1>5, FillEffect
  <2>2. PICK q \in Nat, written \in Nat :
          /\ nsamp' = nsamp + q
          /\ out' = out \o FillRun(written)
          /\ Len(out) + written <= cap'
          /\ cut' = IF written < q THEN cut \union {i} ELSE cut
    BY <1>5, FillEffect
  <2>3. out' \in Seq(Word) /\ Len(out') = Len(out) + written
    <3>1. FillRun(written) \in Seq(Word) /\ Len(FillRun(written)) = written
      BY FillRunIs
    <3>2. out' = out \o FillRun(written) /\ out \in Seq(Word)
      BY <1>0, <2>2
    <3> QED
      BY <3>1, <3>2, AppendedLen
  <2>4. i \in 1..Len(list) /\ list' = list
    BY <1>0, <2>1 DEF AtHead
  <2>5. cut' \subseteq 1..Len(list)
    BY <2>2, <2>4 DEF TypeOK
  <2>6. nsamp' \in Int
    BY <2>2 DEF TypeOK
  <2> QED
    BY <1>0, <2>1, <2>2, <2>3, <2>4, <2>5, <2>6 DEF TypeOK, WritesInBuffer, AtHead, Word
<1>6. CASE FillFails
  BY <1>0, <1>6 DEF TypeOK, WritesInBuffer, FillFails, AtHead
<1>7. CASE SkipUnsupported
  BY <1>0, <1>7 DEF TypeOK, WritesInBuffer, SkipUnsupported, AtStore
<1>8. CASE StoreFits \/ StoreGrows
  <2>1. /\ out' = out \o Samples(i, 0, Words(Pkt))
        /\ cap' \in Nat /\ Len(out) + Words(Pkt) <= cap'
        /\ Stored /\ AtStore
    BY <1>8, StoreEffect
  <2>2. out' \in Seq(Word) /\ Len(out') = Len(out) + Words(Pkt)
    <3>1. Words(Pkt) \in Nat /\ i \in Nat /\ 0 \in Nat
      BY <1>0, <2>1 DEF TypeOK, AtStore
    <3>2. /\ Samples(i, 0, Words(Pkt)) \in Seq(Word)
          /\ Len(Samples(i, 0, Words(Pkt))) = Words(Pkt)
      BY <3>1, SamplesRun
    <3> QED
      BY <1>0, <2>1, <3>2, AppendedLen
  <2>3. i \in 1..Len(list) /\ list' = list
    BY <1>0, <2>1 DEF TypeOK, AtStore
  <2>4. pos' \in [1..Len(list) -> Nat] /\ nsamp' \in Int /\ endtime' \in Int
        /\ i' \in 1..Len(list) + 1
    <3>1. /\ pos' = [pos EXCEPT ![i] = Len(out) + 1] /\ endtime' = Pkt.end
          /\ nsamp' = nsamp + Pkt.n /\ i' = i + 1
      BY <2>1 DEF Stored
    <3>2. pos \in [1..Len(list) -> Nat] /\ nsamp \in Int
      BY DEF TypeOK
    <3>3. Pkt.n \in Int /\ Pkt.end \in Int /\ Len(out) + 1 \in Nat
      BY <1>0, <2>3
    <3>4. pos' \in [1..Len(list) -> Nat]
      BY <3>1, <3>2, <3>3
    <3> QED
      BY <2>3, <3>1, <3>2, <3>3, <3>4
  <2> QED
    BY <1>0, <2>1, <2>2, <2>3, <2>4 DEF TypeOK, WritesInBuffer, Stored, AtStore, Word
<1>9. CASE StoreFails
  <2> DEFINE first == Smaller(Words(Pkt), cap - Len(out))
  <2>1. first \in Nat /\ Len(out) + first <= cap
    BY <1>0, <1>9 DEF TypeOK, StoreFails, AtStore, Smaller
  <2>2. out' \in Seq(Word) /\ Len(out') = Len(out) + first
    <3> HIDE DEF first
    <3>1. first \in Nat /\ i \in Nat /\ 0 \in Nat
      BY <1>0, <2>1
    <3>2. Samples(i, 0, first) \in Seq(Word) /\ Len(Samples(i, 0, first)) = first
      BY <3>1, SamplesRun
    <3>3. out' = out \o Samples(i, 0, first)
      BY <1>9 DEF StoreFails, first
    <3> QED
      BY <1>0, <3>2, <3>3, AppendedLen
  <2> QED
    BY <1>0, <1>9, <2>1, <2>2 DEF TypeOK, WritesInBuffer, StoreFails, AtStore, Word
<1>10. CASE WriteFile
  BY <1>0, <1>10 DEF TypeOK, WritesInBuffer, WriteFile, AtEnd
<1>11. CASE WriteFails \/ OpenFails
  BY <1>0, <1>11 DEF TypeOK, WritesInBuffer, WriteFails, OpenFails, AtEnd
<1>12. CASE UNCHANGED vars
  BY <1>0, <1>12 DEF TypeOK, WritesInBuffer, vars
<1> QED
  BY <1>1, <1>2, <1>3, <1>4, <1>5, <1>6, <1>7, <1>8, <1>9, <1>10, <1>11, <1>12 DEF Next

\* Every behaviour of sacproc_trace_output() keeps its variables in type.
THEOREM TypeCorrect == Spec => []TypeOK
<1>1. Spec => []BufferInv
  BY BufferInit, BufferStep, PTL DEF Spec
<1> QED
  BY <1>1, PTL DEF BufferInv

\* No fill and no copy runs past the end of the output buffer, whatever the
\* sizes of the packets, the gaps and the buffer.
THEOREM NeverOverruns == Spec => []WritesInBuffer
<1>1. Spec => []BufferInv
  BY BufferInit, BufferStep, PTL DEF Spec
<1> QED
  BY <1>1, PTL DEF BufferInv

-----------------------------------------------------------------------------
(* Stored packets stay whole.  WholePackets is not inductive by itself: the *)
(* packets stored so far are those the loop has passed, and their words end *)
(* where the buffer's content ends.                                        *)

WholeInv ==
    /\ \A k \in Kept : /\ k < i
                       /\ pos[k] + Words(list[k]) <= Len(out) + 1
                       /\ \A j \in 1..Words(list[k]) : out[pos[k] + j - 1] = <<k, j>>
    /\ \A j, k \in Kept : j < k => pos[j] + Words(list[j]) <= pos[k]

\* The lengths and places the invariant adds up are natural numbers.
LEMMA PlacesAreNat ==
    ASSUME TypeOK
    PROVE  /\ Len(out) \in Nat /\ out \in Seq(Word)
           /\ \A k \in 1..Len(list) : pos[k] \in Nat /\ Words(list[k]) \in Nat
           /\ \A k \in Kept : k \in 1..Len(list) /\ pos[k] \in Nat \ {0}
                               /\ k \in Nat /\ Words(list[k]) \in Nat
<1>1. /\ Len(out) \in Nat /\ out \in Seq(Word) /\ Len(list) \in Nat
      /\ pos \in [1..Len(list) -> Nat] /\ list \in Seq(Packet)
  BY LenProperties DEF TypeOK, Word
<1>2. ASSUME NEW k \in 1..Len(list)
      PROVE  Words(list[k]) \in Nat
  <2>1. list[k] \in Packet
    BY <1>1, ElementOfSeq
  <2>2. list[k].n \in {m \in Int : m <= Grow}
    BY <2>1 DEF Packet
  <2> QED
    BY <2>2 DEF Words
<1>3. ASSUME NEW k \in Kept
      PROVE  k \in 1..Len(list) /\ pos[k] \in Nat \ {0} /\ k \in Nat
  BY <1>1 DEF Kept
<1>4. \A k \in 1..Len(list) : pos[k] \in Nat
  BY <1>1
<1> QED
  BY <1>1, <1>2, <1>3, <1>4

\* The words of a run of w from place a, a run that ends inside the first l.
LEMMA PlaceInside ==
    ASSUME NEW a \in Nat \ {0}, NEW w \in Nat, NEW l \in Nat, NEW j \in 1..w,
           a + w <= l + 1
    PROVE  a + j - 1 \in 1..l
OBVIOUS

\* A step that stores no packet and leaves the words written in their places
\* preserves the invariant.
LEMMA WholeUntouched ==
    ASSUME TypeOK, WholeInv,
           UNCHANGED <<list, pos>>, i' \in Nat, i <= i',
           Len(out') \in Nat, Len(out) <= Len(out'),
           \A x \in 1..Len(out) : out'[x] = out[x]
    PROVE  WholeInv'
<1>1. Kept' = Kept /\ i \in Nat
  BY IndexIsNat DEF Kept
<1>2. ASSUME NEW k \in Kept
      PROVE  /\ k < i'
             /\ pos[k] + Words(list[k]) <= Len(out') + 1
             /\ \A j \in 1..Words(list[k]) : out'[pos[k] + j - 1] = <<k, j>>
  <2>1. /\ k < i /\ pos[k] + Words(list[k]) <= Len(out) + 1
        /\ \A j \in 1..Words(list[k]) : out[pos[k] + j - 1] = <<k, j>>
    BY DEF WholeInv
  <2>2. /\ k \in Nat /\ pos[k] \in Nat \ {0} /\ Words(list[k]) \in Nat
        /\ Len(out) \in Nat
    BY PlacesAreNat
  <2>3. ASSUME NEW j \in 1..Words(list[k])
        PROVE  out'[pos[k] + j - 1] = <<k, j>>
    <3>1. pos[k] + j - 1 \in 1..Len(out)
      BY <2>1, <2>2, PlaceInside
    <3> QED
      BY <2>1, <3>1
  <2>4. k < i' /\ pos[k] + Words(list[k]) <= Len(out') + 1
    BY <1>1, <2>1, <2>2
  <2> QED
    BY <2>3, <2>4
<1>3. \A j, k \in Kept : j < k => pos[j] + Words(list[j]) <= pos[k]
  BY DEF WholeInv
<1> QED
  BY <1>1, <1>2, <1>3 DEF WholeInv, Words

LEMMA WholeStored ==
    ASSUME TypeOK, WholeInv, Stored, UNCHANGED list, i \in 1..Len(list),
           out' = out \o Samples(i, 0, Words(Pkt))
    PROVE  WholeInv'
<1> DEFINE w == Words(Pkt)
           run == Samples(i, 0, w)
<1>1. /\ i \in Nat /\ 0 \in Nat /\ w \in Nat /\ Len(out) \in Nat
      /\ out \in Seq(Word) /\ list[i] = Pkt
  BY IndexIsNat, PacketRead, PlacesAreNat DEF Pkt
<1>2. /\ run \in Seq(Word) /\ Len(run) = w
      /\ \A x \in 1..w : run[x] = <<i, 0 + x>>
  <2> HIDE DEF w
  <2> QED
    BY <1>1, SamplesRun
<1>3. /\ Len(out') = Len(out) + w
      /\ \A x \in 1..Len(out) : out'[x] = out[x]
      /\ \A x \in 1..w : out'[Len(out) + x] = run[x]
  <2>1. out' = out \o run
    OBVIOUS
  <2> HIDE DEF w, run
  <2>2. /\ Len(out \o run) = Len(out) + Len(run)
        /\ \A x \in 1..Len(out) : (out \o run)[x] = out[x]
        /\ \A x \in 1..Len(run) : (out \o run)[Len(out) + x] = run[x]
    BY <1>1, <1>2, Appended, Zenon
  <2> QED
    BY <1>2, <2>1, <2>2, Zenon
<1>4. /\ pos' = [pos EXCEPT ![i] = Len(out) + 1] /\ i' = i + 1 /\ list' = list
      /\ pos \in [1..Len(list) -> Nat]
  BY DEF Stored, TypeOK
<1>5. ASSUME NEW k \in Kept', k # i
      PROVE  /\ k \in Kept /\ pos'[k] = pos[k] /\ k < i
             /\ k \in Nat /\ pos[k] \in Nat \ {0} /\ Words(list[k]) \in Nat
             /\ pos[k] + Words(list[k]) <= Len(out) + 1
             /\ \A j \in 1..Words(list[k]) : out[pos[k] + j - 1] = <<k, j>>
  <2>1. k \in Kept /\ pos'[k] = pos[k]
    BY <1>4, <1>5 DEF Kept
  <2> QED
    BY <2>1, PlacesAreNat DEF WholeInv
<1>6. pos'[i] = Len(out) + 1
  BY <1>4
<1>7. ASSUME NEW k \in Kept'
      PROVE  /\ k < i'
             /\ pos'[k] + Words(list[k]) <= Len(out') + 1
             /\ \A j \in 1..Words(list[k]) : out'[pos'[k] + j - 1] = <<k, j>>
  <2>1. CASE k = i
    <3>1. \A j \in 1..w : /\ (Len(out) + 1) + j - 1 = Len(out) + j
                          /\ run[j] = <<i, j>>
      BY <1>1, <1>2
    <3>2. Words(list[k]) = w
      BY <1>1, <2>1
    <3> HIDE DEF w, run
    <3>3. \A j \in 1..w : out'[(Len(out) + 1) + j - 1] = <<i, j>>
      BY <1>3, <3>1
    <3>4. k < i' /\ pos'[k] = Len(out) + 1
      BY <1>1, <1>4, <1>6, <2>1
    <3>5. pos'[k] + Words(list[k]) <= Len(out') + 1
      BY <1>1, <1>3, <3>2, <3>4
    <3> QED
      BY <2>1, <3>2, <3>3, <3>4, <3>5
  <2>2. CASE k # i
    <3>1. /\ pos'[k] = pos[k] /\ k < i /\ k \in Nat
          /\ pos[k] \in Nat \ {0} /\ Words(list[k]) \in Nat
          /\ pos[k] + Words(list[k]) <= Len(out) + 1
          /\ \A j \in 1..Words(list[k]) : out[pos[k] + j - 1] = <<k, j>>
      BY <1>5, <2>2
    <3> HIDE DEF w, run
    <3>2. ASSUME NEW j \in 1..Words(list[k])
          PROVE  out'[pos[k] + j - 1] = <<k, j>>
      <4>1. pos[k] + j - 1 \in 1..Len(out)
        BY <1>1, <3>1, PlaceInside
      <4> QED
        BY <1>3, <3>1, <4>1
    <3>3. k < i' /\ pos[k] + Words(list[k]) <= Len(out') + 1
      BY <1>1, <1>3, <1>4, <3>1
    <3> QED
      BY <3>1, <3>2, <3>3
  <2> QED
    BY <2>1, <2>2
<1>8. ASSUME NEW j \in Kept', NEW k \in Kept', j < k
      PROVE  pos'[j] + Words(list[j]) <= pos'[k]
  <2>1. k < i' /\ k \in Nat /\ j \in Nat
    BY <1>4, <1>7, PlacesAreNat DEF Kept
  <2>2. j # i
    BY <1>1, <1>4, <1>8, <2>1
  <2>3. /\ j \in Kept /\ pos'[j] = pos[j]
        /\ pos[j] + Words(list[j]) <= Len(out) + 1
    BY <1>5, <2>2
  <2>4. CASE k = i
    BY <1>6, <2>3, <2>4
  <2>5. CASE k # i
    BY <1>5, <1>8, <2>3, <2>5 DEF WholeInv
  <2> QED
    BY <2>4, <2>5
<1> QED
  BY <1>4, <1>7, <1>8 DEF WholeInv, Words

\* Appending a run of words that belongs to no packet.
LEMMA WholeAppended ==
    ASSUME TypeOK, WholeInv, UNCHANGED <<list, pos>>, i' \in Nat, i <= i',
           NEW t \in Seq(Word), out' = out \o t
    PROVE  WholeInv'
<1>1. out \in Seq(Word) /\ Len(out) \in Nat
  BY PlacesAreNat
<1>2. /\ Len(out \o t) = Len(out) + Len(t) /\ Len(t) \in Nat
      /\ \A x \in 1..Len(out) : (out \o t)[x] = out[x]
  BY <1>1, Appended, Zenon
<1>3. /\ Len(out') \in Nat /\ Len(out) <= Len(out')
      /\ \A x \in 1..Len(out) : out'[x] = out[x]
  BY <1>1, <1>2
<1> QED
  BY <1>3, WholeUntouched

LEMMA WholeStep == BufferInv /\ WholeInv /\ [Next]_vars => WholeInv'
<1> SUFFICES ASSUME TypeOK, WritesInBuffer, WholeInv, [Next]_vars
             PROVE  WholeInv'
  BY DEF BufferInv
<1>0. /\ i \in Nat /\ i + 1 \in Nat /\ i <= i + 1 /\ i <= i
      /\ out \in Seq(Word) /\ Len(out) \in Nat /\ Len(out) <= Len(out)
      /\ i <= Len(list) => i \in 1..Len(list) /\ Words(Pkt) \in Nat
  BY IndexIsNat, PacketRead, PlacesAreNat
<1>1. CASE UNCHANGED <<list, pos, out>> /\ i' \in {i, i + 1}
  BY <1>0, <1>1, WholeUntouched
<1>2. CASE \/ FirstPacket \/ Follows \/ SkipDuplicate \/ SkipBogus
           \/ FillFails \/ SkipUnsupported \/ WriteFile \/ WriteFails
           \/ OpenFails \/ UNCHANGED vars
  BY <1>1, <1>2
     DEF FirstPacket, Follows, SkipDuplicate, SkipBogus, FillFails, AtHead,
         SkipUnsupported, AtStore, WriteFile, WriteFails, OpenFails, AtEnd, vars
<1>3. CASE FillGap
  <2>1. PICK written \in Nat : out' = out \o FillRun(written)
    BY <1>3, FillEffect
  <2>2. UNCHANGED <<list, pos, i>>
    BY <1>3, FillEffect DEF AtHead
  <2>3. FillRun(written) \in Seq(Word)
    BY FillRunIs
  <2> QED
    BY <1>0, <2>1, <2>2, <2>3, WholeAppended
<1>4. CASE StoreFits \/ StoreGrows
  <2>1. out' = out \o Samples(i, 0, Words(Pkt)) /\ Stored /\ AtStore
    BY <1>4, StoreEffect
  <2>2. i \in 1..Len(list) /\ UNCHANGED list
    BY <1>0, <2>1 DEF AtStore, TypeOK
  <2> QED
    BY <2>1, <2>2, WholeStored
<1>5. CASE StoreFails
  <2> DEFINE first == Smaller(Words(Pkt), cap - Len(out))
  <2>1. /\ out' = out \o Samples(i, 0, first) /\ UNCHANGED <<list, pos, i>>
        /\ i <= Len(list)
    BY <1>5 DEF StoreFails, AtStore, TypeOK
  <2>2. first \in Nat
    BY <1>0, <2>1 DEF Smaller, TypeOK, WritesInBuffer
  <2> HIDE DEF first
  <2>3. Samples(i, 0, first) \in Seq(Word)
    BY <1>0, <2>2, SamplesRun
  <2> QED
    BY <1>0, <2>1, <2>3, WholeAppended
<1> QED
  BY <1>2, <1>3, <1>4, <1>5 DEF Next

LEMMA WholeInit == Init => WholeInv
BY DEF Init, WholeInv, Kept

LEMMA WholeImplies == BufferInv /\ WholeInv => WholePackets
<1> SUFFICES ASSUME TypeOK, WholeInv PROVE WholePackets
  BY DEF BufferInv
<1>1. ASSUME NEW k \in Kept, NEW j \in 1..Words(list[k])
      PROVE  pos[k] + j - 1 <= Len(out)
  <2>1. /\ pos[k] + Words(list[k]) <= Len(out) + 1 /\ Len(out) \in Nat
        /\ pos[k] \in Nat \ {0} /\ Words(list[k]) \in Nat
    BY PlacesAreNat DEF WholeInv
  <2> QED
    BY <2>1, PlaceInside
<1> QED
  BY <1>1 DEF WholeInv, WholePackets

\* Every packet that is stored stands in the buffer whole, in order and apart
\* from the others, for every list, gap and way the buffer grows.
THEOREM StoredWhole == Spec => []WholePackets
<1>1. Spec => []BufferInv
  BY BufferInit, BufferStep, PTL DEF Spec
<1>2. Spec => [](BufferInv /\ WholeInv)
  BY <1>1, WholeInit, WholeStep, PTL DEF Spec
<1> QED
  BY <1>2, WholeImplies, PTL

-----------------------------------------------------------------------------
(* The count the header gets.                                              *)

LEMMA CountsInit == Init => CountsAgree
BY EmptySeq DEF Init, CountsAgree

LEMMA CountsStep == BufferInv /\ CountsAgree /\ [Next]_vars => CountsAgree'
<1> SUFFICES ASSUME TypeOK, WritesInBuffer, CountsAgree, [Next]_vars,
                    phase' # "failed", \A k \in 1..Len(list') : list'[k].n >= 0
             PROVE  nsamp' >= Len(out') /\ (cut' = {} => nsamp' = Len(out'))
  BY DEF BufferInv, CountsAgree
<1>1. UNCHANGED list
  BY DEF Next, FirstPacket, Follows, SkipDuplicate, SkipBogus, FillGap,
         FillFails, AtHead, SkipUnsupported, StoreFits, StoreGrows, StoreFails,
         AtStore, WriteFile, WriteFails, OpenFails, AtEnd, vars
<1>2. /\ out \in Seq(Word) /\ Len(out) \in Nat /\ nsamp \in Int
      /\ i \in Nat
      /\ i <= Len(list) => i \in 1..Len(list) /\ Words(Pkt) \in Nat
      /\ (i <= Len(list) /\ Pkt.n >= 0) => Words(Pkt) = Pkt.n
  BY IndexIsNat, PacketRead, PlacesAreNat DEF TypeOK
<1>3. phase # "failed" => nsamp >= Len(out) /\ (cut = {} => nsamp = Len(out))
  BY <1>1 DEF CountsAgree
<1>4. CASE \/ FirstPacket \/ Follows \/ SkipDuplicate \/ SkipBogus
           \/ SkipUnsupported \/ WriteFile \/ OpenFails \/ UNCHANGED vars
  BY <1>3, <1>4
     DEF FirstPacket, Follows, SkipDuplicate, SkipBogus, AtHead,
         SkipUnsupported, AtStore, WriteFile, OpenFails, AtEnd, vars
<1>5. CASE FillFails \/ StoreFails \/ WriteFails
  BY <1>5 DEF FillFails, StoreFails, WriteFails
<1>6. CASE FillGap
  <2>1. PICK q \in Nat, written \in Nat :
          /\ written <= q
          /\ nsamp' = nsamp + q
          /\ out' = out \o FillRun(written)
          /\ cut' = IF written < q THEN cut \union {i} ELSE cut
    BY <1>6, FillEffect
  <2>2. Len(out') = Len(out) + written
    <3>1. FillRun(written) \in Seq(Word) /\ Len(FillRun(written)) = written
      BY FillRunIs
    <3>2. out' = out \o FillRun(written) /\ out \in Seq(Word)
      BY <1>2, <2>1
    <3> QED
      BY <3>1, <3>2, AppendedLen
  <2>3. phase # "failed"
    BY <1>6 DEF FillGap, AtHead
  <2>4. nsamp' >= Len(out')
    BY <1>2, <1>3, <2>1, <2>2, <2>3
  <2>5. ASSUME cut' = {} PROVE nsamp' = Len(out')
    <3>1. cut = {} /\ ~(written < q)
      BY <2>1, <2>5
    <3>2. written = q
      BY <2>1, <3>1
    <3> QED
      BY <1>3, <2>1, <2>2, <2>3, <3>1, <3>2
  <2> QED
    BY <2>4, <2>5
<1>7. CASE StoreFits \/ StoreGrows
  <2>1. /\ out' = out \o Samples(i, 0, Words(Pkt)) /\ Stored /\ AtStore
    BY <1>7, StoreEffect
  <2>2. i \in 1..Len(list) /\ phase # "failed" /\ cut' = cut
    BY <1>2, <2>1 DEF AtStore, TypeOK
  <2>3. Pkt.n >= 0
    BY <1>1, <2>2 DEF Pkt
  <2>4. Words(Pkt) = Pkt.n /\ Words(Pkt) \in Nat
    BY <1>2, <2>2, <2>3
  <2>5. /\ Samples(i, 0, Words(Pkt)) \in Seq(Word)
        /\ Len(Samples(i, 0, Words(Pkt))) = Words(Pkt)
    BY <1>2, <2>4, SamplesRun
  <2>6. Len(out') = Len(out) + Words(Pkt)
    BY <1>2, <2>1, <2>5, AppendedLen
  <2>7. nsamp' = nsamp + Words(Pkt)
    BY <2>1, <2>4 DEF Stored
  <2> QED
    BY <1>2, <1>3, <2>2, <2>4, <2>6, <2>7
<1> QED
  BY <1>4, <1>5, <1>6, <1>7 DEF Next

\* npts counts the words of the file, unless a fill was cut short.
THEOREM CountsAreWords == Spec => []CountsAgree
<1>1. Spec => []BufferInv
  BY BufferInit, BufferStep, PTL DEF Spec
<1>2. Spec => [](BufferInv /\ CountsAgree)
  BY <1>1, CountsInit, CountsStep, PTL DEF Spec
<1> QED
  BY <1>2, PTL

-----------------------------------------------------------------------------
(* No packet is stored twice.  endtime bounds the end of every packet that *)
(* was stored, and between the gap test and the copy the packet at hand is *)
(* known to end a sample or more after it.                                 *)

Spans == \A k \in 1..Len(list) : list[k].start <= list[k].end

SpacedInv ==
    Spans =>
        /\ \A k \in Kept : k < i /\ list[k].end <= endtime
        /\ \A j, k \in Kept : j < k => list[j].end + list[k].per <= list[k].end
        /\ (phase = "store" /\ Kept # {}) => endtime + Pkt.per <= Pkt.end

LEMMA SpacedInit == Init => SpacedInv
BY DEF Init, SpacedInv, Kept

LEMMA SpacedStep == BufferInv /\ SpacedInv /\ [Next]_vars => SpacedInv'
<1> SUFFICES ASSUME TypeOK, WritesInBuffer, SpacedInv, [Next]_vars, Spans'
             PROVE  /\ \A k \in Kept' : k < i' /\ list'[k].end <= endtime'
                    /\ \A j, k \in Kept' : j < k =>
                          list'[j].end + list'[k].per <= list'[k].end
                    /\ (phase' = "store" /\ Kept' # {}) =>
                          endtime' + list'[i'].per <= list'[i'].end
  BY DEF BufferInv, SpacedInv, Pkt
<1>1. UNCHANGED list
  BY DEF Next, FirstPacket, Follows, SkipDuplicate, SkipBogus, FillGap,
         FillFails, AtHead, SkipUnsupported, StoreFits, StoreGrows, StoreFails,
         AtStore, WriteFile, WriteFails, OpenFails, AtEnd, vars
<1>2. /\ Spans
      /\ \A k \in Kept : k < i /\ list[k].end <= endtime
      /\ \A j, k \in Kept : j < k => list[j].end + list[k].per <= list[k].end
      /\ (phase = "store" /\ Kept # {}) => endtime + Pkt.per <= Pkt.end
  BY <1>1 DEF SpacedInv, Spans
<1>3. /\ i \in Nat \ {0} /\ endtime \in Int
      /\ \A k \in 1..Len(list) : /\ k \in Nat /\ list[k].end \in Int
                                /\ list[k].start \in Int /\ list[k].per \in Nat \ {0}
      /\ pos \in [1..Len(list) -> Nat]
      /\ Kept \subseteq 1..Len(list)
  <2>1. list \in Seq(Packet) /\ Len(list) \in Nat
    BY IndexIsNat DEF TypeOK
  <2>2. ASSUME NEW k \in 1..Len(list)
        PROVE  /\ k \in Nat /\ list[k].end \in Int
               /\ list[k].start \in Int /\ list[k].per \in Nat \ {0}
    <3>1. list[k] \in Packet /\ k \in Nat
      BY <2>1, ElementOfSeq
    <3> QED
      BY <3>1 DEF Packet
  <2>3. i \in Nat \ {0} /\ endtime \in Int /\ pos \in [1..Len(list) -> Nat]
    BY IndexIsNat DEF TypeOK
  <2>4. Kept \subseteq 1..Len(list)
    BY DEF Kept
  <2> QED
    BY <2>2, <2>3, <2>4
<1>4. ASSUME UNCHANGED <<pos, endtime>>, i' \in {i, i + 1},
             (phase' = "store" /\ Kept # {}) =>
                 i' = i /\ endtime + Pkt.per <= Pkt.end
      PROVE  /\ \A k \in Kept' : k < i' /\ list'[k].end <= endtime'
             /\ \A j, k \in Kept' : j < k =>
                   list'[j].end + list'[k].per <= list'[k].end
             /\ (phase' = "store" /\ Kept' # {}) =>
                   endtime' + list'[i'].per <= list'[i'].end
  <2>1. Kept' = Kept
    BY <1>1, <1>4 DEF Kept
  <2>2. \A k \in Kept : k < i'
    BY <1>2, <1>3, <1>4
  <2> QED
    BY <1>1, <1>2, <1>4, <2>1, <2>2 DEF Pkt
<1>5. CASE \/ SkipDuplicate \/ SkipBogus \/ FillFails \/ SkipUnsupported
           \/ StoreFails \/ WriteFile \/ WriteFails \/ OpenFails
           \/ UNCHANGED vars
  BY <1>2, <1>4, <1>5
     DEF SkipDuplicate, SkipBogus, FillFails, AtHead, SkipUnsupported,
         StoreFails, AtStore, WriteFile, WriteFails, OpenFails, AtEnd, vars
<1>6. CASE FirstPacket
  <2>1. Kept = {}
    BY <1>2, <1>3, <1>6 DEF FirstPacket
  <2> QED
    BY <1>4, <1>6, <2>1 DEF FirstPacket, AtHead
<1>7. CASE Follows
  <2>1. i \in 1..Len(list) /\ UNCHANGED <<pos, endtime, i>>
        /\ ~Gap(Pkt) /\ ~Duplicate(Pkt) /\ i > 1
    BY <1>3, <1>7, IndexIsNat DEF Follows, AtHead
  <2>2. endtime + Pkt.per <= Pkt.end
    BY <1>3, <2>1 DEF Duplicate, Pkt
  <2> QED
    BY <1>4, <2>1, <2>2
<1>8. CASE FillGap
  <2>1. i \in 1..Len(list) /\ UNCHANGED <<pos, endtime, i>> /\ Gap(Pkt)
    BY <1>3, <1>8, IndexIsNat DEF FillGap, AtHead
  <2>2. endtime + 2 * Pkt.per < Pkt.start /\ Pkt.start <= Pkt.end
    BY <1>2, <2>1 DEF Gap, Spans, Pkt
  <2>3. /\ Pkt.per \in Nat \ {0} /\ Pkt.start \in Int /\ Pkt.end \in Int
        /\ endtime \in Int
    BY <1>3, <2>1 DEF Pkt
  <2>4. endtime + Pkt.per <= Pkt.end
    BY <2>2, <2>3
  <2> QED
    BY <1>4, <2>1, <2>4
<1>9. CASE StoreFits \/ StoreGrows
  <2>1. Stored /\ phase = "store" /\ i \in 1..Len(list)
    BY <1>3, <1>9, IndexIsNat DEF StoreFits, StoreGrows, AtStore, TypeOK
  <2>2. Kept' = Kept \union {i}
    <3>1. pos' = [pos EXCEPT ![i] = Len(out) + 1] /\ Len(out) + 1 > 0
      BY <2>1, PlacesAreNat DEF Stored
    <3> QED
      BY <1>1, <1>3, <2>1, <3>1 DEF Kept
  <2>3. /\ endtime' = list[i].end /\ i' = i + 1 /\ phase' = "head"
    BY <2>1 DEF Stored, Pkt
  <2>4. ASSUME NEW k \in Kept
        PROVE  /\ list[k].end + list[i].per <= list[i].end
               /\ k < i /\ k \in 1..Len(list)
    BY <1>2, <1>3, <2>1 DEF Pkt
  <2>5. ASSUME NEW k \in Kept'
        PROVE  k < i' /\ list'[k].end <= endtime'
    BY <1>1, <1>3, <2>1, <2>2, <2>3, <2>4
  <2>6. ASSUME NEW j \in Kept', NEW k \in Kept', j < k
        PROVE  list'[j].end + list'[k].per <= list'[k].end
    <3>1. CASE k = i
      BY <1>1, <1>3, <2>1, <2>2, <2>4, <2>6, <3>1
    <3>2. CASE k # i
      <4>1. k \in Kept /\ j # i
        BY <1>3, <2>1, <2>2, <2>4, <2>6, <3>2
      <4> QED
        BY <1>1, <1>2, <2>2, <2>6, <4>1
    <3> QED
      BY <3>1, <3>2
  <2> QED
    BY <2>3, <2>5, <2>6
<1> QED
  BY <1>5, <1>6, <1>7, <1>8, <1>9 DEF Next

\* No packet, and no second copy of one, is stored after a packet that ends
\* less than a sample before it.
THEOREM NeverTwice == Spec => []NoDuplicateKept
<1>1. Spec => []BufferInv
  BY BufferInit, BufferStep, PTL DEF Spec
<1>2. Spec => [](BufferInv /\ SpacedInv)
  BY <1>1, SpacedInit, SpacedStep, PTL DEF Spec
<1>3. SpacedInv => NoDuplicateKept
  BY DEF SpacedInv, NoDuplicateKept, Spans
<1> QED
  BY <1>2, <1>3, PTL
-----------------------------------------------------------------------------
(* A bogus gap ends the trace.  What makes a gap bogus stays as it was      *)
(* when the packet is dropped, and a packet that starts a period later or  *)
(* more has a wider gap.                                                    *)

\* The packets after b start a period of b's after it, at its rate.
Later(b) ==
    \A k \in b+1..Len(list) :
        list[k].per = list[b].per /\ list[k].start >= list[b].start + list[b].per

\* No count is negative before b.
Counted(b) == \A k \in 1..b-1 : list[k].n >= 0

\* While no negative count was added, nsamp_trace is not negative.
CountUp == (\A k \in 1..i-1 : list[k].n >= 0) => nsamp >= 0

\* The conversion is where packet b was dropped.
StuckAt(b) ==
    /\ b < i /\ 1 < i /\ phase # "store" /\ nsamp >= 0
    /\ \A k \in b+1..Len(list) : k \notin Kept
    /\ endtime + 2 * list[b].per < list[b].start
    /\ \E q \in Nat : /\ q * list[b].per <= list[b].start - endtime
                      /\ Overflows(q) /\ IsBogus(q)

StuckInv == CountUp /\ \A b \in bogus : Counted(b) /\ Later(b) => StuckAt(b)

LEMMA StuckInit == Init => StuckInv
BY DEF Init, StuckInv, CountUp

LEMMA CountUpStep == BufferInv /\ CountUp /\ [Next]_vars => CountUp'
<1> SUFFICES ASSUME TypeOK, CountUp, [Next]_vars,
                    \A k \in 1..i'-1 : list'[k].n >= 0
             PROVE  nsamp' >= 0
  BY DEF BufferInv, CountUp
<1>1. UNCHANGED list
  BY DEF Next, FirstPacket, Follows, SkipDuplicate, SkipBogus, FillGap,
         FillFails, AtHead, SkipUnsupported, StoreFits, StoreGrows, StoreFails,
         AtStore, WriteFile, WriteFails, OpenFails, AtEnd, vars
<1>2. i \in Nat \ {0} /\ Len(list) \in Nat /\ nsamp \in Int
  BY IndexIsNat DEF TypeOK
<1>3. ASSUME i' \in {i, i + 1} PROVE nsamp >= 0
  <2>1. ASSUME NEW k \in 1..i-1 PROVE list[k].n >= 0
    <3>1. PICK m \in Nat : i' = m /\ i <= m
      BY <1>2, <1>3
    <3>2. k \in 1..m-1
      BY <1>2, <3>1
    <3>3. list'[k].n >= 0
      BY <3>1, <3>2
    <3> QED
      BY <1>1, <3>3
  <2> QED
    BY <2>1 DEF CountUp
<1>4. CASE FillGap
  <2>1. i' = i
    BY <1>4 DEF FillGap
  <2>2. PICK q \in Fills(Pkt) : nsamp' = nsamp + q
    BY <1>4 DEF FillGap
  <2>3. q \in Nat
    <3>1. Pkt \in Packet /\ endtime \in Int
      BY <1>4, <1>2, PacketRead DEF TypeOK, FillGap, AtHead, Pkt
    <3> QED
      BY <2>2, <3>1 DEF Fills, Packet
  <2> QED
    BY <1>2, <1>3, <2>1, <2>2, <2>3
<1>5. CASE StoreFits \/ StoreGrows
  <2>1. i' = i + 1 /\ nsamp' = nsamp + list[i].n
    BY <1>5 DEF StoreFits, StoreGrows, Stored, Pkt
  <2>2. list[i].n >= 0
    BY <1>1, <1>2, <2>1
  <2>3. list[i].n \in Int
    BY <1>5, <1>2, PacketRead DEF TypeOK, StoreFits, StoreGrows, AtStore, Packet, Pkt
  <2> QED
    BY <1>2, <1>3, <2>1, <2>2, <2>3
<1>6. CASE ~(FillGap \/ StoreFits \/ StoreGrows)
  <2>1. UNCHANGED nsamp /\ i' \in {i, i + 1}
    BY <1>6 DEF Next, FirstPacket, Follows, SkipDuplicate, SkipBogus,
         FillFails, AtHead, SkipUnsupported, StoreFails,
         AtStore, WriteFile, WriteFails, OpenFails, AtEnd, vars
  <2> QED
    BY <1>3, <2>1
<1> QED
  BY <1>4, <1>5, <1>6

\* The wider of two gaps takes at least as many samples.
LEMMA WiderGap ==
    ASSUME NEW per \in Nat \ {0}, NEW q \in Nat, NEW r \in Nat, NEW gap \in Int,
           q * per <= gap, gap + per <= (r + 1) * per
    PROVE  q <= r
<1> SUFFICES ASSUME r + 1 <= q PROVE FALSE
  OBVIOUS
<1>1. (r + 1) * per <= q * per
  <2>1. PICK d \in Nat : q = (r + 1) + d
    <3>1. q - (r + 1) \in Nat /\ q = (r + 1) + (q - (r + 1))
      OBVIOUS
    <3> QED
      BY <3>1
  <2>2. q * per = (r + 1) * per + d * per /\ d * per \in Nat
    BY <2>1
  <2>3. (r + 1) * per \in Int
    OBVIOUS
  <2> QED
    BY <2>2, <2>3
<1>2. q * per \in Int /\ (r + 1) * per \in Int
  OBVIOUS
<1> QED
  BY <1>1, <1>2

\* After a packet that was dropped, every gap is bogus.
LEMMA AllGapsBogus ==
    ASSUME TypeOK, NEW b \in 1..Len(list), Later(b), StuckAt(b), i <= Len(list)
    PROVE  /\ Gap(Pkt)
           /\ \A r \in Fills(Pkt) : Overflows(r) /\ IsBogus(r)
<1>1. /\ i \in b+1..Len(list) /\ 1 < i /\ endtime \in Int /\ nsamp \in Int /\ cap \in Nat
  BY IndexIsNat DEF StuckAt, TypeOK
<1>2. /\ list[b].per \in Nat \ {0} /\ list[b].start \in Int
      /\ Pkt.per = list[b].per /\ Pkt.start \in Int
      /\ Pkt.start >= list[b].start + list[b].per
  <2>1. list[b] \in Packet /\ Pkt \in Packet
    BY PacketRead, ElementOfSeq DEF TypeOK
  <2> QED
    BY <1>1, <2>1 DEF Later, Pkt, Packet
<1>3. Gap(Pkt)
  <2> DEFINE start == list[b].start
             per == list[b].per
  <2>1. endtime + 2 * per < start
    BY DEF StuckAt
  <2>2. /\ endtime \in Int /\ start \in Int /\ per \in Nat
        /\ Pkt.per = per /\ Pkt.start \in Int /\ Pkt.start >= start + per
    BY <1>1, <1>2
  <2> HIDE DEF start, per
  <2>3. endtime + 2 * Pkt.per < Pkt.start
    BY <2>1, <2>2
  <2> QED
    BY <1>1, <2>3 DEF Gap
<1>4. ASSUME NEW r \in Fills(Pkt)
      PROVE  Overflows(r) /\ IsBogus(r)
  <2> DEFINE gap == list[b].start - endtime
             per == list[b].per
  <2>1. r \in Nat /\ Pkt.start - endtime <= (r + 1) * per
    BY <1>1, <1>2 DEF Fills
  <2>2. PICK q \in Nat : q * per <= gap /\ Overflows(q) /\ IsBogus(q)
    BY DEF StuckAt
  <2>3. gap \in Int /\ per \in Nat \ {0}
    BY <1>1, <1>2
  <2>4. gap + per <= (r + 1) * per
    <3>1. gap + per <= Pkt.start - endtime
      BY <1>1, <1>2
    <3>2. gap + per \in Int /\ Pkt.start - endtime \in Int
      BY <1>1, <1>2, <2>3
    <3>3. (r + 1) * per \in Int
      <4> HIDE DEF per
      <4> QED
        BY <2>1, <2>3
    <3> QED
      BY <2>1, <3>1, <3>2, <3>3
  <2>5. q <= r
    <3> HIDE DEF gap, per
    <3> QED
      BY <2>1, <2>2, <2>3, <2>4, WiderGap
  <2> QED
    BY <1>1, <2>1, <2>2, <2>5, SizesAssumption
    DEF Overflows, IsBogus, Exceeds, NewSize, StuckAt
<1> QED
  BY <1>3, <1>4

LEMMA StuckStep == BufferInv /\ WholeInv /\ StuckInv /\ [Next]_vars => StuckInv'
<1> SUFFICES ASSUME TypeOK, WholeInv, StuckInv, [Next]_vars,
                    NEW b \in bogus', Counted(b)', Later(b)'
             PROVE  StuckAt(b)'
  BY CountUpStep DEF BufferInv, StuckInv
<1>1. UNCHANGED list
  BY DEF Next, FirstPacket, Follows, SkipDuplicate, SkipBogus, FillGap,
         FillFails, AtHead, SkipUnsupported, StoreFits, StoreGrows, StoreFails,
         AtStore, WriteFile, WriteFails, OpenFails, AtEnd, vars
<1>2. i \in Nat \ {0} /\ Len(list) \in Nat /\ endtime \in Int
      /\ Counted(b) /\ Later(b)
  BY <1>1, IndexIsNat DEF Counted, Later, TypeOK
<1>3. CASE b \in bogus
  <2>1. b \in 1..Len(list) /\ StuckAt(b)
    BY <1>2, <1>3 DEF StuckInv, TypeOK
  <2>2. i <= Len(list) => Gap(Pkt) /\ \A r \in Fills(Pkt) : Overflows(r) /\ IsBogus(r)
    BY <1>2, <2>1, AllGapsBogus
  <2>3. ASSUME UNCHANGED <<pos, endtime, nsamp, cap>>, i' \in {i, i + 1}, phase' # "store"
        PROVE  StuckAt(b)'
    <3>1. Kept' = Kept /\ b < i' /\ 1 < i'
      BY <1>1, <1>2, <2>1, <2>3 DEF Kept, StuckAt
    <3>2. \E q \in Nat : /\ q * list[b].per <= list[b].start - endtime
                         /\ Overflows(q)' /\ IsBogus(q)'
      BY <2>1, <2>3 DEF StuckAt, Overflows, IsBogus, Exceeds, NewSize
    <3> QED
      BY <1>1, <2>1, <2>3, <3>1, <3>2 DEF StuckAt
  <2>4. CASE SkipBogus
    BY <2>1, <2>3, <2>4 DEF SkipBogus, AtHead
  <2>5. CASE WriteFile \/ WriteFails \/ OpenFails \/ UNCHANGED vars
    BY <2>1, <2>3, <2>5 DEF WriteFile, WriteFails, OpenFails, AtEnd, vars, StuckAt
  <2>6. ~(FirstPacket \/ Follows \/ SkipDuplicate \/ FillGap \/ FillFails)
    BY <2>1, <2>2 DEF FirstPacket, Follows, SkipDuplicate, Duplicate, FillGap, FillFails,
                      AtHead, StuckAt
  <2>7. ~(SkipUnsupported \/ StoreFits \/ StoreGrows \/ StoreFails)
    BY <2>1 DEF SkipUnsupported, StoreFits, StoreGrows, StoreFails, AtStore, StuckAt
  <2> QED
    BY <2>4, <2>5, <2>6, <2>7 DEF Next
<1>4. CASE b \notin bogus
  <2>1. SkipBogus /\ b = i
    BY <1>4 DEF Next, FirstPacket, Follows, SkipDuplicate, SkipBogus, FillGap,
         FillFails, AtHead, SkipUnsupported, StoreFits, StoreGrows, StoreFails,
         AtStore, WriteFile, WriteFails, OpenFails, AtEnd, vars
  <2>2. /\ phase' = "head" /\ i' = i + 1 /\ UNCHANGED <<pos, endtime, nsamp, cap>>
        /\ Gap(Pkt) /\ i <= Len(list)
    BY <2>1 DEF SkipBogus, AtHead
  <2>3. PICK q \in Fills(Pkt) : Overflows(q) /\ IsBogus(q)
    BY <2>1 DEF SkipBogus
  <2>4. Pkt \in Packet /\ Pkt = list[b]
    BY <2>1, <2>2, PacketRead DEF Pkt
  <2>5. q \in Nat /\ q * Pkt.per <= Pkt.start - endtime
    BY <1>2, <2>4 DEF Fills, Packet
  <2>6. \A k \in b+1..Len(list) : k \notin Kept
    BY <1>2, <2>1 DEF WholeInv
  <2>7. Kept' = Kept
    BY <1>1, <2>2 DEF Kept
  <2>8. Overflows(q)' /\ IsBogus(q)'
    BY <2>2, <2>3 DEF Overflows, IsBogus, Exceeds, NewSize
  <2>9. nsamp >= 0
    BY <1>2, <2>1 DEF StuckInv, CountUp, Counted
  <2> QED
    BY <1>1, <1>2, <2>1, <2>2, <2>4, <2>5, <2>6, <2>7, <2>8, <2>9 DEF StuckAt, Gap
<1> QED
  BY <1>3, <1>4

\* Once a packet was dropped for a bogus gap, none of those is stored that come
\* after it at its rate, whatever they are and however large the buffer is,
\* as long as no packet before it has a negative count.
THEOREM BogusIsFinal == Spec => []BogusEndsTrace
<1>1. Spec => []BufferInv
  BY BufferInit, BufferStep, PTL DEF Spec
<1>2. Spec => [](BufferInv /\ WholeInv)
  BY <1>1, WholeInit, WholeStep, PTL DEF Spec
<1>3. Spec => [](BufferInv /\ WholeInv /\ StuckInv)
  BY <1>2, StuckInit, StuckStep, PTL DEF Spec
<1>4. StuckInv => BogusEndsTrace
  BY DEF StuckInv, StuckAt, Counted, Later, BogusEndsTrace
<1> QED
  BY <1>3, <1>4, PTL

-----------------------------------------------------------------------------
(* From clean packets the series is what its header says.  No gap is seen  *)
(* and nothing is taken for a duplicate but a second copy, so that the     *)
(* words that are there end where the next packet starts.                  *)

\* Where the series ends: the start time of the sample that comes next.
NextTime == reftime + Len(out) * list[1].per

Dated ==
    \A x \in 1..Len(out) :
        /\ period = list[1].per /\ out[x][1] \in 1..Len(list)
        /\ TimeOf(out[x]) = reftime + (x - 1) * list[1].per

Twinned == \A k \in 1..i-1 : k \in Kept \/ \E j \in Kept : list[j] = list[k]

EvenInv ==
    Clean(list) =>
        /\ Dated /\ Twinned
        /\ phase = "store" => Pkt.start = NextTime /\ period = list[1].per
        /\ phase = "head" /\ i = 1 => out = <<>>
        /\ phase = "head" /\ i > 1 =>
              endtime = list[i-1].end /\ endtime + list[1].per = NextTime

\* A packet of a clean trace.
LEMMA CleanPacket ==
    ASSUME TypeOK, Clean(list), NEW k \in 1..Len(list)
    PROVE  /\ list[k].start \in Int /\ list[k].end \in Int /\ list[1].per \in Nat \ {0}
           /\ list[k].copyable /\ list[k].per = list[1].per
           /\ list[k].n \in Nat \ {0}
           /\ list[k].end + list[1].per = list[k].start + list[k].n * list[1].per
           /\ list[k].start <= list[k].end
<1>1. list[k] \in Packet /\ k \in Nat
  BY ElementOfSeq DEF TypeOK
<1>2. /\ list[k].start \in Int /\ list[k].end \in Int /\ list[k].per \in Nat \ {0}
      /\ list[k].n \in Int
  BY <1>1 DEF Packet
<1>3. /\ list[k].copyable /\ list[k].n >= 1 /\ list[k].per = list[1].per
      /\ list[k].end = list[k].start + (list[k].n - 1) * list[k].per
  BY DEF Clean
<1>4. ASSUME NEW per \in Nat \ {0}, NEW n \in Nat \ {0}
      PROVE  (n - 1) * per \in Nat /\ (n - 1) * per + per = n * per
  <2>1. n - 1 \in Nat
    OBVIOUS
  <2> QED
    BY <2>1
<1>5. list[k].n \in Nat \ {0} /\ list[1].per \in Nat \ {0}
  BY <1>2, <1>3
<1>6. /\ (list[k].n - 1) * list[1].per \in Nat
      /\ (list[k].n - 1) * list[1].per + list[1].per = list[k].n * list[1].per
  BY <1>4, <1>5
<1> DEFINE span == (list[k].n - 1) * list[1].per
           whole == list[k].n * list[1].per
<1>7. list[k].end = list[k].start + span /\ span \in Nat /\ span + list[1].per = whole
  BY <1>3, <1>6
<1> HIDE DEF span, whole
<1>8. list[k].end + list[1].per = list[k].start + whole /\ list[k].start <= list[k].end
  BY <1>2, <1>5, <1>7
<1> QED
  BY <1>2, <1>3, <1>5, <1>8 DEF whole

\* Words of the packet that stands where the series ends carry it on.
LEMMA SeriesGoesOn ==
    ASSUME TypeOK, Clean(list), Dated, i \in 1..Len(list),
           Pkt.start = NextTime, period = list[1].per, NEW m \in Nat,
           UNCHANGED <<list, reftime, period>>,
           out' = out \o Samples(i, 0, m)
    PROVE  Dated' /\ NextTime' = NextTime + m * list[1].per
<1> DEFINE per == list[1].per
<1>1. /\ i \in Nat /\ out \in Seq(Word) /\ reftime \in Int /\ per \in Nat
      /\ Pkt.start \in Int /\ Len(out) \in Nat
  BY CleanPacket, LenProperties DEF TypeOK, Word, Pkt
<1>2. /\ Samples(i, 0, m) \in Seq(Word) /\ Len(Samples(i, 0, m)) = m
      /\ \A x \in 1..m : Samples(i, 0, m)[x] = <<i, 0 + x>>
  BY <1>1, SamplesRun
<1>3. /\ Len(out') = Len(out) + m
      /\ \A x \in 1..Len(out) : out'[x] = out[x]
      /\ \A x \in 1..m : out'[Len(out) + x] = <<i, 0 + x>>
  <2> DEFINE run == Samples(i, 0, m)
  <2>1. /\ run \in Seq(Word) /\ Len(run) = m /\ out' = out \o run
        /\ \A x \in 1..m : run[x] = <<i, 0 + x>>
    BY <1>2
  <2> HIDE DEF run
  <2>2. /\ Len(out \o run) = Len(out) + Len(run)
        /\ \A x \in 1..Len(out) : (out \o run)[x] = out[x]
        /\ \A x \in 1..Len(run) : (out \o run)[Len(out) + x] = run[x]
    BY <1>1, <2>1, Appended
  <2> QED
    BY <2>1, <2>2
<1>4. ASSUME NEW a \in Int, NEW b \in Int, NEW c \in Int
      PROVE  (a + b) * c = a * c + b * c /\ a * c \in Int
  OBVIOUS
<1>5. Pkt.start = reftime + Len(out) * per
  BY DEF NextTime
<1> HIDE DEF per
<1>6. ASSUME NEW x \in 1..Len(out')
      PROVE  out'[x][1] \in 1..Len(list) /\ TimeOf(out'[x]) = reftime + (x - 1) * per
  <2>1. CASE x \in 1..Len(out)
    BY <1>3, <2>1 DEF Dated, per
  <2>2. CASE x \notin 1..Len(out)
    <3>1. PICK y \in 1..m : x = Len(out) + y
      <4>1. x - Len(out) \in 1..m /\ x = Len(out) + (x - Len(out))
        BY <1>1, <1>3, <2>2
      <4> QED
        BY <4>1
    <3>2. out'[x] = <<i, y>>
      BY <1>3, <3>1
    <3>3. /\ (Len(out) + (y - 1)) * per = Len(out) * per + (y - 1) * per
          /\ Len(out) * per \in Int /\ (y - 1) * per \in Int
      <4>1. Len(out) \in Int /\ y - 1 \in Int /\ per \in Int
        BY <1>1
      <4> QED
        BY <1>4, <4>1
    <3>4. Len(out) + (y - 1) = x - 1
      BY <1>1, <3>1
    <3> DEFINE before == Len(out) * per
               inside == (y - 1) * per
               all == (x - 1) * per
    <3>5. all = before + inside /\ before \in Int /\ inside \in Int
      BY <3>3, <3>4, Zenon
    <3>6. Pkt.start = reftime + before
      BY <1>5
    <3> HIDE DEF before, inside, all
    <3>7. Pkt.start + inside = reftime + all
      BY <1>1, <3>5, <3>6
    <3> QED
      <4>1. TimeOf(<<i, y>>) = Pkt.start + (y - 1) * Pkt.per
        BY DEF TimeOf, Pkt
      <4>2. Pkt.per = per
        BY CleanPacket DEF Pkt, per
      <4>3. (y - 1) * Pkt.per = inside
        BY <4>2 DEF inside
      <4>4. TimeOf(out'[x]) = reftime + all
        BY <3>2, <3>7, <4>1, <4>3
      <4> QED
        BY <3>2, <4>4 DEF all
  <2> QED
    BY <2>1, <2>2
<1>7. Dated'
  BY <1>6 DEF Dated, TimeOf, per
<1>8. NextTime' = NextTime + m * per
  <2>1. (Len(out) + m) * per = Len(out) * per + m * per
    BY <1>1, <1>4
  <2> DEFINE before == Len(out) * per
             more == m * per
             all == (Len(out) + m) * per
  <2>2. all = before + more /\ before \in Int /\ more \in Int
    BY <1>1, <2>1
  <2>3. NextTime' = reftime + all /\ NextTime = reftime + before
    BY <1>3 DEF NextTime, per
  <2> HIDE DEF before, more, all
  <2> QED
    BY <1>1, <2>2, <2>3 DEF more
<1> QED
  BY <1>7, <1>8 DEF per

LEMMA EvenInit == Init => EvenInv
<1> SUFFICES ASSUME Init PROVE EvenInv
  OBVIOUS
<1>1. out = <<>> /\ Len(out) = 0 /\ i = 1 /\ phase = "head"
  BY EmptySeq DEF Init
<1> QED
  BY <1>1 DEF EvenInv, Dated, Twinned

LEMMA EvenStep == BufferInv /\ EvenInv /\ [Next]_vars => EvenInv'
<1> SUFFICES ASSUME TypeOK, WritesInBuffer, EvenInv, [Next]_vars, Clean(list')
             PROVE  EvenInv'
  BY DEF BufferInv, EvenInv
<1>1. UNCHANGED list
  BY DEF Next, FirstPacket, Follows, SkipDuplicate, SkipBogus, FillGap,
         FillFails, AtHead, SkipUnsupported, StoreFits, StoreGrows, StoreFails,
         AtStore, WriteFile, WriteFails, OpenFails, AtEnd, vars
<1>2. /\ Clean(list) /\ Dated /\ Twinned
      /\ phase = "store" => Pkt.start = NextTime /\ period = list[1].per
      /\ phase = "head" /\ i = 1 => out = <<>>
      /\ phase = "head" /\ i > 1 =>
            endtime = list[i-1].end /\ endtime + list[1].per = NextTime
  BY <1>1 DEF EvenInv
<1>3. i \in Nat \ {0} /\ Len(list) \in Nat /\ endtime \in Int
  BY IndexIsNat DEF TypeOK
<1>4. i \in 1..Len(list) => Pkt.per = list[1].per /\ Pkt.copyable /\ Pkt.n \in Nat
  BY <1>2, CleanPacket DEF Pkt
\* At the top of the loop the packet carries on or is a second copy.
<1>5. ASSUME phase = "head", i > 1, i <= Len(list)
      PROVE  /\ ~Gap(Pkt)
             /\ Duplicate(Pkt) => Pkt = list[i-1] /\ Pkt.end = endtime
             /\ ~Duplicate(Pkt) => Pkt.start = NextTime
  <2>1. i \in 2..Len(list) /\ i \in 1..Len(list) /\ i - 1 \in 1..Len(list)
    BY <1>3, <1>5
  <2>2. endtime = list[i-1].end /\ endtime + list[1].per = NextTime
    BY <1>2, <1>5
  <2>3. /\ Pkt.start \in Int /\ Pkt.end \in Int /\ list[1].per \in Nat \ {0}
        /\ Pkt.per = list[1].per /\ Pkt.start <= Pkt.end
    BY <1>2, <2>1, CleanPacket DEF Pkt
  <2>4. CASE Pkt = list[i-1]
    BY <1>3, <1>5, <2>2, <2>3, <2>4 DEF Gap, Duplicate
  <2>5. CASE Pkt.start = list[i-1].end + list[1].per
    BY <1>3, <1>5, <2>2, <2>3, <2>5 DEF Gap, Duplicate
  <2>6. Pkt = list[i-1] \/ Pkt.start = list[i-1].end + list[1].per
    BY <1>2, <2>1, <2>3 DEF Clean, Pkt
  <2> QED
    BY <2>4, <2>5, <2>6
<1>6. CASE FirstPacket
  <2>1. /\ i = 1 /\ out = <<>> /\ phase' = "store" /\ UNCHANGED <<i, out, pos>>
        /\ i \in 1..Len(list) /\ reftime' = Pkt.start /\ period' = Pkt.per
    BY <1>2, <1>3, <1>6 DEF FirstPacket, AtHead
  <2>2. Len(out') = 0 /\ Pkt' = Pkt /\ Pkt.start \in Int /\ list[1].per \in Nat
    BY <1>1, <1>2, <2>1, CleanPacket, EmptySeq DEF Pkt
  <2>3. NextTime' = Pkt.start
    <3>1. 0 * list[1].per = 0
      BY <2>2
    <3> QED
      BY <1>1, <2>1, <2>2, <3>1 DEF NextTime
  <2>4. Dated' /\ Twinned'
    BY <2>1, <2>2 DEF Dated, Twinned
  <2> QED
    BY <1>1, <1>4, <2>1, <2>2, <2>3, <2>4 DEF EvenInv
<1>7. CASE Follows
  <2>1. /\ phase = "head" /\ i > 1 /\ i <= Len(list) /\ i \in 1..Len(list)
        /\ ~Duplicate(Pkt) /\ phase' = "store" /\ period' = Pkt.per
        /\ UNCHANGED <<i, out, pos, reftime>>
    BY <1>3, <1>7 DEF Follows, AtHead
  <2>2. Pkt' = Pkt /\ NextTime' = NextTime /\ Pkt.start = NextTime
    BY <1>1, <1>5, <2>1 DEF Pkt, NextTime
  <2>3. Dated' /\ Twinned'
    BY <1>1, <1>2, <1>4, <2>1 DEF Dated, Twinned, Kept, TimeOf
  <2> QED
    BY <1>1, <1>4, <2>1, <2>2, <2>3 DEF EvenInv
<1>8. CASE SkipDuplicate
  <2>1. /\ phase = "head" /\ i > 1 /\ i <= Len(list) /\ i \in 1..Len(list)
        /\ Duplicate(Pkt) /\ i' = i + 1 /\ period' = Pkt.per
        /\ UNCHANGED <<phase, endtime, out, pos, reftime>>
    BY <1>3, <1>8 DEF SkipDuplicate, AtHead, Duplicate
  <2>2. list[i] = list[i-1] /\ list[i].end = endtime
    BY <1>5, <2>1 DEF Pkt
  <2>3. Dated' /\ NextTime' = NextTime /\ Kept' = Kept
    BY <1>1, <1>2, <1>4, <2>1 DEF Dated, TimeOf, NextTime, Kept
  <2>4. Twinned'
    <3>1. ASSUME NEW k \in 1..i
          PROVE  k \in Kept \/ \E j \in Kept : list[j] = list[k]
      <4>1. k \in 1..i-1 \/ k = i
        BY <1>3
      <4>2. i - 1 \in Kept \/ \E j \in Kept : list[j] = list[i-1]
        BY <1>2, <1>3, <2>1 DEF Twinned
      <4> QED
        BY <1>2, <2>2, <4>1, <4>2 DEF Twinned
    <3>2. i' - 1 = i
      BY <1>3, <2>1
    <3> QED
      BY <1>1, <2>3, <3>1, <3>2 DEF Twinned
  <2>5. i' - 1 = i /\ i' > 1
    BY <1>3, <2>1
  <2> QED
    BY <1>1, <1>2, <2>1, <2>2, <2>3, <2>4, <2>5 DEF EvenInv
<1>9. CASE SkipBogus \/ FillGap \/ FillFails
  BY <1>5, <1>9 DEF SkipBogus, FillGap, FillFails, AtHead, Gap
<1>10. CASE SkipUnsupported
  <2>1. phase = "store" /\ i \in 1..Len(list) /\ ~Pkt.copyable
    BY <1>3, <1>10 DEF SkipUnsupported, AtStore, TypeOK
  <2> QED
    BY <1>4, <2>1
<1>11. CASE StoreFits \/ StoreGrows
  <2>1. /\ out' = out \o Samples(i, 0, Words(Pkt)) /\ Stored /\ AtStore /\ phase = "store"
        /\ i \in 1..Len(list)
    BY <1>3, <1>11, StoreEffect DEF AtStore, TypeOK
  <2>2. /\ endtime' = Pkt.end /\ phase' = "head" /\ i' = i + 1
        /\ pos' = [pos EXCEPT ![i] = Len(out) + 1]
        /\ UNCHANGED <<list, reftime, period>>
    BY <2>1 DEF Stored, AtStore
  <2>3. Words(Pkt) = Pkt.n /\ Words(Pkt) \in Nat
    BY <1>4, <2>1, PacketRead
  <2>4. Dated' /\ NextTime' = NextTime + Words(Pkt) * list[1].per
    BY <1>2, <2>1, <2>2, <2>3, SeriesGoesOn
  <2>5. Pkt.end + list[1].per = NextTime'
    BY <1>2, <2>1, <2>3, <2>4, CleanPacket DEF Pkt
  <2>6. Kept' = Kept \union {i}
    <3>1. pos \in [1..Len(list) -> Nat] /\ Len(out) + 1 > 0
      BY LenProperties DEF TypeOK
    <3> QED
      BY <1>1, <2>1, <2>2, <3>1 DEF Kept
  <2>7. Twinned'
    <3>1. i' - 1 = i /\ \A k \in 1..i : k \in 1..i-1 \/ k = i
      BY <1>3, <2>2
    <3> QED
      BY <1>1, <1>2, <2>6, <3>1 DEF Twinned
  <2>8. i' - 1 = i /\ i' > 1
    BY <1>3, <2>2
  <2> QED
    BY <1>1, <2>2, <2>4, <2>5, <2>7, <2>8 DEF EvenInv, Pkt
<1>12. CASE StoreFails
  <2> DEFINE m == Smaller(Words(Pkt), cap - Len(out))
  <2>1. /\ phase = "store" /\ i \in 1..Len(list) /\ phase' = "failed"
        /\ out' = out \o Samples(i, 0, m)
        /\ UNCHANGED <<list, reftime, period, i, pos>>
    BY <1>3, <1>12 DEF StoreFails, AtStore, TypeOK
  <2>2. m \in Nat
    <3>1. Words(Pkt) \in Nat /\ Len(out) \in Nat /\ cap \in Nat /\ Len(out) <= cap
      BY <1>3, <2>1, PacketRead, LenProperties DEF TypeOK, WritesInBuffer
    <3> QED
      BY <3>1 DEF Smaller
  <2> HIDE DEF m
  <2>3. Dated'
    BY <1>2, <2>1, <2>2, SeriesGoesOn
  <2>4. Twinned'
    BY <1>2, <2>1 DEF Twinned, Kept
  <2> QED
    BY <2>1, <2>3, <2>4 DEF EvenInv
<1>13. CASE WriteFile \/ WriteFails \/ OpenFails
  <2>1. phase' \notin {"head", "store"} /\ UNCHANGED <<list, i, period, out, reftime, pos>>
    BY <1>13 DEF WriteFile, WriteFails, OpenFails, AtEnd
  <2> QED
    BY <1>2, <2>1 DEF EvenInv, Dated, Twinned, TimeOf, Kept
<1>14. CASE UNCHANGED vars
  BY <1>14 DEF vars, EvenInv, Dated, Twinned, TimeOf, Kept, NextTime, Clean, Pkt
<1> QED
  BY <1>6, <1>7, <1>8, <1>9, <1>10, <1>11, <1>12, <1>13, <1>14 DEF Next

\* From packets at one rate that carry on from each other, with any number of
\* copies of each, the series is evenly spaced and complete, whatever the
\* buffer began with.
THEOREM CleanStaysEven == Spec => []CleanIsEven
<1>1. Spec => []BufferInv
  BY BufferInit, BufferStep, PTL DEF Spec
<1>2. Spec => [](BufferInv /\ EvenInv)
  BY <1>1, EvenInit, EvenStep, PTL DEF Spec
<1>3. EvenInv => CleanIsEven
  BY DEF EvenInv, Dated, Twinned, CleanIsEven
<1> QED
  BY <1>2, <1>3, PTL

=============================================================================
