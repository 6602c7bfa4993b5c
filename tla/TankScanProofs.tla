--------------------------- MODULE TankScanProofs ---------------------------
(***************************************************************************)
(* Theorems about TankScan: for every file, also one with garbled headers, *)
(* and for files of good messages, whose scan implements Catalogue.        *)
(***************************************************************************)
EXTENDS TankScan, SequenceTheorems, FiniteSetTheorems, TLAPS

Entries == [offset : Nat, size : Nat, time : Int]

\* A header that is not slid over is a header, at an offset of the file.
LEMMA HeaderRead ==
    ASSUME TypeOK, phase = "scan"
    PROVE  /\ pos \in 0..TankSize-1 /\ pos \in Nat /\ pos \in DOMAIN tank
           /\ tank[pos] # Junk => /\ tank[pos] \in Header
                                  /\ Size(tank[pos]) \in Int
<1>1. pos \in 0..TankSize-1 /\ tank \in [0..TankSize-1 -> Header \union {Junk}]
  BY DEF TypeOK
<1>2. ASSUME tank[pos] # Junk
      PROVE  tank[pos] \in Header /\ Size(tank[pos]) \in Int
  <2>1. tank[pos] \in Header
    BY <1>1, <1>2
  <2> QED
    BY <2>1, SizesAssumption DEF Header, Size
<1> QED
  BY <1>1, <1>2, SizesAssumption

\* A check leaves a tank of headers and junk.
LEMMA CheckedTank ==
    ASSUME TypeOK, phase = "scan", NEW t \in AfterCheck(pos)
    PROVE  t \in [0..TankSize-1 -> Header \union {Junk}]
<1>1. /\ tank \in [0..TankSize-1 -> Header \union {Junk}]
      /\ DOMAIN tank = 0..TankSize-1 /\ pos \in DOMAIN tank
  BY HeaderRead DEF TypeOK
<1>2. CASE t = tank
  BY <1>1, <1>2
<1>3. CASE tank[pos] # Junk /\ t = [tank EXCEPT ![pos].opposite = FALSE]
  <2>1. tank[pos] \in Header
    BY <1>1, <1>3
  <2>2. [tank[pos] EXCEPT !.opposite = FALSE] \in Header
    BY <2>1 DEF Header
  <2> QED
    BY <1>1, <1>3, <2>2
<1>4. CASE t \in Disturbed(InTheWay(pos))
  <2> DEFINE X == InTheWay(pos)
  <2>1. PICK r \in [X -> Readings] :
          t = [x \in DOMAIN tank |->
                 IF x \in X THEN [tank[x] EXCEPT !.n = r[x].n, !.time = r[x].time,
                                                !.consistent = r[x].consistent]
                            ELSE tank[x]]
    BY <1>4 DEF Disturbed
  <2>2. ASSUME NEW x \in X, x \in DOMAIN tank
        PROVE  [tank[x] EXCEPT !.n = r[x].n, !.time = r[x].time,
                               !.consistent = r[x].consistent] \in Header
    <3>1. tank[x] \in Header
      BY <1>1, <2>2 DEF InTheWay
    <3>2. r[x] \in Readings
      BY <2>1, <2>2, Zenon
    <3>3. r[x] \in [n : Int, consistent : BOOLEAN, time : Int]
      BY <3>2, SizesAssumption, Zenon
    <3>4. r[x].n \in Int /\ r[x].time \in Int /\ r[x].consistent \in BOOLEAN
      BY <3>3
    <3> QED
      BY <3>1, <3>4 DEF Header
  <2>3. \A x \in DOMAIN tank :
          (IF x \in X THEN [tank[x] EXCEPT !.n = r[x].n, !.time = r[x].time,
                                           !.consistent = r[x].consistent]
                      ELSE tank[x]) \in Header \union {Junk}
    BY <1>1, <2>2
  <2> HIDE DEF X
  <2> QED
    BY <1>1, <2>1, <2>3
<1> QED
  BY <1>2, <1>3, <1>4 DEF AfterCheck

\* What looking up a message does to the types of the scan's state.
LEMMA LookedUp ==
    ASSUME TypeOK, phase = "scan", ~Rejected(pos), LookUp(pos)
    PROVE  /\ tank' \in [0..TankSize-1 -> Header \union {Junk}]
           /\ pos' = pos + Size(tank[pos]) /\ pos' \in Int
           /\ known' \subseteq Chans /\ IsFiniteSet(known')
           /\ totaltrace' \in Nat
<1>1. tank[pos] \in Header /\ Size(tank[pos]) \in Int /\ pos \in Nat
  BY HeaderRead DEF Rejected
<1>2. tank' \in [0..TankSize-1 -> Header \union {Junk}]
  BY CheckedTank DEF LookUp
<1>3. tank[pos].chan \in Chans
  BY <1>1 DEF Header
<1>4. known' \subseteq Chans /\ IsFiniteSet(known')
  BY <1>3, FS_AddElement DEF LookUp, TypeOK
<1>5. totaltrace' \in Nat
  BY DEF LookUp, TypeOK
<1>6. pos' = pos + Size(tank[pos]) /\ pos' \in Int
  BY <1>1 DEF LookUp
<1> QED
  BY <1>2, <1>4, <1>5, <1>6

\* Behind a message that is passed over the scan goes on inside the file only.
LEMMA PassedOver ==
    ASSUME TypeOK, phase = "scan", ~Rejected(pos), PassOver(pos)
    PROVE  /\ phase' \in {"scan", "sort", "outside"}
           /\ phase' = "scan" => pos' \in 0..TankSize-1
<1>1. pos' \in Int
  BY LookedUp DEF PassOver
<1> QED
  BY <1>1, SizesAssumption DEF PassOver

\* A message that is not too large has the size its entry gets.
LEMMA EntryType ==
    ASSUME TypeOK, phase = "scan", ~Rejected(pos), ~TooLarge(tank[pos])
    PROVE  Entry(pos) \in Entries
<1>1. tank[pos] \in Header /\ Size(tank[pos]) \in Int /\ pos \in Nat
  BY HeaderRead DEF Rejected
<1>2. Size(tank[pos]) \in Nat /\ tank[pos].time \in Int
  BY <1>1 DEF TooLarge, Header
<1> QED
  BY <1>1, <1>2 DEF Entry, Entries

\* Sorting a list keeps its length and the type of its entries.
LEMMA SortedList ==
    ASSUME NEW s \in Seq(Entries), NEW t \in Promise!Sorts(s)
    PROVE  t \in Seq(Entries) /\ Len(t) = Len(s)
<1>1. Len(s) \in Nat
  BY LenProperties
<1>2. PICK f \in Promise!Bijection(1..Len(s), 1..Len(s)) :
        t = [k \in 1..Len(s) |-> s[f[k]]]
  BY DEF Promise!Sorts
<1>3. f \in [1..Len(s) -> 1..Len(s)]
  BY <1>2 DEF Promise!Bijection, Promise!Injection
<1>4. \A k \in 1..Len(s) : s[f[k]] \in Entries
  BY <1>3, ElementOfSeq
<1> QED
  BY <1>1, <1>2, <1>4

ScanInv == TypeOK /\ SlotFree

LEMMA ScanInit == Init => ScanInv
<1> SUFFICES ASSUME Init PROVE TypeOK /\ SlotFree
  BY DEF ScanInv
<1>1. /\ tank \in [0..TankSize-1 -> Header \union {Junk}]
      /\ pos = 0 /\ 0 \in 0..TankSize-1
      /\ IsFiniteSet({}) /\ <<>> \in Seq(Entries) /\ Len(<<>>) = 0
      /\ <<>> \in Seq(Chans)
  BY TanksAssumption, SizesAssumption, FS_EmptySet DEF Init
<1>2. TypeOK
  BY <1>1, SizesAssumption DEF Init, TypeOK, Entries
<1>3. SlotFree
  BY <1>1, SizesAssumption DEF Init, SlotFree
<1> QED
  BY <1>2, <1>3

LEMMA ScanStep == ScanInv /\ [Next]_vars => ScanInv'
<1> SUFFICES ASSUME TypeOK, SlotFree, [Next]_vars
             PROVE  TypeOK' /\ SlotFree'
  BY DEF ScanInv
<1>1. CASE Slide
  <2>1. /\ phase = "scan" /\ tank' \in AfterCheck(pos)
        /\ pos \in 0..TankSize-1 /\ TankSize \in Nat
    BY <1>1, SizesAssumption DEF Slide, Scanning, TypeOK
  <2>2. tank' \in [0..TankSize-1 -> Header \union {Junk}]
    BY <2>1, CheckedTank
  <2>3. /\ pos' \in Int /\ phase' \in {"scan", "sort"}
        /\ phase' = "scan" => pos' \in 0..TankSize-1
    BY <1>1, <2>1 DEF Slide
  <2> QED
    BY <1>1, <2>2, <2>3 DEF Slide, Scanning, TypeOK, SlotFree
<1>2. CASE Track \/ SlotsFail
  <2> DEFINE c == tank[pos].chan
             full == Len(tlist[c]) + 1 >= maxtbuf[c]
  <2>1. /\ phase = "scan" /\ ~Rejected(pos) /\ ~TooLarge(tank[pos])
        /\ LookUp(pos) /\ (PassOver(pos) \/ phase' = "failed")
        /\ UNCHANGED TraceList
        /\ tlist' = [tlist EXCEPT ![c] = Append(@, Entry(pos))]
        /\ maxtbuf' = IF full THEN [maxtbuf EXCEPT ![c] = 2 * @] ELSE maxtbuf
    BY <1>2 DEF Track, SlotsFail, PassOver, Count, Fills, Accepted, Scanning
  <2>2. /\ tank' \in [0..TankSize-1 -> Header \union {Junk}]
        /\ pos' \in Int /\ phase' \in {"scan", "sort", "outside", "failed"}
        /\ phase' = "scan" => pos' \in 0..TankSize-1
        /\ known' \subseteq Chans /\ IsFiniteSet(known')
        /\ totaltrace' \in Nat
    BY <2>1, LookedUp, PassedOver
  <2>3. c \in Chans
    BY <2>1, HeaderRead DEF Rejected, Header
  <2>4. /\ tlist \in [Chans -> Seq(Entries)] /\ maxtbuf \in [Chans -> Nat]
        /\ Entry(pos) \in Entries
    BY <2>1, EntryType DEF TypeOK, Entries
  <2> HIDE DEF c
  <2>5. /\ tlist[c] \in Seq(Entries) /\ Len(tlist[c]) \in Nat
        /\ Append(tlist[c], Entry(pos)) \in Seq(Entries)
        /\ Len(Append(tlist[c], Entry(pos))) = Len(tlist[c]) + 1
    BY <2>3, <2>4, AppendProperties, LenProperties
  <2>6. tlist' \in [Chans -> Seq(Entries)] /\ maxtbuf' \in [Chans -> Nat]
    BY <2>1, <2>3, <2>4, <2>5
  <2>7. ASSUME NEW d \in Chans
        PROVE  Len(tlist'[d]) < maxtbuf'[d]
    <3>1. Len(tlist[d]) < maxtbuf[d] /\ maxtbuf[d] \in Nat
      BY <2>4 DEF SlotFree
    <3>2. CASE d = c
      <4>1. Len(tlist'[d]) = Len(tlist[d]) + 1
        BY <2>1, <2>3, <2>4, <2>5, <3>2
      <4>2. maxtbuf'[d] = IF full THEN 2 * maxtbuf[d] ELSE maxtbuf[d]
        BY <2>1, <2>3, <2>4, <3>2
      <4> QED
        BY <2>5, <3>1, <3>2, <4>1, <4>2
    <3>3. CASE d # c
      <4>1. tlist'[d] = tlist[d] /\ maxtbuf'[d] = maxtbuf[d]
        BY <2>1, <2>4, <3>3
      <4> QED
        BY <3>1, <4>1
    <3> QED
      BY <3>2, <3>3
  <2> QED
    BY <2>1, <2>2, <2>6, <2>7 DEF TypeOK, SlotFree, Entries
<1>3. CASE PassTooLarge \/ PassInconsistent
  <2>1. /\ phase = "scan" /\ ~Rejected(pos) /\ LookUp(pos) /\ PassOver(pos)
        /\ UNCHANGED <<TraceList, tlist, maxtbuf>>
    BY <1>3 DEF PassOver, PassTooLarge, PassInconsistent, Inconsistent, Scanning
  <2>2. /\ tank' \in [0..TankSize-1 -> Header \union {Junk}]
        /\ pos' \in Int /\ phase' \in {"scan", "sort", "outside"}
        /\ phase' = "scan" => pos' \in 0..TankSize-1
        /\ known' \subseteq Chans /\ IsFiniteSet(known')
        /\ totaltrace' \in Nat
    BY <2>1, LookedUp, PassedOver
  <2> QED
    BY <2>1, <2>2 DEF TypeOK, SlotFree
<1>4. CASE NodeFails
  <2>1. /\ tank' \in [0..TankSize-1 -> Header \union {Junk}] /\ phase' = "failed"
        /\ UNCHANGED <<pos, known, tlist, maxtbuf, totaltrace, TraceList>>
    BY <1>4, CheckedTank DEF NodeFails, Scanning
  <2> QED
    BY <2>1 DEF TypeOK, SlotFree
<1>5. CASE SortAll
  <2>1. /\ phase' = "done" /\ UNCHANGED <<tank, pos, known, maxtbuf, totaltrace>>
        /\ TraceList' \in [1..Cardinality(known) -> known]
        /\ \A c \in Chans : tlist'[c] \in Promise!Sorts(tlist[c])
        /\ tlist' \in [Chans -> UNION {Promise!Sorts(tlist[c]) : c \in Chans}]
    BY <1>5 DEF SortAll
  <2>2. Cardinality(known) \in Nat /\ known \subseteq Chans
    BY FS_CardinalityType DEF TypeOK
  <2>3. TraceList' \in Seq(Chans)
    <3>1. TraceList' \in Seq(known)
      BY <2>1, <2>2
    <3> QED
      BY <2>2, <3>1, SeqMonotonic
  <2>4. tlist \in [Chans -> Seq(Entries)]
    BY DEF TypeOK, Entries
  <2>5. ASSUME NEW c \in Chans
        PROVE  tlist'[c] \in Seq(Entries) /\ Len(tlist'[c]) = Len(tlist[c])
    BY <2>1, <2>4, SortedList
  <2>6. tlist' \in [Chans -> Seq(Entries)]
    BY <2>1, <2>5
  <2> QED
    BY <2>1, <2>3, <2>5, <2>6 DEF TypeOK, SlotFree, Entries
<1>6. CASE SwapPastEnd
  BY <1>6 DEF SwapPastEnd, Scanning, TypeOK, SlotFree
<1>7. CASE UNCHANGED vars
  BY <1>7 DEF vars, TypeOK, SlotFree
<1> QED
  BY <1>1, <1>2, <1>3, <1>4, <1>5, <1>6, <1>7 DEF Next

\* The scan of every file, garbled or not, keeps its variables in type.
THEOREM TypeCorrect == Spec => []TypeOK
<1>1. Spec => []ScanInv
  BY ScanInit, ScanStep, PTL DEF Spec
<1> QED
  BY <1>1, PTL DEF ScanInv

\* Whatever the file holds, the slot the next message is written to exists.
THEOREM SlotsSuffice == Spec => []SlotFree
<1>1. Spec => []ScanInv
  BY ScanInit, ScanStep, PTL DEF Spec
<1> QED
  BY <1>1, PTL DEF ScanInv

-----------------------------------------------------------------------------
(* The tree, its counter and the list of the traces.                       *)

\* A list of all of a set in ascending order holds every member of it.
LEMMA AscendingIsAll ==
    ASSUME NEW S, S \subseteq Nat, IsFiniteSet(S),
           NEW f \in [1..Cardinality(S) -> S],
           \A j, k \in DOMAIN f : j < k => f[j] < f[k],
           NEW c \in S
    PROVE  \E j \in 1..Cardinality(S) : f[j] = c
<1> DEFINE n == Cardinality(S)
<1>1. n \in Nat
  BY FS_CardinalityType
<1> SUFFICES ASSUME \A j \in 1..n : f[j] # c PROVE FALSE
  OBVIOUS
<1>2. /\ IsFiniteSet(S \ {c}) /\ Cardinality(S \ {c}) < n
      /\ IsFiniteSet(1..n) /\ Cardinality(1..n) = n
  <2>1. IsFiniteSet(S \ {c}) /\ Cardinality(S \ {c}) = n - 1
    BY FS_RemoveElement
  <2>2. IsFiniteSet(1..n) /\ Cardinality(1..n) = IF 1 > n THEN 0 ELSE n - 1 + 1
    <3> HIDE DEF n
    <3> QED
      BY <1>1, FS_Interval
  <2> HIDE DEF n
  <2> QED
    BY <1>1, <2>1, <2>2
<1>3. f \in [1..n -> S \ {c}]
  OBVIOUS
<1> HIDE DEF n
<1>4. \E x, y \in 1..n : x # y /\ f[x] = f[y]
  <2> DEFINE D == 1..n
             T == S \ {c}
  <2>1. /\ IsFiniteSet(D) /\ IsFiniteSet(T) /\ Cardinality(T) < Cardinality(D)
        /\ f \in [D -> T]
    BY <1>2, <1>3
  <2> HIDE DEF D, T
  <2>2. \E x, y \in D : x # y /\ f[x] = f[y]
    BY <2>1, FS_PigeonHole, Zenon
  <2> QED
    BY <2>2 DEF D
<1>5. PICK x \in 1..n, y \in 1..n : x # y /\ f[x] = f[y]
  BY <1>4
<1>6. f[x] \in Nat /\ f[y] \in Nat /\ (x < y \/ y < x) /\ DOMAIN f = 1..n
  <2>1. f[x] \in S /\ f[y] \in S /\ DOMAIN f = 1..n
    BY <1>3, <1>5
  <2>2. x \in Int /\ y \in Int /\ x # y
    BY <1>1, <1>5
  <2>3. f[x] \in Nat /\ f[y] \in Nat
    BY <2>1, Zenon
  <2>4. x < y \/ y < x
    BY <2>2
  <2> QED
    BY <2>1, <2>3, <2>4
<1>7. f[x] < f[y] \/ f[y] < f[x]
  BY <1>5, <1>6
<1> QED
  BY <1>5, <1>6, <1>7

LEMMA ListedStep == TypeOK /\ TracesListed /\ [Next]_vars => TracesListed'
<1> SUFFICES ASSUME TypeOK, TracesListed, [Next]_vars PROVE TracesListed'
  OBVIOUS
<1>1. CASE /\ UNCHANGED <<known, totaltrace, tlist, TraceList>>
           /\ phase' = "done" => phase = "done"
  BY <1>1 DEF TracesListed
<1>2. CASE Track \/ SlotsFail \/ PassTooLarge \/ PassInconsistent
  <2> DEFINE c0 == tank[pos].chan
  <2>1. /\ known' = known \union {c0} /\ phase' # "done"
        /\ totaltrace' = IF c0 \in known THEN totaltrace ELSE totaltrace + 1
        /\ \/ tlist' = tlist
           \/ tlist' = [tlist EXCEPT ![c0] = Append(@, Entry(pos))]
    BY <1>2 DEF Track, SlotsFail, PassTooLarge, PassInconsistent, PassOver,
                LookUp, Count
  <2> HIDE DEF c0
  <2>2. totaltrace' = Cardinality(known')
    <3>1. IsFiniteSet(known) /\ totaltrace = Cardinality(known)
      BY DEF TypeOK, TracesListed
    <3> QED
      BY <2>1, <3>1, FS_AddElement
  <2>3. ASSUME NEW c \in Chans, Len(tlist'[c]) > 0 PROVE c \in known'
    <3>1. CASE c = c0
      BY <2>1, <3>1
    <3>2. CASE c # c0
      <4>1. tlist'[c] = tlist[c]
        BY <2>1, <3>2 DEF TypeOK
      <4> QED
        BY <2>1, <2>3, <4>1 DEF TracesListed
    <3> QED
      BY <3>1, <3>2
  <2> QED
    BY <2>1, <2>2, <2>3 DEF TracesListed
<1>3. CASE SortAll
  <2>1. /\ UNCHANGED <<known, totaltrace>>
        /\ TraceList' \in [1..Cardinality(known) -> known]
        /\ \A j, k \in DOMAIN TraceList' : j < k => TraceList'[j] < TraceList'[k]
    BY <1>3 DEF SortAll
  <2>2. /\ known \subseteq Nat /\ IsFiniteSet(known) /\ Cardinality(known) \in Nat
        /\ totaltrace = Cardinality(known)
    BY TanksAssumption, FS_CardinalityType DEF TypeOK, TracesListed
  <2>3. Len(TraceList') = totaltrace
    BY <2>1, <2>2
  <2>4. \A c \in known : \E j \in 1..totaltrace : TraceList'[j] = c
    BY <2>1, <2>2, AscendingIsAll
  <2>5. ASSUME NEW c \in Chans, Len(tlist'[c]) > 0 PROVE c \in known'
    <3>1. tlist[c] \in Seq(Entries) /\ tlist'[c] \in Promise!Sorts(tlist[c])
      BY <1>3 DEF SortAll, TypeOK, Entries
    <3>2. Len(tlist[c]) > 0
      BY <2>5, <3>1, SortedList
    <3> QED
      BY <2>1, <3>2 DEF TracesListed
  <2> QED
    BY <2>1, <2>2, <2>3, <2>4, <2>5 DEF TracesListed
<1>4. CASE Slide \/ SwapPastEnd \/ NodeFails \/ UNCHANGED vars
  BY <1>1, <1>4 DEF Slide, SwapPastEnd, NodeFails, Scanning, vars
<1> QED
  BY <1>2, <1>3, <1>4 DEF Next

\* Whatever the file holds, the list main() goes through has every trace of
\* the tree and as many entries as main() takes it to have.
THEOREM AllListed == Spec => []TracesListed
<1>1. Init => TracesListed
  BY EmptySeq, FS_EmptySet DEF Init, TracesListed
<1>2. Spec => []TypeOK
  BY TypeCorrect
<1>3. TypeOK /\ TracesListed /\ [Next]_vars => TracesListed'
  BY ListedStep
<1> QED
  BY <1>1, <1>2, <1>3, PTL DEF Spec

-----------------------------------------------------------------------------
(* Files without negative sample counts: the scan goes forward, what it     *)
(* counts lies apart and stays as it was filed.                            *)

\* The assumption on the files as a property of the tank at hand.
NoNegative == \A o \in DOMAIN tank : tank[o] # Junk => tank[o].n >= 0

\* A check changes nothing before the header it checks, and of an accepted
\* header only the label; it makes no count negative.
LEMMA CheckedPart ==
    ASSUME TypeOK, CountsAreNat, NoNegative, phase = "scan", NEW t \in AfterCheck(pos)
    PROVE  /\ DOMAIN t = DOMAIN tank
           /\ \A x \in DOMAIN tank : x < pos => t[x] = tank[x]
           /\ \A o \in DOMAIN t : t[o] # Junk => t[o].n >= 0
           /\ Accepted(pos) => t[pos] = [tank[pos] EXCEPT !.opposite = FALSE]
<1>1. /\ tank \in [0..TankSize-1 -> Header \union {Junk}]
      /\ DOMAIN tank = 0..TankSize-1 /\ pos \in DOMAIN tank
      /\ pos \in Nat /\ DOMAIN tank \subseteq Int
      /\ tank[pos] # Junk => tank[pos] \in Header
  BY HeaderRead DEF TypeOK
<1>2. CASE tank[pos] # Junk => ~tank[pos].opposite
  <2>1. t = tank
    BY <1>2 DEF AfterCheck
  <2>2. ASSUME Accepted(pos)
        PROVE  tank[pos] = [tank[pos] EXCEPT !.opposite = FALSE]
    <3>1. tank[pos] \in Header /\ tank[pos].opposite = FALSE
      BY <1>1, <1>2, <2>2 DEF Accepted, Rejected, Header
    <3> QED
      BY <3>1 DEF Header
  <2> QED
    BY <2>1, <2>2 DEF NoNegative
<1>3. CASE ~(tank[pos] # Junk => ~tank[pos].opposite) /\ Accepted(pos)
  <2>1. t = [tank EXCEPT ![pos].opposite = FALSE] /\ tank[pos] \in Header
    BY <1>1, <1>3 DEF AfterCheck
  <2>2. t[pos] = [tank[pos] EXCEPT !.opposite = FALSE] /\ DOMAIN t = DOMAIN tank
        /\ \A x \in DOMAIN tank : x # pos => t[x] = tank[x]
    BY <1>1, <2>1
  <2>3. t[pos].n = tank[pos].n
    BY <2>1, <2>2 DEF Header
  <2>4. \A x \in DOMAIN tank : x < pos => x # pos
    BY <1>1
  <2> QED
    BY <1>1, <1>3, <2>2, <2>3, <2>4 DEF NoNegative
<1>4. CASE ~(tank[pos] # Junk => ~tank[pos].opposite) /\ ~Accepted(pos)
  <2> DEFINE X == InTheWay(pos)
  <2>1. PICK r \in [X -> Readings] :
          t = [x \in DOMAIN tank |->
                 IF x \in X THEN [tank[x] EXCEPT !.n = r[x].n, !.time = r[x].time,
                                                !.consistent = r[x].consistent]
                            ELSE tank[x]]
    BY <1>4 DEF AfterCheck, Disturbed
  <2>2. ASSUME NEW x \in DOMAIN tank, x < pos PROVE t[x] = tank[x]
    <3>1. x \notin X
      BY <1>1, <2>2, SizesAssumption DEF InTheWay
    <3> HIDE DEF X
    <3> QED
      BY <2>1, <3>1
  <2>3. ASSUME NEW o \in DOMAIN tank, t[o] # Junk PROVE t[o].n >= 0
    <3>1. CASE o \in X
      <4>1. tank[o] \in Header
        BY <1>1, <3>1 DEF InTheWay
      <4>2. r[o] \in Readings
        BY <2>1, <3>1, Zenon
      <4>3. t[o] = [tank[o] EXCEPT !.n = r[o].n, !.time = r[o].time,
                                   !.consistent = r[o].consistent]
        BY <2>1, <3>1, Zenon
      <4>4. t[o].n = r[o].n
        BY <4>1, <4>3 DEF Header
      <4> QED
        BY <4>2, <4>4 DEF CountsAreNat
    <3>2. CASE o \notin X
      <4>1. t[o] = tank[o]
        BY <2>1, <3>2, Zenon
      <4> QED
        BY <2>3, <4>1 DEF NoNegative
    <3> QED
      BY <3>1, <3>2
  <2>4. DOMAIN t = DOMAIN tank
    BY <2>1, Zenon
  <2> QED
    BY <1>4, <2>2, <2>3, <2>4
<1> QED
  BY <1>2, <1>3, <1>4

\* A message that is passed over takes up at least its header.
LEMMA SizePositiveAt ==
    ASSUME TypeOK, NoNegative, NEW o \in DOMAIN tank, tank[o] # Junk
    PROVE  Size(tank[o]) \in Nat /\ Size(tank[o]) > 0
<1>1. tank[o] \in Header
  BY DEF TypeOK
<1>2. tank[o].width \in Nat /\ tank[o].n \in Nat
  BY <1>1 DEF NoNegative, Header
<1>3. \A a, b \in Nat : a * b \in Nat
  OBVIOUS
<1>4. tank[o].width * tank[o].n \in Nat
  BY <1>2, <1>3
<1> QED
  BY <1>4, SizesAssumption DEF Size

LEMMA SizePositive ==
    ASSUME TypeOK, NoNegative, phase = "scan", ~Rejected(pos)
    PROVE  Size(tank[pos]) \in Nat /\ Size(tank[pos]) > 0
BY HeaderRead, SizePositiveAt DEF Rejected

LEMMA NoNegativeStep ==
    ASSUME CountsAreNat, TypeOK, NoNegative, [Next]_vars
    PROVE  NoNegative'
<1>1. CASE \E t \in AfterCheck(pos) : phase = "scan" /\ tank' = t
  BY <1>1, CheckedPart DEF NoNegative
<1>2. CASE tank' = tank
  BY <1>2 DEF NoNegative
<1> QED
  BY <1>1, <1>2
     DEF Next, Slide, Track, PassTooLarge, PassInconsistent, PassOver, LookUp,
         SwapPastEnd, NodeFails, SlotsFail, SortAll, Scanning, vars

LEMMA NoNegativeInit == Init /\ CountsAreNat => NoNegative
BY DEF Init, CountsAreNat, NoNegative

\* On a file without negative sample counts every step of the scan that does
\* not end it moves on: the scan visits at most as many headers as bytes.
THEOREM AlwaysForward == Spec => GoesForward
<1>1. Spec => []TypeOK
  BY TypeCorrect
<1>2. CountsAreNat /\ TypeOK /\ NoNegative /\ [Next]_vars => NoNegative'
  BY NoNegativeStep
<1>3. ASSUME TypeOK, CountsAreNat, NoNegative, [Next]_vars, vars' # vars,
             phase' = "scan"
      PROVE  pos' > pos
  <2>1. CASE Slide
    BY <1>3, <2>1, HeaderRead DEF Slide, Scanning
  <2>2. CASE phase = "scan" /\ ~Rejected(pos) /\ PassOver(pos)
    BY <1>3, <2>2, HeaderRead, SizePositive DEF PassOver, LookUp
  <2> QED
    BY <1>3, <2>1, <2>2
       DEF Next, Track, Accepted, PassTooLarge, PassInconsistent, Inconsistent,
           SwapPastEnd, NodeFails, SlotsFail, SortAll, Scanning
<1>4. TypeOK /\ (CountsAreNat => NoNegative) /\ [Next]_vars
        => [CountsAreNat => (phase' = "scan" => pos' > pos)]_vars
  BY <1>3
<1>5. Init => (CountsAreNat => NoNegative)
  BY NoNegativeInit
<1>6. TypeOK /\ (CountsAreNat => NoNegative) /\ [Next]_vars
        => (CountsAreNat => NoNegative)'
  BY <1>2
<1> QED
  BY <1>1, <1>4, <1>5, <1>6, PTL DEF Spec, GoesForward

-----------------------------------------------------------------------------
(* The counted entries.                                                    *)

\* What a message that is counted adds to the list of its channel.
LEMMA Tracked ==
    ASSUME TypeOK, CountsAreNat, NoNegative, Track \/ SlotsFail
    PROVE  LET c == tank[pos].chan
           IN  /\ c \in Chans /\ Entry(pos) \in Entries
               /\ pos \in Nat /\ pos' = pos + Size(tank[pos])
               /\ Size(tank[pos]) \in Nat /\ Size(tank[pos]) > 0
               /\ tlist \in [Chans -> Seq(Entries)]
               /\ DOMAIN tlist' = Chans
               /\ \A d \in Chans : d # c => tlist'[d] = tlist[d]
               /\ Len(tlist[c]) \in Nat /\ Len(tlist'[c]) = Len(tlist[c]) + 1
               /\ \A k \in 1..Len(tlist[c]) : tlist'[c][k] = tlist[c][k]
               /\ tlist'[c][Len(tlist[c]) + 1] = Entry(pos)
<1> DEFINE c == tank[pos].chan
           e == Entry(pos)
<1>1. /\ phase = "scan" /\ ~Rejected(pos) /\ ~TooLarge(tank[pos]) /\ LookUp(pos)
      /\ tlist' = [tlist EXCEPT ![c] = Append(@, e)]
  BY DEF Track, SlotsFail, PassOver, Count, Accepted, Scanning
<1>2. c \in Chans /\ e \in Entries /\ pos \in Nat
  BY <1>1, HeaderRead, EntryType DEF Rejected, Header
<1>3. /\ Size(tank[pos]) \in Nat /\ Size(tank[pos]) > 0
      /\ pos' = pos + Size(tank[pos])
  BY <1>1, SizePositive DEF LookUp
<1>4. tlist \in [Chans -> Seq(Entries)]
  BY DEF TypeOK, Entries
<1> HIDE DEF c, e
<1>5. tlist[c] \in Seq(Entries) /\ Len(tlist[c]) \in Nat
  BY <1>2, <1>4, LenProperties
<1>6. /\ Len(Append(tlist[c], e)) = Len(tlist[c]) + 1
      /\ \A k \in 1..Len(tlist[c]) : Append(tlist[c], e)[k] = tlist[c][k]
      /\ Append(tlist[c], e)[Len(tlist[c]) + 1] = e
  BY <1>2, <1>5, AppendProperties
<1>7. /\ tlist'[c] = Append(tlist[c], e) /\ DOMAIN tlist' = Chans
      /\ \A d \in Chans : d # c => tlist'[d] = tlist[d]
  BY <1>1, <1>2, <1>4
<1>8. /\ c \in Chans /\ e \in Entries
      /\ pos \in Nat /\ pos' = pos + Size(tank[pos])
      /\ Size(tank[pos]) \in Nat /\ Size(tank[pos]) > 0
      /\ tlist \in [Chans -> Seq(Entries)]
      /\ DOMAIN tlist' = Chans
      /\ \A d \in Chans : d # c => tlist'[d] = tlist[d]
      /\ Len(tlist[c]) \in Nat /\ Len(tlist'[c]) = Len(tlist[c]) + 1
      /\ \A k \in 1..Len(tlist[c]) : tlist'[c][k] = tlist[c][k]
      /\ tlist'[c][Len(tlist[c]) + 1] = e
  BY <1>2, <1>3, <1>4, <1>5, <1>6, <1>7, Zenon
<1> QED
  BY <1>8 DEF c, e

\* Sorting moves every entry of a list to one place of it.
LEMMA SortMoves ==
    ASSUME TypeOK, SortAll, NEW c \in Chans
    PROVE  \E f \in [1..Len(tlist[c]) -> 1..Len(tlist[c])] :
              /\ \A j, k \in 1..Len(tlist[c]) : j # k => f[j] # f[k]
              /\ Len(tlist'[c]) = Len(tlist[c])
              /\ \A k \in 1..Len(tlist[c]) : tlist'[c][k] = tlist[c][f[k]]
<1>1. tlist[c] \in Seq(Entries) /\ Len(tlist[c]) \in Nat
  BY LenProperties DEF TypeOK, Entries
<1>2. tlist'[c] \in Promise!Sorts(tlist[c])
  BY DEF SortAll
<1>3. PICK f \in Promise!Bijection(1..Len(tlist[c]), 1..Len(tlist[c])) :
        tlist'[c] = [k \in 1..Len(tlist[c]) |-> tlist[c][f[k]]]
  BY <1>2 DEF Promise!Sorts
<1>4. f \in [1..Len(tlist[c]) -> 1..Len(tlist[c])]
      /\ \A j, k \in 1..Len(tlist[c]) : j # k => f[j] # f[k]
  BY <1>3 DEF Promise!Bijection, Promise!Injection, Promise!IsInjective
<1>5. Len(tlist'[c]) = Len(tlist[c])
  BY <1>1, <1>2, SortedList
<1>6. \A k \in 1..Len(tlist[c]) : tlist'[c][k] = tlist[c][f[k]]
  BY <1>3
<1> QED
  BY <1>4, <1>5, <1>6

LEMMA ApartStep ==
    ASSUME CountsAreNat, TypeOK, NoNegative, EntriesApart, [Next]_vars
    PROVE  EntriesApart'
<1> DEFINE end(e) == e.offset + e.size
<1>0. /\ \A c \in Chans : \A j \in 1..Len(tlist[c]) :
            /\ tlist[c][j] \in Entries
            /\ end(tlist[c][j]) <= pos
      /\ \A c, d \in Chans : \A j \in 1..Len(tlist[c]), k \in 1..Len(tlist[d]) :
            c # d \/ j # k => \/ end(tlist[c][j]) <= tlist[d][k].offset
                             \/ end(tlist[d][k]) <= tlist[c][j].offset
      /\ pos \in Int
  <2>1. \A c \in Chans : \A j \in 1..Len(tlist[c]) : tlist[c][j] \in Entries
    BY ElementOfSeq DEF TypeOK, Entries
  <2> QED
    BY <2>1 DEF EntriesApart, TypeOK
<1>1. CASE tlist' = tlist /\ pos' \in Int /\ pos <= pos'
  <2>1. \A c \in Chans : \A j \in 1..Len(tlist[c]) : end(tlist[c][j]) <= pos'
    BY <1>0, <1>1 DEF Entries
  <2>2. \A c, d \in Chans : \A j \in 1..Len(tlist'[c]), k \in 1..Len(tlist'[d]) :
          c # d \/ j # k => \/ end(tlist'[c][j]) <= tlist'[d][k].offset
                           \/ end(tlist'[d][k]) <= tlist'[c][j].offset
    BY <1>0, <1>1, Zenon
  <2> QED
    BY <1>1, <2>1, <2>2, SMTT(30) DEF EntriesApart
<1>2. CASE Track \/ SlotsFail
  <2> DEFINE c0 == tank[pos].chan
             new == Len(tlist[c0]) + 1
  <2>1. /\ c0 \in Chans /\ pos \in Nat /\ pos' = pos + Size(tank[pos])
        /\ Size(tank[pos]) \in Nat /\ Size(tank[pos]) > 0
        /\ \A d \in Chans : d # c0 => tlist'[d] = tlist[d]
        /\ Len(tlist[c0]) \in Nat /\ Len(tlist'[c0]) = new
        /\ \A k \in 1..Len(tlist[c0]) : tlist'[c0][k] = tlist[c0][k]
        /\ tlist'[c0][new] = Entry(pos)
    BY <1>2, Tracked
  <2>2. Entry(pos).offset = pos /\ end(Entry(pos)) = pos'
    BY <2>1 DEF Entry
  <2> HIDE DEF c0, new
  <2>3. ASSUME NEW c \in Chans, NEW j \in 1..Len(tlist'[c])
        PROVE  \/ c = c0 /\ j = new /\ tlist'[c][j] = Entry(pos)
               \/ j \in 1..Len(tlist[c]) /\ tlist'[c][j] = tlist[c][j]
    <3>1. CASE c = c0
      <4>1. j = new \/ j \in 1..Len(tlist[c])
        BY <2>1, <3>1 DEF new
      <4> QED
        BY <2>1, <3>1, <4>1
    <3>2. CASE c # c0
      BY <2>1, <3>2
    <3> QED
      BY <3>1, <3>2
  <2>4. ASSUME NEW c \in Chans, NEW j \in 1..Len(tlist'[c])
        PROVE  end(tlist'[c][j]) <= pos'
    <3>1. CASE tlist'[c][j] = Entry(pos)
      BY <2>1, <2>2, <3>1
    <3>2. CASE j \in 1..Len(tlist[c]) /\ tlist'[c][j] = tlist[c][j]
      BY <1>0, <2>1, <3>2 DEF Entries
    <3> QED
      BY <2>3, <3>1, <3>2
  <2>5. ASSUME NEW c \in Chans, NEW d \in Chans,
               NEW j \in 1..Len(tlist'[c]), NEW k \in 1..Len(tlist'[d]),
               c # d \/ j # k
        PROVE  \/ end(tlist'[c][j]) <= tlist'[d][k].offset
               \/ end(tlist'[d][k]) <= tlist'[c][j].offset
    <3>1. CASE /\ j \in 1..Len(tlist[c]) /\ tlist'[c][j] = tlist[c][j]
               /\ k \in 1..Len(tlist[d]) /\ tlist'[d][k] = tlist[d][k]
      BY <1>0, <2>5, <3>1
    <3>2. CASE /\ c = c0 /\ j = new /\ tlist'[c][j] = Entry(pos)
               /\ k \in 1..Len(tlist[d]) /\ tlist'[d][k] = tlist[d][k]
      BY <1>0, <2>2, <3>2
    <3>3. CASE /\ j \in 1..Len(tlist[c]) /\ tlist'[c][j] = tlist[c][j]
               /\ d = c0 /\ k = new /\ tlist'[d][k] = Entry(pos)
      BY <1>0, <2>2, <3>3
    <3> QED
      BY <2>3, <2>5, <3>1, <3>2, <3>3
  <2> QED
    BY <2>4, <2>5 DEF EntriesApart
<1>3. CASE SortAll
  <2>1. pos' = pos
    BY <1>3 DEF SortAll
  <2>2. ASSUME NEW c \in Chans, NEW j \in 1..Len(tlist'[c])
        PROVE  end(tlist'[c][j]) <= pos'
    <3>1. PICK f \in [1..Len(tlist[c]) -> 1..Len(tlist[c])] :
            /\ Len(tlist'[c]) = Len(tlist[c])
            /\ \A k \in 1..Len(tlist[c]) : tlist'[c][k] = tlist[c][f[k]]
      BY <1>3, SortMoves
    <3> QED
      BY <1>0, <2>1, <3>1
  <2>3. ASSUME NEW c \in Chans, NEW d \in Chans,
               NEW j \in 1..Len(tlist'[c]), NEW k \in 1..Len(tlist'[d]),
               c # d \/ j # k
        PROVE  \/ end(tlist'[c][j]) <= tlist'[d][k].offset
               \/ end(tlist'[d][k]) <= tlist'[c][j].offset
    <3>1. PICK f \in [1..Len(tlist[c]) -> 1..Len(tlist[c])] :
            /\ \A x, y \in 1..Len(tlist[c]) : x # y => f[x] # f[y]
            /\ Len(tlist'[c]) = Len(tlist[c])
            /\ \A x \in 1..Len(tlist[c]) : tlist'[c][x] = tlist[c][f[x]]
      BY <1>3, SortMoves
    <3>2. PICK g \in [1..Len(tlist[d]) -> 1..Len(tlist[d])] :
            /\ Len(tlist'[d]) = Len(tlist[d])
            /\ \A x \in 1..Len(tlist[d]) : tlist'[d][x] = tlist[d][g[x]]
      BY <1>3, SortMoves
    <3>3. CASE c # d
      <4>1. f[j] \in 1..Len(tlist[c]) /\ g[k] \in 1..Len(tlist[d])
        BY <3>1, <3>2
      <4> QED
        BY <1>0, <3>1, <3>2, <3>3, <4>1
    <3>4. CASE c = d
      <4>1. /\ f[j] \in 1..Len(tlist[c]) /\ f[k] \in 1..Len(tlist[c])
            /\ f[j] # f[k]
            /\ tlist'[c][j] = tlist[c][f[j]] /\ tlist'[c][k] = tlist[c][f[k]]
        BY <2>3, <3>1, <3>4
      <4> QED
        BY <1>0, <3>4, <4>1
    <3> QED
      BY <3>3, <3>4
  <2> QED
    BY <2>2, <2>3 DEF EntriesApart
<1>4. CASE Slide
  BY <1>1, <1>4, HeaderRead DEF Slide, Scanning
<1>5. CASE PassTooLarge \/ PassInconsistent
  <2>1. phase = "scan" /\ ~Rejected(pos) /\ PassOver(pos) /\ tlist' = tlist
    BY <1>5 DEF PassTooLarge, PassInconsistent, Inconsistent, Scanning
  <2>2. pos' \in Int /\ pos <= pos'
    BY <2>1, HeaderRead, SizePositive DEF PassOver, LookUp
  <2> QED
    BY <1>1, <2>1, <2>2
<1>6. CASE SwapPastEnd \/ NodeFails \/ UNCHANGED vars
  <2>1. tlist' = tlist /\ pos' = pos
    BY <1>6 DEF SwapPastEnd, NodeFails, vars
  <2> QED
    BY <1>0, <1>1, <2>1
<1> QED
  BY <1>2, <1>3, <1>4, <1>5, <1>6 DEF Next

LEMMA ApartInit == Init => EntriesApart
BY EmptySeq DEF Init, EntriesApart

\* On a file without negative sample counts no two counted messages share a
\* byte, before the lists are sorted and after.
THEOREM CountedApart == Spec => []EntriesApart
<1>1. Spec => []TypeOK
  BY TypeCorrect
<1>2. TypeOK /\ (CountsAreNat => NoNegative) /\ EntriesApart /\ [Next]_vars
        => (CountsAreNat => NoNegative)' /\ EntriesApart'
  <2>1. CASE CountsAreNat
    BY <2>1, NoNegativeStep, ApartStep
  <2>2. CASE ~CountsAreNat
    BY <2>2 DEF EntriesApart
  <2> QED
    BY <2>1, <2>2
<1>3. Init => (CountsAreNat => NoNegative) /\ EntriesApart
  BY NoNegativeInit, ApartInit
<1> QED
  BY <1>1, <1>2, <1>3, PTL DEF Spec

-----------------------------------------------------------------------------
(* The counted entries stay true.  A check swaps bytes at and behind pos    *)
(* only, and what is counted ends at pos at the latest: EntriesMatch needs  *)
(* EntriesApart.                                                           *)

\* Relabelling a header changes its label only.
LEMMA Relabelled ==
    ASSUME NEW h \in Header
    PROVE  LET g == [h EXCEPT !.opposite = FALSE]
           IN  /\ g \in Header /\ ~g.opposite /\ g.chan = h.chan /\ g.n = h.n
               /\ g.width = h.width /\ g.digit = h.digit /\ g.time = h.time
               /\ g.consistent = h.consistent
BY DEF Header

LEMMA MatchStep ==
    ASSUME CountsAreNat, TypeOK, NoNegative, EntriesApart, EntriesMatch, [Next]_vars
    PROVE  EntriesMatch'
<1>1. ASSUME NEW c \in Chans, NEW k \in 1..Len(tlist[c])
      PROVE  /\ Matches(c, tlist[c][k])
             /\ tlist[c][k].offset < pos
  <2>1. /\ Matches(c, tlist[c][k])
        /\ tlist[c][k].offset + tlist[c][k].size <= pos
    BY DEF EntriesMatch, EntriesApart
  <2>2. tlist[c][k] \in Entries /\ pos \in Int
    BY ElementOfSeq DEF TypeOK, Entries
  <2>3. tlist[c][k].size > 0
    BY <2>1, SizePositiveAt DEF Matches
  <2> QED
    BY <2>1, <2>2, <2>3 DEF Entries
<1>2. ASSUME \/ tank' = tank
             \/ phase = "scan" /\ tank' \in AfterCheck(pos),
             NEW c \in Chans, NEW e \in Entries, Matches(c, e), e.offset < pos
      PROVE  /\ e.offset \in DOMAIN tank'
             /\ tank'[e.offset] = tank[e.offset]
  BY <1>2, CheckedPart DEF Matches
<1>3. ASSUME \/ tank' = tank
             \/ phase = "scan" /\ tank' \in AfterCheck(pos),
             NEW c \in Chans, NEW j \in 1..Len(tlist'[c]), NEW k \in 1..Len(tlist[c]),
             tlist'[c][j] = tlist[c][k]
      PROVE  Matches(c, tlist[c][j])'
  <2>1. tlist[c][k] \in Entries
    BY ElementOfSeq DEF TypeOK, Entries
  <2>2. /\ tlist[c][k].offset \in DOMAIN tank'
        /\ tank'[tlist[c][k].offset] = tank[tlist[c][k].offset]
    BY <1>1, <1>2, <1>3, <2>1
  <2> QED
    BY <1>1, <1>3, <2>2 DEF Matches
<1>4. CASE /\ tlist' = tlist
           /\ \/ tank' = tank
              \/ phase = "scan" /\ tank' \in AfterCheck(pos)
  <2>1. ASSUME NEW c \in Chans, NEW j \in 1..Len(tlist'[c])
        PROVE  Matches(c, tlist[c][j])'
    BY <1>3, <1>4
  <2> QED
    BY <2>1 DEF EntriesMatch
<1>5. CASE Track \/ SlotsFail
  <2> DEFINE c0 == tank[pos].chan
             new == Len(tlist[c0]) + 1
  <2>1. /\ c0 \in Chans
        /\ \A d \in Chans : d # c0 => tlist'[d] = tlist[d]
        /\ Len(tlist[c0]) \in Nat /\ Len(tlist'[c0]) = new
        /\ \A k \in 1..Len(tlist[c0]) : tlist'[c0][k] = tlist[c0][k]
        /\ tlist'[c0][new] = Entry(pos)
    BY <1>5, Tracked
  <2>2. phase = "scan" /\ tank' \in AfterCheck(pos) /\ Accepted(pos)
    BY <1>5 DEF Track, SlotsFail, Scanning, PassOver, LookUp
  <2>3. ASSUME NEW c \in Chans, c = c0, NEW j \in Nat, j = new
        PROVE  Matches(c, tlist[c][j])'
    <3>1. tank'[pos] = [tank[pos] EXCEPT !.opposite = FALSE] /\ pos \in DOMAIN tank'
      BY <2>2, CheckedPart, HeaderRead
    <3>2. /\ tank[pos] \in Header /\ tank[pos].consistent /\ ~TooMany(tank[pos])
      BY <2>2, HeaderRead DEF Accepted, Rejected
    <3>3. /\ tank'[pos] \in Header /\ ~tank'[pos].opposite /\ tank'[pos].chan = c0
          /\ tank'[pos].n = tank[pos].n /\ tank'[pos].width = tank[pos].width
          /\ tank'[pos].digit = tank[pos].digit /\ tank'[pos].time = tank[pos].time
          /\ tank'[pos].consistent
      <4>1. /\ tank[pos] \in Header /\ tank[pos].consistent
            /\ tank'[pos] = [tank[pos] EXCEPT !.opposite = FALSE]
            /\ tank[pos].chan = c0
        BY <3>1, <3>2
      <4> HIDE DEF c0
      <4> QED
        BY <4>1, Relabelled
    <3>4. /\ tlist'[c0][new].offset = pos
          /\ tlist'[c0][new].size = Size(tank[pos])
          /\ tlist'[c0][new].time = tank[pos].time
      BY <2>1 DEF Entry
    <3>5. tank'[pos] # Junk
      BY <3>3, TanksAssumption
    <3>6. Size(tank'[pos]) = Size(tank[pos]) /\ ~TooMany(tank'[pos])
      BY <3>2, <3>3 DEF Size, TooMany
    <3> HIDE DEF c0, new
    <3> QED
      BY <2>3, <3>1, <3>3, <3>4, <3>5, <3>6 DEF Matches
  <2> HIDE DEF c0, new
  <2>4. ASSUME NEW c \in Chans, NEW j \in 1..Len(tlist'[c])
        PROVE  Matches(c, tlist[c][j])'
    <3>1. CASE c = c0
      <4>1. j = new \/ j \in 1..Len(tlist[c])
        BY <2>1, <3>1 DEF new
      <4>2. CASE j = new
        BY <2>1, <2>3, <3>1, <4>2 DEF new
      <4>3. CASE j \in 1..Len(tlist[c])
        BY <1>3, <2>1, <2>2, <3>1, <4>3
      <4> QED
        BY <4>1, <4>2, <4>3
    <3>2. CASE c # c0
      BY <1>3, <2>1, <2>2, <3>2
    <3> QED
      BY <3>1, <3>2
  <2> QED
    BY <2>4 DEF EntriesMatch
<1>6. CASE SortAll
  <2>1. tank' = tank
    BY <1>6 DEF SortAll
  <2>2. ASSUME NEW c \in Chans, NEW j \in 1..Len(tlist'[c])
        PROVE  Matches(c, tlist[c][j])'
    <3>1. PICK f \in [1..Len(tlist[c]) -> 1..Len(tlist[c])] :
            /\ Len(tlist'[c]) = Len(tlist[c])
            /\ \A k \in 1..Len(tlist[c]) : tlist'[c][k] = tlist[c][f[k]]
      BY <1>6, SortMoves
    <3>2. f[j] \in 1..Len(tlist[c]) /\ tlist'[c][j] = tlist[c][f[j]]
      BY <3>1
    <3> QED
      BY <1>3, <2>1, <3>2
  <2> QED
    BY <2>2 DEF EntriesMatch
<1>7. CASE Slide \/ PassTooLarge \/ PassInconsistent \/ SwapPastEnd \/ NodeFails
  BY <1>4, <1>7
     DEF Slide, PassTooLarge, PassInconsistent, PassOver, LookUp, SwapPastEnd, NodeFails,
         Scanning
<1>8. CASE UNCHANGED vars
  <2>1. ASSUME NEW c \in Chans, NEW j \in 1..Len(tlist'[c])
        PROVE  Matches(c, tlist[c][j])'
    BY <1>3, <1>8 DEF vars
  <2> QED
    BY <2>1 DEF EntriesMatch
<1> QED
  BY <1>5, <1>6, <1>7, <1>8 DEF Next

LEMMA MatchInit == Init => EntriesMatch
BY EmptySeq DEF Init, EntriesMatch

\* On a file without negative sample counts every counted entry goes on
\* describing an accepted header in host order, whatever is swapped later.
THEOREM CountedMatch == Spec => []EntriesMatch
<1>1. Spec => []TypeOK
  BY TypeCorrect
<1>2. TypeOK /\ (CountsAreNat => NoNegative) /\ EntriesApart /\ EntriesMatch /\ [Next]_vars
        => (CountsAreNat => NoNegative)' /\ EntriesApart' /\ EntriesMatch'
  <2>1. CASE CountsAreNat
    BY <2>1, NoNegativeStep, ApartStep, MatchStep
  <2>2. CASE ~CountsAreNat
    BY <2>2 DEF EntriesApart, EntriesMatch
  <2> QED
    BY <2>1, <2>2
<1>3. Init => (CountsAreNat => NoNegative) /\ EntriesApart /\ EntriesMatch
  BY NoNegativeInit, ApartInit, MatchInit
<1> QED
  BY <1>1, <1>2, <1>3, PTL DEF Spec

-----------------------------------------------------------------------------
(* The scan of a file of good messages implements Catalogue. *)

GoodTanks == CountsAreNat /\ \A t \in Tanks : WellFormed(t)

\* The messages ahead are good ones, until the scan ends or fails.
GoodAhead ==
    phase \in {"scan", "sort"} =>
        \A o \in Ahead :
            /\ tank[o].consistent /\ ~TooMany(tank[o]) /\ ~TooLarge(tank[o])
            /\ \A x \in o+1..o+Size(tank[o])-1 : x \in DOMAIN tank => tank[x] = Junk

PastEnd == phase = "sort" => pos >= TankSize

GoodInv == TypeOK /\ NoNegative /\ GoodAhead /\ PastEnd

-----------------------------------------------------------------------------
\* What is slid over is junk, and what is not is a good message.
LEMMA SlidesOverJunk ==
    ASSUME GoodInv, phase = "scan"
    PROVE  IF Rejected(pos) THEN tank[pos] = Junk
           ELSE pos \in Ahead /\ Accepted(pos) /\ ~TooLarge(tank[pos])
<1>1. pos \in DOMAIN tank /\ pos \in Int
  BY HeaderRead DEF GoodInv
<1>2. pos \in Ahead <=> tank[pos] # Junk
  BY <1>1 DEF Ahead
<1> QED
  BY <1>2 DEF GoodInv, GoodAhead, Rejected, Accepted

\* The check of a good message changes its label.
LEMMA GoodCheck ==
    ASSUME TypeOK, phase = "scan", Accepted(pos), NEW t \in AfterCheck(pos)
    PROVE  /\ DOMAIN t = DOMAIN tank
           /\ \A x \in DOMAIN tank : x # pos => t[x] = tank[x]
           /\ t[pos] \in Header
           /\ \E b \in BOOLEAN : t[pos] = [tank[pos] EXCEPT !.opposite = b]
<1>1. tank \in [0..TankSize-1 -> Header \union {Junk}] /\ pos \in 0..TankSize-1
      /\ tank[pos] \in Header
  BY HeaderRead DEF TypeOK, Accepted, Rejected
<1>2. CASE t = tank
  <2>1. tank[pos] = [tank[pos] EXCEPT !.opposite = tank[pos].opposite]
        /\ tank[pos].opposite \in BOOLEAN
    BY <1>1 DEF Header
  <2> QED
    BY <1>1, <1>2, <2>1
<1>3. CASE t = [tank EXCEPT ![pos].opposite = FALSE]
  <2>1. t[pos] = [tank[pos] EXCEPT !.opposite = FALSE]
    BY <1>1, <1>3
  <2>2. t[pos] \in Header
    BY <1>1, <2>1 DEF Header
  <2> QED
    BY <1>1, <1>3, <2>1, <2>2
<1> QED
  BY <1>2, <1>3 DEF AfterCheck

\* To the eyes of the catalogue the tank stays what it was.
LEMMA StaysSame ==
    ASSUME TypeOK, phase = "scan", Accepted(pos), tank' \in AfterCheck(pos)
    PROVE  /\ DOMAIN tank' = DOMAIN tank
           /\ \A o \in DOMAIN tank :
                /\ tank'[o] # Junk <=> tank[o] # Junk
                /\ tank[o] # Junk =>
                      /\ Msg(o)' = Msg(o)
                      /\ tank'[o].consistent = tank[o].consistent
                      /\ TooMany(tank'[o]) <=> TooMany(tank[o])
                      /\ TooLarge(tank'[o]) <=> TooLarge(tank[o])
                      /\ Size(tank'[o]) = Size(tank[o])
<1>1. /\ DOMAIN tank' = DOMAIN tank
      /\ \A x \in DOMAIN tank : x # pos => tank'[x] = tank[x]
      /\ tank'[pos] \in Header
  BY GoodCheck
<1>2. PICK b \in BOOLEAN : tank'[pos] = [tank[pos] EXCEPT !.opposite = b]
  BY GoodCheck
<1>3. pos \in DOMAIN tank /\ tank[pos] \in Header
  BY HeaderRead DEF TypeOK, Accepted, Rejected
<1>4. /\ tank'[pos].chan = tank[pos].chan /\ tank'[pos].digit = tank[pos].digit
      /\ tank'[pos].width = tank[pos].width /\ tank'[pos].n = tank[pos].n
      /\ tank'[pos].consistent = tank[pos].consistent /\ tank'[pos].time = tank[pos].time
  BY <1>2, <1>3 DEF Header
<1>5. ASSUME NEW o \in DOMAIN tank, tank[o] # Junk
      PROVE  /\ Msg(o)' = Msg(o) /\ tank'[o].consistent = tank[o].consistent
             /\ TooMany(tank'[o]) <=> TooMany(tank[o])
             /\ TooLarge(tank'[o]) <=> TooLarge(tank[o])
             /\ Size(tank'[o]) = Size(tank[o])
  BY <1>1, <1>4 DEF Msg, TooMany, TooLarge, Size
<1>6. Junk \notin Header
  BY TanksAssumption
<1> QED
  BY <1>1, <1>3, <1>5, <1>6

\* A message is passed over: it is the first of those ahead, and the others
\* stay ahead.
LEMMA FirstAhead ==
    ASSUME GoodInv, phase = "scan", ~Rejected(pos), tank' \in AfterCheck(pos),
           pos' = pos + Size(tank[pos])
    PROVE  /\ Ahead' = Ahead \ {pos}
           /\ \A o \in Ahead : pos <= o
           /\ pos' \in Nat
<1>1. /\ pos \in Ahead /\ Accepted(pos) /\ pos \in Nat /\ DOMAIN tank = 0..TankSize-1
      /\ TypeOK /\ TankSize \in Nat
  BY SlidesOverJunk, HeaderRead, SizesAssumption DEF GoodInv, TypeOK
<1>2. Size(tank[pos]) \in Nat /\ Size(tank[pos]) > 0
  BY SizePositive DEF GoodInv
<1>3. DOMAIN tank' = DOMAIN tank /\ \A o \in DOMAIN tank : tank'[o] # Junk <=> tank[o] # Junk
  BY <1>1, StaysSame
<1>4. \A x \in pos+1..pos+Size(tank[pos])-1 : x \in DOMAIN tank => tank[x] = Junk
  BY <1>1 DEF GoodInv, GoodAhead
<1> DEFINE size == Size(tank[pos])
<1>5. ASSUME NEW o \in DOMAIN tank, tank[o] # Junk
      PROVE  o >= pos + size <=> o >= pos /\ o # pos
  <2> HIDE DEF size
  <2>1. o \in Int /\ (o \in pos+1..pos+size-1 => FALSE) /\ size \in Nat /\ size > 0
    BY <1>1, <1>2, <1>4, <1>5 DEF size
  <2> QED
    BY <1>1, <2>1
<1> QED
  BY <1>1, <1>2, <1>3, <1>5 DEF Ahead

-----------------------------------------------------------------------------
LEMMA GoodInit == CountsAreNat /\ Init /\ WellFormed(tank) => GoodInv
<1> SUFFICES ASSUME CountsAreNat, Init, WellFormed(tank) PROVE GoodInv
  OBVIOUS
<1>1. TypeOK
  BY ScanInit DEF ScanInv
<1>2. NoNegative
  BY NoNegativeInit
<1>3. GoodAhead /\ PastEnd
  BY DEF WellFormed, Init, GoodAhead, Ahead, PastEnd
<1> QED
  BY <1>1, <1>2, <1>3 DEF GoodInv

LEMMA GoodStep == CountsAreNat /\ GoodInv /\ SlotFree /\ [Next]_vars => GoodInv'
<1> SUFFICES ASSUME CountsAreNat, GoodInv, SlotFree, [Next]_vars PROVE GoodInv'
  OBVIOUS
<1>1. TypeOK' /\ NoNegative'
  BY ScanStep, NoNegativeStep DEF GoodInv, ScanInv
<1>2. CASE Slide
  <2>1. tank[pos] = Junk /\ phase = "scan" /\ pos' = pos + 1 /\ pos \in Nat
    BY <1>2, SlidesOverJunk, HeaderRead DEF Slide, Scanning, GoodInv
  <2>2. tank' = tank
    BY <1>2, <2>1 DEF Slide, AfterCheck
  <2>3. Ahead' \subseteq Ahead
    BY <2>1, <2>2 DEF Ahead, GoodInv, TypeOK
  <2>4. GoodAhead'
    BY <2>1, <2>2, <2>3 DEF GoodInv, GoodAhead
  <2>5. PastEnd'
    BY <1>2, <2>1, SizesAssumption DEF Slide, PastEnd
  <2> QED
    BY <1>1, <2>4, <2>5 DEF GoodInv
<1>3. CASE phase = "scan" /\ ~Rejected(pos) /\ LookUp(pos)
           /\ (PassOver(pos) \/ phase' = "failed")
  <2>1. tank' \in AfterCheck(pos) /\ pos' = pos + Size(tank[pos])
    BY <1>3 DEF LookUp
  <2>2. Ahead' = Ahead \ {pos} /\ pos' \in Nat
    BY <1>3, <2>1, FirstAhead
  <2>3. Accepted(pos) /\ TypeOK
    BY <1>3, SlidesOverJunk DEF GoodInv
  <2>4. GoodAhead'
    BY <1>3, <2>1, <2>2, <2>3, StaysSame DEF GoodInv, GoodAhead, Ahead
  <2>5. PastEnd'
    BY <1>3, <2>2, SizesAssumption DEF PassOver, PastEnd
  <2> QED
    BY <1>1, <2>4, <2>5 DEF GoodInv
<1>4. CASE phase' \in {"failed", "done", "outside"}
  BY <1>1, <1>4 DEF GoodInv, GoodAhead, PastEnd
<1>5. CASE UNCHANGED vars
  BY <1>1, <1>5 DEF GoodInv, GoodAhead, PastEnd, Ahead, vars
<1> QED
  BY <1>2, <1>3, <1>4, <1>5
     DEF Next, Track, PassTooLarge, PassInconsistent, Inconsistent, Accepted, PassOver,
         SwapPastEnd, NodeFails, SlotsFail, SortAll, Scanning

-----------------------------------------------------------------------------
LEMMA PromiseInit == GoodInv /\ Init => Promise!Init
<1> SUFFICES ASSUME GoodInv, Init PROVE Promise!Init
  OBVIOUS
<1>1. ASSUME NEW o \in Ahead
      PROVE  Msg(o) \in Promise!Message
  <2>1. o \in DOMAIN tank /\ tank[o] # Junk /\ o \in Nat /\ tank[o] \in Header
    BY SizesAssumption DEF Ahead, GoodInv, TypeOK
  <2>2. Size(tank[o]) \in Nat
    BY <2>1, SizePositiveAt DEF GoodInv
  <2> QED
    BY <2>1, <2>2 DEF Msg, Promise!Message, Header
<1> QED
  BY <1>1 DEF Init, Promise!Init

\* The message at the pointer is filed.
LEMMA FilesNext ==
    ASSUME GoodInv, phase = "scan", phase' # "done", ~Rejected(pos), LookUp(pos),
           tlist' = [tlist EXCEPT ![tank[pos].chan] = Append(@, Entry(pos))]
    PROVE  Promise!FileNext
<1>1. /\ tank' \in AfterCheck(pos) /\ pos' = pos + Size(tank[pos])
      /\ pos \in Ahead /\ Accepted(pos) /\ TypeOK
  BY SlidesOverJunk DEF LookUp, GoodInv
<1>2. Ahead' = Ahead \ {pos} /\ \A o \in Ahead : pos <= o
  BY <1>1, FirstAhead
<1>3. \A o \in Ahead : Msg(o)' = Msg(o)
  BY <1>1, StaysSame DEF Ahead
<1> DEFINE rest == {Msg(o) : o \in Ahead}
<1>4. \A o \in Ahead : Msg(o).offset = o
  BY DEF Msg
<1>5. rest' = rest \ {Msg(pos)}
  <2>1. rest' = {Msg(o) : o \in Ahead \ {pos}}
    BY <1>2, <1>3
  <2>2. \A o \in Ahead : Msg(o) = Msg(pos) => o = pos
    BY <1>1, <1>4
  <2> QED
    BY <2>1, <2>2
<1>6. Msg(pos) \in rest /\ \A other \in rest : Msg(pos).offset <= other.offset
  BY <1>1, <1>2, <1>4
<1>7. Msg(pos).chan = tank[pos].chan /\ Promise!Entry(Msg(pos)) = Entry(pos)
  BY DEF Msg, Promise!Entry, Entry
<1> QED
  BY <1>5, <1>6, <1>7, Zenon DEF Promise!FileNext

\* The same messages are ahead: a step of the scan the catalogue does not see.
LEMMA Unseen ==
    ASSUME GoodInv, phase = "scan", phase' # "done", UNCHANGED tlist,
           Ahead' = Ahead, \A o \in Ahead : Msg(o)' = Msg(o)
    PROVE  UNCHANGED Promise!vars
BY DEF Promise!vars

LEMMA PromiseStep ==
    ASSUME GoodInv, [Next]_vars
    PROVE  [Promise!Next]_(Promise!vars)
<1>1. CASE Slide
  <2>1. tank[pos] = Junk /\ phase = "scan" /\ pos' = pos + 1 /\ pos \in Nat
        /\ phase' # "done" /\ UNCHANGED tlist
    BY <1>1, SlidesOverJunk, HeaderRead DEF Slide, Scanning, GoodInv
  <2>2. tank' = tank
    BY <1>1, <2>1 DEF Slide, AfterCheck
  <2>3. \A o \in DOMAIN tank : tank[o] # Junk => (o >= pos + 1 <=> o >= pos)
    BY <2>1 DEF GoodInv, TypeOK
  <2>4. Ahead' = Ahead /\ \A o \in Ahead : Msg(o)' = Msg(o)
    BY <2>1, <2>2, <2>3 DEF Ahead, Msg
  <2> QED
    BY <2>1, <2>4, Unseen
<1>2. CASE Track \/ SlotsFail
  BY <1>2, FilesNext
     DEF Track, SlotsFail, Scanning, Accepted, PassOver, Count, Promise!Next
<1>3. CASE NodeFails
  <2>1. /\ phase = "scan" /\ phase' = "failed" /\ UNCHANGED <<pos, tlist>>
        /\ tank' \in AfterCheck(pos) /\ Accepted(pos) /\ TypeOK
    BY <1>3, SlidesOverJunk DEF NodeFails, Scanning, GoodInv
  <2>2. Ahead' = Ahead /\ \A o \in Ahead : Msg(o)' = Msg(o)
    BY <2>1, StaysSame DEF Ahead
  <2> QED
    BY <2>1, <2>2, Unseen
<1>4. ~(PassTooLarge \/ PassInconsistent)
  BY SlidesOverJunk DEF PassTooLarge, PassInconsistent, Inconsistent, Accepted, Scanning
<1>5. CASE SortAll
  <2>1. Ahead = {} /\ Ahead' = {}
    BY <1>5, SizesAssumption DEF SortAll, GoodInv, PastEnd, Ahead, TypeOK
  <2> QED
    BY <1>5, <2>1 DEF SortAll, Promise!Next, Promise!Close
<1>6. CASE SwapPastEnd
  <2>1. /\ phase = "scan" /\ phase' = "outside"
        /\ UNCHANGED <<tank, pos, tlist>>
    BY <1>6 DEF SwapPastEnd, Scanning
  <2>2. Ahead' = Ahead /\ \A o \in Ahead : Msg(o)' = Msg(o)
    BY <2>1 DEF Ahead, Msg, Size
  <2> QED
    BY <2>1, <2>2, Unseen
<1>7. CASE UNCHANGED vars
  BY <1>7 DEF vars, Promise!vars, Ahead, Msg, Size
<1> QED
  BY <1>1, <1>2, <1>3, <1>4, <1>5, <1>6, <1>7 DEF Next

\* The scan of any file of good messages, of whatever length and with
\* whatever junk between them, does what Catalogue says: it files every
\* message under its channel, in the order of the file and none twice, and
\* sorts the lists once all are filed.
THEOREM ScanCatalogues ==
    ASSUME GoodTanks
    PROVE  Spec => Catalogued
<1>1. Spec => [](TypeOK /\ SlotFree)
  BY TypeCorrect, SlotsSuffice, PTL
<1>2. Init => GoodInv
  BY GoodInit DEF GoodTanks, Init
<1>3. GoodInv /\ SlotFree /\ [Next]_vars => GoodInv'
  BY GoodStep DEF GoodTanks
<1>4. Spec => []GoodInv
  BY <1>1, <1>2, <1>3, PTL DEF Spec
<1>5. GoodInv /\ Init => Promise!Init
  BY PromiseInit
<1>6. GoodInv /\ [Next]_vars => [Promise!Next]_(Promise!vars)
  BY PromiseStep
<1> QED
  BY <1>4, <1>5, <1>6, PTL DEF Spec, Catalogued, Promise!Spec
=============================================================================
