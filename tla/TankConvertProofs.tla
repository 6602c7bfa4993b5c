-------------------------- MODULE TankConvertProofs -------------------------
(***************************************************************************)
(* ConvTypeOK, ProgressFits, ConvertedOnce and Delivered, for every file:  *)
(* the progress bar and the lost traces, the samples that are written, and *)
(* the whole way from the messages of the file to the series of a channel. *)
(***************************************************************************)
EXTENDS TankConvert, TankScanProofs

\* TraceList has the channels of the tree, none twice.
TracesOrdered ==
    phase = "done" =>
        /\ TraceList \in [1..totaltrace -> known]
        /\ \A j, k \in 1..totaltrace : j < k => TraceList[j] < TraceList[k]

ScannedInv == TypeOK /\ SlotFree /\ TracesListed /\ TracesOrdered

\* Duties that are done, or never will be.
Progress(d) == CompDuty + Cardinality(lost) = d

\* The traces before the one the loop is at.
Before(n) == {TraceList[k] : k \in 1..n-1}

StageInv ==
    /\ stage \in {"scan", "traces", "sac", "pack", "unmap", "exit", "failed",
                  "crashed", "faulted"}
    /\ stage \in {"scan", "failed"} => TotalDuty = 0 /\ CompDuty = 0 /\ lost = {}
    /\ stage \notin {"scan", "failed", "faulted"} => phase = "done" /\ TotalDuty = totaltrace + 2
    /\ stage = "scan" => t = 1
    /\ stage = "traces" => t <= totaltrace + 1
    /\ stage = "sac" => t <= totaltrace

LostInv ==
    /\ IsFiniteSet(lost)
    /\ stage \in {"traces", "sac"} => lost \subseteq Before(t)

\* A conversion that is over has counted its duty if it returns 0.
DutyInv ==
    /\ CompDuty \in Nat /\ t \in Nat \ {0}
    /\ StageInv /\ LostInv
    /\ stage = "traces" => Progress(t - 1)
    /\ stage = "sac" => Progress(IF sacphase = "done" THEN t ELSE t - 1)
    /\ stage \in {"pack", "unmap"} => Progress(totaltrace + 1)
    /\ stage = "exit" => Progress(totaltrace + 2)
    /\ stage = "crashed" => CompDuty <= totaltrace
    /\ stage = "faulted" => CompDuty <= TotalDuty

-----------------------------------------------------------------------------
LEMMA OrderedStep ==
    ASSUME TypeOK, TracesListed, TracesOrdered, [Next]_vars
    PROVE  TracesOrdered'
<1>1. CASE SortAll
  <2>1. /\ UNCHANGED <<known, totaltrace>>
        /\ TraceList' \in [1..Cardinality(known) -> known]
        /\ \A j, k \in DOMAIN TraceList' : j < k => TraceList'[j] < TraceList'[k]
    BY <1>1 DEF SortAll
  <2>2. totaltrace = Cardinality(known)
    BY DEF TracesListed
  <2> QED
    BY <2>1, <2>2 DEF TracesOrdered
<1>2. CASE UNCHANGED vars
  BY <1>2 DEF vars, TracesOrdered
<1>3. CASE \/ Slide \/ Track \/ PassTooLarge \/ PassInconsistent \/ SwapPastEnd
           \/ NodeFails \/ SlotsFail
  <2>1. phase' # "done"
    BY <1>3 DEF Slide, Track, PassTooLarge, PassInconsistent, SwapPastEnd, NodeFails,
                SlotsFail, PassOver
  <2> QED
    BY <2>1 DEF TracesOrdered
<1> QED
  BY <1>1, <1>2, <1>3 DEF Next

\* The conversion of a trace counts its duty when it is done.
LEMMA SacDuty ==
    ASSUME Sac!Next
    PROVE  /\ sacphase \in {"head", "store"}
           /\ CompDuty' = IF sacphase' = "done" THEN CompDuty + 1 ELSE CompDuty
<1>1. CASE Sac!WriteFile \/ Sac!WriteFails \/ Sac!OpenFails
  BY <1>1 DEF Sac!WriteFile, Sac!WriteFails, Sac!OpenFails, Sac!AtEnd
<1>2. CASE Sac!FirstPacket \/ Sac!Follows \/ Sac!SkipDuplicate \/ Sac!SkipBogus
           \/ Sac!FillGap \/ Sac!FillFails
  BY <1>2 DEF Sac!FirstPacket, Sac!Follows, Sac!SkipDuplicate, Sac!SkipBogus,
              Sac!FillGap, Sac!FillFails, Sac!AtHead
<1>3. CASE Sac!SkipUnsupported \/ Sac!StoreFits \/ Sac!StoreGrows \/ Sac!StoreFails
  BY <1>3 DEF Sac!SkipUnsupported, Sac!StoreFits, Sac!StoreGrows, Sac!StoreFails,
              Sac!AtStore, Sac!Stored
<1> QED
  BY <1>1, <1>2, <1>3 DEF Sac!Next

\* A trace that is lost has not been lost before.
LEMMA OneMoreLost ==
    ASSUME ScannedInv, phase = "done", IsFiniteSet(lost), lost \subseteq Before(t),
           t \in 1..totaltrace
    PROVE  /\ IsFiniteSet(lost \union {Chan})
           /\ Cardinality(lost \union {Chan}) = Cardinality(lost) + 1
           /\ lost \union {Chan} \subseteq Before(t + 1)
<1>1. /\ totaltrace \in Nat /\ TraceList \in [1..totaltrace -> known] /\ known \subseteq Nat
      /\ \A j, k \in 1..totaltrace : j < k => TraceList[j] < TraceList[k]
  BY TanksAssumption DEF ScannedInv, TracesOrdered, TypeOK
<1>2. ASSUME NEW k \in 1..t-1
      PROVE  TraceList[k] # TraceList[t]
  <2>1. k \in 1..totaltrace /\ k < t
    BY <1>1
  <2>2. TraceList[k] \in Nat /\ TraceList[t] \in Nat /\ TraceList[k] < TraceList[t]
    BY <1>1, <2>1
  <2> QED
    BY <2>2
<1>3. Chan \notin lost
  BY <1>2 DEF Before, Chan
<1>4. lost \union {Chan} \subseteq Before(t + 1)
  BY <1>1 DEF Before, Chan
<1> QED
  BY <1>3, <1>4, FS_AddElement

-----------------------------------------------------------------------------
LEMMA DutyInit == ConvInit => ScannedInv /\ DutyInv
<1> SUFFICES ASSUME ConvInit PROVE ScannedInv /\ DutyInv
  OBVIOUS
<1>1. TypeOK /\ SlotFree
  BY ScanInit DEF ConvInit, ScanInv
<1>2. TracesListed
  BY EmptySeq, FS_EmptySet DEF ConvInit, Init, TracesListed
<1>3. TracesOrdered
  BY DEF ConvInit, Init, TracesOrdered
<1>4. DutyInv
  BY FS_EmptySet DEF ConvInit, DutyInv, StageInv, LostInv
<1> QED
  BY <1>1, <1>2, <1>3, <1>4 DEF ScannedInv

LEMMA ScannedStep == ScannedInv /\ [ConvNext]_allvars => ScannedInv'
<1> SUFFICES ASSUME ScannedInv, [ConvNext]_allvars PROVE ScannedInv'
  OBVIOUS
<1>1. [Next]_vars
  BY DEF ConvNext, allvars, Scan, ScanFruitless, ScanComplete, BeginSac, SacStep,
         SacReturns, SacReturnsError, SacCrashes, AddTrace, AddFails, TracesThrough,
         ScanFaults, SacFaults, AddFaults, Pack, PackFails, Unmap, AtTrace, AtMseedTrace
<1> QED
  BY <1>1, ScanStep, ListedStep, OrderedStep DEF ScannedInv, ScanInv

LEMMA DutyStep == ScannedInv /\ DutyInv /\ [ConvNext]_allvars => DutyInv'
<1> SUFFICES ASSUME ScannedInv, DutyInv, [ConvNext]_allvars PROVE DutyInv'
  OBVIOUS
<1> DEFINE n == totaltrace
           lostcount == Cardinality(lost)
<1>1. n \in Nat /\ CompDuty \in Nat /\ t \in Nat \ {0} /\ IsFiniteSet(lost)
      /\ lostcount \in Nat
  BY FS_CardinalityType DEF ScannedInv, TypeOK, DutyInv, LostInv
<1>2. CASE Scan
  BY <1>2 DEF Scan, convvars, DutyInv, StageInv, LostInv
<1>3. CASE ScanFruitless
  BY <1>3 DEF ScanFruitless, vars, DutyInv, StageInv, LostInv
<1>4. CASE ScanComplete
  <2>1. lost = {} /\ Cardinality({}) = 0 /\ t = 1
    BY <1>4, FS_EmptySet DEF ScanComplete, DutyInv, StageInv
  <2> QED
    BY <1>1, <1>4, <2>1 DEF ScanComplete, vars, DutyInv, StageInv, LostInv, Progress
<1>5. CASE BeginSac
  BY <1>1, <1>5 DEF BeginSac, AtTrace, vars, DutyInv, StageInv, LostInv, Progress, Before
<1>6. CASE SacStep
  <2>1. /\ sacphase \in {"head", "store"}
        /\ CompDuty' = IF sacphase' = "done" THEN CompDuty + 1 ELSE CompDuty
    BY <1>6, SacDuty DEF SacStep
  <2> QED
    BY <1>1, <1>6, <2>1 DEF SacStep, vars, convvars, DutyInv, StageInv, LostInv, Progress, Before
<1>7. CASE SacReturns
  <2>1. lost \subseteq Before(t + 1)
    BY <1>1, <1>7 DEF SacReturns, DutyInv, LostInv, Before
  <2> QED
    BY <1>1, <1>7, <2>1 DEF SacReturns, vars, DutyInv, StageInv, LostInv, Progress, Before
<1>8. CASE SacReturnsError \/ AddFails
  <2>1. /\ stage \in {"traces", "sac"} /\ t \in 1..n /\ phase = "done"
        /\ lost' = lost \union {Chan} /\ t' = t + 1 /\ stage' = "traces"
        /\ UNCHANGED <<vars, TotalDuty, CompDuty>> /\ Progress(t - 1)
    BY <1>1, <1>8 DEF SacReturnsError, AddFails, AtMseedTrace, AtTrace, DutyInv, StageInv
  <2>2. /\ IsFiniteSet(lost') /\ Cardinality(lost') = lostcount + 1
        /\ lost' \subseteq Before(t + 1)
    BY <2>1, OneMoreLost DEF DutyInv, LostInv
  <2> QED
    BY <1>1, <2>1, <2>2 DEF vars, DutyInv, StageInv, LostInv, Progress, Before
<1>9. CASE SacCrashes
  BY <1>1, <1>9 DEF SacCrashes, vars, DutyInv, StageInv, LostInv, Progress
<1>10. CASE AddTrace
  <2>1. /\ stage = "traces" /\ t <= n /\ CompDuty' = CompDuty + 1
        /\ UNCHANGED <<vars, TotalDuty, lost>>
        /\ \/ stage' = "crashed" /\ UNCHANGED t
           \/ stage' = "traces" /\ t' = t + 1
    BY <1>10 DEF AddTrace, AtMseedTrace, AtTrace
  <2>2. lost \subseteq Before(t + 1)
    BY <1>1, <2>1 DEF DutyInv, LostInv, Before
  <2> QED
    BY <1>1, <2>1, <2>2 DEF vars, DutyInv, StageInv, LostInv, Progress, Before
<1>11. CASE TracesThrough
  BY <1>1, <1>11 DEF TracesThrough, vars, DutyInv, StageInv, LostInv, Progress
<1>12. CASE Pack \/ PackFails \/ Unmap
  BY <1>1, <1>12 DEF Pack, PackFails, Unmap, vars, DutyInv, StageInv, LostInv, Progress
<1>13. CASE UNCHANGED allvars
  BY <1>13 DEF allvars, vars, convvars, sacvars, DutyInv, StageInv, LostInv, Progress, Before
<1>14. CASE ScanFaults \/ SacFaults \/ AddFaults
  BY <1>1, <1>14
     DEF ScanFaults, SacFaults, AddFaults, AtMseedTrace, AtTrace, vars, sacvars, DutyInv,
         StageInv, LostInv, Progress
<1> QED
  BY <1>2, <1>3, <1>4, <1>5, <1>6, <1>7, <1>8, <1>9, <1>10, <1>11, <1>12, <1>13, <1>14
     DEF ConvNext

\* Whatever the file holds and whichever conversions fail, the progress never
\* passes 100%, and what it is short of when the program ends are the lost
\* traces.
THEOREM ProgressIsRight == ConvSpec => []ProgressFits
<1>1. ConvSpec => []ScannedInv
  BY DutyInit, ScannedStep, PTL DEF ConvSpec
<1>2. ConvSpec => []DutyInv
  BY <1>1, DutyInit, DutyStep, PTL DEF ConvSpec
<1>3. ScannedInv /\ DutyInv => ProgressFits
  <2> SUFFICES ASSUME ScannedInv, DutyInv PROVE ProgressFits
    OBVIOUS
  <2>1. totaltrace \in Nat /\ CompDuty \in Nat /\ t \in Nat /\ Cardinality(lost) \in Nat
    BY FS_CardinalityType DEF ScannedInv, TypeOK, DutyInv, LostInv
  <2> QED
    BY <2>1 DEF DutyInv, StageInv, Progress, ProgressFits
<1> QED
  BY <1>1, <1>2, <1>3, PTL
-----------------------------------------------------------------------------
(* ConvertedOnce, for every file: the words that are written.              *)

\* The checks turn no junk into a message and move none to another channel.
SameMessages ==
    \A o \in DOMAIN tank : tank[o] # Junk => /\ o \in DOMAIN disk /\ disk[o] # Junk
                                             /\ disk[o].chan = tank[o].chan

FiledInv == ScannedInv /\ NoNegative /\ EntriesApart /\ EntriesMatch /\ SameMessages

LEMMA ChecksKeep ==
    ASSUME TypeOK, phase = "scan", NEW u \in AfterCheck(pos)
    PROVE  /\ DOMAIN u = DOMAIN tank
           /\ \A o \in DOMAIN tank :
                 u[o] # Junk => tank[o] # Junk /\ u[o].chan = tank[o].chan
<1>1. /\ tank \in [0..TankSize-1 -> Header \union {Junk}]
      /\ DOMAIN tank = 0..TankSize-1 /\ pos \in DOMAIN tank
  BY HeaderRead DEF TypeOK
<1>2. CASE u = tank
  BY <1>2
<1>3. CASE tank[pos] # Junk /\ u = [tank EXCEPT ![pos].opposite = FALSE]
  <2>1. tank[pos] \in Header
    BY <1>1, <1>3
  <2>2. u[pos].chan = tank[pos].chan
    BY <1>1, <1>3, <2>1 DEF Header
  <2>3. \A o \in DOMAIN tank : o # pos => u[o] = tank[o]
    BY <1>3
  <2> QED
    BY <1>3, <2>2, <2>3
<1>4. CASE u \in Disturbed(InTheWay(pos))
  <2> DEFINE X == InTheWay(pos)
  <2>1. PICK r \in [X -> Readings] :
          u = [x \in DOMAIN tank |->
                 IF x \in X THEN [tank[x] EXCEPT !.n = r[x].n, !.time = r[x].time,
                                                !.consistent = r[x].consistent]
                            ELSE tank[x]]
    BY <1>4 DEF Disturbed
  <2>2. ASSUME NEW x \in X, x \in DOMAIN tank
        PROVE  tank[x] # Junk /\ u[x].chan = tank[x].chan
    <3>1. tank[x] \in Header /\ tank[x] # Junk
      BY <1>1, <2>2 DEF InTheWay
    <3> HIDE DEF X
    <3>2. u[x] = [tank[x] EXCEPT !.n = r[x].n, !.time = r[x].time,
                                 !.consistent = r[x].consistent]
      BY <2>1, <2>2
    <3> QED
      BY <3>1, <3>2 DEF Header
  <2> HIDE DEF X
  <2>3. DOMAIN u = DOMAIN tank /\ \A x \in DOMAIN tank : x \notin X => u[x] = tank[x]
    BY <2>1
  <2> QED
    BY <2>2, <2>3
<1> QED
  BY <1>2, <1>3, <1>4 DEF AfterCheck

LEMMA FiledInit == ConvInit => FiledInv
<1> SUFFICES ASSUME ConvInit PROVE FiledInv
  OBVIOUS
<1>1. ScannedInv
  BY DutyInit
<1>2. NoNegative /\ EntriesApart /\ EntriesMatch
  BY CountsAssumption, NoNegativeInit, ApartInit, MatchInit DEF ConvInit
<1>3. SameMessages
  BY DEF ConvInit, SameMessages
<1> QED
  BY <1>1, <1>2, <1>3 DEF FiledInv

LEMMA FiledStep == FiledInv /\ [ConvNext]_allvars => FiledInv'
<1> SUFFICES ASSUME FiledInv, [ConvNext]_allvars PROVE FiledInv'
  OBVIOUS
<1>1. [Next]_vars /\ disk' = disk
  BY DEF ConvNext, allvars, convvars, Scan, ScanFruitless, ScanComplete, BeginSac, SacStep,
         SacReturns, SacReturnsError, SacCrashes, AddTrace, AddFails, TracesThrough,
         ScanFaults, SacFaults, AddFaults, Pack, PackFails, Unmap, AtTrace, AtMseedTrace
<1>2. ScannedInv'
  BY ScannedStep DEF FiledInv
<1>3. NoNegative' /\ EntriesApart' /\ EntriesMatch'
  BY <1>1, CountsAssumption, NoNegativeStep, ApartStep, MatchStep DEF FiledInv, ScannedInv
<1>4. SameMessages'
  <2>1. CASE \E u \in AfterCheck(pos) : phase = "scan" /\ tank' = u
    BY <1>1, <2>1, ChecksKeep DEF SameMessages, FiledInv, ScannedInv
  <2>2. CASE tank' = tank
    BY <1>1, <2>2 DEF SameMessages, FiledInv
  <2> QED
    BY <1>1, <2>1, <2>2
       DEF Next, Slide, Track, PassTooLarge, PassInconsistent, PassOver, LookUp,
           SwapPastEnd, NodeFails, SlotsFail, SortAll, Scanning, vars
<1> QED
  BY <1>2, <1>3, <1>4 DEF FiledInv

\* What the entries of a channel say when the converters read its messages.
LEMMA EntryIs ==
    ASSUME FiledInv, NEW c \in Chans, NEW k \in 1..Len(tlist[c])
    PROVE  LET o == tlist[c][k].offset
           IN  /\ OffsetsOf(c)[k] = o /\ o \in Nat /\ o \in DOMAIN tank
               /\ tank[o] \in Header /\ tank[o] # Junk /\ tank[o].chan = c
               /\ tank[o].consistent /\ tank[o].n \in Nat /\ tank[o].width \in Nat \ {0}
               /\ tlist[c][k].size = Size(tank[o]) /\ Size(tank[o]) \in Nat
               /\ Size(tank[o]) > 0
<1> DEFINE o == tlist[c][k].offset
<1>1. TypeOK /\ NoNegative /\ Matches(c, tlist[c][k])
  BY CountsAssumption DEF FiledInv, ScannedInv, EntriesMatch
<1>2. o \in DOMAIN tank /\ tank[o] # Junk /\ tank[o] \in Header
  BY <1>1 DEF Matches, TypeOK
<1>3. tlist[c][k].offset \in Nat
  <2>1. tlist[c] \in Seq(Entries)
    BY <1>1 DEF TypeOK, Entries
  <2>2. tlist[c][k] \in Entries
    BY <2>1, ElementOfSeq
  <2> QED
    BY <2>2 DEF Entries
<1>4. tank[o].n \in Nat /\ tank[o].width \in Nat \ {0}
  BY <1>1, <1>2 DEF NoNegative, Header
<1>5. OffsetsOf(c)[k] = o
  BY DEF OffsetsOf
<1>6. Size(tank[o]) \in Nat /\ Size(tank[o]) > 0
  BY <1>1, <1>2, SizePositiveAt
<1> QED
  BY <1>1, <1>2, <1>3, <1>4, <1>5, <1>6 DEF Matches

\* Entries of a channel stand in different places.
LEMMA OffsetsDiffer ==
    ASSUME FiledInv, NEW c \in Chans, NEW j \in 1..Len(tlist[c]), NEW k \in 1..Len(tlist[c]),
           j # k
    PROVE  tlist[c][j].offset # tlist[c][k].offset
<1>1. \/ tlist[c][j].offset + tlist[c][j].size <= tlist[c][k].offset
      \/ tlist[c][k].offset + tlist[c][k].size <= tlist[c][j].offset
  BY CountsAssumption DEF FiledInv, EntriesApart
<1>2. /\ tlist[c][j].offset \in Nat /\ tlist[c][j].size \in Nat /\ tlist[c][j].size > 0
      /\ tlist[c][k].offset \in Nat /\ tlist[c][k].size \in Nat /\ tlist[c][k].size > 0
  BY EntryIs
<1> QED
  BY <1>1, <1>2, SMTT(30)

-----------------------------------------------------------------------------
\* The words ws are samples of the packets of L before the j-th and of the
\* first a samples of that one, each once, and fill words.
WordsOf(ws, L, j, a) ==
    /\ ws \in Seq(Nat \X Nat)
    /\ \A x \in 1..Len(ws) : ws[x] # Sac!FillWord =>
          \/ ws[x][1] \in 1..j-1 /\ ws[x][2] \in 1..L[ws[x][1]].n
          \/ ws[x][1] = j /\ ws[x][2] \in 1..a
    /\ \A x, y \in 1..Len(ws) : x # y /\ ws[x] # Sac!FillWord => ws[x] # ws[y]

LEMMA JoinedWords ==
    ASSUME NEW s \in Seq(Nat \X Nat), NEW r \in Seq(Nat \X Nat)
    PROVE  /\ s \o r \in Seq(Nat \X Nat) /\ Len(s) \in Nat /\ Len(r) \in Nat
           /\ Len(s \o r) = Len(s) + Len(r)
           /\ \A x \in 1..Len(s) + Len(r) :
                 \/ x \in 1..Len(s) /\ (s \o r)[x] = s[x]
                 \/ x - Len(s) \in 1..Len(r) /\ (s \o r)[x] = r[x - Len(s)]
<1>1. Len(s) \in Nat /\ Len(r) \in Nat
  BY LenProperties
<1>2. /\ s \o r \in Seq(Nat \X Nat) /\ Len(s \o r) = Len(s) + Len(r)
      /\ \A x \in 1..Len(s) + Len(r) :
            (s \o r)[x] = IF x <= Len(s) THEN s[x] ELSE r[x - Len(s)]
  BY ConcatProperties
<1> QED
  BY <1>1, <1>2

\* The next b samples of the packet are others than those that are there.
LEMMA MoreSamples ==
    ASSUME NEW L, NEW j \in Nat \ {0}, NEW a \in Nat, NEW b \in Nat, NEW ws,
           WordsOf(ws, L, j, a)
    PROVE  WordsOf(ws \o Sac!Samples(j, a, b), L, j, a + b)
<1> DEFINE r == Sac!Samples(j, a, b)
           T == ws \o r
           m == Len(ws)
<1>1. /\ r \in Seq(Nat \X Nat) /\ Len(r) = b
      /\ \A x \in 1..b : r[x] = <<j, a + x>>
  <2>1. \A x \in 1..b : <<j, a + x>> \in Nat \X Nat
    OBVIOUS
  <2> QED
    BY <2>1 DEF Sac!Samples
<1>2. ws \in Seq(Nat \X Nat)
  BY DEF WordsOf
<1> HIDE DEF r
<1>3. /\ T \in Seq(Nat \X Nat) /\ m \in Nat /\ Len(T) = m + b
      /\ \A x \in 1..m + b : \/ x \in 1..m /\ T[x] = ws[x]
                             \/ x - m \in 1..b /\ T[x] = r[x - m]
  BY <1>1, <1>2, JoinedWords
<1> HIDE DEF T, m
<1>4. \A x \in 1..m + b : \/ x \in 1..m /\ T[x] = ws[x]
                          \/ x - m \in 1..b /\ T[x] = <<j, a + (x - m)>>
  BY <1>1, <1>3
<1>5. ASSUME NEW x \in 1..Len(T), T[x] # Sac!FillWord
      PROVE  \/ T[x][1] \in 1..j-1 /\ T[x][2] \in 1..L[T[x][1]].n
             \/ T[x][1] = j /\ T[x][2] \in 1..a + b
  <2>1. CASE x \in 1..m /\ T[x] = ws[x]
    <3>1. \/ ws[x][1] \in 1..j-1 /\ ws[x][2] \in 1..L[ws[x][1]].n
          \/ ws[x][1] = j /\ ws[x][2] \in 1..a
      BY <1>5, <2>1 DEF WordsOf, m
    <3> QED
      BY <2>1, <3>1
  <2>2. CASE x - m \in 1..b /\ T[x] = <<j, a + (x - m)>>
    BY <2>2
  <2> QED
    BY <1>3, <1>4, <2>1, <2>2
<1>6. ASSUME NEW x \in 1..Len(T), NEW y \in 1..Len(T), x # y, T[x] # Sac!FillWord
      PROVE  T[x] # T[y]
  <2>1. ASSUME NEW v \in 1..m, NEW w \in 1..b
        PROVE  ws[v] # <<j, a + w>>
    <3>1. SUFFICES ASSUME ws[v] = <<j, a + w>> PROVE FALSE
      OBVIOUS
    <3>2. ws[v][1] = j /\ ws[v][2] = a + w
      BY <3>1
    <3>3. ws[v] # Sac!FillWord
      BY <3>2 DEF Sac!FillWord
    <3>4. \/ ws[v][1] \in 1..j-1 /\ ws[v][2] \in 1..L[ws[v][1]].n
          \/ ws[v][1] = j /\ ws[v][2] \in 1..a
      BY <3>3 DEF WordsOf, m
    <3> QED
      BY <3>2, <3>4
  <2>2. CASE x \in 1..m /\ T[x] = ws[x] /\ y \in 1..m /\ T[y] = ws[y]
    BY <1>6, <2>2 DEF WordsOf, m
  <2>3. CASE x \in 1..m /\ T[x] = ws[x] /\ y - m \in 1..b /\ T[y] = <<j, a + (y - m)>>
    BY <2>1, <2>3
  <2>4. CASE x - m \in 1..b /\ T[x] = <<j, a + (x - m)>> /\ y \in 1..m /\ T[y] = ws[y]
    BY <2>1, <2>4
  <2>5. CASE /\ x - m \in 1..b /\ T[x] = <<j, a + (x - m)>>
             /\ y - m \in 1..b /\ T[y] = <<j, a + (y - m)>>
    <3>1. T[x][2] = a + (x - m) /\ T[y][2] = a + (y - m)
      BY <2>5
    <3>2. a + (x - m) # a + (y - m)
      BY <1>3, <1>6
    <3> QED
      BY <3>1, <3>2
  <2> QED
    BY <1>3, <1>4, <2>2, <2>3, <2>4, <2>5
<1> QED
  BY <1>3, <1>5, <1>6 DEF WordsOf, T, r, m

LEMMA MoreLength ==
    ASSUME NEW L, NEW j \in Nat \ {0}, NEW a \in Nat, NEW b \in Nat, NEW ws,
           WordsOf(ws, L, j, a)
    PROVE  Len(ws \o Sac!Samples(j, a, b)) = Len(ws) + b
<1> DEFINE r == Sac!Samples(j, a, b)
<1>1. r \in Seq(Nat \X Nat) /\ Len(r) = b
  <2>1. \A x \in 1..b : <<j, a + x>> \in Nat \X Nat
    OBVIOUS
  <2> QED
    BY <2>1 DEF Sac!Samples
<1>2. ws \in Seq(Nat \X Nat)
  BY DEF WordsOf
<1> HIDE DEF r
<1>3. Len(ws \o r) = Len(ws) + b
  BY <1>1, <1>2, JoinedWords
<1> QED
  BY <1>3 DEF r

LEMMA MoreFill ==
    ASSUME NEW L, NEW j, NEW a, NEW b \in Nat, NEW ws, WordsOf(ws, L, j, a)
    PROVE  /\ WordsOf(ws \o Sac!FillRun(b), L, j, a)
           /\ Len(ws \o Sac!FillRun(b)) = Len(ws) + b
<1> DEFINE r == Sac!FillRun(b)
           T == ws \o r
           m == Len(ws)
<1>1. /\ r \in Seq(Nat \X Nat) /\ Len(r) = b
      /\ \A x \in 1..b : r[x] = Sac!FillWord
  BY DEF Sac!FillRun, Sac!FillWord
<1>2. ws \in Seq(Nat \X Nat)
  BY DEF WordsOf
<1> HIDE DEF r
<1>3. /\ T \in Seq(Nat \X Nat) /\ m \in Nat /\ Len(T) = m + b
      /\ \A x \in 1..m + b : \/ x \in 1..m /\ T[x] = ws[x]
                             \/ x - m \in 1..b /\ T[x] = r[x - m]
  BY <1>1, <1>2, JoinedWords
<1> HIDE DEF T
<1>4. \A x \in 1..Len(T) : T[x] = Sac!FillWord \/ (x \in 1..m /\ T[x] = ws[x])
  BY <1>1, <1>3
<1> HIDE DEF m
<1>5. \A x \in 1..Len(T) : T[x] # Sac!FillWord =>
          \/ T[x][1] \in 1..j-1 /\ T[x][2] \in 1..L[T[x][1]].n
          \/ T[x][1] = j /\ T[x][2] \in 1..a
  BY <1>4 DEF WordsOf, m
<1>6. \A x, y \in 1..Len(T) : x # y /\ T[x] # Sac!FillWord => T[x] # T[y]
  BY <1>4 DEF WordsOf, m
<1> QED
  BY <1>3, <1>5, <1>6 DEF WordsOf, T, r, m

\* The packet is through, stored or not.
LEMMA NextPacket ==
    ASSUME NEW L, NEW j \in Nat \ {0}, NEW a \in Nat, L[j].n \in Nat, a <= L[j].n,
           NEW ws, WordsOf(ws, L, j, a)
    PROVE  WordsOf(ws, L, j + 1, 0)
<1>1. ASSUME NEW x \in 1..Len(ws), ws[x] # Sac!FillWord
      PROVE  ws[x][1] \in 1..(j+1)-1 /\ ws[x][2] \in 1..L[ws[x][1]].n
  <2>1. CASE ws[x][1] \in 1..j-1 /\ ws[x][2] \in 1..L[ws[x][1]].n
    BY <2>1
  <2>2. CASE ws[x][1] = j /\ ws[x][2] \in 1..a
    <3>1. ws[x][2] \in 1..L[j].n
      BY <2>2
    <3> QED
      BY <2>2, <3>1
  <2> QED
    BY <1>1, <2>1, <2>2 DEF WordsOf
<1> QED
  BY <1>1 DEF WordsOf

-----------------------------------------------------------------------------
\* The packets are the messages of the channel as they stand in the tank.
TraceRead == list = [k \in 1..Len(tlist[Chan]) |-> PacketAt(OffsetsOf(Chan)[k])]

BufferFilled ==
    /\ i \in 1..Len(list) + 1
    /\ sacphase = "store" => i <= Len(list)
    /\ cap \in Nat /\ nsamp \in Nat /\ npts \in Nat /\ Len(out) <= cap
    /\ WordsOf(out, list, i, 0)

SacInv ==
    stage = "sac" =>
        /\ TraceRead
        /\ sacphase \in {"head", "store", "done"} => BufferFilled

LEMMA ChannelIs ==
    ASSUME FiledInv, DutyInv, stage = "sac" \/ stage = "traces", t <= totaltrace
    PROVE  /\ t \in 1..totaltrace /\ Chan \in Chans /\ phase = "done"
           /\ Len(tlist[Chan]) \in Nat /\ maxtbuf[Chan] \in Nat
<1>1. t \in 1..totaltrace /\ phase = "done"
  BY DEF DutyInv, StageInv, FiledInv, ScannedInv, TypeOK
<1>2. Chan \in Chans
  BY <1>1 DEF FiledInv, ScannedInv, TypeOK, TracesOrdered, Chan
<1>3. tlist[Chan] \in Seq(Entries) /\ maxtbuf[Chan] \in Nat
  BY <1>2 DEF FiledInv, ScannedInv, TypeOK, Entries
<1> QED
  BY <1>1, <1>2, <1>3, LenProperties

LEMMA PacketsAre ==
    ASSUME FiledInv, DutyInv, stage = "sac", TraceRead
    PROVE  /\ Len(list) = Len(tlist[Chan]) /\ Len(list) \in Nat
           /\ \A k \in 1..Len(list) :
                 list[k].n = tank[OffsetsOf(Chan)[k]].n /\ list[k].n \in Nat
<1>1. Chan \in Chans /\ Len(tlist[Chan]) \in Nat
  BY ChannelIs DEF DutyInv, StageInv
<1>2. Len(list) = Len(tlist[Chan])
  BY <1>1 DEF TraceRead
<1>3. ASSUME NEW k \in 1..Len(tlist[Chan])
      PROVE  list[k].n = tank[OffsetsOf(Chan)[k]].n /\ list[k].n \in Nat
  <2>1. list[k] = PacketAt(OffsetsOf(Chan)[k])
    BY DEF TraceRead
  <2>2. list[k].n = tank[OffsetsOf(Chan)[k]].n
    BY <2>1 DEF PacketAt
  <2>3. tank[OffsetsOf(Chan)[k]].n \in Nat
    BY <1>1, EntryIs
  <2> QED
    BY <2>2, <2>3
<1> QED
  BY <1>1, <1>2, <1>3

\* A packet is copied in one pass or in two.
LEMMA StoredWords ==
    ASSUME BufferFilled, Len(list) \in Nat, \A k \in 1..Len(list) : list[k].n \in Nat,
           Sac!StoreFits \/ Sac!StoreGrows
    PROVE  BufferFilled'
<1> DEFINE w == list[i].n
           l == Len(out)
           first  == Sac!Smaller(w, cap - l)
           second == Sac!Smaller(w - first, cap' - (l + first))
<1>1. /\ i \in 1..Len(list) /\ i' = i + 1 /\ sacphase' = "head" /\ list' = list
      /\ npts' = npts /\ nsamp' = nsamp + w
  BY DEF BufferFilled, Sac!StoreFits, Sac!StoreGrows, Sac!AtStore, Sac!Stored, Sac!Pkt
<1>2. /\ w \in Nat /\ l \in Nat /\ cap \in Nat /\ l <= cap /\ nsamp \in Nat /\ npts \in Nat
      /\ Sac!Words(Sac!Pkt) = w /\ i \in Nat \ {0}
  <2>1. out \in Seq(Nat \X Nat)
    BY DEF BufferFilled, WordsOf
  <2>2. list[i].n \in Nat
    BY <1>1
  <2> QED
    BY <1>1, <2>1, <2>2, LenProperties DEF BufferFilled, Sac!Words, Sac!Pkt
<1>3. WordsOf(out, list, i, 0)
  BY DEF BufferFilled
<1>4. CASE Sac!StoreFits
  <2>1. /\ out' = out \o Sac!Samples(i, 0, w) /\ cap' = cap /\ l + w < cap
    BY <1>2, <1>4 DEF Sac!StoreFits
  <2>2. WordsOf(out', list, i, 0 + w) /\ Len(out') = l + w
    <3> HIDE DEF w
    <3>1. i \in Nat \ {0} /\ 0 \in Nat /\ w \in Nat
      BY <1>2
    <3>2. WordsOf(out \o Sac!Samples(i, 0, w), list, i, 0 + w)
      BY <1>3, <3>1, MoreSamples
    <3>3. Len(out \o Sac!Samples(i, 0, w)) = Len(out) + w
      BY <1>3, <3>1, MoreLength
    <3> QED
      BY <2>1, <3>2, <3>3
  <2>3. WordsOf(out', list, i + 1, 0)
    <3>1. i \in Nat \ {0} /\ w \in Nat /\ list[i].n \in Nat /\ w <= list[i].n
      BY <1>2
    <3> HIDE DEF w
    <3>2. WordsOf(out', list, i, w)
      BY <2>2, <3>1
    <3> QED
      BY <3>1, <3>2, NextPacket
  <2> HIDE DEF w, l
  <2> QED
    BY <1>1, <1>2, <2>1, <2>2, <2>3 DEF BufferFilled
<1>5. CASE Sac!StoreGrows
  <2>1. /\ out' = out \o Sac!Samples(i, 0, first) \o Sac!Samples(i, first, second)
        /\ cap' = cap + Grow
    BY <1>2, <1>5 DEF Sac!StoreGrows
  <2>2. /\ first \in Nat /\ second \in Nat /\ first + second <= w
        /\ l + first + second <= cap' /\ cap' \in Nat
    <3> HIDE DEF w, l
    <3> QED
      BY <1>2, <2>1, ConvertAssumption DEF Sac!Smaller
  <2> DEFINE o1 == out \o Sac!Samples(i, 0, first)
  <2>3. WordsOf(o1, list, i, 0 + first) /\ Len(o1) = l + first
    <3> HIDE DEF first
    <3>1. i \in Nat \ {0} /\ 0 \in Nat /\ first \in Nat
      BY <1>2, <2>2
    <3>2. WordsOf(o1, list, i, 0 + first)
      BY <1>3, <3>1, MoreSamples
    <3>3. Len(o1) = Len(out) + first
      BY <1>3, <3>1, MoreLength
    <3> QED
      BY <3>2, <3>3
  <2>4. out' = o1 \o Sac!Samples(i, first, second)
    BY <2>1
  <2> HIDE DEF first, second, o1
  <2>5. WordsOf(out', list, i, first + second) /\ Len(out') = l + first + second
    <3>1. WordsOf(o1, list, i, first)
      BY <2>2, <2>3
    <3>2. i \in Nat \ {0} /\ first \in Nat /\ second \in Nat
      BY <1>2, <2>2
    <3>3. WordsOf(o1 \o Sac!Samples(i, first, second), list, i, first + second)
      BY <3>1, <3>2, MoreSamples
    <3>4. Len(o1 \o Sac!Samples(i, first, second)) = Len(o1) + second
      BY <3>1, <3>2, MoreLength
    <3> QED
      BY <2>3, <2>4, <3>3, <3>4
  <2>6. WordsOf(out', list, i + 1, 0)
    <3>1. first + second \in Nat
      BY <2>2
    <3> QED
      BY <1>2, <2>2, <2>5, <3>1, NextPacket
  <2> HIDE DEF w, l
  <2> QED
    BY <1>1, <1>2, <2>2, <2>5, <2>6 DEF BufferFilled
<1> QED
  BY <1>4, <1>5

\* A gap is filled as far as the buffer goes, and counted whole.
LEMMA FilledWords ==
    ASSUME BufferFilled, Len(list) \in Nat, Sac!FillGap
    PROVE  BufferFilled'
<1>1. PICK q \in Sac!Fills(Sac!Pkt) :
        /\ cap' = IF Sac!Overflows(q) THEN cap + Grow ELSE cap
        /\ out' = out \o Sac!FillRun(Sac!Smaller(q, cap' - Len(out)))
        /\ nsamp' = nsamp + q
  BY DEF Sac!FillGap
<1>2. /\ i \in 1..Len(list) /\ i' = i /\ sacphase' = "store" /\ list' = list /\ npts' = npts
  BY DEF BufferFilled, Sac!FillGap, Sac!AtHead
<1>3. q \in Nat
  BY DEF Sac!Fills
<1>4. /\ Len(out) \in Nat /\ cap \in Nat /\ Len(out) <= cap /\ nsamp \in Nat /\ npts \in Nat
  BY LenProperties DEF BufferFilled, WordsOf
<1>5. cap' \in Nat /\ cap <= cap'
  BY <1>1, <1>4, ConvertAssumption
<1> DEFINE b == Sac!Smaller(q, cap' - Len(out))
<1>6. b \in Nat /\ Len(out) + b <= cap'
  BY <1>3, <1>4, <1>5 DEF Sac!Smaller
<1>7. out' = out \o Sac!FillRun(b)
  BY <1>1
<1> HIDE DEF b
<1>8. WordsOf(out', list, i, 0) /\ Len(out') = Len(out) + b
  <2>1. WordsOf(out, list, i, 0)
    BY DEF BufferFilled
  <2> QED
    BY <1>6, <1>7, <2>1, MoreFill
<1> QED
  BY <1>1, <1>2, <1>3, <1>4, <1>5, <1>6, <1>8 DEF BufferFilled

\* A packet that is dropped leaves the words as they are.
LEMMA DroppedWords ==
    ASSUME BufferFilled, Len(list) \in Nat, \A k \in 1..Len(list) : list[k].n \in Nat,
           i <= Len(list), sacphase' = "head", i' = i + 1,
           UNCHANGED <<list, cap, out, nsamp, npts>>
    PROVE  BufferFilled'
<1>1. i \in 1..Len(list) /\ i \in Nat \ {0} /\ list[i].n \in Nat /\ 0 <= list[i].n
  BY DEF BufferFilled
<1>2. WordsOf(out, list, i + 1, 0)
  BY <1>1, NextPacket DEF BufferFilled
<1> QED
  BY <1>1, <1>2 DEF BufferFilled

LEMMA BufferSteps ==
    ASSUME BufferFilled, Len(list) \in Nat, \A k \in 1..Len(list) : list[k].n \in Nat,
           Sac!Next, sacphase' \in {"head", "store", "done"}
    PROVE  BufferFilled'
<1>1. CASE Sac!FirstPacket \/ Sac!Follows
  BY <1>1 DEF Sac!FirstPacket, Sac!Follows, Sac!AtHead, BufferFilled, WordsOf
<1>2. CASE Sac!SkipDuplicate \/ Sac!SkipBogus
  <2>1. /\ i <= Len(list) /\ sacphase' = "head" /\ i' = i + 1
        /\ UNCHANGED <<list, cap, out, nsamp, npts>>
    BY <1>2 DEF Sac!SkipDuplicate, Sac!SkipBogus, Sac!AtHead
  <2> QED
    BY <2>1, DroppedWords
<1>3. CASE Sac!FillGap
  BY <1>3, FilledWords
<1>4. CASE Sac!FillFails \/ Sac!StoreFails \/ Sac!WriteFails \/ Sac!OpenFails
  BY <1>4 DEF Sac!FillFails, Sac!StoreFails, Sac!WriteFails, Sac!OpenFails
<1>5. CASE Sac!SkipUnsupported
  <2>1. /\ i <= Len(list) /\ sacphase' = "head" /\ i' = i + 1
        /\ UNCHANGED <<list, cap, out, nsamp, npts>>
    BY <1>5 DEF Sac!SkipUnsupported, Sac!AtStore, BufferFilled
  <2> QED
    BY <2>1, DroppedWords
<1>6. CASE Sac!StoreFits \/ Sac!StoreGrows
  BY <1>6, StoredWords
<1>7. CASE Sac!WriteFile
  BY <1>7 DEF Sac!WriteFile, Sac!AtEnd, BufferFilled, WordsOf
<1> QED
  BY <1>1, <1>2, <1>3, <1>4, <1>5, <1>6, <1>7 DEF Sac!Next

LEMMA SacStepKeeps ==
    ASSUME FiledInv, DutyInv, SacInv, SacStep
    PROVE  SacInv'
<1>1. /\ stage = "sac" /\ Sac!Next /\ UNCHANGED <<vars, convvars>>
      /\ sacphase \in {"head", "store"} /\ list' = list
  <2>1. Sac!Next /\ stage = "sac" /\ UNCHANGED <<vars, convvars>>
    BY DEF SacStep
  <2>2. list' = list
    BY <2>1 DEF Sac!Next, Sac!FirstPacket, Sac!Follows, Sac!SkipDuplicate, Sac!SkipBogus,
                Sac!FillGap, Sac!FillFails, Sac!SkipUnsupported, Sac!StoreFits,
                Sac!StoreGrows, Sac!StoreFails, Sac!WriteFile, Sac!WriteFails,
                Sac!OpenFails, Sac!AtHead, Sac!AtStore, Sac!AtEnd
  <2> QED
    BY <2>1, <2>2, SacDuty
<1>2. TraceRead /\ BufferFilled
  BY <1>1 DEF SacInv
<1>3. Len(list) \in Nat /\ \A k \in 1..Len(list) : list[k].n \in Nat
  BY <1>1, <1>2, PacketsAre
<1>4. TraceRead'
  BY <1>1, <1>2, ZenonT(40) DEF TraceRead, Chan, OffsetsOf, PacketAt, vars, convvars
<1>5. sacphase' \in {"head", "store", "done"} => BufferFilled'
  BY <1>1, <1>2, <1>3, BufferSteps
<1> QED
  BY <1>4, <1>5 DEF SacInv

-----------------------------------------------------------------------------
\* The words ws are samples of the entries of channel c, each once, and fill.
FileOf(c, ws) ==
    /\ \A x \in 1..Len(ws) : ws[x] # Sac!FillWord =>
          \E k \in 1..Len(tlist[c]) : /\ ws[x][1] = tlist[c][k].offset
                                      /\ ws[x][2] \in 1..tank[ws[x][1]].n
    /\ \A x, y \in 1..Len(ws) : x # y /\ ws[x] # Sac!FillWord => ws[x] # ws[y]

FilesInv ==
    /\ files \in [Chans -> Seq(Nat \X Nat)]
    /\ \A c \in Chans : FileOf(c, files[c])
    /\ stage = "scan" => \A c \in Chans : files[c] = <<>>

\* What the words of a finished conversion are in the tank.
LEMMA OriginIs ==
    ASSUME FiledInv, DutyInv, SacInv, stage = "sac", sacphase = "done",
           NEW x \in 1..Len(out), out[x] # Sac!FillWord
    PROVE  /\ out[x] = <<out[x][1], out[x][2]>> /\ out[x][1] \in 1..Len(tlist[Chan])
           /\ Origin(out[x]) = <<tlist[Chan][out[x][1]].offset, out[x][2]>>
           /\ Origin(out[x])[1] \in Nat /\ Origin(out[x])[2] \in Nat \ {0}
           /\ Origin(out[x])[2] \in 1..tank[Origin(out[x])[1]].n
<1>1. TraceRead /\ BufferFilled
  BY DEF SacInv
<1>2. Chan \in Chans
  BY ChannelIs DEF DutyInv, StageInv
<1>3. /\ Len(list) = Len(tlist[Chan]) /\ Len(list) \in Nat
      /\ \A k \in 1..Len(list) : list[k].n = tank[OffsetsOf(Chan)[k]].n /\ list[k].n \in Nat
  BY <1>1, PacketsAre
<1>4. out[x] \in Nat \X Nat
  BY <1>1, ElementOfSeq DEF BufferFilled, WordsOf
<1>5. i \in 1..Len(list) + 1
  BY <1>1 DEF BufferFilled
<1>6. out[x][1] \in 1..i-1 /\ out[x][2] \in 1..list[out[x][1]].n
  <2>1. \/ out[x][1] \in 1..i-1 /\ out[x][2] \in 1..list[out[x][1]].n
        \/ out[x][1] = i /\ out[x][2] \in 1..0
    BY <1>1 DEF BufferFilled, WordsOf
  <2> QED
    BY <2>1
<1> DEFINE k == out[x][1]
           s == out[x][2]
<1>7. k \in 1..Len(list) /\ s \in 1..list[k].n
  BY <1>3, <1>5, <1>6
<1>8. /\ OffsetsOf(Chan)[k] = tlist[Chan][k].offset /\ tlist[Chan][k].offset \in Nat
  BY <1>2, <1>3, <1>7, EntryIs, SMTT(30)
<1>9. Origin(out[x]) = <<tlist[Chan][k].offset, s>>
  BY <1>8 DEF Origin
<1>10. out[x] = <<k, s>>
  BY <1>4
<1> HIDE DEF k, s
<1>11. s \in 1..tank[tlist[Chan][k].offset].n /\ s \in Nat \ {0}
  BY <1>3, <1>7, <1>8, SMTT(30)
<1> QED
  BY <1>3, <1>7, <1>8, <1>9, <1>10, <1>11 DEF k, s

LEMMA FileWordsAre ==
    ASSUME FiledInv, DutyInv, SacInv, stage = "sac", sacphase = "done"
    PROVE  FileWords \in Seq(Nat \X Nat) /\ FileOf(Chan, FileWords)
<1> DEFINE F == FileWords
           c == Chan
<1>1. BufferFilled /\ npts \in Nat
  BY DEF SacInv, BufferFilled
<1>2. c \in Chans
  BY ChannelIs DEF DutyInv, StageInv
<1>3. ASSUME NEW x \in 1..npts
      PROVE  \/ F[x] = Sac!FillWord
             \/ x \in 1..Len(out) /\ out[x] # Sac!FillWord /\ F[x] = Origin(out[x])
  <2>1. Len(out) \in Nat
    BY <1>1, LenProperties DEF BufferFilled, WordsOf
  <2>2. F[x] = IF x <= Len(out) THEN Origin(out[x]) ELSE Sac!FillWord
    BY DEF FileWords
  <2>3. out[x] = Sac!FillWord => Origin(out[x]) = Sac!FillWord
    BY DEF Origin
  <2> HIDE DEF F
  <2> QED
    BY <2>1, <2>2, <2>3
<1>4. Len(F) = npts /\ DOMAIN F = 1..npts /\ F = [x \in 1..npts |-> F[x]]
  BY <1>1 DEF FileWords
<1> HIDE DEF F, c
<1>5. \A x \in 1..npts : F[x] \in Nat \X Nat
  <2>1. Sac!FillWord \in Nat \X Nat
    BY DEF Sac!FillWord
  <2>2. ASSUME NEW x \in 1..Len(out), out[x] # Sac!FillWord
        PROVE  Origin(out[x]) \in Nat \X Nat
    <3>1. /\ Origin(out[x]) = <<tlist[Chan][out[x][1]].offset, out[x][2]>>
          /\ Origin(out[x])[1] \in Nat /\ Origin(out[x])[2] \in Nat
      BY <2>2, OriginIs
    <3> QED
      BY <3>1
  <2> QED
    BY <1>3, <2>1, <2>2
<1>6. F \in Seq(Nat \X Nat)
  BY <1>1, <1>4, <1>5, SMTT(30)
<1>7. ASSUME NEW x \in 1..Len(F), F[x] # Sac!FillWord
      PROVE  \E k \in 1..Len(tlist[c]) : /\ F[x][1] = tlist[c][k].offset
                                         /\ F[x][2] \in 1..tank[F[x][1]].n
  <2>1. x \in 1..Len(out) /\ out[x] # Sac!FillWord /\ F[x] = Origin(out[x])
    BY <1>3, <1>4, <1>7
  <2>2. /\ out[x][1] \in 1..Len(tlist[Chan])
        /\ Origin(out[x]) = <<tlist[Chan][out[x][1]].offset, out[x][2]>>
        /\ Origin(out[x])[2] \in 1..tank[Origin(out[x])[1]].n
    BY <2>1, OriginIs
  <2>3. F[x][1] = tlist[Chan][out[x][1]].offset /\ F[x][2] \in 1..tank[F[x][1]].n
    BY <2>1, <2>2
  <2> QED
    BY <2>2, <2>3 DEF c
<1>8. ASSUME NEW x \in 1..Len(F), NEW y \in 1..Len(F), x # y, F[x] # Sac!FillWord
      PROVE  F[x] # F[y]
  <2>1. SUFFICES ASSUME F[y] = F[x] PROVE FALSE
    OBVIOUS
  <2>2. /\ x \in 1..Len(out) /\ out[x] # Sac!FillWord /\ F[x] = Origin(out[x])
        /\ y \in 1..Len(out) /\ out[y] # Sac!FillWord /\ F[y] = Origin(out[y])
    BY <1>3, <1>4, <1>8, <2>1
  <2>3. /\ out[x] = <<out[x][1], out[x][2]>> /\ out[x][1] \in 1..Len(tlist[Chan])
        /\ Origin(out[x]) = <<tlist[Chan][out[x][1]].offset, out[x][2]>>
    BY <2>2, OriginIs
  <2>4. /\ out[y] = <<out[y][1], out[y][2]>> /\ out[y][1] \in 1..Len(tlist[Chan])
        /\ Origin(out[y]) = <<tlist[Chan][out[y][1]].offset, out[y][2]>>
    BY <2>2, OriginIs
  <2>5. /\ tlist[Chan][out[x][1]].offset = tlist[Chan][out[y][1]].offset
        /\ out[x][2] = out[y][2]
    BY <2>1, <2>2, <2>3, <2>4
  <2>6. out[x][1] = out[y][1]
    BY <1>2, <2>3, <2>4, <2>5, OffsetsDiffer DEF c
  <2>7. out[x] = out[y]
    BY <2>3, <2>4, <2>5, <2>6
  <2> QED
    BY <1>1, <1>8, <2>2, <2>7 DEF BufferFilled, WordsOf
<1>9. FileOf(c, F)
  BY <1>7, <1>8 DEF FileOf
<1> QED
  BY <1>6, <1>9 DEF F, c

-----------------------------------------------------------------------------
\* The bytes of a sample.
LEMMA ProductLess ==
    ASSUME NEW a \in Nat, NEW b \in Nat, NEW w \in Nat, a < b
    PROVE  a * w + w <= b * w /\ a * w \in Nat /\ b * w \in Nat
<1> DEFINE d == b - a - 1
<1>1. d \in Nat /\ b = a + 1 + d
  OBVIOUS
<1> HIDE DEF d
<1>2. \A p, q \in Nat : p * q \in Nat
  OBVIOUS
<1>3. d * w \in Nat /\ a * w \in Nat /\ b * w \in Nat
  BY <1>1, <1>2
<1>4. b * w = a * w + w + d * w
  BY <1>1
<1> QED
  BY <1>3, <1>4

LEMMA BytesInside ==
    ASSUME FiledInv, NEW c \in Chans, NEW k \in 1..Len(tlist[c]), NEW w,
           w[1] = tlist[c][k].offset, w[2] \in 1..tank[w[1]].n
    PROVE  /\ ByteOf(w) \in Int /\ tlist[c][k].offset <= ByteOf(w)
           /\ ByteOf(w) < tlist[c][k].offset + tlist[c][k].size
<1> DEFINE o == tlist[c][k].offset
           n == tank[o].n
           b == tank[o].width
           s == w[2]
<1>1. /\ o \in Nat /\ n \in Nat /\ b \in Nat \ {0} /\ tlist[c][k].size = HdrLen + b * n
      /\ HdrLen \in Nat
  BY EntryIs, SizesAssumption DEF Size
<1>2. s \in 1..n /\ ByteOf(w) = o + HdrLen + (s - 1) * b
  BY DEF ByteOf
<1> HIDE DEF o, n, b, s
<1>3. s - 1 \in Nat /\ s - 1 < n /\ b \in Nat
  BY <1>1, <1>2
<1>4. (s - 1) * b + b <= n * b /\ (s - 1) * b \in Nat /\ n * b \in Nat
  BY <1>1, <1>3, ProductLess
<1>5. b * n = n * b
  BY <1>1
<1> DEFINE p == (s - 1) * b
           q == n * b
<1>6. p + b <= q /\ p \in Nat /\ q \in Nat /\ b * n = q
  BY <1>4, <1>5
<1>7. ByteOf(w) = o + HdrLen + p
  BY <1>2
<1> HIDE DEF p, q
<1>8. tlist[c][k].size = HdrLen + q
  BY <1>1, <1>6
<1>9. /\ o \in Nat /\ HdrLen \in Nat /\ b \in Nat \ {0}
      /\ p \in Nat /\ q \in Nat /\ p + b <= q
  BY <1>1, <1>6
<1> DEFINE y == ByteOf(w)
           h == HdrLen
<1>10. y = o + h + p /\ h \in Nat
  BY <1>7, <1>9
<1> HIDE DEF y, h
<1>11. y \in Int /\ o <= y /\ y < o + (h + q)
  BY <1>9, <1>10
<1> QED
  BY <1>8, <1>11, SMTT(30) DEF o, y, h

LEMMA BytesDiffer ==
    ASSUME FiledInv, NEW c \in Chans, NEW k \in 1..Len(tlist[c]), NEW v, NEW w,
           v[1] = tlist[c][k].offset, w[1] = v[1], v[2] \in 1..tank[v[1]].n,
           w[2] \in 1..tank[v[1]].n, v[2] < w[2]
    PROVE  ByteOf(v) # ByteOf(w)
<1> DEFINE o == tlist[c][k].offset
           n == tank[o].n
           b == tank[o].width
           x == v[2]
           y == w[2]
<1>1. o \in Nat /\ n \in Nat /\ b \in Nat \ {0} /\ HdrLen \in Nat
  BY EntryIs, SizesAssumption
<1>2. x \in 1..n /\ y \in 1..n /\ x < y
  OBVIOUS
<1>3. ByteOf(v) = o + HdrLen + (x - 1) * b /\ ByteOf(w) = o + HdrLen + (y - 1) * b
  BY DEF ByteOf
<1> HIDE DEF o, n, b, x, y
<1>4. x - 1 \in Nat /\ y - 1 \in Nat /\ x - 1 < y - 1 /\ b \in Nat /\ b > 0
  BY <1>1, <1>2
<1> DEFINE p == (x - 1) * b
           q == (y - 1) * b
<1>5. p + b <= q /\ p \in Nat /\ q \in Nat
  BY <1>4, ProductLess
<1>6. ByteOf(v) = o + HdrLen + p /\ ByteOf(w) = o + HdrLen + q
  BY <1>3
<1> HIDE DEF p, q
<1> QED
  BY <1>1, <1>4, <1>5, <1>6, SMTT(30)

LEMMA SamplesDiffer ==
    ASSUME FiledInv, NEW c \in Chans, NEW k \in 1..Len(tlist[c]), NEW v, NEW w,
           v[1] = tlist[c][k].offset, w[1] = tlist[c][k].offset,
           v[2] \in 1..tank[v[1]].n, w[2] \in 1..tank[w[1]].n,
           v = <<v[1], v[2]>>, w = <<w[1], w[2]>>, v # w
    PROVE  ByteOf(v) # ByteOf(w)
<1>1. v[2] # w[2] /\ v[2] \in Int /\ w[2] \in Int
  OBVIOUS
<1>2. CASE v[2] < w[2]
  <2>1. w[1] = v[1] /\ w[2] \in 1..tank[v[1]].n
    OBVIOUS
  <2> QED
    BY <1>2, <2>1, BytesDiffer
<1>3. CASE w[2] < v[2]
  <2>1. v[1] = w[1] /\ v[2] \in 1..tank[w[1]].n
    OBVIOUS
  <2>2. ByteOf(w) # ByteOf(v)
    BY <1>3, <2>1, BytesDiffer
  <2> QED
    BY <2>2
<1> QED
  BY <1>1, <1>2, <1>3

LEMMA FilesConverted == FiledInv /\ FilesInv => ConvertedOnce
<1> SUFFICES ASSUME FiledInv, FilesInv PROVE ConvertedOnce
  OBVIOUS
<1> DEFINE W(p) == files[p[1]][p[2]]
<1>1. ASSUME NEW p \in Written
      PROVE  /\ p = <<p[1], p[2]>> /\ p[1] \in Chans /\ p[2] \in 1..Len(files[p[1]])
             /\ W(p) # Sac!FillWord
             /\ \E k \in 1..Len(tlist[p[1]]) : /\ W(p)[1] = tlist[p[1]][k].offset
                                               /\ W(p)[2] \in 1..tank[W(p)[1]].n
             /\ W(p) = <<W(p)[1], W(p)[2]>>
  <2>1. /\ p \in Chans \X (1..TankSize) /\ p[2] <= Len(files[p[1]]) /\ W(p) # Sac!FillWord
    BY DEF Written
  <2>2. p = <<p[1], p[2]>> /\ p[1] \in Chans /\ p[2] \in 1..TankSize
    BY <2>1
  <2>3. files[p[1]] \in Seq(Nat \X Nat)
    BY <2>2 DEF FilesInv
  <2>4. p[2] \in 1..Len(files[p[1]])
    BY <2>1, <2>2, <2>3, LenProperties, SizesAssumption
  <2>5. W(p) \in Nat \X Nat
    BY <2>3, <2>4, ElementOfSeq
  <2>6. W(p) = <<W(p)[1], W(p)[2]>>
    BY <2>5
  <2>7. FileOf(p[1], files[p[1]])
    BY <2>2 DEF FilesInv
  <2> QED
    BY <2>1, <2>2, <2>4, <2>6, <2>7 DEF FileOf
<1>2. ASSUME NEW p \in Written
      PROVE  /\ W(p)[1] \in Messages(p[1]) /\ tank[W(p)[1]].chan = p[1]
             /\ tank[W(p)[1]].consistent /\ W(p)[2] \in 1..tank[W(p)[1]].n
  <2>1. PICK k \in 1..Len(tlist[p[1]]) : /\ W(p)[1] = tlist[p[1]][k].offset
                                         /\ W(p)[2] \in 1..tank[W(p)[1]].n
    BY <1>1
  <2>2. p[1] \in Chans
    BY <1>1
  <2> DEFINE o == tlist[p[1]][k].offset
  <2>3. o \in DOMAIN tank /\ tank[o] # Junk /\ tank[o].chan = p[1] /\ tank[o].consistent
    BY <2>2, EntryIs
  <2>4. o \in Messages(p[1])
    BY <2>3 DEF Messages, FiledInv, SameMessages
  <2> QED
    BY <2>1, <2>3, <2>4
<1>3. ASSUME NEW p \in Written, NEW q \in Written, p # q
      PROVE  ByteOf(W(p)) # ByteOf(W(q))
  <2> DEFINE c == p[1]
             d == q[1]
             v == W(p)
             w == W(q)
  <2>1. PICK j \in 1..Len(tlist[c]) : v[1] = tlist[c][j].offset /\ v[2] \in 1..tank[v[1]].n
    BY <1>1
  <2>2. PICK k \in 1..Len(tlist[d]) : w[1] = tlist[d][k].offset /\ w[2] \in 1..tank[w[1]].n
    BY <1>1
  <2>3. /\ c \in Chans /\ d \in Chans /\ v = <<v[1], v[2]>> /\ w = <<w[1], w[2]>>
    BY <1>1
  <2>4. CASE c = d /\ j = k
    <3>1. p[2] # q[2] /\ p[2] \in 1..Len(files[c]) /\ q[2] \in 1..Len(files[c])
      BY <1>1, <1>3, <2>4, SMTT(30)
    <3>2. v # w
      BY <1>1, <2>3, <2>4, <3>1, SMTT(30) DEF FilesInv, FileOf
    <3>3. w[1] = tlist[c][j].offset
      BY <2>2, <2>4
    <3>4. c \in Chans
      BY <2>3
    <3>5. v = <<v[1], v[2]>> /\ w = <<w[1], w[2]>>
      BY <2>3
    <3> HIDE DEF v, w, c, d
    <3>6. ByteOf(v) # ByteOf(w)
      BY <2>1, <2>2, <3>2, <3>3, <3>4, <3>5, SamplesDiffer
    <3> QED
      BY <3>6 DEF v, w
  <2>5. CASE c # d \/ j # k
    <3> HIDE DEF v, w, c, d
    <3>1. /\ ByteOf(v) \in Int /\ tlist[c][j].offset <= ByteOf(v)
          /\ ByteOf(v) < tlist[c][j].offset + tlist[c][j].size
      BY <2>1, <2>3, BytesInside
    <3>2. /\ ByteOf(w) \in Int /\ tlist[d][k].offset <= ByteOf(w)
          /\ ByteOf(w) < tlist[d][k].offset + tlist[d][k].size
      BY <2>2, <2>3, BytesInside
    <3>3. \/ tlist[c][j].offset + tlist[c][j].size <= tlist[d][k].offset
          \/ tlist[d][k].offset + tlist[d][k].size <= tlist[c][j].offset
      BY <2>3, <2>5, CountsAssumption DEF FiledInv, EntriesApart
    <3>4. /\ tlist[c][j].offset \in Nat /\ tlist[c][j].size \in Nat
          /\ tlist[d][k].offset \in Nat /\ tlist[d][k].size \in Nat
      BY <2>3, EntryIs, SMTT(30)
    <3>5. ByteOf(v) # ByteOf(w)
      <4> DEFINE x == ByteOf(v)
                 y == ByteOf(w)
                 o1 == tlist[c][j].offset
                 s1 == tlist[c][j].size
                 o2 == tlist[d][k].offset
                 s2 == tlist[d][k].size
      <4>1. /\ x \in Int /\ y \in Int /\ o1 \in Nat /\ s1 \in Nat /\ o2 \in Nat /\ s2 \in Nat
            /\ o1 <= x /\ x < o1 + s1 /\ o2 <= y /\ y < o2 + s2
            /\ (o1 + s1 <= o2 \/ o2 + s2 <= o1)
        BY <3>1, <3>2, <3>3, <3>4
      <4> HIDE DEF x, y, o1, s1, o2, s2
      <4>2. x # y
        BY <4>1
      <4> QED
        BY <4>2 DEF x, y
    <3> QED
      BY <3>5 DEF v, w
  <2> QED
    BY <2>4, <2>5
<1> QED
  BY <1>2, <1>3, SMTT(30) DEF ConvertedOnce

-----------------------------------------------------------------------------
LEMMA FilesInit == ConvInit => SacInv /\ FilesInv
<1> SUFFICES ASSUME ConvInit PROVE SacInv /\ FilesInv
  OBVIOUS
<1>1. SacInv
  BY DEF ConvInit, SacInv
<1>2. files \in [Chans -> Seq(Nat \X Nat)] /\ \A c \in Chans : files[c] = <<>>
  BY EmptySeq DEF ConvInit
<1>3. \A c \in Chans : FileOf(c, files[c])
  BY <1>2, EmptySeq DEF FileOf
<1> QED
  BY <1>1, <1>2, <1>3 DEF FilesInv

LEMMA SacInvStep == FiledInv /\ DutyInv /\ SacInv /\ [ConvNext]_allvars => SacInv'
<1> SUFFICES ASSUME FiledInv, DutyInv, SacInv, [ConvNext]_allvars PROVE SacInv'
  OBVIOUS
<1>1. CASE SacStep
  BY <1>1, SacStepKeeps
<1>2. CASE BeginSac
  <2>1. /\ stage = "traces" /\ t <= totaltrace /\ UNCHANGED vars /\ t' = t
        /\ list' = [k \in 1..Len(tlist[Chan]) |-> PacketAt(OffsetsOf(Chan)[k])]
        /\ cap' = SlotWords * maxtbuf[Chan] /\ i' = 1 /\ sacphase' = "head"
        /\ out' = <<>> /\ nsamp' = 0 /\ npts' = 0
    BY <1>2, SMTT(30) DEF BeginSac, AtTrace
  <2>2. TraceRead'
    BY <2>1 DEF TraceRead, Chan, OffsetsOf, PacketAt, vars
  <2>3. Len(tlist[Chan]) \in Nat /\ maxtbuf[Chan] \in Nat
    BY <2>1, ChannelIs
  <2>4. Len(list') = Len(tlist[Chan])
    BY <2>1, <2>3
  <2>5. cap' \in Nat
    <3>1. \A a, b \in Nat : a * b \in Nat
      OBVIOUS
    <3> QED
      BY <2>1, <2>3, <3>1, ConvertAssumption
  <2>6. WordsOf(out', list', i', 0)
    BY <2>1, EmptySeq DEF WordsOf
  <2>7. Len(out') = 0
    BY <2>1
  <2>8. BufferFilled'
    BY <2>1, <2>3, <2>4, <2>5, <2>6, <2>7 DEF BufferFilled
  <2> QED
    BY <2>2, <2>8 DEF SacInv
<1>3. CASE UNCHANGED allvars
  BY <1>3, ZenonT(40)
     DEF allvars, vars, convvars, sacvars, SacInv, TraceRead, Chan, OffsetsOf, PacketAt,
              BufferFilled, WordsOf
<1>4. CASE \/ Scan \/ ScanFruitless \/ ScanComplete \/ SacReturns \/ SacReturnsError
           \/ SacCrashes \/ AddTrace \/ AddFails \/ TracesThrough \/ Pack \/ PackFails \/ Unmap
           \/ ScanFaults \/ SacFaults \/ AddFaults
  <2>1. stage' # "sac"
    BY <1>4 DEF Scan, ScanFruitless, ScanComplete, SacReturns, SacReturnsError, SacCrashes,
                ScanFaults, SacFaults, AddFaults,
                AddTrace, AddFails, TracesThrough, Pack, PackFails, Unmap, AtMseedTrace,
                AtTrace, convvars
  <2> QED
    BY <2>1 DEF SacInv
<1> QED
  BY <1>1, <1>2, <1>3, <1>4 DEF ConvNext

LEMMA FilesStep ==
    FiledInv /\ DutyInv /\ SacInv /\ FilesInv /\ [ConvNext]_allvars => FilesInv'
<1> SUFFICES ASSUME FiledInv, DutyInv, SacInv, FilesInv, [ConvNext]_allvars PROVE FilesInv'
  OBVIOUS
<1>1. CASE SacReturns
  <2>1. /\ stage = "sac" /\ sacphase = "done" /\ files' = [files EXCEPT ![Chan] = FileWords]
        /\ stage' = "traces" /\ UNCHANGED vars
    BY <1>1 DEF SacReturns
  <2>2. FileWords \in Seq(Nat \X Nat) /\ FileOf(Chan, FileWords)
    BY <2>1, FileWordsAre
  <2>3. Chan \in Chans
    BY <2>1, ChannelIs DEF DutyInv, StageInv
  <2>4. files' \in [Chans -> Seq(Nat \X Nat)]
    BY <2>1, <2>2, <2>3 DEF FilesInv
  <2>5. ASSUME NEW c \in Chans
        PROVE  FileOf(c, files'[c])
    <3>1. CASE c = Chan
      BY <2>1, <2>2, <2>3, <3>1 DEF FilesInv
    <3>2. CASE c # Chan
      BY <2>1, <3>2 DEF FilesInv
    <3> QED
      BY <3>1, <3>2
  <2>6. tank' = tank /\ tlist' = tlist
    BY <2>1 DEF vars
  <2>7. \A c \in Chans : FileOf(c, files[c])'
    BY <2>5, <2>6 DEF FileOf
  <2> QED
    BY <2>1, <2>4, <2>7 DEF FilesInv
<1>2. CASE Scan
  <2>1. /\ stage = "scan" /\ files' = files /\ stage' = stage
    BY <1>2 DEF Scan, convvars
  <2>2. \A c \in Chans : files[c] = <<>>
    BY <2>1 DEF FilesInv
  <2>3. \A c \in Chans : FileOf(c, files[c])'
    BY <2>1, <2>2, EmptySeq DEF FileOf
  <2> QED
    BY <2>1, <2>2, <2>3 DEF FilesInv
<1>3. CASE UNCHANGED <<vars, files>> /\ (stage' = "scan" => stage = "scan")
  BY <1>3 DEF FilesInv, FileOf, vars
<1>4. CASE \/ ScanFruitless \/ ScanComplete \/ BeginSac \/ SacStep \/ SacReturnsError
           \/ SacCrashes \/ AddTrace \/ AddFails \/ TracesThrough \/ Pack \/ PackFails \/ Unmap
           \/ ScanFaults \/ SacFaults \/ AddFaults
           \/ UNCHANGED allvars
  <2>1. UNCHANGED <<vars, files>> /\ (stage' = "scan" => stage = "scan")
    BY <1>4 DEF ScanFruitless, ScanComplete, BeginSac, SacStep, SacReturnsError, SacCrashes,
                ScanFaults, SacFaults, AddFaults,
                AddTrace, AddFails, TracesThrough, Pack, PackFails, Unmap, AtMseedTrace,
                AtTrace, allvars, convvars
  <2> QED
    BY <1>3, <2>1
<1> QED
  BY <1>1, <1>2, <1>4 DEF ConvNext

\* Whatever the file holds and whichever conversions fail, every sample that is
\* written to a SAC file comes from a message of its channel that passes the
\* check, and no byte of the file becomes two samples (tbconvert.c:153-249,
\* sacproc.c:157-231).
THEOREM OnlyOnce == ConvSpec => []ConvertedOnce
<1>1. ConvSpec => []FiledInv
  BY FiledInit, FiledStep, PTL DEF ConvSpec
<1>2. ConvSpec => []DutyInv
  <2>1. FiledInv => ScannedInv
    BY DEF FiledInv
  <2> QED
    BY <1>1, <2>1, DutyInit, DutyStep, PTL DEF ConvSpec
<1>3. ConvSpec => []SacInv
  BY <1>1, <1>2, FilesInit, SacInvStep, PTL DEF ConvSpec
<1>4. ConvSpec => []FilesInv
  BY <1>1, <1>2, <1>3, FilesInit, FilesStep, PTL DEF ConvSpec
<1> QED
  BY <1>1, <1>4, FilesConverted, PTL

-----------------------------------------------------------------------------
(* The types of main().                                                    *)

TypedInv ==
    /\ t \in 1..totaltrace + 1 /\ TotalDuty \in Nat
    /\ fed \in [Chans -> Seq(Nat)]
    /\ saved \subseteq known /\ lost \subseteq known

\* The loop is at a trace of the tree.
LEMMA TraceKnown ==
    ASSUME FiledInv, DutyInv, stage = "sac" \/ stage = "traces", t <= totaltrace
    PROVE  Chan \in known
<1>1. t \in 1..totaltrace /\ phase = "done"
  BY ChannelIs
<1> QED
  BY <1>1 DEF FiledInv, ScannedInv, TracesOrdered, Chan

\* The messages of a trace that are fed, and their places in its list.
LEMMA FedAre ==
    ASSUME FiledInv, DutyInv, AddTrace
    PROVE  \E at \in [1..Cardinality(Known(Chan)) -> Known(Chan)] :
              LET f == [k \in DOMAIN at |-> OffsetsOf(Chan)[at[k]]]
              IN  /\ \A j, k \in DOMAIN at : j < k => at[j] < at[k]
                  /\ fed' = [fed EXCEPT ![Chan] = f]
                  /\ f \in Seq(Nat) /\ Len(f) = Cardinality(Known(Chan))
                  /\ Known(Chan) \subseteq 1..Len(tlist[Chan])
<1>1. PICK at \in [1..Cardinality(Known(Chan)) -> Known(Chan)] :
         /\ \A j, k \in DOMAIN at : j < k => at[j] < at[k]
         /\ fed' = [fed EXCEPT ![Chan] = [k \in DOMAIN at |-> OffsetsOf(Chan)[at[k]]]]
  BY DEF AddTrace
<1>2. Chan \in Chans /\ Len(tlist[Chan]) \in Nat
  BY ChannelIs DEF AddTrace, AtMseedTrace, AtTrace
<1>3. Known(Chan) \subseteq 1..Len(tlist[Chan])
  BY DEF Known
<1>4. Cardinality(Known(Chan)) \in Nat
  <2>1. IsFiniteSet(1..Len(tlist[Chan]))
    BY <1>2, FS_Interval
  <2> QED
    BY <1>3, <2>1, FS_Subset, FS_CardinalityType
<1> DEFINE K == Known(Chan)
           n == Cardinality(K)
           f == [k \in 1..n |-> OffsetsOf(Chan)[at[k]]]
<1>5. DOMAIN at = 1..n
  OBVIOUS
<1>6. ASSUME NEW k \in 1..n
      PROVE  OffsetsOf(Chan)[at[k]] \in Nat
  <2>1. at[k] \in 1..Len(tlist[Chan])
    BY <1>3, <1>5, Zenon
  <2> QED
    BY <1>2, <2>1, EntryIs
<1>7. f \in Seq(Nat) /\ Len(f) = n
  <2> HIDE DEF n
  <2>1. n \in Nat
    BY <1>4 DEF n
  <2> QED
    BY <1>6, <2>1
<1> QED
  BY <1>1, <1>3, <1>5, <1>7

LEMMA TypedInit == ConvInit => TypedInv
BY EmptySeq DEF ConvInit, Init, TypedInv

LEMMA TypedStep == FiledInv /\ DutyInv /\ TypedInv /\ [ConvNext]_allvars => TypedInv'
<1> SUFFICES ASSUME FiledInv, DutyInv, TypedInv, [ConvNext]_allvars PROVE TypedInv'
  OBVIOUS
<1>0. totaltrace \in Nat /\ TypeOK
  BY DEF FiledInv, ScannedInv, TypeOK
<1>1. CASE Scan
  <2>1. /\ [Next]_vars /\ known \subseteq known' /\ stage = "scan"
        /\ UNCHANGED <<t, TotalDuty, fed, saved, lost>>
    BY <1>1 DEF Scan, convvars, Next, Slide, Track, PassTooLarge, PassInconsistent, PassOver,
                LookUp, SwapPastEnd, NodeFails, SlotsFail, SortAll, Scanning
  <2>2. totaltrace' \in Nat /\ t = 1
    BY <2>1, ScannedStep DEF FiledInv, ScannedInv, TypeOK, DutyInv, StageInv
  <2>3. t' \in 1..totaltrace' + 1
    <3>1. t' = 1
      BY <2>1, <2>2, Zenon
    <3>2. \A n \in Nat : 1 \in 1..n + 1
      OBVIOUS
    <3> QED
      BY <2>2, <3>1, <3>2, Zenon
  <2> QED
    BY <2>1, <2>3, Zenon DEF TypedInv
<1>2. CASE ScanFruitless \/ BeginSac \/ SacStep \/ SacCrashes \/ PackFails \/ Unmap
           \/ UNCHANGED allvars \/ TracesThrough
           \/ ScanFaults \/ SacFaults \/ AddFaults
  <2>1. UNCHANGED <<vars, t, TotalDuty, fed, saved, lost>>
    BY <1>2 DEF ScanFruitless, BeginSac, SacStep, SacCrashes, PackFails, Unmap, allvars,
                TracesThrough, ScanFaults, SacFaults, AddFaults, convvars, AtTrace, AtMseedTrace
  <2> QED
    BY <2>1 DEF TypedInv, vars
<1>3. CASE ScanComplete
  BY <1>0, <1>3 DEF ScanComplete, TypedInv, vars
<1>4. CASE SacReturns \/ SacReturnsError \/ AddFails
  <2>1. /\ UNCHANGED <<vars, TotalDuty, fed>> /\ t' = t + 1 /\ stage \in {"traces", "sac"}
        /\ saved' \subseteq saved \union {Chan} /\ lost' \subseteq lost \union {Chan}
        /\ t <= totaltrace
    BY <1>4 DEF SacReturns, SacReturnsError, AddFails, AtMseedTrace, AtTrace, DutyInv, StageInv
  <2>2. Chan \in known
    BY <2>1, TraceKnown
  <2> QED
    BY <1>0, <2>1, <2>2 DEF TypedInv, vars
<1>5. CASE AddTrace
  <2>1. /\ UNCHANGED <<vars, TotalDuty, saved, lost>> /\ t' \in {t, t + 1} /\ t <= totaltrace
        /\ stage = "traces"
    BY <1>5 DEF AddTrace, AtMseedTrace, AtTrace
  <2>2. fed' \in [Chans -> Seq(Nat)]
    BY <1>5, FedAre DEF TypedInv
  <2> QED
    BY <1>0, <2>1, <2>2 DEF TypedInv, vars
<1>6. CASE Pack
  <2>1. /\ UNCHANGED <<vars, t, TotalDuty, fed, lost>> /\ stage = "pack"
        /\ saved' = {TraceList[k] : k \in 1..totaltrace} \ lost
    BY <1>6 DEF Pack
  <2>2. phase = "done"
    BY <2>1 DEF DutyInv, StageInv
  <2>3. \A k \in 1..totaltrace : TraceList[k] \in known
    BY <2>2 DEF FiledInv, ScannedInv, TracesOrdered
  <2> QED
    BY <2>1, <2>3 DEF TypedInv, vars
<1> QED
  BY <1>1, <1>2, <1>3, <1>4, <1>5, <1>6 DEF ConvNext

\* Whatever the file holds, the loop over the traces never leaves the list, and
\* files, fed, saved and lost speak of channels of the tree only
\* (tbconvert.c:67-118).
THEOREM ConvTypes == ConvSpec => []ConvTypeOK
<1>1. ConvSpec => []FiledInv
  BY FiledInit, FiledStep, PTL DEF ConvSpec
<1>2. ConvSpec => []DutyInv
  <2>1. FiledInv => ScannedInv
    BY DEF FiledInv
  <2> QED
    BY <1>1, <2>1, DutyInit, DutyStep, PTL DEF ConvSpec
<1>3. ConvSpec => []FilesInv
  <2>1. ConvSpec => []SacInv
    BY <1>1, <1>2, FilesInit, SacInvStep, PTL DEF ConvSpec
  <2> QED
    BY <1>1, <1>2, <2>1, FilesInit, FilesStep, PTL DEF ConvSpec
<1>4. ConvSpec => []TypedInv
  BY <1>1, <1>2, TypedInit, TypedStep, PTL DEF ConvSpec
<1>5. DutyInv /\ FilesInv /\ TypedInv => ConvTypeOK
  BY DEF DutyInv, StageInv, FilesInv, TypedInv, ConvTypeOK
<1> QED
  BY <1>2, <1>3, <1>4, <1>5, PTL

-----------------------------------------------------------------------------
(* Delivered: the scan of a file of good messages.                         *)

SameNumbers(g, h) ==
    /\ g.chan = h.chan /\ g.digit = h.digit /\ g.width = h.width /\ g.n = h.n
    /\ g.consistent = h.consistent /\ g.time = h.time

\* The checks change labels only.
AsOnDisk ==
    /\ DOMAIN tank = DOMAIN disk
    /\ \A o \in DOMAIN disk :
          /\ tank[o] = Junk <=> disk[o] = Junk
          /\ disk[o] # Junk => SameNumbers(tank[o], disk[o])

\* The messages of a channel that are counted, and those that are ahead.
Counted(c) == {tlist[c][k].offset : k \in 1..Len(tlist[c])}
AheadOf(c) == {o \in Ahead : tank[o].chan = c}

NoneLost ==
    /\ phase \in {"scan", "sort"} =>
          \A c \in Chans : Messages(c) = Counted(c) \union AheadOf(c)
    /\ phase = "done" =>
          \A c \in Chans : /\ Messages(c) = Counted(c)
                           /\ Promise!SortedByTime(tlist[c])

CleanInv == CleanTank => GoodInv /\ AsOnDisk /\ NoneLost

-----------------------------------------------------------------------------
LEMMA CleanIsGood ==
    ASSUME ConvInit, CleanTank
    PROVE  WellFormed(tank)
<1>1. disk = tank /\ TypeOK
  BY ScanInit DEF ConvInit, ScanInv
<1>2. SUFFICES ASSUME NEW o \in DOMAIN tank, tank[o] # Junk
               PROVE  /\ tank[o].consistent /\ ~TooMany(tank[o]) /\ ~TooLarge(tank[o])
                      /\ \A x \in o+1..o+Size(tank[o])-1 : x \in DOMAIN tank => tank[x] = Junk
  BY DEF WellFormed
<1>3. tank[o].chan \in Chans
  BY <1>1, <1>2 DEF TypeOK, Header
<1>4. o \in Messages(tank[o].chan)
  BY <1>1, <1>2 DEF Messages
<1> QED
  BY <1>1, <1>3, <1>4, Zenon DEF CleanTank

LEMMA CleanInit == ConvInit => CleanInv
<1> SUFFICES ASSUME ConvInit, CleanTank PROVE GoodInv /\ AsOnDisk /\ NoneLost
  BY DEF CleanInv
<1>1. GoodInv
  BY CleanIsGood, GoodInit, CountsAssumption DEF ConvInit
<1>2. disk = tank /\ pos = 0 /\ phase = "scan" /\ tlist = [c \in Chans |-> <<>>]
  BY DEF ConvInit, Init
<1>3. AsOnDisk
  BY <1>2 DEF AsOnDisk, SameNumbers
<1>4. ASSUME NEW c \in Chans
      PROVE  Messages(c) = Counted(c) \union AheadOf(c)
  <2>1. Len(tlist[c]) = 0
    BY <1>2, EmptySeq
  <2>2. Counted(c) = {}
    BY <2>1 DEF Counted
  <2>3. \A o \in DOMAIN tank : o >= pos
    BY <1>1, <1>2, SizesAssumption DEF GoodInv, TypeOK
  <2>4. Messages(c) = AheadOf(c)
    BY <1>2, <2>3 DEF Messages, AheadOf, Ahead
  <2> QED
    BY <2>2, <2>4
<1> QED
  BY <1>1, <1>2, <1>3, <1>4 DEF NoneLost

\* A good message that is checked, filed or not.
LEMMA CheckedAsOnDisk ==
    ASSUME TypeOK, phase = "scan", Accepted(pos), tank' \in AfterCheck(pos),
           AsOnDisk, disk' = disk
    PROVE  AsOnDisk'
<1>1. /\ DOMAIN tank' = DOMAIN tank
      /\ \A x \in DOMAIN tank : x # pos => tank'[x] = tank[x]
      /\ tank'[pos] \in Header
  BY GoodCheck
<1>2. PICK b \in BOOLEAN : tank'[pos] = [tank[pos] EXCEPT !.opposite = b]
  BY GoodCheck
<1>3. pos \in DOMAIN tank /\ tank[pos] \in Header /\ tank[pos] # Junk
  BY HeaderRead DEF TypeOK, Accepted, Rejected
<1>4. SameNumbers(tank'[pos], tank[pos])
  BY <1>2, <1>3 DEF Header, SameNumbers
<1>5. tank'[pos] # Junk
  BY <1>1, TanksAssumption
<1>6. ASSUME NEW o \in DOMAIN disk
      PROVE  /\ tank'[o] = Junk <=> disk[o] = Junk
             /\ disk[o] # Junk => SameNumbers(tank'[o], disk[o])
  <2>1. CASE o = pos
    BY <1>3, <1>4, <1>5, <2>1 DEF AsOnDisk, SameNumbers
  <2>2. CASE o # pos
    BY <1>1, <2>2 DEF AsOnDisk
  <2> QED
    BY <2>1, <2>2
<1> QED
  BY <1>1, <1>6 DEF AsOnDisk

\* The message at the pointer is counted: it was ahead, and is no more.
LEMMA CountedNext ==
    ASSUME GoodInv, AsOnDisk, NoneLost, disk' = disk, Track
    PROVE  NoneLost'
<1>1. /\ phase = "scan" /\ phase' \in {"scan", "sort", "outside"} /\ ~Rejected(pos)
      /\ tank' \in AfterCheck(pos) /\ pos' = pos + Size(tank[pos]) /\ TypeOK
  BY DEF Track, PassOver, LookUp, Accepted, Scanning, GoodInv
<1>2. pos \in Ahead /\ Accepted(pos)
  BY <1>1, SlidesOverJunk
<1>3. Ahead' = Ahead \ {pos}
  BY <1>1, FirstAhead
<1>4. \A o \in Ahead : tank'[o].chan = tank[o].chan
  BY <1>1, <1>2, StaysSame DEF Ahead, Msg
<1>5. ASSUME NEW d \in Chans
      PROVE  (Messages(d) = Counted(d) \union AheadOf(d))'
  <2> DEFINE c == tank[pos].chan
             l == Len(tlist[c])
  <2>1. /\ c \in Chans /\ l \in Nat /\ Len(tlist'[c]) = l + 1
        /\ \A k \in 1..l : tlist'[c][k] = tlist[c][k]
        /\ tlist'[c][l + 1] = Entry(pos)
        /\ \A e \in Chans : e # c => tlist'[e] = tlist[e]
    BY Tracked, CountsAssumption DEF GoodInv
  <2>2. Messages(d)' = Messages(d)
    BY DEF Messages
  <2>3. Messages(d) = Counted(d) \union AheadOf(d)
    BY <1>1 DEF NoneLost
  <2>4. AheadOf(d)' = AheadOf(d) \ {pos}
    BY <1>3, <1>4 DEF AheadOf
  <2>5. CASE d = c
    <3>1. Entry(pos).offset = pos
      BY DEF Entry
    <3> HIDE DEF c, l
    <3>2. Counted(d)' = Counted(d) \union {pos}
      <4>1. Counted(d)' = {tlist'[c][k].offset : k \in 1..l+1}
        BY <2>1, <2>5 DEF Counted
      <4>2. Counted(d) = {tlist[c][k].offset : k \in 1..l}
        BY <2>5 DEF Counted, l
      <4>3. 1..l+1 = (1..l) \union {l+1}
        BY <2>1
      <4>4. \A k \in 1..l : tlist'[c][k].offset = tlist[c][k].offset
        BY <2>1
      <4>5. tlist'[c][l+1].offset = pos
        BY <2>1, <3>1
      <4>6. Counted(d)' = {tlist'[c][k].offset : k \in 1..l} \union {tlist'[c][l+1].offset}
        BY <4>1, <4>3
      <4>7. {tlist'[c][k].offset : k \in 1..l} = {tlist[c][k].offset : k \in 1..l}
        BY <4>4
      <4> QED
        BY <4>2, <4>5, <4>6, <4>7
    <3>3. pos \in AheadOf(d)
      BY <1>2, <2>5 DEF AheadOf, c
    <3> QED
      BY <2>2, <2>3, <2>4, <3>2, <3>3
  <2>6. CASE d # c
    <3>1. Counted(d)' = Counted(d)
      BY <2>1, <2>6 DEF Counted
    <3>2. pos \notin AheadOf(d)
      BY <2>6 DEF AheadOf
    <3> QED
      BY <2>2, <2>3, <2>4, <3>1, <3>2
  <2> QED
    BY <2>5, <2>6
<1> QED
  BY <1>1, <1>5 DEF NoneLost

\* The lists are sorted when nothing is ahead any more.
LEMMA SortedAll ==
    ASSUME GoodInv, NoneLost, disk' = disk, SortAll
    PROVE  NoneLost'
<1>1. phase = "sort" /\ phase' = "done" /\ Ahead = {}
  BY SizesAssumption DEF SortAll, GoodInv, PastEnd, Ahead, TypeOK
<1>2. ASSUME NEW c \in Chans
      PROVE  Messages(c)' = Counted(c)' /\ Promise!SortedByTime(tlist'[c])
  <2> DEFINE s == tlist[c]
             m == Len(s)
  <2>1. tlist'[c] \in Promise!Sorts(s) /\ s \in Seq(Entries) /\ m \in Nat
    BY LenProperties DEF SortAll, GoodInv, TypeOK, Entries
  <2>2. Len(tlist'[c]) = m
    BY <2>1, SortedList
  <2>3. PICK f \in Promise!Bijection(1..m, 1..m) : tlist'[c] = [k \in 1..m |-> s[f[k]]]
    BY <2>1 DEF Promise!Sorts
  <2>4. f \in [1..m -> 1..m] /\ \A k \in 1..m : \E j \in 1..m : f[j] = k
    BY <2>3 DEF Promise!Bijection, Promise!Injection, Promise!Surjection
  <2>5. Promise!SortedByTime(tlist'[c])
    BY <2>1 DEF Promise!Sorts
  <2>6. Counted(c) = {s[k].offset : k \in 1..m}
    BY DEF Counted
  <2>7. Counted(c)' = {tlist'[c][k].offset : k \in 1..m}
    BY <2>2 DEF Counted
  <2> HIDE DEF s, m
  <2>8. \A k \in 1..m : tlist'[c][k] = s[f[k]]
    BY <2>3
  <2>9. Counted(c)' = Counted(c)
    <3>1. \A k \in 1..m : f[k] \in 1..m /\ tlist'[c][k].offset = s[f[k]].offset
      BY <2>4, <2>8
    <3>2. Counted(c)' \subseteq Counted(c)
      BY <2>6, <2>7, <3>1
    <3>3. ASSUME NEW k \in 1..m
          PROVE  s[k].offset \in Counted(c)'
      <4>1. PICK j \in 1..m : f[j] = k
        BY <2>4
      <4>2. s[k].offset = tlist'[c][j].offset
        BY <3>1, <4>1
      <4> QED
        BY <2>7, <4>2
    <3> QED
      BY <2>6, <3>2, <3>3
  <2>10. AheadOf(c) = {}
    BY <1>1 DEF AheadOf
  <2>11. Messages(c) = Counted(c)
    BY <1>1, <2>10 DEF NoneLost
  <2>12. Messages(c)' = Messages(c)
    BY DEF Messages
  <2> QED
    BY <2>5, <2>9, <2>11, <2>12
<1> QED
  BY <1>1, <1>2 DEF NoneLost

LEMMA CleanScanStep ==
    ASSUME GoodInv, AsOnDisk, NoneLost, disk' = disk, [Next]_vars
    PROVE  AsOnDisk' /\ NoneLost'
<1>1. CASE Slide
  <2>1. tank[pos] = Junk /\ phase = "scan" /\ pos' = pos + 1 /\ pos \in Nat
        /\ phase' \in {"scan", "sort"} /\ UNCHANGED tlist
    BY <1>1, SlidesOverJunk, HeaderRead DEF Slide, Scanning, GoodInv
  <2>2. tank' = tank
    BY <1>1, <2>1 DEF Slide, AfterCheck
  <2>3. \A o \in DOMAIN tank : tank[o] # Junk => (o >= pos + 1 <=> o >= pos)
    BY <2>1 DEF GoodInv, TypeOK
  <2>4. Ahead' = Ahead
    BY <2>1, <2>2, <2>3 DEF Ahead
  <2> QED
    BY <2>1, <2>2, <2>4 DEF AsOnDisk, NoneLost, Messages, Counted, AheadOf
<1>2. CASE Track \/ SlotsFail \/ NodeFails
  <2>1. /\ phase = "scan" /\ ~Rejected(pos) /\ tank' \in AfterCheck(pos) /\ TypeOK
    BY <1>2 DEF Track, SlotsFail, NodeFails, PassOver, LookUp, Accepted, Scanning, GoodInv
  <2>2. AsOnDisk'
    BY <2>1, SlidesOverJunk, CheckedAsOnDisk
  <2>3. CASE Track
    BY <2>2, <2>3, CountedNext
  <2>4. CASE SlotsFail \/ NodeFails
    BY <2>2, <2>4 DEF SlotsFail, NodeFails, NoneLost
  <2> QED
    BY <1>2, <2>3, <2>4
<1>3. ~(PassTooLarge \/ PassInconsistent)
  BY SlidesOverJunk DEF PassTooLarge, PassInconsistent, Inconsistent, Accepted, Scanning
<1>4. CASE SortAll
  <2>1. AsOnDisk'
    BY <1>4 DEF SortAll, AsOnDisk
  <2> QED
    BY <1>4, <2>1, SortedAll
<1>5. CASE SwapPastEnd
  BY <1>5 DEF SwapPastEnd, Scanning, AsOnDisk, NoneLost
<1>6. CASE UNCHANGED vars
  BY <1>6 DEF vars, AsOnDisk, NoneLost, Messages, Counted, AheadOf, Ahead
<1> QED
  BY <1>1, <1>2, <1>3, <1>4, <1>5, <1>6 DEF Next

LEMMA CleanStep == ScannedInv /\ CleanInv /\ [ConvNext]_allvars => CleanInv'
<1> SUFFICES ASSUME ScannedInv, CleanInv, [ConvNext]_allvars, CleanTank'
             PROVE  GoodInv' /\ AsOnDisk' /\ NoneLost'
  BY DEF CleanInv
<1>1. [Next]_vars /\ disk' = disk
  BY DEF ConvNext, allvars, convvars, Scan, ScanFruitless, ScanComplete, BeginSac, SacStep,
         SacReturns, SacReturnsError, SacCrashes, AddTrace, AddFails, TracesThrough,
         ScanFaults, SacFaults, AddFaults, Pack, PackFails, Unmap, AtTrace, AtMseedTrace
<1>2. CleanTank
  BY <1>1 DEF CleanTank, Messages, From
<1>3. GoodInv'
  BY <1>1, <1>2, GoodStep, CountsAssumption, SMTT(30) DEF CleanInv, ScannedInv
<1> QED
  BY <1>1, <1>2, <1>3, CleanScanStep DEF CleanInv

-----------------------------------------------------------------------------
(* The messages of a channel in the order of time.                         *)

\* What a counted entry says is true on disk, and the packet the converters
\* read is a good one.
LEMMA MessageIs ==
    ASSUME FiledInv, CleanInv, CleanTank, phase = "done", NEW c \in Chans,
           NEW k \in 1..Len(tlist[c])
    PROVE  LET o == tlist[c][k].offset
           IN  /\ o \in Messages(c) /\ OffsetsOf(c)[k] = o /\ o \in Nat
               /\ disk[o].n \in Nat \ {0} /\ tank[o].n = disk[o].n
               /\ disk[o].time \in Int /\ tlist[c][k].time = disk[o].time
               /\ From(o) \in Int /\ From(o) = disk[o].time - (disk[o].n - 1)
               /\ PacketAt(o) = [start |-> From(o), end |-> disk[o].time, per |-> 1,
                                 n |-> disk[o].n, copyable |-> TRUE]
               /\ disk[o].n <= Grow
<1> DEFINE o == tlist[c][k].offset
<1>1. /\ OffsetsOf(c)[k] = o /\ o \in Nat /\ o \in DOMAIN tank /\ tank[o] \in Header
      /\ tank[o] # Junk /\ tank[o].chan = c /\ tank[o].n \in Nat
  BY EntryIs, SMTT(30)
<1>2. o \in Messages(c) /\ SameNumbers(tank[o], disk[o])
  <2>1. o \in DOMAIN disk /\ disk[o] # Junk /\ SameNumbers(tank[o], disk[o])
    BY <1>1 DEF CleanInv, AsOnDisk
  <2> QED
    BY <1>1, <2>1 DEF Messages, SameNumbers
<1>3. disk[o].n >= 1 /\ disk[o].width = disk[o].digit /\ ~TooMany(disk[o])
  BY <1>2 DEF CleanTank
<1>4. tank[o].time \in Int /\ tank[o].digit \in Nat \ {0}
  BY <1>1 DEF Header
<1>5. tlist[c][k].time = tank[o].time
  BY CountsAssumption DEF FiledInv, EntriesMatch, Matches
<1>6. disk[o].n \in Nat \ {0} /\ tank[o].n = disk[o].n /\ disk[o].time \in Int
      /\ tank[o].time = disk[o].time /\ tank[o].width = tank[o].digit
  <2>1. /\ tank[o].n = disk[o].n /\ tank[o].time = disk[o].time
        /\ tank[o].width = disk[o].width /\ tank[o].digit = disk[o].digit
    BY <1>2 DEF SameNumbers
  <2>2. disk[o].n \in Nat /\ disk[o].n >= 1
    BY <1>1, <1>3, <2>1
  <2>3. disk[o].n \in Nat \ {0}
    BY <2>2
  <2> QED
    BY <1>3, <1>4, <2>1, <2>3
<1>7. From(o) = disk[o].time - (disk[o].n - 1) /\ From(o) \in Int
  <2>1. From(o) = disk[o].time - (disk[o].n - 1)
    BY DEF From
  <2> HIDE DEF o
  <2> QED
    BY <1>6, <2>1
<1>8. PacketAt(o) = [start |-> From(o), end |-> disk[o].time, per |-> 1,
                     n |-> disk[o].n, copyable |-> TRUE]
  BY <1>6, <1>7 DEF PacketAt
<1>9. disk[o].n <= Grow
  <2> DEFINE d == disk[o].digit
             n == disk[o].n
             room == MaxTracebuf - HdrLen
  <2>1. ~(n > room \div d) /\ d \in Nat \ {0} /\ n \in Nat /\ room \in Nat
    BY <1>2, <1>3, <1>4, <1>6, SizesAssumption DEF TooMany, SameNumbers
  <2>2. room <= Grow /\ Grow \in Int
    BY GrowAssumption, ConvertAssumption
  <2> HIDE DEF d, n, room
  <2>3. room \div d <= room /\ room \div d \in Nat
    BY <2>1
  <2> QED
    BY <2>1, <2>2, <2>3, SMTT(30) DEF n
<1> QED
  BY <1>1, <1>2, <1>5, <1>6, <1>7, <1>8, <1>9

\* Of two entries the earlier one is over before the later one begins.
LEMMA OneByOne ==
    ASSUME FiledInv, CleanInv, CleanTank, phase = "done", NEW c \in Chans,
           NEW j \in 1..Len(tlist[c]), NEW k \in 1..Len(tlist[c]), j < k
    PROVE  disk[tlist[c][j].offset].time < From(tlist[c][k].offset)
<1> DEFINE o == tlist[c][j].offset
           p == tlist[c][k].offset
<1>1. /\ o \in Messages(c) /\ p \in Messages(c) /\ o # p
  <2>1. j # k
    BY DEF CleanInv, GoodInv, TypeOK
  <2> QED
    BY <2>1, MessageIs, OffsetsDiffer, ZenonT(40)
<1>2. disk[p].time < From(o) \/ disk[o].time < From(p)
  BY <1>1 DEF CleanTank
<1>3. tlist[c][j].time <= tlist[c][k].time
  BY DEF CleanInv, NoneLost, Promise!SortedByTime
<1> DEFINE x == disk[o].time
           y == disk[p].time
           n == disk[o].n
<1>4. x \in Int /\ y \in Int /\ x <= y /\ From(o) = x - (n - 1) /\ n \in Nat \ {0}
  BY <1>3, MessageIs
<1>5. y < From(o) \/ x < From(p)
  BY <1>2
<1> HIDE DEF x, y, n
<1>6. x < From(p)
  BY <1>4, <1>5
<1> QED
  BY <1>6 DEF x

\* They carry on from each other.
LEMMA Consecutive ==
    ASSUME FiledInv, CleanInv, CleanTank, phase = "done", NEW c \in Chans,
           NEW k \in 2..Len(tlist[c])
    PROVE  From(tlist[c][k].offset) = disk[tlist[c][k-1].offset].time + 1
<1> DEFINE O(j) == tlist[c][j].offset
           E(j) == disk[O(j)].time
           F(j) == From(O(j))
           m == Len(tlist[c])
<1>1. m \in Nat
  <2>1. tlist[c] \in Seq(Entries)
    BY DEF FiledInv, ScannedInv, TypeOK, Entries
  <2> QED
    BY <2>1, LenProperties
<1>2. \A j \in 1..m : E(j) \in Int /\ F(j) \in Int /\ F(j) <= E(j)
  <2> SUFFICES ASSUME NEW j \in 1..m PROVE E(j) \in Int /\ F(j) \in Int /\ F(j) <= E(j)
    OBVIOUS
  <2>1. E(j) \in Int /\ F(j) = E(j) - (disk[O(j)].n - 1) /\ disk[O(j)].n \in Nat \ {0}
    BY MessageIs
  <2> DEFINE n == disk[O(j)].n
  <2> HIDE DEF E, F
  <2>2. E(j) \in Int /\ F(j) = E(j) - (n - 1) /\ n \in Nat \ {0}
    BY <2>1
  <2> HIDE DEF n
  <2> QED
    BY <2>2
<1>3. \A h, j \in 1..m : h < j => E(h) < F(j)
  BY OneByOne
<1>4. k \in 1..m /\ k - 1 \in 1..m /\ 1 \in 1..m /\ 1 < k /\ k - 1 < k
  BY <1>1
<1>5. \/ \A p \in Messages(c) : F(k) <= From(p)
      \/ \E p \in Messages(c) : disk[p].time + 1 = F(k)
  BY <1>4, MessageIs DEF CleanTank
<1>6. F(k) > F(1)
  <2> HIDE DEF E, F
  <2>1. E(1) < F(k) /\ F(1) <= E(1) /\ E(1) \in Int /\ F(1) \in Int /\ F(k) \in Int
    BY <1>2, <1>3, <1>4
  <2> QED
    BY <2>1
<1>7. O(1) \in Messages(c)
  BY <1>4, MessageIs
<1>8. PICK p \in Messages(c) : disk[p].time + 1 = F(k)
  <2>1. ~(F(k) <= F(1))
    <3> HIDE DEF F, E
    <3> QED
      BY <1>2, <1>4, <1>6
  <2> QED
    BY <1>5, <1>7, <2>1
<1>9. PICK j \in 1..m : p = O(j)
  BY <1>8 DEF CleanInv, NoneLost, Counted
<1>10. E(j) + 1 = F(k)
  BY <1>8, <1>9
<1> HIDE DEF O, E, F, m
<1>11. j < k
  <2>1. ASSUME j = k PROVE FALSE
    BY <1>2, <1>4, <1>10, <2>1
  <2>2. ASSUME k < j PROVE FALSE
    <3>1. E(k) < F(j) /\ F(j) <= E(j) /\ F(k) <= E(k) /\ E(j) + 1 = F(k)
          /\ E(k) \in Int /\ F(j) \in Int /\ E(j) \in Int /\ F(k) \in Int
      BY <1>2, <1>3, <1>4, <1>10, <2>2
    <3> QED
      BY <3>1
  <2> QED
    BY <1>1, <1>4, <2>1, <2>2
<1>12. j = k - 1
  <2>1. ASSUME j < k - 1 PROVE FALSE
    <3>1. E(j) < F(k-1) /\ F(k-1) <= E(k-1) /\ E(k-1) < F(k) /\ E(j) + 1 = F(k)
          /\ E(j) \in Int /\ F(k-1) \in Int /\ E(k-1) \in Int /\ F(k) \in Int
      BY <1>2, <1>3, <1>4, <1>10, <2>1
    <3> QED
      BY <3>1
  <2> QED
    BY <1>4, <1>11, <2>1
<1> QED
  BY <1>10, <1>12 DEF O, E, F

\* The first entry begins the series, and the last one ends it.
LEMMA Ends ==
    ASSUME FiledInv, CleanInv, CleanTank, phase = "done", NEW c \in Chans,
           Len(tlist[c]) >= 1
    PROVE  /\ Earliest(c) = From(tlist[c][1].offset)
           /\ Latest(c) = disk[tlist[c][Len(tlist[c])].offset].time
<1> DEFINE O(j) == tlist[c][j].offset
           E(j) == disk[O(j)].time
           F(j) == From(O(j))
           m == Len(tlist[c])
           Fs == {From(o) : o \in Messages(c)}
           Es == {disk[o].time : o \in Messages(c)}
<1>1. m \in Nat \ {0} /\ 1 \in 1..m /\ m \in 1..m
  <2>1. tlist[c] \in Seq(Entries)
    BY DEF FiledInv, ScannedInv, TypeOK, Entries
  <2>2. Len(tlist[c]) \in Nat
    BY <2>1, LenProperties
  <2> QED
    BY <2>2
<1>2. \A j \in 1..m : E(j) \in Int /\ F(j) \in Int /\ F(j) <= E(j)
  <2> SUFFICES ASSUME NEW j \in 1..m PROVE E(j) \in Int /\ F(j) \in Int /\ F(j) <= E(j)
    OBVIOUS
  <2>1. E(j) \in Int /\ F(j) = E(j) - (disk[O(j)].n - 1) /\ disk[O(j)].n \in Nat \ {0}
    BY MessageIs
  <2> DEFINE n == disk[O(j)].n
  <2> HIDE DEF E, F
  <2>2. E(j) \in Int /\ F(j) = E(j) - (n - 1) /\ n \in Nat \ {0}
    BY <2>1
  <2> HIDE DEF n
  <2> QED
    BY <2>2
<1>3. \A h, j \in 1..m : h < j => E(h) < F(j)
  BY OneByOne
<1>4. Messages(c) = {O(j) : j \in 1..m}
  BY DEF CleanInv, NoneLost, Counted
<1>5. \A o \in Messages(c) : \E j \in 1..m : From(o) = F(j) /\ disk[o].time = E(j)
  BY <1>4
<1>6. \A j \in 1..m : O(j) \in Messages(c)
  BY <1>4
<1>7. F(1) \in Fs /\ E(m) \in Es
  BY <1>1, <1>6
<1>8. \A x \in Fs : \E j \in 1..m : x = F(j)
  BY <1>5
<1>9. \A x \in Es : \E j \in 1..m : x = E(j)
  BY <1>5
<1> HIDE DEF O, E, F, m
<1>10. \A j \in 1..m : F(1) <= F(j) /\ E(j) <= E(m)
  <2> SUFFICES ASSUME NEW j \in 1..m PROVE F(1) <= F(j) /\ E(j) <= E(m)
    OBVIOUS
  <2>1. CASE j = 1 /\ j = m
    BY <1>1, <1>2, <2>1
  <2>2. F(1) <= F(j)
    <3>1. CASE j = 1
      BY <1>1, <1>2, <3>1
    <3>2. CASE 1 < j
      <4>1. E(1) < F(j) /\ F(1) <= E(1) /\ E(1) \in Int /\ F(1) \in Int /\ F(j) \in Int
        BY <1>1, <1>2, <1>3, <3>2
      <4> QED
        BY <4>1
    <3> QED
      BY <1>1, <3>1, <3>2
  <2>3. E(j) <= E(m)
    <3>1. CASE j = m
      BY <1>1, <1>2, <3>1
    <3>2. CASE j < m
      <4>1. E(j) < F(m) /\ F(m) <= E(m) /\ E(j) \in Int /\ F(m) \in Int /\ E(m) \in Int
        BY <1>1, <1>2, <1>3, <3>2
      <4> QED
        BY <4>1
    <3> QED
      BY <1>1, <3>1, <3>2
  <2> QED
    BY <2>2, <2>3
<1>11. \A o \in Messages(c) : F(1) <= From(o) /\ E(m) >= disk[o].time
  <2> SUFFICES ASSUME NEW o \in Messages(c) PROVE F(1) <= From(o) /\ E(m) >= disk[o].time
    OBVIOUS
  <2>1. PICK j \in 1..m : From(o) = F(j) /\ disk[o].time = E(j)
    BY <1>5
  <2>2. F(1) <= F(j) /\ E(j) <= E(m) /\ E(j) \in Int /\ E(m) \in Int
    BY <1>1, <1>2, <1>10
  <2> QED
    BY <2>1, <2>2
<1>12. ASSUME NEW x \in Fs, \A o \in Messages(c) : x <= From(o)
       PROVE  x = F(1)
  <2>1. PICK j \in 1..m : x = F(j)
    BY <1>8, <1>12
  <2>2. x <= F(1)
    BY <1>1, <1>6, <1>12 DEF F
  <2>3. F(1) <= x /\ x \in Int /\ F(1) \in Int
    BY <1>1, <1>2, <1>10, <2>1
  <2> QED
    BY <2>2, <2>3
<1>13. ASSUME NEW x \in Es, \A o \in Messages(c) : x >= disk[o].time
       PROVE  x = E(m)
  <2>1. PICK j \in 1..m : x = E(j)
    BY <1>9, <1>13
  <2>2. x >= E(m)
    BY <1>1, <1>6, <1>13 DEF E
  <2>3. x <= E(m) /\ x \in Int /\ E(m) \in Int
    BY <1>1, <1>2, <1>10, <2>1
  <2> QED
    BY <2>2, <2>3
<1>14. Earliest(c) = F(1)
  <2> HIDE DEF Fs
  <2>1. Earliest(c) = CHOOSE x \in Fs : \A o \in Messages(c) : x <= From(o)
    BY DEF Earliest, Fs
  <2>2. \E x \in Fs : \A o \in Messages(c) : x <= From(o)
    BY <1>7, <1>11
  <2> QED
    BY <1>12, <2>1, <2>2
<1>15. Latest(c) = E(m)
  <2> HIDE DEF Es
  <2>1. Latest(c) = CHOOSE x \in Es : \A o \in Messages(c) : x >= disk[o].time
    BY DEF Latest, Es
  <2>2. \E x \in Es : \A o \in Messages(c) : x >= disk[o].time
    BY <1>7, <1>11
  <2> QED
    BY <1>13, <2>1, <2>2
<1> QED
  BY <1>14, <1>15 DEF E, F, O, m

-----------------------------------------------------------------------------
(* The series of a channel.                                                *)

\* Each word is a sample of a packet of L, one tick after the word before.
Even(ws, L) ==
    \A x \in 1..Len(ws) :
        /\ ws[x] # Sac!FillWord
        /\ L[ws[x][1]].start + ws[x][2] - 1 = L[1].start + x - 1

\* The words end where the packet the loop is at begins.
EvenInv ==
    stage = "sac" /\ CleanTank /\ sacphase \in {"head", "store", "done"} =>
        /\ nsamp = Len(out) /\ Even(out, list)
        /\ i > 1 => endtime = list[i-1].end
        /\ Len(out) = IF i = 1 THEN 0 ELSE list[i-1].end - list[1].start + 1
        /\ sacphase = "done" => i = Len(list) + 1 /\ npts = Len(out)

\* What comes next is the sample of packet j after the first a of it.
ComesTo(ws, L, j, a) ==
    /\ ws \in Seq(Nat \X Nat) /\ Even(ws, L)
    /\ L[j].start \in Int /\ L[1].start \in Int /\ L[j].start + a = L[1].start + Len(ws)

\* More samples, when the next is the one the words have come to.
LEMMA MoreEven ==
    ASSUME NEW L, NEW j \in Nat \ {0}, NEW a \in Nat, NEW b \in Nat, NEW ws,
           ComesTo(ws, L, j, a)
    PROVE  ComesTo(ws \o Sac!Samples(j, a, b), L, j, a + b)
<1> DEFINE r == Sac!Samples(j, a, b)
           T == ws \o r
           m == Len(ws)
           p == L[j].start
           q == L[1].start
<1>1. /\ r \in Seq(Nat \X Nat) /\ Len(r) = b
      /\ \A x \in 1..b : r[x] = <<j, a + x>>
  <2>1. \A x \in 1..b : <<j, a + x>> \in Nat \X Nat
    OBVIOUS
  <2> QED
    BY <2>1 DEF Sac!Samples
<1> HIDE DEF r
<1>0. ws \in Seq(Nat \X Nat) /\ Even(ws, L) /\ p \in Int /\ q \in Int /\ p + a = q + m
  BY DEF ComesTo
<1>2. /\ T \in Seq(Nat \X Nat) /\ m \in Nat /\ Len(T) = m + b
      /\ \A x \in 1..m + b : \/ x \in 1..m /\ T[x] = ws[x]
                             \/ x - m \in 1..b /\ T[x] = r[x - m]
  BY <1>0, <1>1, JoinedWords
<1> HIDE DEF T
<1>3. ASSUME NEW x \in 1..Len(T)
      PROVE  /\ T[x] # Sac!FillWord
             /\ L[T[x][1]].start + T[x][2] - 1 = q + x - 1
  <2>1. CASE x \in 1..m /\ T[x] = ws[x]
    BY <1>0, <2>1 DEF Even
  <2>2. CASE x - m \in 1..b /\ T[x] = <<j, a + (x - m)>>
    <3>1. T[x] # Sac!FillWord /\ T[x][1] = j /\ T[x][2] = a + (x - m)
      BY <2>2 DEF Sac!FillWord
    <3>2. p \in Int /\ q \in Int /\ p + a = q + m /\ x \in Int
      BY <1>0, <1>2
    <3> HIDE DEF p, q, m
    <3>3. p + (a + (x - m)) - 1 = q + x - 1
      BY <1>2, <3>2
    <3> QED
      BY <3>1, <3>3 DEF p
  <2>3. \/ x \in 1..m /\ T[x] = ws[x]
        \/ x - m \in 1..b /\ T[x] = <<j, a + (x - m)>>
    BY <1>1, <1>2
  <2> QED
    BY <2>1, <2>2, <2>3
<1>4. Even(T, L)
  BY <1>3 DEF Even
<1>5. p + (a + b) = q + Len(T)
  <2> HIDE DEF p, q, m
  <2> QED
    BY <1>0, <1>2
<1>6. ComesTo(T, L, j, a + b)
  BY <1>0, <1>2, <1>4, <1>5 DEF ComesTo
<1> QED
  BY <1>6 DEF T, r

LEMMA MoreThere ==
    ASSUME NEW L, NEW j \in Nat \ {0}, NEW a \in Nat, NEW b \in Nat, NEW ws,
           ComesTo(ws, L, j, a)
    PROVE  Len(ws \o Sac!Samples(j, a, b)) = Len(ws) + b
<1> DEFINE r == Sac!Samples(j, a, b)
<1>1. r \in Seq(Nat \X Nat) /\ Len(r) = b
  <2>1. \A x \in 1..b : <<j, a + x>> \in Nat \X Nat
    OBVIOUS
  <2> QED
    BY <2>1 DEF Sac!Samples
<1>2. ws \in Seq(Nat \X Nat)
  BY DEF ComesTo
<1> HIDE DEF r
<1>3. Len(ws \o r) = Len(ws) + b
  BY <1>1, <1>2, JoinedWords
<1> QED
  BY <1>3 DEF r

\* The packets of a good channel.
CleanPackets ==
    /\ Len(list) \in Nat
    /\ \A k \in 1..Len(list) :
          /\ list[k].start \in Int /\ list[k].end \in Int /\ list[k].per = 1
          /\ list[k].n \in Nat \ {0} /\ list[k].n <= Grow /\ list[k].copyable
          /\ list[k].end = list[k].start + (list[k].n - 1)
    /\ \A k \in 2..Len(list) : list[k].start = list[k-1].end + 1

LEMMA PacketsClean ==
    ASSUME FiledInv, DutyInv, CleanInv, CleanTank, stage = "sac", TraceRead
    PROVE  /\ CleanPackets /\ Len(list) = Len(tlist[Chan]) /\ Chan \in Chans /\ phase = "done"
           /\ \A k \in 1..Len(list) : /\ list[k].start = From(tlist[Chan][k].offset)
                                      /\ list[k].end = disk[tlist[Chan][k].offset].time
<1> DEFINE O(k) == tlist[Chan][k].offset
           m == Len(list)
<1>1. Chan \in Chans /\ phase = "done"
  BY ChannelIs DEF DutyInv, StageInv
<1>2. m = Len(tlist[Chan]) /\ m \in Nat
  BY PacketsAre
<1>3. ASSUME NEW k \in 1..m
      PROVE  /\ list[k].start = From(O(k)) /\ list[k].end = disk[O(k)].time
             /\ list[k].start \in Int /\ list[k].end \in Int /\ list[k].per = 1
             /\ list[k].n \in Nat \ {0} /\ list[k].n <= Grow /\ list[k].copyable
             /\ list[k].end = list[k].start + (list[k].n - 1)
  <2>1. k \in 1..Len(tlist[Chan])
    BY <1>2
  <2>2. list[k] = PacketAt(OffsetsOf(Chan)[k])
    BY <2>1 DEF TraceRead
  <2>3. /\ OffsetsOf(Chan)[k] = O(k)
        /\ PacketAt(O(k)) = [start |-> From(O(k)), end |-> disk[O(k)].time, per |-> 1,
                             n |-> disk[O(k)].n, copyable |-> TRUE]
        /\ disk[O(k)].n \in Nat \ {0} /\ disk[O(k)].n <= Grow /\ disk[O(k)].time \in Int
        /\ From(O(k)) \in Int /\ From(O(k)) = disk[O(k)].time - (disk[O(k)].n - 1)
    BY <1>1, <2>1, MessageIs
  <2>4. /\ list[k].start = From(O(k)) /\ list[k].end = disk[O(k)].time
        /\ list[k].per = 1 /\ list[k].n = disk[O(k)].n /\ list[k].copyable
    BY <2>2, <2>3
  <2> DEFINE f == From(O(k))
             e == disk[O(k)].time
             n == disk[O(k)].n
  <2>5. f \in Int /\ e \in Int /\ n \in Nat \ {0} /\ n <= Grow /\ f = e - (n - 1)
    BY <2>3
  <2>6. list[k].start = f /\ list[k].end = e /\ list[k].n = n
    BY <2>4
  <2> HIDE DEF f, e, n
  <2>7. e = f + (n - 1)
    BY <2>5
  <2>8. /\ list[k].start \in Int /\ list[k].end \in Int /\ list[k].n \in Nat \ {0}
        /\ list[k].n <= Grow /\ list[k].end = list[k].start + (list[k].n - 1)
    BY <2>5, <2>6, <2>7
  <2> QED
    BY <2>4, <2>8
<1>4. ASSUME NEW k \in 2..m
      PROVE  list[k].start = list[k-1].end + 1
  <2>1. k \in 1..m /\ k - 1 \in 1..m /\ k \in 2..Len(tlist[Chan])
    BY <1>2
  <2>2. From(O(k)) = disk[O(k-1)].time + 1
    BY <1>1, <2>1, Consecutive
  <2> QED
    BY <1>3, <2>1, <2>2
<1> HIDE DEF O
<1>5. CleanPackets
  BY <1>2, <1>3, <1>4 DEF CleanPackets
<1> QED
  BY <1>1, <1>2, <1>3, <1>5 DEF O

\* The words have come to the packet the loop is at.
LEMMA ComeTo ==
    ASSUME CleanPackets, i \in 1..Len(list), Len(out) \in Nat,
           Len(out) = IF i = 1 THEN 0 ELSE list[i-1].end - list[1].start + 1
    PROVE  /\ list[i].start + 0 = list[1].start + Len(out)
           /\ list[i].start \in Int /\ list[1].start \in Int
           /\ Len(out) + list[i].n = list[i].end - list[1].start + 1
<1> DEFINE p == list[i].start
           q == list[1].start
           e == list[i].end
           n == list[i].n
           l == Len(out)
<1>1. /\ p \in Int /\ q \in Int /\ e \in Int /\ n \in Nat /\ l \in Nat /\ e = p + (n - 1)
  BY DEF CleanPackets
<1>2. p + 0 = q + l
  <2>1. CASE i = 1
    <3>1. l = 0 /\ p = q
      BY <2>1
    <3> QED
      BY <1>1, <3>1
  <2>2. CASE i > 1
    <3> DEFINE d == list[i-1].end
    <3>1. i \in 2..Len(list) /\ i - 1 \in 1..Len(list)
      BY <2>2 DEF CleanPackets
    <3>2. l = d - q + 1 /\ p = d + 1 /\ d \in Int
      BY <2>2, <3>1 DEF CleanPackets
    <3> HIDE DEF p, q, l, d
    <3> QED
      BY <1>1, <3>2
  <2> QED
    BY <2>1, <2>2 DEF CleanPackets
<1> HIDE DEF p, q, e, n, l
<1>3. l + n = e - q + 1
  BY <1>1, <1>2
<1> QED
  BY <1>1, <1>2, <1>3 DEF p, q, e, n, l

\* A packet is stored whole, in one pass or in two.
LEMMA StoredEven ==
    ASSUME CleanPackets, BufferFilled, Sac!StoreFits \/ Sac!StoreGrows, Even(out, list),
           nsamp = Len(out), Len(out) = IF i = 1 THEN 0 ELSE list[i-1].end - list[1].start + 1
    PROVE  /\ Even(out', list) /\ nsamp' = Len(out') /\ Len(out') = Len(out) + list[i].n
           /\ i' = i + 1 /\ endtime' = list[i].end /\ list' = list /\ sacphase' = "head"
           /\ i \in 1..Len(list)
<1> DEFINE w == list[i].n
           l == Len(out)
           first  == Sac!Smaller(w, cap - l)
           second == Sac!Smaller(w - first, cap' - (l + first))
<1>1. /\ i \in 1..Len(list) /\ i' = i + 1 /\ sacphase' = "head" /\ list' = list
      /\ nsamp' = nsamp + w /\ endtime' = list[i].end
  BY DEF BufferFilled, Sac!StoreFits, Sac!StoreGrows, Sac!AtStore, Sac!Stored, Sac!Pkt
<1>2. out \in Seq(Nat \X Nat) /\ l \in Nat /\ cap \in Nat /\ l <= cap
  BY LenProperties DEF BufferFilled, WordsOf
<1>3. /\ w \in Nat /\ w <= Grow /\ Sac!Words(Sac!Pkt) = w /\ i \in Nat \ {0}
  <2>1. list[i].n \in Nat /\ list[i].n <= Grow /\ i \in Nat \ {0}
    BY <1>1 DEF CleanPackets
  <2> QED
    BY <2>1 DEF Sac!Words, Sac!Pkt
<1>4. list[i].start + 0 = list[1].start + l /\ list[i].start \in Int /\ list[1].start \in Int
  BY <1>1, <1>2, ComeTo
<1>5. ComesTo(out, list, i, 0)
  BY <1>2, <1>4 DEF ComesTo
<1>6. CASE Sac!StoreFits
  <2>1. out' = out \o Sac!Samples(i, 0, w)
    BY <1>3, <1>6 DEF Sac!StoreFits
  <2> HIDE DEF w
  <2>2. i \in Nat \ {0} /\ 0 \in Nat /\ w \in Nat
    BY <1>3
  <2>3. ComesTo(out \o Sac!Samples(i, 0, w), list, i, 0 + w)
    BY <1>5, <2>2, MoreEven
  <2>4. Len(out \o Sac!Samples(i, 0, w)) = Len(out) + w
    BY <1>5, <2>2, MoreThere
  <2> QED
    BY <1>1, <2>1, <2>3, <2>4 DEF w, ComesTo
<1>7. CASE Sac!StoreGrows
  <2>1. /\ out' = out \o Sac!Samples(i, 0, first) \o Sac!Samples(i, first, second)
        /\ cap' = cap + Grow
    BY <1>3, <1>7 DEF Sac!StoreGrows
  <2>2. first \in Nat /\ second \in Nat /\ first + second = w
    <3> HIDE DEF w, l
    <3> QED
      BY <1>2, <1>3, <2>1, ConvertAssumption DEF Sac!Smaller
  <2> DEFINE o1 == out \o Sac!Samples(i, 0, first)
  <2> HIDE DEF first, second
  <2>3. ComesTo(o1, list, i, first) /\ Len(o1) = l + first
    <3>1. i \in Nat \ {0} /\ 0 \in Nat /\ first \in Nat /\ 0 + first = first
      BY <1>3, <2>2
    <3>2. ComesTo(out \o Sac!Samples(i, 0, first), list, i, 0 + first)
      BY <1>5, <3>1, MoreEven
    <3>3. Len(out \o Sac!Samples(i, 0, first)) = Len(out) + first
      BY <1>5, <3>1, MoreThere
    <3> QED
      BY <3>1, <3>2, <3>3
  <2>4. out' = o1 \o Sac!Samples(i, first, second)
    BY <2>1 DEF first, second
  <2> HIDE DEF o1
  <2>5. Even(o1 \o Sac!Samples(i, first, second), list)
        /\ Len(o1 \o Sac!Samples(i, first, second)) = Len(o1) + second
    <3>1. i \in Nat \ {0} /\ first \in Nat /\ second \in Nat
      BY <1>3, <2>2
    <3>2. ComesTo(o1 \o Sac!Samples(i, first, second), list, i, first + second)
      BY <2>3, <3>1, MoreEven
    <3>3. Len(o1 \o Sac!Samples(i, first, second)) = Len(o1) + second
      BY <2>3, <3>1, MoreThere
    <3> QED
      BY <3>2, <3>3 DEF ComesTo
  <2>6. Len(out') = l + w
    <3>1. Len(out') = (l + first) + second
      BY <2>3, <2>4, <2>5
    <3> HIDE DEF l, w
    <3> QED
      BY <1>2, <2>2, <3>1
  <2> QED
    BY <1>1, <2>4, <2>5, <2>6, SMTT(30)
<1> QED
  BY <1>6, <1>7, SMTT(30)

\* No packet of a good channel is a duplicate, or comes after a gap.
LEMMA NoneDropped ==
    ASSUME CleanPackets, i \in 1..Len(list), i > 1 => endtime = list[i-1].end
    PROVE  ~Sac!Gap(Sac!Pkt) /\ ~Sac!Duplicate(Sac!Pkt) /\ Sac!Pkt.copyable
<1>1. Sac!Pkt.copyable
  BY DEF CleanPackets, Sac!Pkt
<1>2. ASSUME i > 1
      PROVE  ~(endtime + 2 * list[i].per < list[i].start) /\ ~(endtime + list[i].per > list[i].end)
  <2> DEFINE p == list[i].start
             e == list[i].end
             n == list[i].n
  <2>1. i \in 2..Len(list) /\ i - 1 \in 1..Len(list)
    BY <1>2 DEF CleanPackets
  <2>2. /\ p = endtime + 1 /\ endtime \in Int /\ p \in Int /\ e = p + (n - 1) /\ n \in Nat \ {0}
        /\ list[i].per = 1
    BY <1>2, <2>1 DEF CleanPackets
  <2> HIDE DEF p, e, n
  <2>3. ~(endtime + 2 * 1 < p) /\ ~(endtime + 1 > e)
    BY <2>2
  <2> QED
    BY <2>2, <2>3 DEF p, e
<1> QED
  BY <1>1, <1>2 DEF Sac!Gap, Sac!Duplicate, Sac!Pkt

LEMMA EvenStep ==
    ASSUME FiledInv, DutyInv, SacInv, CleanInv, EvenInv, [ConvNext]_allvars
    PROVE  EvenInv'
<1>1. CASE SacStep
  <2> SUFFICES ASSUME stage' = "sac", CleanTank', sacphase' \in {"head", "store", "done"}
               PROVE  /\ (nsamp = Len(out) /\ Even(out, list))'
                      /\ (i > 1 => endtime = list[i-1].end)'
                      /\ (Len(out) = IF i = 1 THEN 0 ELSE list[i-1].end - list[1].start + 1)'
                      /\ (sacphase = "done" => i = Len(list) + 1 /\ npts = Len(out))'
    BY DEF EvenInv
  <2>1. /\ stage = "sac" /\ Sac!Next /\ UNCHANGED <<vars, convvars>>
        /\ sacphase \in {"head", "store"}
    BY <1>1, SacDuty DEF SacStep
  <2>2. CleanTank
    BY <2>1 DEF CleanTank, Messages, From, convvars
  <2>3. TraceRead /\ BufferFilled
    BY <2>1 DEF SacInv
  <2>4. CleanPackets
    BY <2>1, <2>2, <2>3, PacketsClean
  <2>5. /\ nsamp = Len(out) /\ Even(out, list)
        /\ i > 1 => endtime = list[i-1].end
        /\ Len(out) = IF i = 1 THEN 0 ELSE list[i-1].end - list[1].start + 1
    BY <2>1, <2>2 DEF EvenInv
  <2>6. i \in 1..Len(list) + 1 /\ Len(list) \in Nat
    BY <2>3, <2>4 DEF BufferFilled, CleanPackets
  <2>7. i \in 1..Len(list) => ~Sac!Gap(Sac!Pkt) /\ ~Sac!Duplicate(Sac!Pkt) /\ Sac!Pkt.copyable
    BY <2>4, <2>5, NoneDropped
  <2>8. CASE Sac!FirstPacket \/ Sac!Follows
    BY <2>5, <2>8 DEF Sac!FirstPacket, Sac!Follows, Sac!AtHead, Even
  <2>9. ~(Sac!SkipDuplicate \/ Sac!SkipBogus \/ Sac!FillGap \/ Sac!FillFails)
    <3>1. ASSUME Sac!AtHead PROVE i \in 1..Len(list)
      BY <2>6, <3>1 DEF Sac!AtHead
    <3> QED
      BY <2>7, <3>1 DEF Sac!SkipDuplicate, Sac!SkipBogus, Sac!FillGap, Sac!FillFails
  <2>10. ~Sac!SkipUnsupported
    <3>1. ASSUME Sac!AtStore PROVE i \in 1..Len(list)
      BY <2>3, <2>6, <3>1 DEF Sac!AtStore, BufferFilled
    <3> QED
      BY <2>7, <3>1 DEF Sac!SkipUnsupported
  <2>11. CASE Sac!StoreFits \/ Sac!StoreGrows
    <3>1. /\ Even(out', list) /\ nsamp' = Len(out') /\ Len(out') = Len(out) + list[i].n
          /\ i' = i + 1 /\ endtime' = list[i].end /\ list' = list /\ sacphase' = "head"
          /\ i \in 1..Len(list)
      BY <2>3, <2>4, <2>5, <2>11, StoredEven
    <3>2. Len(out) \in Nat
      BY <2>3, LenProperties DEF BufferFilled, WordsOf
    <3>3. Len(out) + list[i].n = list[i].end - list[1].start + 1
      BY <2>4, <2>5, <3>1, <3>2, ComeTo
    <3>4. i' # 1 /\ i' - 1 = i
      BY <3>1
    <3> QED
      BY <3>1, <3>3, <3>4
  <2>12. ~(Sac!StoreFails \/ Sac!WriteFails \/ Sac!OpenFails)
    BY DEF Sac!StoreFails, Sac!WriteFails, Sac!OpenFails
  <2>13. CASE Sac!WriteFile
    BY <2>5, <2>6, <2>13 DEF Sac!WriteFile, Sac!AtEnd, Even
  <2> QED
    BY <2>1, <2>8, <2>9, <2>10, <2>11, <2>12, <2>13 DEF Sac!Next
<1>2. CASE BeginSac
  <2>1. /\ i' = 1 /\ sacphase' = "head" /\ out' = <<>> /\ nsamp' = 0
    BY <1>2 DEF BeginSac
  <2>2. Len(out') = 0
    BY <2>1
  <2> QED
    BY <2>1, <2>2 DEF EvenInv, Even
<1>3. CASE UNCHANGED allvars
  BY <1>3 DEF allvars, vars, convvars, sacvars, EvenInv, Even, CleanTank, Messages, From
<1>4. CASE \/ Scan \/ ScanFruitless \/ ScanComplete \/ SacReturns \/ SacReturnsError
           \/ SacCrashes \/ AddTrace \/ AddFails \/ TracesThrough \/ Pack \/ PackFails \/ Unmap
           \/ ScanFaults \/ SacFaults \/ AddFaults
  <2>1. stage' # "sac"
    BY <1>4 DEF Scan, ScanFruitless, ScanComplete, SacReturns, SacReturnsError, SacCrashes,
                ScanFaults, SacFaults, AddFaults,
                AddTrace, AddFails, TracesThrough, Pack, PackFails, Unmap, AtMseedTrace,
                AtTrace, convvars
  <2> QED
    BY <2>1 DEF EvenInv
<1> QED
  BY <1>1, <1>2, <1>3, <1>4 DEF ConvNext

-----------------------------------------------------------------------------
\* The file of a channel whose conversion is done is its series.
LEMMA SeriesWritten ==
    ASSUME FiledInv, DutyInv, SacInv, CleanInv, EvenInv, CleanTank,
           stage = "sac", sacphase = "done", Len(tlist[Chan]) >= 1
    PROVE  IsSeries(Chan, FileWords)
<1> DEFINE c == Chan
           O(k) == tlist[Chan][k].offset
           m == Len(list)
<1>1. TraceRead /\ BufferFilled
  BY DEF SacInv
<1>2. /\ CleanPackets /\ m = Len(tlist[Chan]) /\ c \in Chans /\ phase = "done" /\ m \in Nat
      /\ \A k \in 1..m : list[k].start = From(O(k)) /\ list[k].end = disk[O(k)].time
  BY <1>1, PacketsClean DEF CleanPackets
<1>3. Earliest(c) = list[1].start /\ Latest(c) = list[m].end
  <2>1. 1 \in 1..m /\ m \in 1..m
    BY <1>2
  <2> QED
    BY <1>2, <2>1, Ends
<1>4. /\ npts = Len(out) /\ Even(out, list) /\ Len(out) \in Nat
      /\ Len(out) = list[m].end - list[1].start + 1
  <2>1. i = m + 1 /\ npts = Len(out) /\ Even(out, list)
        /\ Len(out) = IF i = 1 THEN 0 ELSE list[i-1].end - list[1].start + 1
    BY DEF EvenInv
  <2>2. i # 1 /\ i - 1 = m
    BY <1>2, <2>1
  <2> QED
    BY <1>1, <2>1, <2>2, LenProperties DEF BufferFilled, WordsOf
<1>5. Len(FileWords) = npts /\ \A x \in 1..npts : FileWords[x] = Origin(out[x])
  <2>1. npts \in Nat
    BY <1>4
  <2> QED
    BY <1>4, <2>1 DEF FileWords
<1>6. ASSUME NEW x \in 1..Len(FileWords)
      PROVE  LET o == FileWords[x][1]
             IN  /\ o \in Messages(c) /\ FileWords[x][2] \in 1..disk[o].n
                 /\ From(o) + FileWords[x][2] - 1 = Earliest(c) + x - 1
  <2> DEFINE k == out[x][1]
  <2>1. x \in 1..Len(out) /\ out[x] # Sac!FillWord /\ FileWords[x] = Origin(out[x])
        /\ list[k].start + out[x][2] - 1 = list[1].start + x - 1
    BY <1>4, <1>5 DEF Even
  <2>2. /\ k \in 1..Len(tlist[Chan]) /\ Origin(out[x]) = <<O(k), out[x][2]>>
        /\ Origin(out[x])[2] \in 1..tank[Origin(out[x])[1]].n
    BY <2>1, OriginIs
  <2>3. FileWords[x][1] = O(k) /\ FileWords[x][2] = out[x][2] /\ out[x][2] \in 1..tank[O(k)].n
    BY <2>1, <2>2, SMTT(30)
  <2>4. O(k) \in Messages(c) /\ tank[O(k)].n = disk[O(k)].n
    BY <1>2, <2>2, MessageIs
  <2>5. list[k].start = From(O(k))
    BY <1>2, <2>2
  <2> HIDE DEF O, k
  <2> QED
    BY <1>3, <2>1, <2>3, <2>4, <2>5 DEF k
<1> QED
  BY <1>3, <1>4, <1>5, <1>6 DEF IsSeries

-----------------------------------------------------------------------------
(* What is handed to libmseed.                                             *)

InOrder(c, f) ==
    /\ {f[k] : k \in DOMAIN f} = Messages(c)
    /\ \A k \in 2..Len(f) : From(f[k]) = disk[f[k-1]].time + 1

\* An ascending list of all of 1..m leaves no number out.
LEMMA AscendingByOne ==
    ASSUME NEW m \in Nat, NEW at \in [1..m -> 1..m],
           \A j, k \in 1..m : j < k => at[j] < at[k],
           NEW k \in 2..m
    PROVE  at[k] = at[k-1] + 1 /\ at[k] \in 2..m
<1>1. k \in 1..m /\ k - 1 \in 1..m /\ k - 1 < k
  OBVIOUS
<1>2. at[k] \in 1..m /\ at[k-1] \in 1..m /\ at[k-1] < at[k]
  BY <1>1
<1> SUFFICES ASSUME at[k] # at[k-1] + 1 PROVE FALSE
  BY <1>2
<1> DEFINE S == 1..m
<1>3. S \subseteq Nat /\ IsFiniteSet(S) /\ Cardinality(S) = m
  <2>1. IsFiniteSet(1..m) /\ Cardinality(1..m) = IF 1 > m THEN 0 ELSE m - 1 + 1
    BY FS_Interval
  <2> QED
    BY <2>1
<1>4. at \in [1..Cardinality(S) -> S] /\ \A j, h \in DOMAIN at : j < h => at[j] < at[h]
  BY <1>3
<1> HIDE DEF S
<1> DEFINE x == at[k-1]
           y == at[k]
<1>5. PICK p \in 1..m : p = x + 1 /\ x < p /\ p < y
  <2>1. x \in 1..m /\ y \in 1..m /\ x < y /\ y # x + 1
    BY <1>2
  <2> HIDE DEF x, y
  <2>2. x + 1 \in 1..m /\ x < x + 1 /\ x + 1 < y
    BY <2>1
  <2> QED
    BY <2>2
<1>6. PICK j \in 1..Cardinality(S) : at[j] = p
  <2>1. p \in S
    BY <1>5 DEF S
  <2> QED
    BY <1>3, <1>4, <2>1, AscendingIsAll
<1>7. j \in 1..m /\ at[j] = p
  BY <1>3, <1>6
<1>8. ~(j <= k - 1)
  <2> SUFFICES ASSUME j <= k - 1 PROVE FALSE
    OBVIOUS
  <2>1. j = k - 1 \/ j < k - 1
    BY <1>1, <1>7
  <2>2. at[j] = at[k-1] \/ at[j] < at[k-1]
    BY <1>1, <1>7, <2>1
  <2>3. p = x \/ p < x
    BY <1>7, <2>2
  <2>4. x \in Int /\ p \in Int /\ x < p
    BY <1>2, <1>5
  <2> HIDE DEF x
  <2> QED
    BY <2>3, <2>4
<1>9. ~(j >= k)
  <2> SUFFICES ASSUME j >= k PROVE FALSE
    OBVIOUS
  <2>1. j = k \/ k < j
    BY <1>1, <1>7
  <2>2. at[j] = at[k] \/ at[k] < at[j]
    BY <1>1, <1>7, <2>1
  <2>3. p = y \/ y < p
    BY <1>7, <2>2
  <2>4. y \in Int /\ p \in Int /\ p < y
    BY <1>2, <1>5
  <2> HIDE DEF y
  <2> QED
    BY <2>3, <2>4
<1> QED
  BY <1>1, <1>7, <1>8, <1>9

LEMMA FedInOrder ==
    ASSUME FiledInv, DutyInv, CleanInv, CleanTank, AddTrace
    PROVE  \E f : fed' = [fed EXCEPT ![Chan] = f] /\ InOrder(Chan, f)
<1> DEFINE c == Chan
           O(k) == tlist[Chan][k].offset
           m == Len(tlist[Chan])
           K == Known(Chan)
<1>1. PICK at \in [1..Cardinality(K) -> K] :
         LET f == [k \in DOMAIN at |-> OffsetsOf(Chan)[at[k]]]
         IN  /\ \A j, k \in DOMAIN at : j < k => at[j] < at[k]
             /\ fed' = [fed EXCEPT ![Chan] = f]
             /\ f \in Seq(Nat) /\ Len(f) = Cardinality(K)
  BY FedAre
<1> DEFINE f == [k \in DOMAIN at |-> OffsetsOf(Chan)[at[k]]]
<1>2. c \in Chans /\ phase = "done" /\ m \in Nat
  BY ChannelIs DEF AddTrace, AtMseedTrace, AtTrace
<1>3. ASSUME NEW k \in 1..m
      PROVE  OffsetsOf(Chan)[k] = O(k) /\ PacketAt(OffsetsOf(Chan)[k]).copyable
  <2>1. Chan \in Chans /\ phase = "done" /\ k \in 1..Len(tlist[Chan])
    BY <1>2
  <2>2. /\ OffsetsOf(Chan)[k] = O(k)
        /\ PacketAt(O(k)) = [start |-> From(O(k)), end |-> disk[O(k)].time, per |-> 1,
                             n |-> disk[O(k)].n, copyable |-> TRUE]
    BY <2>1, MessageIs
  <2>3. PacketAt(O(k)).copyable
    BY <2>2
  <2> QED
    BY <2>2, <2>3
<1>4. K = 1..m
  BY <1>3 DEF Known
<1>5. Cardinality(K) = m
  <2>1. Cardinality(1..m) = IF 1 > m THEN 0 ELSE m - 1 + 1
    BY <1>2, FS_Interval, SMTT(30)
  <2> HIDE DEF m, K
  <2> QED
    BY <1>2, <1>4, <2>1
<1> HIDE DEF K
<1>6. at \in [1..m -> 1..m] /\ \A j, k \in 1..m : j < k => at[j] < at[k]
  <2> HIDE DEF m
  <2> QED
    BY <1>1, <1>4, <1>5
<1>7. Len(f) = m /\ DOMAIN f = 1..m /\ \A k \in 1..m : f[k] = O(at[k])
  BY <1>1, <1>3, <1>5, <1>6
<1> HIDE DEF f, O, m
<1>8. Messages(c) = {O(k) : k \in 1..m}
  BY <1>2 DEF CleanInv, NoneLost, Counted, O, m
<1>9. {f[k] : k \in DOMAIN f} = Messages(c)
  <2>1. {f[k] : k \in DOMAIN f} \subseteq Messages(c)
    BY <1>6, <1>7, <1>8
  <2>2. ASSUME NEW k \in 1..m
        PROVE  O(k) \in {f[j] : j \in DOMAIN f}
    <3> DEFINE S == 1..m
    <3>1. S \subseteq Nat /\ IsFiniteSet(S) /\ Cardinality(S) = m
      BY <1>2, <1>4, <1>5, FS_Interval
    <3>2. at \in [1..Cardinality(S) -> S] /\ \A j, h \in DOMAIN at : j < h => at[j] < at[h]
      BY <1>6, <3>1
    <3>3. k \in S
      OBVIOUS
    <3> HIDE DEF S
    <3>4. PICK j \in 1..Cardinality(S) : at[j] = k
      BY <3>1, <3>2, <3>3, AscendingIsAll, ZenonT(40)
    <3>5. j \in 1..m /\ f[j] = O(k)
      BY <1>7, <3>1, <3>4
    <3> QED
      BY <1>7, <3>5
  <2> QED
    BY <1>8, <2>1, <2>2
<1>10. ASSUME NEW k \in 2..m
       PROVE  From(f[k]) = disk[f[k-1]].time + 1
  <2>1. at[k] = at[k-1] + 1 /\ at[k] \in 2..m
    BY <1>2, <1>6, AscendingByOne DEF m
  <2>2. k \in 1..m /\ k - 1 \in 1..m
    BY <1>2 DEF c
  <2>3. f[k] = O(at[k]) /\ f[k-1] = O(at[k-1])
    BY <1>7, <2>2
  <2>4. at[k-1] = at[k] - 1
    <3>1. at[k-1] \in 1..m
      BY <1>6, <2>2
    <3> QED
      BY <2>1, <3>1
  <2> DEFINE h == at[k]
  <2> HIDE DEF h
  <2>5. From(O(h)) = disk[O(h-1)].time + 1
    <3>1. h \in 2..Len(tlist[Chan]) /\ Chan \in Chans /\ phase = "done"
      BY <1>2, <2>1 DEF h, m
    <3> QED
      BY <3>1, Consecutive DEF O
  <2> QED
    BY <2>3, <2>4, <2>5 DEF h
<1>11. InOrder(c, f)
  BY <1>7, <1>9, <1>10 DEF InOrder
<1> QED
  BY <1>1, <1>11 DEF f

-----------------------------------------------------------------------------
(* Trace by trace.                                                         *)

\* The channel is through: its conversion failed, or all of it is delivered.
ThroughWith(c) ==
    Messages(c) # {} =>
        \/ c \in lost
        \/ ConvFormat = "SAC" /\ c \in saved /\ IsSeries(c, files[c])
        \/ ConvFormat # "SAC" /\ InOrder(c, fed[c])

StagesInv ==
    /\ stage = "sac" => ConvFormat = "SAC"
    /\ stage = "pack" => ConvFormat # "SAC"
    /\ stage \in {"pack", "unmap", "exit"} => t > totaltrace
    /\ t \in Nat

DeliveredInv ==
    CleanTank /\ stage \in {"traces", "sac", "pack", "unmap", "exit"} =>
        \A k \in 1..totaltrace : k < t => ThroughWith(TraceList[k])

LEMMA StagesStep == DutyInv /\ ScannedInv /\ StagesInv /\ [ConvNext]_allvars => StagesInv'
<1> SUFFICES ASSUME DutyInv, ScannedInv, StagesInv, [ConvNext]_allvars PROVE StagesInv'
  OBVIOUS
<1>0. totaltrace \in Nat
  BY DEF ScannedInv, TypeOK
<1>1. CASE Scan \/ ScanFruitless \/ ScanFaults \/ ScanComplete
  BY <1>1 DEF Scan, ScanFruitless, ScanFaults, ScanComplete, convvars, StagesInv
<1>2. CASE BeginSac \/ SacStep
  BY <1>2 DEF BeginSac, AtTrace, SacStep, convvars, vars, StagesInv
<1>3. CASE \/ SacFaults \/ SacReturns \/ SacReturnsError \/ SacCrashes
           \/ AddTrace \/ AddFaults \/ AddFails
  BY <1>3 DEF SacFaults, SacReturns, SacReturnsError, SacCrashes, AddTrace, AddFaults,
              AddFails, AtMseedTrace, AtTrace, StagesInv
<1>4. CASE TracesThrough \/ Pack \/ PackFails \/ Unmap
  BY <1>4 DEF TracesThrough, Pack, PackFails, Unmap, vars, StagesInv
<1>5. CASE UNCHANGED allvars
  BY <1>5 DEF allvars, vars, convvars, StagesInv
<1> QED
  BY <1>1, <1>2, <1>3, <1>4, <1>5 DEF ConvNext

\* What is through stays so, in the files, in the list and among the lost.
LEMMA StaysThrough ==
    ASSUME NEW c, ThroughWith(c), UNCHANGED <<disk, ConvFormat>>, lost \subseteq lost',
           ConvFormat = "SAC" => saved \subseteq saved',
           files'[c] = files[c], fed'[c] = fed[c]
    PROVE  ThroughWith(c)'
<1>1. /\ Messages(c)' = Messages(c) /\ IsSeries(c, files[c])' = IsSeries(c, files[c])
      /\ InOrder(c, fed[c])' = InOrder(c, fed[c])
  BY DEF Messages, IsSeries, InOrder, From, Earliest, Latest
<1> QED
  BY <1>1 DEF ThroughWith

\* The channels of the traces before are others.
LEMMA OtherChannel ==
    ASSUME ScannedInv, phase = "done", t \in 1..totaltrace, NEW k \in 1..totaltrace, k < t
    PROVE  TraceList[k] # Chan
<1>1. TraceList[k] < TraceList[t] /\ TraceList[k] \in Nat /\ TraceList[t] \in Nat
  BY TanksAssumption DEF ScannedInv, TracesOrdered, TypeOK
<1> QED
  BY <1>1 DEF Chan

\* The loop comes to the next trace when the one it is at is through.
LEMMA NextTrace ==
    ASSUME ScannedInv, DeliveredInv, CleanTank, phase = "done", t \in 1..totaltrace,
           stage \in {"traces", "sac"}, UNCHANGED <<vars, disk, ConvFormat>>, t' = t + 1,
           lost \subseteq lost', saved \subseteq saved',
           \A c \in Chans : c # Chan => files'[c] = files[c] /\ fed'[c] = fed[c],
           NEW b, b = Chan, ThroughWith(b)'
    PROVE  DeliveredInv'
<1>1. totaltrace' = totaltrace /\ TraceList' = TraceList /\ totaltrace \in Nat
  BY DEF vars, ScannedInv, TypeOK
<1>2. ASSUME NEW k \in 1..totaltrace, k < t + 1
      PROVE  ThroughWith(TraceList[k])'
  <2>0. TraceList[k] \in Chans
    BY DEF ScannedInv, TracesOrdered, TypeOK
  <2>1. CASE k = t
    BY <1>1, <2>1 DEF Chan
  <2>2. CASE k < t
    <3>1. PICK c \in Chans : c = TraceList[k]
      BY <2>0
    <3>2. ThroughWith(c)
      BY <2>2, <3>1 DEF DeliveredInv
    <3>3. c # Chan
      BY <2>2, <3>1, OtherChannel
    <3>4. files'[c] = files[c] /\ fed'[c] = fed[c]
      BY <3>3
    <3>5. ThroughWith(c)'
      BY <3>2, <3>4, StaysThrough
    <3> QED
      BY <1>1, <3>1, <3>5
  <2> QED
    BY <1>2, <2>1, <2>2
<1> QED
  BY <1>1, <1>2 DEF DeliveredInv

\* A channel that has messages has entries in its list.
LEMMA ChannelCounted ==
    ASSUME CleanInv, CleanTank, phase = "done", NEW c \in Chans, Messages(c) # {},
           Len(tlist[c]) \in Nat
    PROVE  Len(tlist[c]) >= 1
<1>1. Messages(c) = Counted(c)
  BY DEF CleanInv, NoneLost
<1>2. PICK k \in 1..Len(tlist[c]) : TRUE
  BY <1>1 DEF Counted
<1> QED
  BY <1>2

LEMMA DeliveredInit == ConvInit => EvenInv /\ StagesInv /\ DeliveredInv
BY DEF ConvInit, EvenInv, StagesInv, DeliveredInv

LEMMA DeliveredStep ==
    ASSUME FiledInv, DutyInv, SacInv, FilesInv, TypedInv, CleanInv, EvenInv, StagesInv,
           DeliveredInv, [ConvNext]_allvars
    PROVE  DeliveredInv'
<1>0. ScannedInv /\ totaltrace \in Nat /\ t \in Nat \ {0}
  BY DEF FiledInv, ScannedInv, TypeOK, DutyInv
<1>1. disk' = disk
  BY DEF ConvNext, allvars, convvars, Scan, ScanFruitless, ScanComplete, BeginSac, SacStep,
         SacReturns, SacReturnsError, SacCrashes, AddTrace, AddFails, TracesThrough,
         ScanFaults, SacFaults, AddFaults, Pack, PackFails, Unmap, AtTrace, AtMseedTrace
<1> SUFFICES ASSUME CleanTank PROVE DeliveredInv'
  BY <1>1 DEF DeliveredInv, CleanTank, Messages, From
<1>2. CASE \/ Scan \/ ScanFruitless \/ SacCrashes
           \/ ScanFaults \/ SacFaults \/ AddFaults
  BY <1>2 DEF Scan, ScanFruitless, SacCrashes, ScanFaults, SacFaults, AddFaults, convvars,
              DeliveredInv
<1>3. CASE ScanComplete
  <2>1. t' = 1
    BY <1>3 DEF ScanComplete, DutyInv, StageInv
  <2> QED
    BY <2>1 DEF DeliveredInv
<1>4. CASE BeginSac \/ SacStep \/ TracesThrough \/ PackFails \/ Unmap \/ UNCHANGED allvars
  <2>1. /\ UNCHANGED <<vars, disk, ConvFormat, t, files, saved, fed, lost>>
        /\ stage' \in {"traces", "sac", "pack", "unmap", "exit"} =>
              stage \in {"traces", "sac", "pack", "unmap", "exit"}
    BY <1>4 DEF BeginSac, SacStep, TracesThrough, PackFails, Unmap, allvars, convvars, AtTrace
  <2>2. ASSUME NEW c, ThroughWith(c)
        PROVE  ThroughWith(c)'
    BY <2>1, <2>2, StaysThrough
  <2>3. totaltrace' = totaltrace /\ TraceList' = TraceList
    BY <2>1 DEF vars
  <2>4. ASSUME NEW k \in 1..totaltrace, ThroughWith(TraceList[k])
        PROVE  ThroughWith(TraceList[k])'
    <3>1. PICK c : c = TraceList[k]
      OBVIOUS
    <3> QED
      BY <2>2, <2>3, <2>4, <3>1
  <2> QED
    BY <2>1, <2>3, <2>4 DEF DeliveredInv
<1>5. CASE Pack
  <2>1. /\ UNCHANGED <<vars, disk, ConvFormat, t, files, fed, lost>>
        /\ stage = "pack" /\ ConvFormat # "SAC"
    BY <1>5 DEF Pack, StagesInv
  <2>2. ASSUME NEW c, ThroughWith(c)
        PROVE  ThroughWith(c)'
    BY <2>1, <2>2, StaysThrough
  <2>3. ASSUME NEW k \in 1..totaltrace, k < t
        PROVE  ThroughWith(TraceList[k])'
    <3>1. PICK c : c = TraceList[k]
      OBVIOUS
    <3>2. ThroughWith(c)
      BY <2>1, <2>3, <3>1 DEF DeliveredInv
    <3>3. TraceList' = TraceList
      BY <2>1 DEF vars
    <3> QED
      BY <2>2, <3>1, <3>2, <3>3
  <2> QED
    BY <2>1, <2>3 DEF DeliveredInv, vars
<1>6. CASE SacReturns
  <2>1. /\ stage = "sac" /\ sacphase = "done" /\ t' = t + 1 /\ t <= totaltrace
        /\ files' = [files EXCEPT ![Chan] = FileWords] /\ saved' = saved \union {Chan}
        /\ UNCHANGED <<vars, disk, ConvFormat, fed, lost>> /\ ConvFormat = "SAC"
    BY <1>6 DEF SacReturns, StagesInv, DutyInv, StageInv
  <2>2. /\ t \in 1..totaltrace /\ Chan \in Chans /\ phase = "done" /\ Len(tlist[Chan]) \in Nat
    BY <2>1, ChannelIs
  <2>3. PICK b \in Chans : b = Chan
    BY <2>2
  <2>4. DOMAIN files = Chans
    BY DEF FilesInv
  <2>5. files'[b] = FileWords /\ \A c \in Chans : c # Chan => files'[c] = files[c]
    BY <2>1, <2>3, <2>4
  <2>6. ASSUME Messages(b) # {}
        PROVE  IsSeries(b, FileWords)
    <3>1. Len(tlist[Chan]) >= 1
      BY <2>2, <2>3, <2>6, ChannelCounted
    <3> QED
      BY <2>1, <2>3, <3>1, SeriesWritten
  <2>7. Messages(b)' = Messages(b) /\ IsSeries(b, files[b])' = IsSeries(b, files'[b])
    BY <1>1 DEF Messages, IsSeries, From, Earliest, Latest
  <2>8. ThroughWith(b)'
    BY <2>1, <2>3, <2>5, <2>6, <2>7 DEF ThroughWith
  <2> QED
    BY <1>0, <2>1, <2>2, <2>3, <2>5, <2>8, NextTrace
<1>7. CASE SacReturnsError \/ AddFails
  <2>1. /\ stage \in {"traces", "sac"} /\ t' = t + 1 /\ t <= totaltrace
        /\ lost' = lost \union {Chan}
        /\ UNCHANGED <<vars, disk, ConvFormat, files, saved, fed>>
    BY <1>7 DEF SacReturnsError, AddFails, AtMseedTrace, AtTrace, DutyInv, StageInv
  <2>2. t \in 1..totaltrace /\ Chan \in Chans /\ phase = "done"
    BY <2>1, ChannelIs
  <2>3. PICK b \in Chans : b = Chan
    BY <2>2
  <2>4. ThroughWith(b)'
    BY <2>1, <2>3 DEF ThroughWith
  <2> QED
    BY <1>0, <2>1, <2>2, <2>3, <2>4, NextTrace
<1>8. CASE AddTrace
  <2>1. /\ stage = "traces" /\ t <= totaltrace /\ ConvFormat # "SAC"
        /\ UNCHANGED <<vars, disk, ConvFormat, files, saved, lost>>
        /\ stage' = "crashed" \/ t' = t + 1
    BY <1>8 DEF AddTrace, AtMseedTrace, AtTrace
  <2>2. t \in 1..totaltrace /\ Chan \in Chans /\ phase = "done"
    BY <2>1, ChannelIs
  <2>3. PICK b \in Chans : b = Chan
    BY <2>2
  <2>4. PICK f : fed' = [fed EXCEPT ![Chan] = f] /\ InOrder(Chan, f)
    BY <1>8, FedInOrder
  <2>5. DOMAIN fed = Chans
    BY DEF TypedInv
  <2>6. fed'[b] = f /\ \A c \in Chans : c # Chan => fed'[c] = fed[c]
    BY <2>3, <2>4, <2>5
  <2>7. Messages(b)' = Messages(b) /\ InOrder(b, fed[b])' = InOrder(b, fed'[b])
    BY <1>1 DEF Messages, InOrder, From
  <2>8. ThroughWith(b)'
    BY <2>1, <2>3, <2>4, <2>6, <2>7 DEF ThroughWith
  <2>9. CASE stage' = "crashed"
    BY <2>9 DEF DeliveredInv
  <2>10. CASE t' = t + 1
    BY <1>0, <2>1, <2>2, <2>3, <2>6, <2>8, <2>10, NextTrace
  <2> QED
    BY <2>1, <2>9, <2>10
<1> QED
  BY <1>2, <1>3, <1>4, <1>5, <1>6, <1>7, <1>8 DEF ConvNext

LEMMA AllThrough ==
    FiledInv /\ DutyInv /\ CleanInv /\ StagesInv /\ DeliveredInv => Delivered
<1> SUFFICES ASSUME FiledInv, DutyInv, CleanInv, StagesInv, DeliveredInv,
                    stage = "exit", CleanTank, NEW c \in Chans, Messages(c) # {}
             PROVE  \/ c \in lost
                    \/ ConvFormat = "SAC" /\ c \in saved /\ IsSeries(c, files[c])
                    \/ /\ ConvFormat # "SAC"
                       /\ {fed[c][k] : k \in DOMAIN fed[c]} = Messages(c)
                       /\ \A k \in 2..Len(fed[c]) :
                             From(fed[c][k]) = disk[fed[c][k-1]].time + 1
  BY DEF Delivered
<1>1. phase = "done" /\ t > totaltrace /\ t \in Nat /\ totaltrace \in Nat
  BY DEF DutyInv, StageInv, StagesInv, FiledInv, ScannedInv, TypeOK
<1>2. Len(tlist[c]) \in Nat
  <2>1. tlist[c] \in Seq(Entries)
    BY DEF FiledInv, ScannedInv, TypeOK, Entries
  <2> QED
    BY <2>1, LenProperties
<1>3. Len(tlist[c]) > 0
  <2>1. Len(tlist[c]) >= 1
    BY <1>1, <1>2, ChannelCounted
  <2> QED
    BY <1>2, <2>1
<1>4. PICK j \in 1..totaltrace : TraceList[j] = c
  BY <1>1, <1>3 DEF FiledInv, ScannedInv, TracesListed
<1>5. j < t
  BY <1>1
<1>6. ThroughWith(c)
  BY <1>4, <1>5 DEF DeliveredInv
<1> QED
  BY <1>6 DEF ThroughWith, InOrder

\* Of a file of whole messages whose channels have no gaps, of any length, in
\* whatever order the messages stand and however the channels are mixed, every
\* channel whose conversion does not fail becomes the series of its samples in
\* order of time, or its messages are handed to libmseed in that order
\* (tbconvert.c:75-99, 153-249, sacproc.c:157-231, msproc.c:91-157).
THEOREM AllDelivered == ConvSpec => []Delivered
<1>1. ConvSpec => []FiledInv
  BY FiledInit, FiledStep, PTL DEF ConvSpec
<1>2. FiledInv => ScannedInv
  BY DEF FiledInv
<1>3. ConvSpec => []DutyInv
  BY <1>1, <1>2, DutyInit, DutyStep, PTL DEF ConvSpec
<1>4. ConvSpec => []SacInv
  BY <1>1, <1>3, FilesInit, SacInvStep, PTL DEF ConvSpec
<1>5. ConvSpec => []FilesInv
  BY <1>1, <1>3, <1>4, FilesInit, FilesStep, PTL DEF ConvSpec
<1>6. ConvSpec => []TypedInv
  BY <1>1, <1>3, TypedInit, TypedStep, PTL DEF ConvSpec
<1>7. ConvSpec => []CleanInv
  BY <1>1, <1>2, CleanInit, CleanStep, PTL DEF ConvSpec
<1>8. ConvSpec => []StagesInv
  BY <1>1, <1>2, <1>3, DeliveredInit, StagesStep, PTL DEF ConvSpec
<1>9. ConvSpec => []EvenInv
  BY <1>1, <1>3, <1>4, <1>7, DeliveredInit, EvenStep, PTL DEF ConvSpec
<1>10. ConvSpec => []DeliveredInv
  BY <1>1, <1>3, <1>4, <1>5, <1>6, <1>7, <1>8, <1>9, DeliveredInit, DeliveredStep, PTL
     DEF ConvSpec
<1> QED
  BY <1>1, <1>3, <1>7, <1>8, <1>10, AllThrough, PTL
=============================================================================
