------------------------- MODULE MseedConvertProofs -------------------------
(***************************************************************************)
(* Of the conversion to miniSEED: ArgvUnderstood, for command lines of any *)
(* number of words, and FileFaithful, Counted and SamplesDated, for every  *)
(* list, disk and version, of mstl3_writemseed() by itself, on a list that *)
(* was handed to it.                                                       *)
(***************************************************************************)
EXTENDS CommandLine, MseedFile, SequenceTheorems, FiniteSetTheorems, WellFoundedInduction, TLAPS

\* The values of option o that stand in the first n words.
ValuesIn(o, n) == {x + 1 : x \in {y \in 1..n : Odd(y) /\ argv[y] = o}}

\* v is the last value of option o in the first n words.
LastIn(o, n, v) ==
    \/ ValuesIn(o, n) = {} /\ v = Empty
    \/ \E x \in ValuesIn(o, n) : v = argv[x] /\ \A y \in ValuesIn(o, n) : y <= x

\* What was found in the words before the one the loop is at.
FoundIn(n) ==
    /\ \E v \in {Empty} \union {argv[x] : x \in DOMAIN argv} :
          /\ LastIn("-o", n, v)
          /\ OutPath = IF v = Empty THEN Empty ELSE Cut[v]
    /\ \E v \in {Empty} \union {argv[x] : x \in DOMAIN argv} :
          /\ LastIn("-f", n, v)
          /\ outformat = IF v = Empty THEN Empty ELSE Upper[v]

ArgvTypeOK ==
    /\ argv \in Argvs
    /\ i \in Nat \ {0} /\ i <= Len(argv) + 1

\* The loop: so far options and their values, each pair in two words.
InWords ==
    /\ InputFile = NoFile /\ Odd(i) /\ Pairs(i - 1)
    /\ FoundIn(i - 1)

\* The last word was taken for the input file.
FileTaken ==
    /\ Odd(Len(argv)) /\ Pairs(Len(argv) - 1) /\ i = Len(argv) + 1
    /\ argv[Len(argv)] \notin Options
    /\ InputFile = argv[Len(argv)] /\ InputFile # NoFile

CommandInv ==
    /\ ArgvTypeOK
    /\ parse = "words" => InWords \/ (FileTaken /\ FoundIn(Len(argv) - 2))
    /\ parse \in {"format", "parsed"} =>
          FileTaken /\ OutPath = Path /\ outformat = Format
    /\ ArgvUnderstood

-----------------------------------------------------------------------------
LEMMA ArgvIsSeq ==
    ASSUME ArgvTypeOK
    PROVE  /\ argv \in Seq(STRING) /\ Len(argv) \in Nat /\ DOMAIN argv = 1..Len(argv)
           /\ \A x \in 1..Len(argv) : /\ argv[x] \in STRING /\ argv[x] # NoFile
                                      /\ Upper[argv[x]] = Empty <=> argv[x] = Empty
                                      /\ Cut[argv[x]] = Empty <=> argv[x] = Empty
BY ArgvsAssumption DEF ArgvTypeOK

\* The words stay, and with them what the command line says.
LEMMA WordsStay ==
    ASSUME UNCHANGED argv
    PROVE  /\ AsDescribed' = AsDescribed /\ Format' = Format
           /\ Path' = Path
           /\ \A n : Pairs(n)' = Pairs(n)
BY DEF AsDescribed, Format, Path, Given, Values, Pairs, Odd

LEMMA ValuesStay ==
    ASSUME UNCHANGED argv
    PROVE  \A o, n, v : LastIn(o, n, v)' <=> LastIn(o, n, v)
BY DEF LastIn, ValuesIn, Odd

\* A pair of words adds no value of another option.
LEMMA OtherStays ==
    ASSUME NEW k \in Nat, Odd(k), NEW o, argv[k] # o
    PROVE  ValuesIn(o, k + 1) = ValuesIn(o, k - 1)
<1>1. ASSUME NEW y \in 1..k+1, Odd(y), argv[y] = o
      PROVE  y \in 1..k-1
  BY <1>1 DEF Odd
<1> QED
  BY <1>1 DEF ValuesIn

\* An option and its value.
LEMMA PairGivesLast ==
    ASSUME NEW k \in Nat \ {0}, Odd(k), NEW o, argv[k] = o
    PROVE  LastIn(o, k + 1, argv[k+1])
<1>1. k + 1 \in ValuesIn(o, k + 1)
  BY DEF ValuesIn
<1>2. ASSUME NEW y \in 1..k+1, Odd(y)
      PROVE  y + 1 <= k + 1
  BY <1>2 DEF Odd
<1>3. \A x \in ValuesIn(o, k + 1) : x <= k + 1
  BY <1>2 DEF ValuesIn
<1> QED
  BY <1>1, <1>3 DEF LastIn

\* The word at an even place is a value and starts no pair.
LEMMA EvenStays ==
    ASSUME NEW k \in Nat, Odd(k), NEW o
    PROVE  ValuesIn(o, k - 1) = ValuesIn(o, k - 2)
<1>1. ASSUME NEW y \in 1..k-1, Odd(y)
      PROVE  y \in 1..k-2
  BY <1>1 DEF Odd
<1> QED
  BY <1>1 DEF ValuesIn

\* The final value is the one the usage message means.
LEMMA LastIsGiven ==
    ASSUME ArgvTypeOK, NEW o, NEW v, LastIn(o, Len(argv) - 2, v)
    PROVE  v = Given(o, Empty)
<1>1. Values(o) = ValuesIn(o, Len(argv) - 2) /\ Values(o) \subseteq Int
  BY ArgvIsSeq DEF Values, ValuesIn
<1>2. CASE Values(o) = {}
  BY <1>1, <1>2 DEF LastIn, Given
<1>3. CASE Values(o) # {}
  <2>1. PICK x \in Values(o) : v = argv[x] /\ \A y \in Values(o) : y <= x
    BY <1>1, <1>3 DEF LastIn
  <2> DEFINE final == CHOOSE z \in Values(o) : \A y \in Values(o) : y <= z
  <2>2. final \in Values(o) /\ \A y \in Values(o) : y <= final
    BY <2>1
  <2>3. final = x
    <3> HIDE DEF final
    <3> QED
      BY <1>1, <2>1, <2>2
  <2>4. Given(o, Empty) = argv[final]
    BY <1>3, Zenon DEF Given
  <2> QED
    <3> HIDE DEF final
    <3> QED
      BY <2>1, <2>3, <2>4
<1> QED
  BY <1>2, <1>3

-----------------------------------------------------------------------------
LEMMA CommandInit == (\E words \in Argvs : ArgvInit(words)) => CommandInv
<1> SUFFICES ASSUME NEW words \in Argvs, ArgvInit(words)
             PROVE  CommandInv
  OBVIOUS
<1>1. ArgvTypeOK /\ parse = "words"
  BY ArgvsAssumption DEF ArgvInit, ArgvTypeOK
<1>2. i - 1 = 0 /\ ValuesIn("-o", 0) = {} /\ ValuesIn("-f", 0) = {}
  BY DEF ArgvInit, ValuesIn
<1>3. InWords
  BY <1>2 DEF ArgvInit, InWords, FoundIn, LastIn, Odd, Pairs
<1> QED
  BY <1>1, <1>3 DEF CommandInv, ArgvUnderstood

LEMMA CommandStep == CommandInv /\ [ArgvNext]_argvars => CommandInv'
<1> SUFFICES ASSUME CommandInv, [ArgvNext]_argvars
             PROVE  CommandInv'
  OBVIOUS
<1>1. UNCHANGED argv
  BY DEF ArgvNext, Quit, TakeFormat, TakePath, TakeNothing, TakeInput, UnknownOption,
         NoInput, DefaultFormat, SetFormat, UnknownFormat, AtWord, argvars
<1>2. /\ ArgvTypeOK /\ Len(argv) \in Nat /\ DOMAIN argv = 1..Len(argv)
      /\ \A x \in 1..Len(argv) : /\ argv[x] \in STRING /\ argv[x] # NoFile
                                 /\ Upper[argv[x]] = Empty <=> argv[x] = Empty
                                 /\ Cut[argv[x]] = Empty <=> argv[x] = Empty
  BY ArgvIsSeq DEF CommandInv
<1>3. AtWord => InWords
  BY <1>2 DEF CommandInv, AtWord, FileTaken
<1>4. CASE Quit
  <2>1. ~AsDescribed
    BY <1>2, <1>3, <1>4 DEF Quit, AtWord, InWords, AsDescribed, Pairs, Options, ArgvTypeOK
  <2> QED
    BY <1>1, <1>2, <1>4, <2>1, WordsStay
       DEF Quit, CommandInv, ArgvTypeOK, ArgvUnderstood
<1>5. CASE TakeFormat
  <2>1. /\ Odd(i) /\ i < Len(argv) /\ argv[i] = "-f" /\ i' = i + 2 /\ parse' = "words"
        /\ Pairs(i - 1) /\ InputFile' = NoFile
    BY <1>3, <1>5 DEF TakeFormat, AtWord, InWords
  <2>2. Odd(i') /\ Pairs(i' - 1)
    BY <1>2, <2>1 DEF Pairs, Odd, ArgvTypeOK
  <2>3. LastIn("-f", i + 1, argv[i+1])
    BY <1>2, <2>1, PairGivesLast DEF ArgvTypeOK
  <2>4. PICK v \in {Empty} \union {argv[x] : x \in DOMAIN argv} :
            /\ LastIn("-o", i + 1, v)
            /\ OutPath = IF v = Empty THEN Empty ELSE Cut[v]
    <3>1. ValuesIn("-o", i + 1) = ValuesIn("-o", i - 1)
      BY <1>2, <2>1, OtherStays DEF ArgvTypeOK
    <3> QED
      BY <1>3, <1>5, <3>1 DEF TakeFormat, InWords, FoundIn, LastIn
  <2>5. outformat' = IF argv[i+1] = Empty THEN Empty ELSE Upper[argv[i+1]]
    BY <1>2, <1>5, <2>1 DEF TakeFormat, ArgvTypeOK
  <2>6. i' - 1 = i + 1 /\ i + 1 \in DOMAIN argv
    BY <1>2, <2>1 DEF ArgvTypeOK
  <2>7. OutPath' = OutPath
    BY <1>5 DEF TakeFormat
  <2>8. FoundIn(i - 1)'
    BY <1>1, <2>3, <2>4, <2>5, <2>6, <2>7, ValuesStay DEF FoundIn
  <2> QED
    BY <1>1, <1>2, <2>1, <2>2, <2>8
       DEF CommandInv, InWords, ArgvTypeOK, ArgvUnderstood, Pairs
<1>6. CASE TakePath
  <2>1. /\ Odd(i) /\ i < Len(argv) /\ argv[i] = "-o" /\ i' = i + 2 /\ parse' = "words"
        /\ Pairs(i - 1) /\ InputFile' = NoFile
    BY <1>3, <1>6 DEF TakePath, AtWord, InWords
  <2>2. Odd(i') /\ Pairs(i' - 1)
    BY <1>2, <2>1 DEF Pairs, Odd, ArgvTypeOK
  <2>3. LastIn("-o", i + 1, argv[i+1])
    BY <1>2, <2>1, PairGivesLast DEF ArgvTypeOK
  <2>4. PICK v \in {Empty} \union {argv[x] : x \in DOMAIN argv} :
            /\ LastIn("-f", i + 1, v)
            /\ outformat = IF v = Empty THEN Empty ELSE Upper[v]
    <3>1. ValuesIn("-f", i + 1) = ValuesIn("-f", i - 1)
      BY <1>2, <2>1, OtherStays DEF ArgvTypeOK
    <3> QED
      BY <1>3, <1>6, <3>1 DEF TakePath, InWords, FoundIn, LastIn
  <2>5. /\ i' - 1 = i + 1 /\ i + 1 \in DOMAIN argv /\ outformat' = outformat
        /\ OutPath' = IF argv[i+1] = Empty THEN Empty ELSE Cut[argv[i+1]]
    BY <1>2, <1>6, <2>1 DEF TakePath, ArgvTypeOK
  <2>6. FoundIn(i - 1)'
    BY <1>1, <2>3, <2>4, <2>5, ValuesStay DEF FoundIn
  <2> QED
    BY <1>1, <1>2, <2>1, <2>2, <2>6
       DEF CommandInv, InWords, ArgvTypeOK, ArgvUnderstood, Pairs
<1>7. CASE TakeNothing
  <2>1. /\ Odd(i) /\ i = Len(argv) /\ argv[i] \in {"-f", "-o"} /\ Pairs(i - 1)
        /\ parse' = "crashed"
    BY <1>3, <1>7 DEF TakeNothing, AtWord, InWords
  <2>2. ~AsDescribed /\ Pairs(Len(argv))
    BY <1>2, <2>1 DEF AsDescribed, Options, Pairs, ArgvTypeOK
  <2> QED
    BY <1>1, <1>2, <1>7, <2>1, <2>2, WordsStay
       DEF TakeNothing, CommandInv, ArgvTypeOK, ArgvUnderstood
<1>8. CASE TakeInput
  <2>1. /\ Odd(i) /\ i = Len(argv) /\ argv[i] \notin Options /\ Pairs(i - 1)
        /\ parse' = "words" /\ i' = i + 1 /\ InputFile' = argv[i]
        /\ UNCHANGED <<outformat, OutPath>> /\ FoundIn(i - 1)
    BY <1>3, <1>8 DEF TakeInput, AtWord, InWords
  <2>2. FileTaken'
    BY <1>1, <1>2, <2>1 DEF FileTaken, ArgvTypeOK, Pairs
  <2>3. \A o : ValuesIn(o, i - 1) = ValuesIn(o, i - 2)
    BY <1>2, <2>1, EvenStays DEF ArgvTypeOK
  <2>4. FoundIn(i - 2)
    BY <2>1, <2>3 DEF FoundIn, LastIn
  <2>5. FoundIn(Len(argv) - 2)'
    BY <1>1, <2>1, <2>4, ValuesStay DEF FoundIn
  <2> QED
    BY <1>1, <1>2, <2>1, <2>2, <2>5 DEF CommandInv, ArgvTypeOK, ArgvUnderstood
<1>9. CASE UnknownOption
  <2>1. ~AsDescribed
    BY <1>2, <1>3, <1>9 DEF UnknownOption, AtWord, InWords, AsDescribed, Pairs, Options, ArgvTypeOK
  <2> QED
    BY <1>1, <1>2, <1>9, <2>1, WordsStay
       DEF UnknownOption, CommandInv, ArgvTypeOK, ArgvUnderstood
<1>10. CASE NoInput
  <2>1. InWords /\ i = Len(argv) + 1
    BY <1>2, <1>10 DEF NoInput, CommandInv, FileTaken, ArgvTypeOK
  <2>2. ~AsDescribed
    BY <1>2, <2>1 DEF InWords, AsDescribed, Odd
  <2> QED
    BY <1>1, <1>2, <1>10, <2>2, WordsStay
       DEF NoInput, CommandInv, ArgvTypeOK, ArgvUnderstood
<1>11. CASE DefaultFormat
  <2>1. FileTaken /\ FoundIn(Len(argv) - 2)
    BY <1>11 DEF DefaultFormat, CommandInv, InWords
  <2>2. OutPath = Path
    <3>1. PICK v \in {Empty} \union {argv[x] : x \in DOMAIN argv} :
              /\ LastIn("-o", Len(argv) - 2, v)
              /\ OutPath = IF v = Empty THEN Empty ELSE Cut[v]
      BY <2>1 DEF FoundIn
    <3>2. v = Given("-o", Empty)
      BY <1>2, <3>1, LastIsGiven
    <3> QED
      BY <3>1, <3>2 DEF Path
  <2>3. PICK v \in {Empty} \union {argv[x] : x \in DOMAIN argv} :
            /\ LastIn("-f", Len(argv) - 2, v)
            /\ outformat = IF v = Empty THEN Empty ELSE Upper[v]
    BY <2>1 DEF FoundIn
  <2>4. v = Given("-f", Empty)
    BY <1>2, <2>3, LastIsGiven
  <2>5. v = Empty \/ Upper[v] # Empty
    BY <1>2
  <2>6. outformat' = Format
    BY <1>11, <2>3, <2>4, <2>5 DEF DefaultFormat, Format
  <2>7. FileTaken'
    BY <1>1, <1>11, <2>1 DEF DefaultFormat, FileTaken, Pairs
  <2> QED
    BY <1>1, <1>2, <1>11, <2>2, <2>6, <2>7, WordsStay
       DEF DefaultFormat, CommandInv, ArgvTypeOK, ArgvUnderstood
<1>12. CASE SetFormat
  <2>1. FileTaken /\ OutPath = Path /\ outformat = Format
    BY <1>12 DEF SetFormat, CommandInv
  <2>2. AsDescribed
    BY <1>12, <2>1 DEF SetFormat, FileTaken, AsDescribed
  <2>3. FileTaken'
    BY <1>1, <1>12, <2>1 DEF SetFormat, FileTaken, Pairs
  <2> QED
    BY <1>1, <1>2, <1>12, <2>1, <2>2, <2>3, WordsStay
       DEF SetFormat, CommandInv, ArgvTypeOK, ArgvUnderstood, FileTaken
<1>13. CASE UnknownFormat
  <2>1. ~AsDescribed
    BY <1>13 DEF UnknownFormat, CommandInv, AsDescribed
  <2> QED
    BY <1>1, <1>2, <1>13, <2>1, WordsStay
       DEF UnknownFormat, CommandInv, ArgvTypeOK, ArgvUnderstood
<1>14. CASE UNCHANGED argvars
  <2>1. UNCHANGED <<i, parse, outformat, OutPath, InputFile, ConvFormat>>
    BY <1>14 DEF argvars
  <2>2. InWords' = InWords /\ FileTaken' = FileTaken
        /\ FoundIn(Len(argv) - 2)' = FoundIn(Len(argv) - 2)
    BY <1>1, <2>1, ValuesStay DEF InWords, FileTaken, FoundIn, Pairs, Odd
  <2>3. ArgvTypeOK' /\ ArgvUnderstood'
    BY <1>1, <1>2, <2>1, WordsStay DEF CommandInv, ArgvTypeOK, ArgvUnderstood, Pairs
  <2> QED
    BY <1>1, <2>1, <2>2, <2>3, WordsStay DEF CommandInv
<1> QED
  BY <1>4, <1>5, <1>6, <1>7, <1>8, <1>9, <1>10, <1>11, <1>12, <1>13, <1>14 DEF ArgvNext

\* A command line of any length is accepted exactly if it is as the usage
\* message says, and what it means is what the program goes on with.
THEOREM CommandUnderstood == ArgvSpec => []ArgvUnderstood
<1>1. ArgvSpec => []CommandInv
  BY CommandInit, CommandStep, PTL DEF ArgvSpec
<1>2. CommandInv => ArgvUnderstood
  BY DEF CommandInv
<1> QED
  BY <1>1, <1>2, PTL

-----------------------------------------------------------------------------
SegmentOf == [start : Int, end : Int, per : Nat, type : SampleTypes,
              numsamples : Nat, data : Seq(Nat)]
TraceId == [sid : Sids, earliest : Int, latest : Int, segs : Seq(SegmentOf) \ {<<>>}]

allwritevars == <<listvars, filevars>>

\* The writing of a trace list, in a format that was chosen before.
WriteSpec(version) ==
    /\ traces \in Seq(TraceId)
    /\ \E capacity \in Nat : FileInit(capacity)
    /\ [][WriteMseed(version)]_allwritevars

-----------------------------------------------------------------------------
Place  == (Nat \ {0}) \X (Nat \ {0})
Packed == [seg : Place, from : Nat \ {0}, n : Nat, start : Int]

\* The order of the segments in the list.
Sooner(p, q) == p[1] < q[1] \/ (p[1] = q[1] /\ p[2] < q[2])

FileTypeOK ==
    /\ traces \in Seq(TraceId)
    /\ out \in {"shut", "segment", "data", "closed", "failed"}
    /\ seg \in Place
    /\ packed \in Nat /\ room \in Nat /\ lost \in Nat
    /\ file \in Seq(Packed)

\* The segment that is packed is one of the list; all are through when the file
\* is closed.
SegmentThere ==
    /\ out \in {"shut", "segment", "data"} /\ seg[1] <= Len(traces) =>
          seg[2] <= Len(traces[seg[1]].segs)
    /\ out = "data" =>
          seg[1] <= Len(traces) /\ Current.numsamples > 0 /\ packed <= Current.numsamples
    /\ out = "closed" => seg[1] > Len(traces)
    /\ out = "shut" => file = <<>> /\ seg = <<1, 1>>

\* What is in the file is of segments of the list up to this one, in order and
\* piece by piece.
InOrder ==
    \A x \in 1..Len(file) :
        /\ file[x].seg \in Segments
        /\ Sooner(file[x].seg, seg) \/ (out = "data" /\ file[x].seg = seg)
        /\ x > 1 => Precedes(file[x-1], file[x])
        /\ file[x].from + file[x].n - 1 <= Seg(file[x].seg).numsamples
        /\ file[x].from # 1 => x > 1 /\ file[x-1].seg = file[x].seg

\* While nothing is lost, the file ends where the packing is: a full disk stays
\* full, so that nothing follows a gap.
UpToDate ==
    /\ lost = 0 \/ room = 0
    /\ out = "data" /\ lost = 0 =>
          IF packed = 0 THEN \A x \in 1..Len(file) : file[x].seg # seg
          ELSE /\ file # <<>>
               /\ file[Len(file)].seg = seg
               /\ file[Len(file)].from + file[Len(file)].n - 1 = packed

\* The segments that are through are in the file to their end.
Finished ==
    lost = 0 =>
        \A p \in Segments \ broken : Sooner(p, seg) =>
            \E x \in 1..Len(file) :
                file[x].seg = p /\ file[x].from + file[x].n - 1 = Seg(p).numsamples

FileInv == FileTypeOK /\ SegmentThere /\ InOrder /\ UpToDate /\ Finished

-----------------------------------------------------------------------------
LEMMA ListRead ==
    ASSUME traces \in Seq(TraceId)
    PROVE  /\ Len(traces) \in Nat /\ DOMAIN traces = 1..Len(traces)
           /\ \A k \in 1..Len(traces) :
                 /\ Len(traces[k].segs) \in Nat \ {0}
                 /\ DOMAIN traces[k].segs = 1..Len(traces[k].segs)
                 /\ \A j \in 1..Len(traces[k].segs) : traces[k].segs[j] \in SegmentOf
<1>1. ASSUME NEW k \in 1..Len(traces)
      PROVE  /\ Len(traces[k].segs) \in Nat \ {0}
             /\ DOMAIN traces[k].segs = 1..Len(traces[k].segs)
             /\ \A j \in 1..Len(traces[k].segs) : traces[k].segs[j] \in SegmentOf
  <2>1. traces[k] \in TraceId
    BY <1>1, ElementOfSeq
  <2>2. traces[k].segs \in Seq(SegmentOf) /\ traces[k].segs # <<>>
    BY <2>1 DEF TraceId
  <2> QED
    BY <2>2, LenProperties, EmptySeq, ElementOfSeq
<1> QED
  BY <1>1, LenProperties

\* A place in the list is one of its segments.
LEMMA SegmentIs ==
    ASSUME traces \in Seq(TraceId)
    PROVE  \A p \in Place :
             p \in Segments <=> p[1] <= Len(traces) /\ p[2] <= Len(traces[p[1]].segs)
<1> SUFFICES ASSUME NEW p \in Place
             PROVE  p \in Segments <=> p[1] <= Len(traces) /\ p[2] <= Len(traces[p[1]].segs)
  OBVIOUS
<1>1. p = <<p[1], p[2]>> /\ p[1] \in Nat \ {0} /\ p[2] \in Nat \ {0}
  BY DEF Place
<1>2. p \in Segments <=> \E j \in DOMAIN traces : \E k \in DOMAIN traces[j].segs : p = <<j, k>>
  BY DEF Segments
<1>3. p \in Segments <=> p[1] \in DOMAIN traces /\ p[2] \in DOMAIN traces[p[1]].segs
  BY <1>1, <1>2
<1> QED
  BY <1>1, <1>3, ListRead

LEMMA SegmentsArePlaces ==
    ASSUME traces \in Seq(TraceId)
    PROVE  Segments \subseteq Place
BY ListRead DEF Segments, Place

LEMMA CurrentIs ==
    ASSUME FileTypeOK, SegmentThere, seg[1] <= Len(traces), out \in {"segment", "data"}
    PROVE  /\ seg \in Segments /\ Current = Seg(seg) /\ Current.numsamples \in Nat
           /\ Current.start \in Int /\ Current.per \in Nat
<1>1. seg \in Segments
  BY SegmentIs DEF FileTypeOK, SegmentThere
<1>2. seg[1] \in 1..Len(traces) /\ seg[2] \in 1..Len(traces[seg[1]].segs)
  BY ListRead DEF FileTypeOK, SegmentThere, Place
<1>3. Current \in SegmentOf
  BY <1>2, ListRead DEF FileTypeOK, Current
<1> QED
  BY <1>1, <1>3 DEF Current, Seg, SegmentOf

\* The segment that follows is the next one in the order of the list.
LEMMA FollowingIs ==
    ASSUME FileTypeOK, SegmentThere, seg[1] <= Len(traces), out \in {"segment", "data"}
    PROVE  /\ Following \in Place
           /\ \A p \in Segments : Sooner(p, Following) => Sooner(p, seg) \/ p = seg
           /\ \A p \in Place : Sooner(p, seg) \/ p = seg => Sooner(p, Following)
           /\ Following[1] <= Len(traces) => Following[2] <= Len(traces[Following[1]].segs)
<1>1. /\ seg[1] \in 1..Len(traces) /\ seg[2] \in 1..Len(traces[seg[1]].segs)
      /\ Len(traces) \in Nat /\ Len(traces[seg[1]].segs) \in Nat
      /\ \A k \in 1..Len(traces) : Len(traces[k].segs) \in Nat \ {0}
      /\ seg = <<seg[1], seg[2]>>
  BY ListRead DEF FileTypeOK, SegmentThere, Place
<1>2. \A p \in Segments : /\ p[1] \in Nat /\ p[2] \in Nat \ {0} /\ p = <<p[1], p[2]>>
                          /\ p[1] \in 1..Len(traces) /\ p[2] <= Len(traces[p[1]].segs)
  <2>1. \A p \in Segments : p \in Place
    BY SegmentsArePlaces DEF FileTypeOK
  <2> QED
    BY <2>1, SegmentIs, <1>1 DEF FileTypeOK, Place
<1>3. \A p \in Place : p[1] \in Nat /\ p[2] \in Nat \ {0}
  BY DEF Place
<1>4. CASE seg[2] < Len(traces[seg[1]].segs)
  <2>1. Following = <<seg[1], seg[2] + 1>>
    BY <1>4 DEF Following
  <2> QED
    BY <1>1, <1>2, <1>3, <1>4, <2>1 DEF Sooner, Place
<1>5. CASE ~(seg[2] < Len(traces[seg[1]].segs))
  <2>1. Following = <<seg[1] + 1, 1>> /\ seg[2] = Len(traces[seg[1]].segs)
    BY <1>1, <1>5 DEF Following
  <2>2. Following[1] = seg[1] + 1 /\ Following[2] = 1 /\ Following \in Place
    BY <1>1, <2>1 DEF Place
  <2>3. ASSUME NEW p \in Segments, Sooner(p, Following)
        PROVE  Sooner(p, seg) \/ p = seg
    <3>1. /\ p[1] \in Nat /\ p[2] \in Nat \ {0} /\ p = <<p[1], p[2]>>
          /\ p[2] <= Len(traces[p[1]].segs)
      BY <1>2, <2>3
    <3>2. p[1] < seg[1] + 1 \/ (p[1] = seg[1] + 1 /\ p[2] < 1)
      BY <2>2, <2>3 DEF Sooner
    <3>3. p[1] < seg[1] \/ (p[1] = seg[1] /\ p[2] <= seg[2])
      BY <1>1, <2>1, <3>1, <3>2
    <3>4. CASE p[1] = seg[1] /\ p[2] = seg[2]
      BY <1>1, <3>1, <3>4
    <3>5. CASE ~(p[1] = seg[1] /\ p[2] = seg[2])
      BY <1>1, <3>1, <3>3, <3>5 DEF Sooner
    <3> QED
      BY <3>4, <3>5
  <2>4. \A p \in Place : Sooner(p, seg) \/ p = seg => Sooner(p, Following)
    BY <1>1, <1>3, <2>2 DEF Sooner
  <2>5. Following[1] <= Len(traces) => Following[2] <= Len(traces[Following[1]].segs)
    BY <1>1, <2>2
  <2> QED
    BY <2>2, <2>3, <2>4, <2>5
<1> QED
  BY <1>4, <1>5

\* The segments stay where they are while the list is written.
LEMMA ListStays ==
    ASSUME UNCHANGED traces
    PROVE  /\ Segments' = Segments
           /\ \A p : Seg(p)' = Seg(p)
BY DEF Segments, Seg

\* A record is handed over: it is appended, or one more is lost.
LEMMA HandedOver ==
    ASSUME file \in Seq(Packed), room \in Nat, lost \in Nat, NEW r \in Packed, Handled(r)
    PROVE  /\ room' \in Nat /\ lost' \in Nat /\ file' \in Seq(Packed)
           /\ (lost = 0 \/ room = 0) => (lost' = 0 \/ room' = 0)
           /\ \/ file' = file /\ lost' > 0 /\ lost' = lost + 1
              \/ /\ Len(file') = Len(file) + 1 /\ file'[Len(file) + 1] = r
                 /\ \A x \in 1..Len(file) : file'[x] = file[x]
                 /\ lost' = lost /\ room > 0
<1>1. CASE room > 0
  <2>1. file' = Append(file, r) /\ room' = room - 1 /\ lost' = lost
    BY <1>1 DEF Handled
  <2>2. /\ file' \in Seq(Packed) /\ Len(file') = Len(file) + 1 /\ file'[Len(file) + 1] = r
        /\ \A x \in 1..Len(file) : file'[x] = file[x]
    BY <2>1, AppendProperties
  <2> QED
    BY <1>1, <2>1, <2>2
<1>2. CASE ~(room > 0)
  BY <1>2 DEF Handled
<1> QED
  BY <1>1, <1>2

-----------------------------------------------------------------------------
\* The file keeps what is in it.
Kept == /\ Len(file) <= Len(file')
        /\ \A x \in 1..Len(file) : file'[x] = file[x]

\* The record that comes next of the segment that is packed.
Begun  == IF out = "data" THEN packed ELSE 0
Comes(r) == /\ r \in Packed /\ r.seg = seg /\ r.from = Begun + 1
            /\ r.from + r.n - 1 <= Current.numsamples

\* A record that is handed over goes to its place, or the disk is full.
LEMMA RecordAdded ==
    ASSUME FileInv, out \in {"segment", "data"}, seg[1] <= Len(traces),
           UNCHANGED traces, NEW r, Comes(r), Handled(r),
           (out' = "data" /\ seg' = seg) \/ (out' = "segment" /\ seg' = Following)
    PROVE  /\ Kept /\ InOrder' /\ (lost' = 0 => lost = 0)
           /\ lost' = 0 => file' # <<>> /\ file'[Len(file')] = r
<1> USE DEF FileInv
<1>1. /\ r \in Packed /\ Handled(r) /\ file \in Seq(Packed) /\ lost \in Nat /\ room \in Nat
      /\ Len(file) \in Nat /\ (lost = 0 \/ room = 0)
  BY LenProperties DEF Comes, FileTypeOK, UpToDate
<1>2. /\ file' \in Seq(Packed) /\ lost' \in Nat
      /\ \/ file' = file /\ lost' > 0 /\ lost' = lost + 1
         \/ /\ Len(file') = Len(file) + 1 /\ file'[Len(file) + 1] = r
            /\ \A x \in 1..Len(file) : file'[x] = file[x]
            /\ lost' = lost /\ room > 0
  BY <1>1, HandedOver
<1>3. /\ \A p \in Place : Sooner(p, seg) \/ p = seg => Sooner(p, Following)
      /\ seg \in Segments /\ seg \in Place /\ Current = Seg(seg)
  BY FollowingIs, CurrentIs DEF FileTypeOK
<1>4. ASSUME NEW x \in 1..Len(file)
      PROVE  /\ file[x] \in Packed /\ file[x].seg \in Place
             /\ file[x].from \in Nat \ {0} /\ file[x].n \in Nat
  <2>1. file[x] \in Packed
    BY <1>1, ElementOfSeq
  <2> QED
    BY <2>1 DEF Packed
<1>5. Segments' = Segments /\ \A p : Seg(p)' = Seg(p)
  BY ListStays
<1>6. Kept
  BY <1>1, <1>2 DEF Kept
<1>7. ASSUME NEW x \in 1..Len(file)
      PROVE  /\ file[x].seg \in Segments
             /\ Sooner(file[x].seg, seg') \/ (out' = "data" /\ file[x].seg = seg')
             /\ x > 1 => Precedes(file[x-1], file[x])
             /\ file[x].from + file[x].n - 1 <= Seg(file[x].seg).numsamples
             /\ file[x].from # 1 => x > 1 /\ file[x-1].seg = file[x].seg
  BY <1>3, <1>4 DEF InOrder
<1>8. CASE file' = file /\ lost' > 0
  BY <1>1, <1>2, <1>5, <1>6, <1>7, <1>8 DEF InOrder, Precedes
<1>9. CASE /\ Len(file') = Len(file) + 1 /\ file'[Len(file) + 1] = r
           /\ \A x \in 1..Len(file) : file'[x] = file[x]
           /\ lost' = lost /\ room > 0
  <2>1. lost = 0
    BY <1>1, <1>9
  <2>2. /\ r.seg \in Segments /\ r.from + r.n - 1 <= Seg(r.seg).numsamples
        /\ Sooner(r.seg, seg') \/ (out' = "data" /\ r.seg = seg')
    BY <1>3 DEF Comes
  <2>5. /\ Len(file) > 0 => Precedes(file[Len(file)], r)
        /\ r.from # 1 => Len(file) > 0 /\ file[Len(file)].seg = r.seg
    <3>1. CASE out = "data" /\ packed # 0
      <4>1. /\ Len(file) > 0 /\ file[Len(file)].seg = seg
            /\ file[Len(file)].from + file[Len(file)].n - 1 = packed
        BY <1>1, <2>1, <3>1, EmptySeq DEF UpToDate, FileTypeOK
      <4>2. /\ file[Len(file)].from \in Nat /\ file[Len(file)].n \in Nat /\ packed \in Nat
            /\ r.from = packed + 1 /\ r.seg = seg
        BY <1>1, <1>4, <3>1, <4>1 DEF Comes, Begun, FileTypeOK
      <4> QED
        BY <4>1, <4>2 DEF Precedes
    <3>2. CASE ~(out = "data" /\ packed # 0)
      <4>1. r.from = 1 /\ r.seg = seg
        BY <3>2 DEF Comes, Begun
      <4>2. \A x \in 1..Len(file) : Sooner(file[x].seg, seg)
        BY <2>1, <3>2 DEF InOrder, UpToDate
      <4> QED
        BY <1>1, <4>1, <4>2 DEF Precedes, Sooner
    <3> QED
      BY <3>1, <3>2
  <2>6. ASSUME NEW x \in 1..Len(file')
        PROVE  /\ file'[x].seg \in Segments
               /\ Sooner(file'[x].seg, seg') \/ (out' = "data" /\ file'[x].seg = seg')
               /\ x > 1 => Precedes(file'[x-1], file'[x])
               /\ file'[x].from + file'[x].n - 1 <= Seg(file'[x].seg).numsamples
               /\ file'[x].from # 1 => x > 1 /\ file'[x-1].seg = file'[x].seg
    <3>1. CASE x \in 1..Len(file)
      <4>1. file'[x] = file[x] /\ (x > 1 => file'[x-1] = file[x-1])
        BY <1>1, <1>9, <3>1
      <4> QED
        BY <1>7, <3>1, <4>1
    <3>2. CASE x = Len(file) + 1
      <4>1. file'[x] = r /\ x - 1 = Len(file) /\ (x > 1 <=> Len(file) > 0)
            /\ (x > 1 => file'[x-1] = file[Len(file)])
        BY <1>1, <1>9, <3>2
      <4> QED
        BY <2>2, <2>5, <4>1
    <3> QED
      BY <1>1, <1>9, <2>6, <3>1, <3>2
  <2>7. InOrder'
    BY <1>5, <2>6 DEF InOrder, Sooner, Precedes, Seg
  <2> QED
    BY <1>1, <1>2, <1>6, <1>9, <2>1, <2>7, EmptySeq
<1> QED
  BY <1>2, <1>8, <1>9

\* The segment is left: it is broken, or it is in the file to its end.
LEMMA SegmentLeft ==
    ASSUME FileInv, out \in {"segment", "data"}, seg[1] <= Len(traces),
           UNCHANGED traces, seg' = Following, out' = "segment", Kept,
           lost' = 0 => lost = 0, lost' = 0 \/ room' = 0, file' \in Seq(Packed),
           broken \subseteq broken',
           lost' = 0 => \/ seg \in broken'
                        \/ \E x \in 1..Len(file') :
                              /\ file'[x].seg = seg
                              /\ file'[x].from + file'[x].n - 1 = Current.numsamples
    PROVE  SegmentThere' /\ UpToDate' /\ Finished'
<1> USE DEF FileInv
<1>1. /\ \A p \in Segments : Sooner(p, Following) => Sooner(p, seg) \/ p = seg
      /\ Following[1] <= Len(traces) => Following[2] <= Len(traces[Following[1]].segs)
      /\ Current = Seg(seg) /\ file \in Seq(Packed)
  BY FollowingIs, CurrentIs DEF FileTypeOK
<1>2. Segments' = Segments /\ \A p : Seg(p)' = Seg(p)
  BY ListStays
<1>3. SegmentThere' /\ UpToDate'
  BY <1>1 DEF SegmentThere, UpToDate
<1>4. ASSUME lost' = 0, NEW p \in Segments, p \notin broken', Sooner(p, Following)
      PROVE  \E x \in 1..Len(file') :
                 file'[x].seg = p /\ file'[x].from + file'[x].n - 1 = Seg(p).numsamples
  <2>1. CASE Sooner(p, seg)
    <3>1. lost = 0 /\ p \in Segments \ broken
      BY <1>4
    <3>2. PICK x \in 1..Len(file) :
              file[x].seg = p /\ file[x].from + file[x].n - 1 = Seg(p).numsamples
      BY <2>1, <3>1 DEF Finished
    <3>3. x \in 1..Len(file') /\ file'[x] = file[x]
      BY <1>1, LenProperties DEF Kept
    <3> QED
      BY <3>2, <3>3
  <2>2. CASE p = seg
    BY <1>1, <1>4, <2>2
  <2> QED
    BY <1>1, <1>4, <2>1, <2>2
<1>5. Finished'
  BY <1>2, <1>4 DEF Finished, Sooner
<1> QED
  BY <1>3, <1>5

-----------------------------------------------------------------------------
LEMMA FileStarts ==
    ASSUME traces \in Seq(TraceId), NEW capacity \in Nat, FileInit(capacity)
    PROVE  FileInv
<1> USE DEF FileInit
<1>1. FileTypeOK
  BY EmptySeq DEF FileTypeOK, Place
<1>2. Len(file) = 0
  BY EmptySeq
<1>3. SegmentThere
  BY ListRead DEF SegmentThere
<1>4. InOrder /\ UpToDate
  BY <1>2 DEF InOrder, UpToDate
<1>5. \A p \in Segments : ~Sooner(p, seg)
  <2>1. \A p \in Segments : p[1] \in Nat \ {0} /\ p[2] \in Nat \ {0}
    BY SegmentsArePlaces DEF Place
  <2> QED
    BY <2>1 DEF Sooner
<1>6. Finished
  BY <1>5 DEF Finished
<1> QED
  BY <1>1, <1>3, <1>4, <1>6 DEF FileInv

\* What the inductive invariant is about, unchanged but for out.
LEMMA NothingWritten ==
    ASSUME FileInv, UNCHANGED <<traces, seg, room, file, lost>>, broken \subseteq broken'
    PROVE  /\ Kept /\ file \in Seq(Packed) /\ (lost = 0 \/ room = 0)
           /\ Segments' = Segments /\ Finished'
BY LenProperties, ListStays DEF FileInv, FileTypeOK, UpToDate, Kept, Finished, Sooner, Seg

LEMMA FileStep ==
    ASSUME FileAssumption, NEW version, FileInv, [WriteMseed(version)]_allwritevars
    PROVE  FileInv'
<1> USE DEF FileInv
<1>1. CASE OpenFails
  BY <1>1, NothingWritten DEF OpenFails, listvars, FileTypeOK, SegmentThere, InOrder, UpToDate,
                              Precedes, Seg
<1>2. CASE OpenFile
  <2>1. /\ out' = "segment" /\ out = "shut" /\ file = <<>> /\ Len(file) = 0
        /\ UNCHANGED <<traces, seg, packed, room, file, lost, broken>>
    BY <1>2, EmptySeq DEF OpenFile, listvars, SegmentThere
  <2>2. FileTypeOK' /\ SegmentThere' /\ InOrder' /\ UpToDate'
    BY <2>1 DEF FileTypeOK, SegmentThere, InOrder, UpToDate
  <2> QED
    BY <2>1, <2>2, NothingWritten
<1>3. CASE BeginSegment(version)
  <2>1. /\ out = "segment" /\ out' = "data" /\ packed' = 0 /\ Current.numsamples > 0
        /\ seg[1] <= Len(traces)
        /\ UNCHANGED <<traces, seg, room, file, lost, broken>>
    BY <1>3 DEF BeginSegment, AtSegment, listvars
  <2>2. FileTypeOK' /\ SegmentThere'
    <3>1. Current' = Current /\ Current.numsamples \in Nat
      BY <2>1, CurrentIs DEF Current
    <3> QED
      BY <2>1, <3>1 DEF FileTypeOK, SegmentThere
  <2>3. InOrder'
    BY <2>1, ListStays DEF InOrder, Precedes, Seg, Sooner
  <2>4. UpToDate'
    <3>1. \A x \in 1..Len(file) : file[x].seg # seg
      BY <2>1 DEF InOrder, Sooner, FileTypeOK, Place
    <3> QED
      BY <2>1, <3>1 DEF UpToDate
  <2> QED
    BY <2>1, <2>2, <2>3, <2>4, NothingWritten
<1>4. ASSUME HeaderFails(version) \/ PackFails
      PROVE  FileInv'
  <2>1. /\ out \in {"segment", "data"} /\ out' = "segment" /\ seg[1] <= Len(traces)
        /\ seg' = Following /\ broken' = broken \union {seg}
        /\ UNCHANGED <<traces, packed, room, file, lost>>
    BY <1>4 DEF HeaderFails, PackFails, SegmentDone, AtSegment, listvars, SegmentThere
  <2>2. /\ Kept /\ file' \in Seq(Packed) /\ (lost' = 0 => lost = 0)
        /\ (lost' = 0 \/ room' = 0) /\ broken \subseteq broken' /\ seg \in broken'
    BY <2>1, LenProperties DEF Kept, FileTypeOK, UpToDate
  <2>3. SegmentThere' /\ UpToDate' /\ Finished'
    BY <2>1, <2>2, SegmentLeft
  <2>4. /\ Following \in Place
        /\ \A p \in Place : Sooner(p, seg) \/ p = seg => Sooner(p, Following)
    BY <2>1, FollowingIs
  <2>5. FileTypeOK'
    BY <2>1, <2>4 DEF FileTypeOK
  <2>6. InOrder'
    <3>1. \A x \in 1..Len(file) : file[x].seg \in Place
      BY SegmentsArePlaces DEF InOrder, FileTypeOK
    <3>2. \A x \in 1..Len(file) : Sooner(file[x].seg, Following)
      BY <2>4, <3>1 DEF InOrder
    <3> QED
      BY <2>1, <3>2, ListStays DEF InOrder, Precedes, Seg, Sooner
  <2> QED
    BY <2>3, <2>5, <2>6
<1>5. CASE EmptyRecord(version)
  <2> DEFINE r == [seg |-> seg, from |-> 1, n |-> 0, start |-> Current.start]
  <2>1. /\ out = "segment" /\ out' = "segment" /\ seg[1] <= Len(traces)
        /\ seg' = Following /\ Handled(r) /\ Current.numsamples = 0
        /\ UNCHANGED <<traces, packed, broken>>
    BY <1>5 DEF EmptyRecord, SegmentDone, AtSegment, listvars
  <2>2. Current.start \in Int /\ seg \in Place /\ Following \in Place
    BY <2>1, CurrentIs, FollowingIs DEF FileTypeOK
  <2>3. /\ r \in Packed /\ r.seg = seg /\ r.from = 1 /\ r.n = 0
    BY <2>2 DEF Packed
  <2> HIDE DEF r
  <2>4. Comes(r)
    BY <2>1, <2>3 DEF Comes, Begun
  <2>5. /\ Kept /\ InOrder' /\ (lost' = 0 => lost = 0)
        /\ lost' = 0 => file' # <<>> /\ file'[Len(file')] = r
    BY <2>1, <2>4, RecordAdded
  <2>6. /\ room' \in Nat /\ lost' \in Nat /\ file' \in Seq(Packed) /\ (lost' = 0 \/ room' = 0)
    BY <2>1, <2>3, HandedOver DEF FileTypeOK, UpToDate
  <2>7. lost' = 0 =>
            \E x \in 1..Len(file') : /\ file'[x].seg = seg
                                     /\ file'[x].from + file'[x].n - 1 = Current.numsamples
    <3>1. ASSUME lost' = 0
          PROVE  Len(file') \in 1..Len(file')
      BY <2>5, <2>6, <3>1, LenProperties, EmptySeq
    <3> QED
      BY <2>1, <2>3, <2>5, <3>1
  <2>8. SegmentThere' /\ UpToDate' /\ Finished'
    BY <2>1, <2>5, <2>6, <2>7, SegmentLeft
  <2>9. FileTypeOK'
    BY <2>1, <2>2, <2>6 DEF FileTypeOK
  <2> QED
    BY <2>5, <2>8, <2>9
<1>6. CASE PackRecord
  <2>1. PICK n \in 1..RecordRoom :
            /\ Takes(n) /\ packed' = packed + n
            /\ Handled([seg |-> seg, from |-> packed + 1, n |-> n,
                        start |-> Current.start + packed * Current.per])
    BY <1>6 DEF PackRecord
  <2> DEFINE date == Current.start + packed * Current.per
             r    == [seg |-> seg, from |-> packed + 1, n |-> n, start |-> date]
  <2>2. /\ out = "data" /\ out' = "data" /\ seg[1] <= Len(traces) /\ seg' = seg
        /\ UNCHANGED <<traces, broken>>
    BY <1>6 DEF PackRecord, SegmentThere, listvars
  <2>3. /\ Current.numsamples \in Nat /\ Current.start \in Int /\ Current.per \in Nat
        /\ packed \in Nat /\ n \in Nat \ {0} /\ seg \in Place
    BY <2>1, <2>2, CurrentIs, FileAssumption DEF FileTypeOK
  <2>4. date \in Int
    BY <2>3
  <2>5. packed + n <= Current.numsamples
    BY <2>1, <2>3 DEF Takes, Rest
  <2>6. Handled(r)
    BY <2>1
  <2> HIDE DEF date
  <2>7. r \in Packed /\ r.seg = seg /\ r.from = packed + 1 /\ r.n = n
    BY <2>3, <2>4 DEF Packed
  <2> HIDE DEF r
  <2>8. Comes(r)
    BY <2>2, <2>3, <2>5, <2>7 DEF Comes, Begun
  <2>9. /\ Kept /\ InOrder' /\ (lost' = 0 => lost = 0)
        /\ lost' = 0 => file' # <<>> /\ file'[Len(file')] = r
    BY <2>2, <2>6, <2>8, RecordAdded
  <2>10. /\ room' \in Nat /\ lost' \in Nat /\ file' \in Seq(Packed) /\ (lost' = 0 \/ room' = 0)
    BY <2>6, <2>7, HandedOver DEF FileTypeOK, UpToDate
  <2>11. FileTypeOK' /\ UpToDate'
    BY <2>1, <2>2, <2>3, <2>7, <2>9, <2>10 DEF FileTypeOK, UpToDate
  <2>12. SegmentThere'
    <3>1. Current' = Current
      BY <2>2 DEF Current
    <3> QED
      BY <2>1, <2>2, <2>5, <3>1 DEF SegmentThere
  <2>13. Finished'
    <3>1. ASSUME lost' = 0, NEW p \in Segments, p \notin broken, Sooner(p, seg)
          PROVE  \E x \in 1..Len(file') :
                    file'[x].seg = p /\ file'[x].from + file'[x].n - 1 = Seg(p).numsamples
      <4>1. PICK x \in 1..Len(file) :
                file[x].seg = p /\ file[x].from + file[x].n - 1 = Seg(p).numsamples
        BY <2>9, <3>1 DEF Finished
      <4>2. x \in 1..Len(file') /\ file'[x] = file[x]
        BY <2>9, <2>10, LenProperties DEF Kept, FileTypeOK
      <4> QED
        BY <4>1, <4>2
    <3>2. Segments' = Segments /\ \A p : Seg(p)' = Seg(p)
      BY <2>2, ListStays
    <3> QED
      BY <2>2, <3>1, <3>2 DEF Finished, Sooner
  <2> QED
    BY <2>9, <2>11, <2>12, <2>13
<1>7. CASE NextSegment
  <2>1. /\ out = "data" /\ out' = "segment" /\ seg[1] <= Len(traces)
        /\ seg' = Following /\ packed = Current.numsamples /\ Current.numsamples > 0
        /\ UNCHANGED <<traces, packed, room, file, lost, broken>>
    BY <1>7 DEF NextSegment, SegmentDone, listvars, SegmentThere
  <2>2. /\ Kept /\ file' \in Seq(Packed) /\ (lost' = 0 => lost = 0)
        /\ (lost' = 0 \/ room' = 0) /\ broken \subseteq broken'
    BY <2>1, LenProperties DEF Kept, FileTypeOK, UpToDate
  <2>3. lost' = 0 =>
            \E x \in 1..Len(file') : /\ file'[x].seg = seg
                                     /\ file'[x].from + file'[x].n - 1 = Current.numsamples
    <3>1. ASSUME lost' = 0
          PROVE  /\ Len(file') \in 1..Len(file') /\ file'[Len(file')].seg = seg
                 /\ file'[Len(file')].from + file'[Len(file')].n - 1 = packed
      <4>1. packed # 0
        BY <2>1, CurrentIs
      <4>2. file # <<>> /\ file[Len(file)].seg = seg
            /\ file[Len(file)].from + file[Len(file)].n - 1 = packed
        BY <2>1, <3>1, <4>1 DEF UpToDate
      <4> QED
        BY <2>1, <4>2, LenProperties, EmptySeq DEF FileTypeOK
    <3> QED
      BY <2>1, <3>1
  <2>4. SegmentThere' /\ UpToDate' /\ Finished'
    BY <2>1, <2>2, <2>3, SegmentLeft
  <2>5. /\ Following \in Place
        /\ \A p \in Place : Sooner(p, seg) \/ p = seg => Sooner(p, Following)
    BY <2>1, FollowingIs
  <2>6. FileTypeOK'
    BY <2>1, <2>5 DEF FileTypeOK
  <2>7. InOrder'
    <3>1. \A x \in 1..Len(file) : file[x].seg \in Place
      BY SegmentsArePlaces DEF InOrder, FileTypeOK
    <3>2. \A x \in 1..Len(file) : Sooner(file[x].seg, Following)
      BY <2>5, <3>1 DEF InOrder
    <3> QED
      BY <2>1, <3>2, ListStays DEF InOrder, Precedes, Seg, Sooner
  <2> QED
    BY <2>4, <2>6, <2>7
<1>8. CASE CloseFile
  BY <1>8, NothingWritten DEF CloseFile, listvars, FileTypeOK, SegmentThere, InOrder, UpToDate,
                              Precedes, Seg
<1>9. CASE UNCHANGED allwritevars
  BY <1>9, NothingWritten DEF allwritevars, listvars, filevars, FileTypeOK, SegmentThere, InOrder,
                              UpToDate, Precedes, Seg, Current
<1> QED
  BY <1>1, <1>2, <1>3, <1>4, <1>5, <1>6, <1>7, <1>8, <1>9 DEF WriteMseed

\* FileInv says of a file that is closed what FileFaithful does: there is no
\* segment that is not before the end of the list.
LEMMA FileInvFaithful == FileInv => FileFaithful
<1> SUFFICES ASSUME FileInv
             PROVE  FileFaithful
  OBVIOUS
<1> USE DEF FileInv
<1>1. Len(file) \in Nat /\ DOMAIN file = 1..Len(file)
  BY LenProperties DEF FileTypeOK
<1>2. ASSUME out = "closed"
      PROVE  \A p \in Segments : Sooner(p, seg)
  <2>1. \A p \in Segments : p[1] \in Nat /\ p[1] <= Len(traces)
    BY SegmentsArePlaces, SegmentIs DEF FileTypeOK, Place
  <2>2. seg[1] > Len(traces) /\ seg[1] \in Nat /\ Len(traces) \in Nat
    BY <1>2, ListRead DEF SegmentThere, FileTypeOK, Place
  <2> QED
    BY <2>1, <2>2 DEF Sooner
<1>3. ASSUME out = "closed", lost = 0, NEW p \in Segments \ broken
      PROVE  \E x \in RecordsOf(p) : file[x].from + file[x].n - 1 = Seg(p).numsamples
  BY <1>1, <1>2, <1>3 DEF Finished, RecordsOf
<1> QED
  BY <1>1, <1>3 DEF FileFaithful, InOrder

\* Whatever the trace list that mstl3_writemseed() is handed, the room on the
\* disk, the records that fail and the version, the file it leaves holds the
\* segments in the order of the list, and all of those that could be packed
\* if nothing was lost.
THEOREM FileIsFaithful ==
    ASSUME NEW version
    PROVE  WriteSpec(version) => []FileFaithful
<1>1. WriteSpec(version) => FileInv
  BY FileStarts DEF WriteSpec
<1>2. FileInv /\ [WriteMseed(version)]_allwritevars => FileInv'
  BY FileStep, FileAssumption
<1>3. FileInv => FileFaithful
  BY FileInvFaithful
<1> QED
  BY <1>1, <1>2, <1>3, PTL DEF WriteSpec

-----------------------------------------------------------------------------
(* The number that is returned.                                            *)

\* The records in the file of segments that are not broken, and those of
\* them of segments that are through.
Whole   == {x \in 1..Len(file) : file[x].seg \notin broken}
Through == {x \in 1..Len(file) : file[x].seg \notin broken /\ Sooner(file[x].seg, seg)}

\* A broken segment takes one off the total, and the records of the segment
\* that is packed are not in it yet.
CountInv ==
    /\ total \in Int /\ recs \in Nat /\ IsFiniteSet(broken)
    /\ \A p \in broken : p \in Place /\ Sooner(p, seg)
    /\ broken = {} => total + (IF out = "data" THEN recs ELSE 0) = Len(file) + lost
    /\ lost = 0 => Cardinality(Through) = total + Cardinality(broken)
    /\ lost = 0 /\ out = "data" =>
          Cardinality(Whole) = total + recs + Cardinality(broken)
    /\ out = "closed" => result = IF total >= 0 THEN total ELSE -1

\* No segment comes sooner than itself, nor than one that is sooner.
LEMMA SoonerIs ==
    ASSUME NEW p \in Place, NEW q \in Place
    PROVE  ~Sooner(p, p) /\ (Sooner(p, q) => p # q)
BY DEF Sooner, Place

LEMMA RecordPlaces ==
    ASSUME FileInv
    PROVE  /\ seg \in Place /\ Len(file) \in Nat /\ lost \in Nat
           /\ \A x \in 1..Len(file) : /\ file[x].seg \in Place
                                      /\ \/ Sooner(file[x].seg, seg)
                                         \/ out = "data" /\ file[x].seg = seg
<1>1. seg \in Place /\ lost \in Nat /\ file \in Seq(Packed)
  BY DEF FileInv, FileTypeOK
<1>2. \A x \in 1..Len(file) : file[x].seg \in Place
  BY SegmentsArePlaces DEF FileInv, FileTypeOK, InOrder
<1> QED
  BY <1>1, <1>2, LenProperties DEF FileInv, InOrder

LEMMA CountsAre ==
    ASSUME NEW n \in Nat, NEW A, A \subseteq 1..n
    PROVE  IsFiniteSet(A) /\ Cardinality(A) \in Nat
<1>1. IsFiniteSet(1..n)
  BY FS_Interval
<1>2. IsFiniteSet(A)
  BY <1>1, FS_Subset
<1> QED
  BY <1>2, FS_CardinalityType

\* A segment is left, and its records are through or broken with it.
LEMMA LeftCounted ==
    ASSUME FileInv, CountInv, out \in {"segment", "data"}, seg[1] <= Len(traces),
           seg' = Following, file' = file, lost' = lost
    PROVE  /\ broken' = broken => Through' = Whole
           /\ broken' = broken \union {seg} =>
                 /\ Through' = Through /\ IsFiniteSet(broken') /\ broken' # {}
                 /\ Cardinality(broken') = Cardinality(broken) + 1
           /\ broken' = broken \/ broken' = broken \union {seg} =>
                 \A p \in broken' : p \in Place /\ Sooner(p, seg')
<1>1. /\ seg \in Place /\ \A x \in 1..Len(file) : /\ file[x].seg \in Place
                                                  /\ Sooner(file[x].seg, seg) \/ file[x].seg = seg
  BY RecordPlaces
<1>2. \A p \in Place : Sooner(p, seg) \/ p = seg => Sooner(p, Following)
  BY FollowingIs DEF FileInv
<1>3. broken' = broken => Through' = Whole
  BY <1>1, <1>2 DEF Through, Whole, Sooner
<1>4. seg \notin broken /\ \A p \in broken : p \in Place /\ Sooner(p, seg)
  BY <1>1, SoonerIs DEF CountInv
<1>5. ASSUME broken' = broken \union {seg}
      PROVE  /\ Through' = Through /\ IsFiniteSet(broken') /\ broken' # {}
             /\ Cardinality(broken') = Cardinality(broken) + 1
  <2>1. \A x \in 1..Len(file) :
           file[x].seg \notin broken' /\ Sooner(file[x].seg, seg') <=>
           file[x].seg \notin broken /\ Sooner(file[x].seg, seg)
    BY <1>1, <1>2, <1>5, SoonerIs
  <2>2. Through' = {x \in 1..Len(file) : file[x].seg \notin broken' /\ Sooner(file[x].seg, seg')}
    BY DEF Through, Sooner
  <2>3. Through' = Through
    BY <2>1, <2>2 DEF Through
  <2>4. IsFiniteSet(broken)
    BY DEF CountInv
  <2> QED
    BY <1>4, <1>5, <2>3, <2>4, FS_AddElement
<1>6. broken' = broken \/ broken' = broken \union {seg} =>
         \A p \in broken' : p \in Place /\ Sooner(p, seg')
  BY <1>1, <1>2, <1>4
<1> QED
  BY <1>3, <1>5, <1>6

\* A record of the segment goes to the file, in which no broken one is before
\* it.
LEMMA OneMore ==
    ASSUME FileInv, CountInv, out \in {"segment", "data"}, seg[1] <= Len(traces),
           NEW r, Comes(r), Handled(r), lost' = 0, broken' = broken
    PROVE  /\ lost = 0 /\ Whole' = Whole \union {Len(file) + 1}
           /\ Cardinality(Whole') = Cardinality(Whole) + 1
<1>1. /\ file \in Seq(Packed) /\ room \in Nat /\ lost \in Nat /\ r \in Packed /\ r.seg = seg
      /\ Len(file) \in Nat
  BY RecordPlaces DEF FileInv, FileTypeOK, Comes
<1>2. /\ lost = 0 /\ Len(file') = Len(file) + 1 /\ file'[Len(file) + 1] = r
      /\ \A x \in 1..Len(file) : file'[x] = file[x]
  BY <1>1, HandedOver
<1>3. seg \notin broken
  BY RecordPlaces, SoonerIs DEF CountInv
<1>4. Whole' = Whole \union {Len(file) + 1}
  BY <1>1, <1>2, <1>3 DEF Whole
<1>5. IsFiniteSet(Whole) /\ Len(file) + 1 \notin Whole
  BY <1>1, CountsAre DEF Whole
<1> QED
  BY <1>2, <1>4, <1>5, FS_AddElement

LEMMA OneMoreOrLost ==
    ASSUME FileInv, NEW r \in Packed, Handled(r)
    PROVE  Len(file') + lost' = Len(file) + lost + 1 /\ lost' \in Nat /\ Len(file') \in Nat
<1>1. /\ file \in Seq(Packed) /\ room \in Nat /\ lost \in Nat /\ Len(file) \in Nat
  BY RecordPlaces DEF FileInv, FileTypeOK
<1>2. /\ lost' \in Nat
      /\ \/ file' = file /\ lost' = lost + 1
         \/ Len(file') = Len(file) + 1 /\ lost' = lost
  BY <1>1, HandedOver
<1> QED
  BY <1>1, <1>2

\* Before a segment is begun, what is whole is through.
LEMMA WholeIsThrough ==
    ASSUME FileInv, out # "data"
    PROVE  Whole = Through
BY RecordPlaces DEF Whole, Through

LEMMA CountStep ==
    ASSUME FileAssumption, NEW version, FileInv, CountInv, [WriteMseed(version)]_allwritevars
    PROVE  CountInv'
<1>1. /\ total \in Int /\ recs \in Nat /\ IsFiniteSet(broken) /\ Cardinality(broken) \in Nat
      /\ Len(file) \in Nat /\ lost \in Nat
      /\ IsFiniteSet(Through) /\ IsFiniteSet(Whole)
      /\ Cardinality(Through) \in Nat /\ Cardinality(Whole) \in Nat
  BY RecordPlaces, CountsAre, FS_CardinalityType DEF CountInv, Through, Whole
<1>2. CASE OpenFails \/ OpenFile \/ CloseFile \/ UNCHANGED allwritevars
  <2>1. /\ UNCHANGED <<seg, recs, total, file, lost, broken>>
        /\ out' = "data" => out = "data"
        /\ out = "data" => out' = "data"
        /\ out' = "closed" => result' = IF total >= 0 THEN total ELSE -1
    BY <1>2 DEF OpenFails, OpenFile, CloseFile, allwritevars, listvars, filevars, CountInv
  <2>2. Through' = Through /\ Whole' = Whole
    BY <2>1 DEF Through, Whole, Sooner
  <2> QED
    BY <2>1, <2>2 DEF CountInv, Sooner
<1>3. CASE BeginSegment(version)
  <2>1. /\ out = "segment" /\ out' = "data" /\ recs' = 0
        /\ UNCHANGED <<seg, total, file, lost, broken>>
    BY <1>3 DEF BeginSegment, AtSegment, listvars
  <2>2. Through' = Through /\ Whole' = Whole /\ Whole = Through
    BY <2>1, WholeIsThrough DEF Through, Whole, Sooner
  <2> QED
    BY <1>1, <2>1, <2>2 DEF CountInv, Sooner
<1>4. CASE HeaderFails(version) \/ PackFails
  <2>1. /\ out \in {"segment", "data"} /\ out' = "segment" /\ seg[1] <= Len(traces)
        /\ seg' = Following /\ broken' = broken \union {seg} /\ total' = total + (-1)
        /\ UNCHANGED <<recs, file, lost>>
    BY <1>4 DEF HeaderFails, PackFails, SegmentDone, AtSegment, listvars, FileInv, SegmentThere
  <2>2. /\ Through' = Through /\ IsFiniteSet(broken') /\ broken' # {}
        /\ Cardinality(broken') = Cardinality(broken) + 1
        /\ \A p \in broken' : p \in Place /\ Sooner(p, seg')
    BY <2>1, LeftCounted
  <2> QED
    BY <1>1, <2>1, <2>2 DEF CountInv, Sooner
<1>5. CASE EmptyRecord(version)
  <2> DEFINE r == [seg |-> seg, from |-> 1, n |-> 0, start |-> Current.start]
  <2>1. /\ out = "segment" /\ out' = "segment" /\ seg[1] <= Len(traces)
        /\ seg' = Following /\ Handled(r) /\ Current.numsamples = 0 /\ total' = total + 1
        /\ UNCHANGED <<traces, recs, broken>>
    BY <1>5 DEF EmptyRecord, SegmentDone, AtSegment, listvars
  <2>2. Current.start \in Int /\ seg \in Place
    BY <2>1, CurrentIs DEF FileInv, FileTypeOK
  <2>3. r \in Packed /\ r.seg = seg /\ r.from = 1 /\ r.n = 0
    BY <2>2 DEF Packed
  <2> HIDE DEF r
  <2>4. Comes(r)
    BY <2>1, <2>3 DEF Comes, Begun
  <2>5. Len(file') + lost' = Len(file) + lost + 1 /\ lost' \in Nat /\ Len(file') \in Nat
    BY <2>1, <2>3, OneMoreOrLost
  <2>6. ASSUME lost' = 0
        PROVE  Cardinality(Through') = Cardinality(Through) + 1 /\ lost = 0
    <3>1. lost = 0 /\ Cardinality(Whole') = Cardinality(Whole) + 1
      BY <2>1, <2>4, <2>6, OneMore
    <3>2. Whole = Through
      BY <2>1, WholeIsThrough
    <3>3. Through' = Whole'
      <4>1. FileInv'
        BY FileStep
      <4>2. \A x \in 1..Len(file') : Sooner(file'[x].seg, seg')
        BY <2>1, <4>1 DEF FileInv, InOrder, Sooner
      <4> QED
        BY <4>2 DEF Through, Whole, Sooner
    <3> QED
      BY <3>1, <3>2, <3>3
  <2>7. \A p \in broken' : p \in Place /\ Sooner(p, seg')
    <3>1. \A p \in Place : Sooner(p, seg) \/ p = seg => Sooner(p, Following)
      BY <2>1, FollowingIs DEF FileInv
    <3> QED
      BY <2>1, <3>1 DEF CountInv
  <2> QED
    BY <1>1, <2>1, <2>5, <2>6, <2>7 DEF CountInv, Sooner
<1>6. CASE PackRecord
  <2>1. PICK n \in 1..RecordRoom :
            /\ Takes(n) /\ packed' = packed + n
            /\ Handled([seg |-> seg, from |-> packed + 1, n |-> n,
                        start |-> Current.start + packed * Current.per])
    BY <1>6 DEF PackRecord
  <2> DEFINE date == Current.start + packed * Current.per
             r    == [seg |-> seg, from |-> packed + 1, n |-> n, start |-> date]
  <2>2. /\ out = "data" /\ out' = "data" /\ seg[1] <= Len(traces) /\ seg' = seg
        /\ recs' = recs + 1 /\ UNCHANGED <<traces, total, broken>>
    BY <1>6 DEF PackRecord, FileInv, SegmentThere, listvars
  <2>3. /\ Current.numsamples \in Nat /\ Current.start \in Int /\ Current.per \in Nat
        /\ packed \in Nat /\ n \in Nat \ {0} /\ seg \in Place
    BY <2>1, <2>2, CurrentIs, FileAssumption DEF FileInv, FileTypeOK
  <2>4. date \in Int
    BY <2>3
  <2>5. packed + n <= Current.numsamples
    BY <2>1, <2>3 DEF Takes, Rest
  <2>6. Handled(r)
    BY <2>1
  <2> HIDE DEF date
  <2>7. r \in Packed /\ r.seg = seg /\ r.from = packed + 1 /\ r.n = n
    BY <2>3, <2>4 DEF Packed
  <2> HIDE DEF r
  <2>8. Comes(r)
    BY <2>2, <2>3, <2>5, <2>7 DEF Comes, Begun
  <2>9. Len(file') + lost' = Len(file) + lost + 1 /\ lost' \in Nat /\ Len(file') \in Nat
    BY <2>6, <2>7, OneMoreOrLost
  <2>10. ASSUME lost' = 0
         PROVE  /\ lost = 0 /\ Cardinality(Whole') = Cardinality(Whole) + 1
                /\ Through' = Through
    <3>1. /\ lost = 0 /\ Cardinality(Whole') = Cardinality(Whole) + 1
          /\ Whole' = Whole \union {Len(file) + 1}
      BY <2>2, <2>6, <2>8, <2>10, OneMore
    <3>2. /\ Len(file') = Len(file) + 1 /\ file'[Len(file) + 1] = r
          /\ \A x \in 1..Len(file) : file'[x] = file[x]
      BY <2>6, <2>7, <2>10, <3>1, HandedOver DEF FileInv, FileTypeOK
    <3>3. ~Sooner(file'[Len(file) + 1].seg, seg)
      BY <2>3, <2>7, <3>2, SoonerIs
    <3>4. Through' = Through
      BY <1>1, <2>2, <3>2, <3>3 DEF Through, Sooner
    <3> QED
      BY <3>1, <3>4
  <2> QED
    BY <1>1, <2>2, <2>9, <2>10 DEF CountInv, Sooner
<1>7. CASE NextSegment
  <2>1. /\ out = "data" /\ out' = "segment" /\ seg[1] <= Len(traces)
        /\ seg' = Following /\ total' = total + recs
        /\ UNCHANGED <<recs, file, lost, broken>>
    BY <1>7 DEF NextSegment, SegmentDone, listvars, FileInv, SegmentThere
  <2>2. Through' = Whole /\ \A p \in broken' : p \in Place /\ Sooner(p, seg')
    BY <2>1, LeftCounted
  <2> QED
    BY <1>1, <2>1, <2>2 DEF CountInv, Sooner
<1> QED
  BY <1>2, <1>3, <1>4, <1>5, <1>6, <1>7 DEF WriteMseed

\* The larger of two numbers.
LEMMA LargerIs ==
    ASSUME NEW n \in Int
    PROVE  Max({-1, n}) = IF n >= 0 THEN n ELSE -1
<1> DEFINE k == IF n >= 0 THEN n ELSE -1
<1>1. k \in {-1, n} /\ \A y \in {-1, n} : k >= y
  OBVIOUS
<1>2. \A x \in {-1, n} : (\A y \in {-1, n} : x >= y) => x = k
  BY <1>1
<1> HIDE DEF k
<1>3. (CHOOSE x \in {-1, n} : \A y \in {-1, n} : x >= y) = k
  BY <1>1, <1>2, Zenon
<1>4. Max({-1, n}) = k
  BY <1>3, Zenon DEF Max
<1> QED
  BY <1>4 DEF k

\* Whatever fails, what is returned is the number of records of the segments
\* that were packed to their end, less one for each of the others, and with
\* nothing broken the number of records that were handed over.
THEOREM CountIsRight ==
    ASSUME NEW version
    PROVE  WriteSpec(version) => []Counted
<1>1. WriteSpec(version) => FileInv /\ CountInv
  <2>1. ASSUME traces \in Seq(TraceId), NEW capacity \in Nat, FileInit(capacity)
        PROVE  FileInv /\ CountInv
    <3>1. FileInv
      BY <2>1, FileStarts
    <3>2. Len(file) = 0 /\ Whole = {} /\ Through = {} /\ broken = {}
      BY <2>1, EmptySeq DEF FileInit, Whole, Through
    <3>3. IsFiniteSet({}) /\ Cardinality({}) = 0
      BY FS_EmptySet
    <3> QED
      BY <2>1, <3>1, <3>2, <3>3 DEF FileInit, CountInv
  <2> QED
    BY <2>1 DEF WriteSpec
<1>2. FileInv /\ CountInv /\ [WriteMseed(version)]_allwritevars => FileInv' /\ CountInv'
  BY FileStep, CountStep, FileAssumption
<1>3. FileInv /\ CountInv => Counted
  <2>1. SUFFICES ASSUME FileInv, CountInv, out = "closed"
                 PROVE  /\ broken = {} => result = Len(file) + lost
                        /\ lost = 0 =>
                              LET whole == {x \in DOMAIN file : file[x].seg \notin broken}
                              IN  result = Max({-1, Cardinality(whole) - Cardinality(broken)})
    BY DEF Counted
  <2>2. /\ total \in Int /\ Len(file) \in Nat /\ lost \in Nat
        /\ result = IF total >= 0 THEN total ELSE -1
    BY <2>1, RecordPlaces DEF CountInv
  <2>3. broken = {} => result = Len(file) + lost
    BY <2>1, <2>2 DEF CountInv
  <2>4. ASSUME lost = 0
        PROVE  result = Max({-1, Cardinality(Whole) - Cardinality(broken)})
    <3>1. Whole = Through
      BY <2>1, WholeIsThrough
    <3>2. Cardinality(Through) = total + Cardinality(broken) /\ Cardinality(broken) \in Nat
      BY <2>1, <2>4, FS_CardinalityType DEF CountInv
    <3>3. Cardinality(Whole) - Cardinality(broken) = total
      BY <2>2, <3>1, <3>2
    <3> QED
      BY <2>2, <3>3, LargerIs
  <2>5. DOMAIN file = 1..Len(file)
    BY <2>1, LenProperties DEF FileInv, FileTypeOK
  <2> QED
    BY <2>3, <2>4, <2>5 DEF Whole
<1> QED
  BY <1>1, <1>2, <1>3, PTL DEF WriteSpec

-----------------------------------------------------------------------------
(* The dates of the samples.                                               *)

LEMMA LeastIs ==
    ASSUME NEW T, T \subseteq Nat, T # {}
    PROVE  \E x \in T : \A y \in T : x <= y
<1> DEFINE Less == {z \in Nat \X Nat : z[1] < z[2]}
<1>1. IsWellFoundedOn(Less, Nat)
  BY NatLessThanWellFounded, Zenon DEF OpToRel
<1> HIDE DEF Less
<1>2. PICK x \in T : \A y \in T : ~ (<<y, x>> \in Less)
  BY <1>1, WFMin, Zenon
<1>3. ASSUME NEW y \in T
      PROVE  x <= y
  <2>1. <<y, x>> \in Less <=> y < x
    BY DEF Less
  <2> QED
    BY <1>2, <2>1
<1> QED
  BY <1>3

LEMMA Distributes == \A a, b, c \in Int : (a + b) * c = a * c + b * c
  OBVIOUS

LEMMA Keeps == \A k \in Nat, a, b \in Int : a <= b => k * a <= k * b
<1>1. \A k, l \in Nat : k * l >= 0
  OBVIOUS
<1>2. ASSUME NEW k \in Nat, NEW a \in Int, NEW b \in Int, a <= b
      PROVE  k * a <= k * b
  <2>1. b - a \in Nat /\ (b - a) + a = b
    BY <1>2
  <2>2. ((b - a) + a) * k = (b - a) * k + a * k
    BY <2>1, Distributes
  <2>3. (b - a) * k >= 0 /\ (b - a) * k \in Int /\ k * a = a * k /\ k * b = b * k /\ a * k \in Int
    BY <1>1, <2>1
  <2> QED
    BY <2>1, <2>2, <2>3
<1> QED
  BY <1>2

\* The records of a segment carry on from each other.
Piece(s, x) == given[s.data[x]]
Runs(s) ==
    /\ s.start \in Int /\ s.per \in Nat /\ Len(s.data) \in Nat
    /\ \A x \in 1..Len(s.data) : Piece(s, x) \in Record
    /\ s.start = Piece(s, 1).start
    /\ \A x \in 2..Len(s.data) : Adjoins(Piece(s, x-1), Piece(s, x))

\* Up to the next record there are the samples of this one more.
LEMMA OneFurther ==
    ASSUME NEW s, NEW x \in Nat \ {0}, Piece(s, x).n \in Nat, IsFiniteSet(Earlier(s, x))
    PROVE  /\ IsFiniteSet(Earlier(s, x + 1))
           /\ Offset(s, x + 1) = Offset(s, x) + Piece(s, x).n
<1> DEFINE S == Earlier(s, x)
           n == Piece(s, x).n
           T == {x} \X (1..n)
<1>1. Earlier(s, x + 1) = S \union T
  <2>1. (1..x+1-1) = (1..x-1) \union {x}
    OBVIOUS
  <2> QED
    BY <2>1 DEF Earlier, Piece
<1>2. S \intersect T = {}
  <2>1. ASSUME NEW z \in S
        PROVE  z[1] # x
    <3>1. PICK y \in 1..x-1 : z \in {y} \X (1..given[s.data[y]].n)
      BY <2>1, Zenon DEF Earlier
    <3> QED
      BY <3>1
  <2> QED
    BY <2>1
<1>3. IsFiniteSet(T) /\ Cardinality(T) = n
  <2>1. IsFiniteSet({x}) /\ Cardinality({x}) = 1
    BY FS_Singleton
  <2>2. IsFiniteSet(1..n) /\ Cardinality(1..n) = n
    <3> HIDE DEF n
    <3>1. n \in Nat /\ n \in Int /\ 1 \in Int
      BY DEF n
    <3>2. IsFiniteSet(1..n) /\ Cardinality(1..n) = IF 1 > n THEN 0 ELSE n - 1 + 1
      BY <3>1, FS_Interval
    <3> QED
      BY <3>1, <3>2
  <2>3. IsFiniteSet(T) /\ Cardinality(T) = 1 * n
    <3> DEFINE A == {x}
               B == 1..n
    <3>1. IsFiniteSet(A) /\ IsFiniteSet(B) /\ Cardinality(A) = 1 /\ Cardinality(B) = n
      BY <2>1, <2>2
    <3> HIDE DEF A, B, n
    <3>2. IsFiniteSet(A \X B) /\ Cardinality(A \X B) = Cardinality(A) * Cardinality(B)
      BY <3>1, FS_Product
    <3> QED
      BY <3>1, <3>2 DEF A, B
  <2> HIDE DEF T
  <2> QED
    BY <2>3
<1> HIDE DEF S, T
<1>4. IsFiniteSet(S \union T) /\ Cardinality(S \union T) = Cardinality(S) + n - Cardinality({})
  <2>1. IsFiniteSet(S)
    BY DEF S
  <2> QED
    BY <1>2, <1>3, <2>1, FS_Union
<1>5. Cardinality({}) = 0 /\ Cardinality(S) \in Nat
  BY FS_EmptySet, FS_CardinalityType DEF S
<1> HIDE DEF n
<1>6. n \in Nat
  BY DEF n
<1>7. Cardinality(S \union T) = Cardinality(S) + n
  BY <1>4, <1>5, <1>6
<1> QED
  BY <1>1, <1>4, <1>7 DEF Offset, S, n

\* And one record without samples more, if it has none.
LEMMA OneEmptier ==
    ASSUME NEW s, NEW x \in Nat \ {0}
    PROVE  /\ Empties(s, x) \in Nat
           /\ Empties(s, x + 1) = Empties(s, x) + (IF Piece(s, x).n = 0 THEN 1 ELSE 0)
<1> DEFINE E(z) == {y \in 1..z-1 : given[s.data[y]].n = 0}
<1>1. IsFiniteSet(E(x)) /\ x \notin E(x)
  <2>1. IsFiniteSet(1..x-1)
    BY FS_Interval
  <2>2. E(x) \subseteq 1..x-1
    OBVIOUS
  <2> HIDE DEF E
  <2>3. x \notin 1..x-1
    OBVIOUS
  <2> QED
    BY <2>1, <2>2, <2>3, FS_Subset
<1>2. E(x + 1) = IF Piece(s, x).n = 0 THEN E(x) \union {x} ELSE E(x)
  <2>1. (1..x+1-1) = (1..x-1) \union {x}
    OBVIOUS
  <2> QED
    BY <2>1 DEF Piece
<1>3. Empties(s, x) = Cardinality(E(x)) /\ Empties(s, x + 1) = Cardinality(E(x + 1))
  BY DEF Empties
<1> HIDE DEF E
<1>4. Cardinality(E(x)) \in Nat
  BY <1>1, FS_CardinalityType
<1>5. Cardinality(E(x) \union {x}) = Cardinality(E(x)) + 1
  BY <1>1, FS_AddElement
<1> QED
  BY <1>2, <1>3, <1>4, <1>5

\* How far the start of a record may be from where its samples are in the
\* segment, when no rate is farther than D from that of the segment.
Slack(s, x, D) ==
    (x - 1) * ((s.per + D) \div 2) + (s.per + D) * Empties(s, x) + Offset(s, x) * D
Drift(s, x) == s.start + Offset(s, x) * s.per - Piece(s, x).start
Within(s, x, D) ==
    /\ IsFiniteSet(Earlier(s, x))
    /\ -Slack(s, x, D) <= Drift(s, x) /\ Drift(s, x) <= Slack(s, x, D)
OffBy(s, x) == Difference(Piece(s, x).per, s.per)

LEMMA FirstWithin ==
    ASSUME NEW s, Runs(s), 1 <= Len(s.data), NEW D \in Nat
    PROVE  Within(s, 1, D)
<1>1. Earlier(s, 1) = {}
  <2>1. (1..1-1) = {}
    OBVIOUS
  <2> QED
    BY <2>1 DEF Earlier
<1>2. IsFiniteSet(Earlier(s, 1)) /\ Offset(s, 1) = 0
  BY <1>1, FS_EmptySet DEF Offset
<1>3. Empties(s, 1) = 0
  <2>1. {y \in 1..1-1 : given[s.data[y]].n = 0} = {}
    OBVIOUS
  <2> QED
    BY <2>1, FS_EmptySet DEF Empties
<1>4. s.start \in Int /\ s.per \in Nat /\ Piece(s, 1).start = s.start /\ (s.per + D) \div 2 \in Nat
  BY DEF Runs
<1>5. Slack(s, 1, D) = 0 /\ Drift(s, 1) = 0
  BY <1>2, <1>3, <1>4 DEF Slack, Drift
<1> QED
  BY <1>2, <1>5 DEF Within

\* How much farther it is from a record to the next one than n periods p of
\* the segment.
LEMMA StepIs ==
    ASSUME NEW p \in Nat, NEW D \in Nat, NEW m \in Record, NEW r \in Record, Adjoins(m, r),
           Difference(m.per, p) <= D, Difference(r.per, p) <= D
    PROVE  LET half == (p + D) \div 2
               away == r.start - m.start
           IN  /\ m.n > 0 => /\ away - m.n * p <= half + m.n * D
                             /\ m.n * p - away <= half + m.n * D
               /\ m.n = 0 => 0 <= away /\ away <= half + (p + D)
<1> DEFINE n == m.n
           q == m.per
           a == m.start
           b == r.start
           half == (p + D) \div 2
<1>1. n \in Nat /\ q \in Nat /\ a \in Int /\ b \in Int /\ r.per \in Nat /\ half \in Nat
  BY DEF Record
<1>2. EndOf(m) = a + (IF n > 0 THEN (n - 1) * q ELSE 0)
  BY DEF EndOf
<1>3. q <= p + D /\ p <= q + D /\ r.per <= p + D /\ p <= r.per + D
  BY <1>1 DEF Difference
<1>4. PICK P \in Nat : /\ P <= p + D /\ p <= P + D
                       /\ -(P \div 2) <= (b - EndOf(m)) - P /\ (b - EndOf(m)) - P <= P \div 2
  <2>1. CASE Fits(m, (b - EndOf(m)) - m.per)
    BY <1>1, <1>3, <2>1 DEF Fits, Tol
  <2>2. CASE Fits(r, (b - EndOf(m)) - r.per)
    BY <1>1, <1>3, <2>2 DEF Fits, Tol
  <2> QED
    BY <2>1, <2>2 DEF Adjoins
<1>5. P \div 2 \in Nat /\ P \div 2 <= half /\ P \div 2 <= P
  BY <1>4
<1> HIDE DEF n, q, a, b, half
<1>6. CASE n > 0
  <2> DEFINE e == (n - 1) * q
             np == n * p
             nD == n * D
  <2>1. e \in Int /\ np \in Int /\ nD \in Int /\ EndOf(m) = a + e
    BY <1>1, <1>2, <1>6
  <2>2. n - 1 \in Nat /\ p + D \in Int /\ p - D \in Int /\ q <= p + D /\ p - D <= q
    BY <1>1, <1>3, <1>6
  <2>3. (n - 1) * (p - D) <= e /\ e <= (n - 1) * (p + D)
    BY <1>1, <2>2, Keeps
  <2>4. (n - 1) * (p + D) = np - p + nD - D
    <3>1. (n + -1) * (p + D) = n * (p + D) + (-1) * (p + D)
      BY <1>1, <2>2, Distributes
    <3>2. (p + D) * n = p * n + D * n /\ n * (p + D) = (p + D) * n /\ p * n = np /\ D * n = nD
      BY <1>1, Distributes
    <3>3. n + -1 = n - 1 /\ (-1) * (p + D) = -p - D
      BY <1>1
    <3> HIDE DEF np, nD
    <3> QED
      BY <1>1, <2>1, <3>1, <3>2, <3>3
  <2>5. (n - 1) * (p - D) = np - p - nD + D
    <3>1. (n + -1) * (p - D) = n * (p - D) + (-1) * (p - D)
      BY <1>1, <2>2, Distributes
    <3>2. (p + -D) * n = p * n + (-D) * n /\ n * (p - D) = (p + -D) * n /\ p * n = np
      BY <1>1, Distributes
    <3>3. n + -1 = n - 1 /\ (-1) * (p - D) = -p + D /\ (-D) * n = -nD
      BY <1>1
    <3> HIDE DEF np, nD
    <3> QED
      BY <1>1, <2>1, <3>1, <3>2, <3>3
  <2> HIDE DEF e, np, nD
  <2>6. np - p - nD + D <= e /\ e <= np - p + nD - D
    BY <2>3, <2>4, <2>5
  <2>7. -(P \div 2) <= (b - (a + e)) - P /\ (b - (a + e)) - P <= P \div 2
    BY <1>4, <2>1
  <2>8. (b - a) - np <= half + nD /\ np - (b - a) <= half + nD
    <3>1. PICK h \in Nat : h = P \div 2
      BY <1>5
    <3>2. -h <= (b - (a + e)) - P /\ (b - (a + e)) - P <= h /\ h <= half
      BY <1>5, <2>7, <3>1
    <3> QED
      BY <1>1, <1>4, <2>1, <2>6, <3>2
  <2> QED
    BY <1>1, <1>6, <2>8 DEF np, nD, n, a, b, half
<1>7. CASE n = 0
  <2>1. EndOf(m) = a
    <3>1. EndOf(m) = a + 0
      BY <1>2, <1>7
    <3> QED
      BY <1>1, <3>1
  <2>2. 0 <= b - a /\ b - a <= half + (p + D)
    <3>1. PICK h \in Nat : h = P \div 2
      BY <1>5
    <3>2. -h <= (b - a) - P /\ (b - a) - P <= h /\ h <= half /\ h <= P
      BY <1>4, <1>5, <2>1, <3>1
    <3> QED
      BY <1>1, <1>4, <3>2
  <2> QED
    BY <1>1, <1>7, <2>2 DEF n, a, b, half
<1> QED
  BY <1>1, <1>6, <1>7 DEF n

\* A record is half a period more off than the one before it, at most, a
\* whole one if that has no samples, and D more for each of its samples.
LEMMA NextWithin ==
    ASSUME NEW s, Runs(s), NEW x \in Nat \ {0}, x + 1 <= Len(s.data), NEW D \in Nat,
           OffBy(s, x) <= D, OffBy(s, x + 1) <= D, Within(s, x, D)
    PROVE  Within(s, x + 1, D)
<1> DEFINE p == s.per
           h == (s.per + D) \div 2
           l == s.per + D
           m == Piece(s, x)
           n == Piece(s, x).n
           a == Piece(s, x).start
           b == Piece(s, x + 1).start
           o == Offset(s, x)
           e == Empties(s, x)
<1>1. /\ m \in Record /\ Piece(s, x + 1) \in Record /\ s.per \in Nat
      /\ Adjoins(m, Piece(s, x + 1))
  <2>1. /\ (x + 1) - 1 = x /\ x + 1 \in 2..Len(s.data)
        /\ x \in 1..Len(s.data) /\ x + 1 \in 1..Len(s.data)
    BY DEF Runs
  <2> QED
    BY <2>1 DEF Runs
<1>2. n \in Nat /\ a \in Int /\ b \in Int /\ p \in Nat /\ s.start \in Int /\ l \in Nat
  BY <1>1 DEF Record, Runs
<1>3. h \in Nat
  BY <1>2
<1>4. /\ IsFiniteSet(Earlier(s, x + 1)) /\ Offset(s, x + 1) = o + n /\ o \in Nat
  BY <1>2, OneFurther, FS_CardinalityType DEF Within, Offset
<1>5. e \in Nat /\ Empties(s, x + 1) = e + (IF n = 0 THEN 1 ELSE 0)
  BY OneEmptier
<1>6. x + 1 - 1 = x
  OBVIOUS
<1>7. /\ n > 0 => (b - a) - n * p <= h + n * D /\ n * p - (b - a) <= h + n * D
      /\ n = 0 => 0 <= b - a /\ b - a <= h + l
  BY <1>1, StepIs DEF OffBy
<1>9. /\ -((x - 1) * h + l * e + o * D) <= s.start + o * p - a
      /\ s.start + o * p - a <= (x - 1) * h + l * e + o * D
  BY DEF Within, Slack, Drift
<1>10. /\ Slack(s, x + 1, D) = x * h + l * (e + (IF n = 0 THEN 1 ELSE 0)) + (o + n) * D
       /\ Drift(s, x + 1) = s.start + (o + n) * p - b
  BY <1>4, <1>5, <1>6 DEF Slack, Drift
<1> HIDE DEF p, h, l, m, n, a, b, o, e
<1> DEFINE xh == (x - 1) * h
           le == l * e
           oD == o * D
           op == o * p
           np == n * p
           nD == n * D
<1>11. /\ xh \in Int /\ le \in Int /\ op \in Int /\ np \in Int /\ oD \in Int /\ nD \in Int
  BY <1>2, <1>3, <1>4, <1>5
<1>12. /\ x * h = xh + h /\ (o + n) * p = op + np /\ (o + n) * D = oD + nD
       /\ l * (e + 1) = le + l /\ l * (e + 0) = le
  <2>1. x * h = (x - 1) * h + 1 * h
    <3>1. x - 1 \in Int /\ 1 \in Int /\ h \in Int /\ (x - 1) + 1 = x
      BY <1>3
    <3> QED
      BY <3>1, Distributes
  <2>2. (o + n) * p = o * p + n * p /\ (o + n) * D = o * D + n * D
    BY <1>2, <1>4, Distributes
  <2>3. 1 * h = h
    BY <1>3
  <2>4. (e + 1) * l = e * l + 1 * l /\ (e + 1) * l = l * (e + 1) /\ e * l = l * e /\ e + 0 = e
        /\ 1 * l = l
    BY <1>2, <1>5, Distributes
  <2> QED
    BY <2>1, <2>2, <2>3, <2>4
<1>13. -xh - le - oD <= s.start + op - a /\ s.start + op - a <= xh + le + oD
  <2>1. -(xh + le + oD) = -xh - le - oD
    BY <1>11
  <2> QED
    BY <1>9, <2>1
<1> HIDE DEF xh, le, op, oD
<1>14. CASE n > 0
  <2>1. (b - a) - np <= h + nD /\ np - (b - a) <= h + nD
    BY <1>7, <1>14
  <2>2. Slack(s, x + 1, D) = xh + h + le + (oD + nD) /\ Drift(s, x + 1) = s.start + (op + np) - b
    BY <1>10, <1>12, <1>14
  <2> HIDE DEF np, nD
  <2> QED
    BY <1>2, <1>3, <1>4, <1>11, <1>13, <2>1, <2>2 DEF Within
<1>15. CASE n = 0
  <2>1. np = 0 /\ nD = 0 /\ 0 <= b - a /\ b - a <= h + l
    BY <1>2, <1>7, <1>15 DEF np, nD
  <2>2. Slack(s, x + 1, D) = xh + h + (le + l) + (oD + nD)
        /\ Drift(s, x + 1) = s.start + (op + np) - b
    BY <1>10, <1>12, <1>15
  <2> HIDE DEF np, nD
  <2> QED
    BY <1>2, <1>3, <1>4, <1>11, <1>13, <2>1, <2>2 DEF Within
<1> QED
  BY <1>2, <1>14, <1>15

LEMMA AllWithin ==
    ASSUME NEW s, Runs(s), NEW x \in 1..Len(s.data), NEW D \in Nat,
           \A y \in 1..x : OffBy(s, y) <= D
    PROVE  Within(s, x, D)
<1> DEFINE T == {y \in 1..x : ~Within(s, y, D)}
<1>1. Len(s.data) \in Nat
  BY DEF Runs
<1>2. ASSUME T # {}
      PROVE  FALSE
  <2>1. T \subseteq Nat
    BY <1>1
  <2>2. PICK y \in T : \A z \in T : y <= z
    BY <1>2, <2>1, LeastIs
  <2>3. CASE y = 1
    BY <1>1, <2>2, <2>3, FirstWithin
  <2>4. CASE y > 1
    <3>1. /\ y - 1 \in 1..x /\ y - 1 \in Nat \ {0} /\ (y - 1) + 1 = y /\ ~(y <= y - 1)
          /\ y \in 1..x /\ (y - 1) + 1 <= Len(s.data)
      BY <1>1, <2>2, <2>4
    <3>2. Within(s, y - 1, D)
      BY <2>2, <3>1
    <3>3. OffBy(s, y - 1) <= D /\ OffBy(s, (y - 1) + 1) <= D
      BY <3>1
    <3>4. PICK z \in Nat \ {0} : z = y - 1
      BY <3>1
    <3>5. Within(s, z + 1, D)
      BY <3>1, <3>2, <3>3, <3>4, NextWithin
    <3> QED
      BY <2>2, <3>1, <3>4, <3>5
  <2> QED
    BY <1>1, <2>2, <2>3, <2>4
<1> QED
  BY <1>2

\* Of the records up to one there is one that is farthest from the rate.
LEMMA FarOffIs ==
    ASSUME NEW s, Runs(s), NEW x \in 1..Len(s.data)
    PROVE  FarOff(s, x) \in Nat /\ \A y \in 1..x : OffBy(s, y) <= FarOff(s, x)
<1> DEFINE Far(z, y) == \A w \in 1..y : OffBy(s, w) <= OffBy(s, z)
           T == {y \in 1..x : \A z \in 1..y : ~Far(z, y)}
<1>1. Len(s.data) \in Nat /\ \A y \in 1..x : OffBy(s, y) \in Nat
  <2>1. Len(s.data) \in Nat /\ s.per \in Nat
    BY DEF Runs
  <2>2. ASSUME NEW y \in 1..x
        PROVE  OffBy(s, y) \in Nat
    <3>1. Piece(s, y) \in Record
      BY <2>1 DEF Runs
    <3>2. Piece(s, y).per \in Nat
      BY <3>1 DEF Record
    <3> QED
      BY <2>1, <3>2 DEF OffBy, Difference
  <2> QED
    BY <2>1, <2>2
<1>2. ASSUME T # {}
      PROVE  FALSE
  <2>1. PICK y \in T : \A z \in T : y <= z
    <3>1. T \subseteq Nat
      OBVIOUS
    <3> QED
      BY <1>2, <3>1, LeastIs
  <2>2. y \in 1..x /\ \A z \in 1..y : ~Far(z, y)
    BY <2>1
  <2>3. CASE y = 1
    <3>1. \A w \in 1..1 : w = 1
      OBVIOUS
    <3> QED
      BY <1>1, <2>2, <2>3, <3>1
  <2>4. CASE y > 1
    <3>1. PICK v \in Nat : v = y - 1
      BY <2>2, <2>4
    <3>2. v \in 1..x /\ v \notin T
      <4>1. v \in 1..x /\ ~(y <= v)
        BY <2>2, <2>4, <3>1
      <4> HIDE DEF T
      <4> QED
        BY <2>1, <4>1
    <3>3. PICK z \in 1..v : Far(z, v)
      BY <3>2
    <3>4. \A w \in 1..y : w \in 1..v \/ w = y
      BY <2>2, <3>1
    <3>5. z \in 1..y /\ z \in 1..x /\ y \in 1..y
      BY <2>2, <3>1, <3>3
    <3>6. OffBy(s, z) \in Nat /\ OffBy(s, y) \in Nat /\ \A w \in 1..v : OffBy(s, w) \in Nat
      BY <1>1, <2>2, <3>2, <3>5
    <3>7. Far(z, y) \/ Far(y, y)
      <4>1. \A w \in 1..v : OffBy(s, w) <= OffBy(s, z)
        BY <3>3
      <4>2. CASE OffBy(s, y) <= OffBy(s, z)
        BY <3>4, <4>1, <4>2
      <4>3. CASE OffBy(s, z) <= OffBy(s, y)
        <5>1. ASSUME NEW w \in 1..y
              PROVE  OffBy(s, w) <= OffBy(s, y)
          <6>1. CASE w \in 1..v
            BY <3>6, <4>1, <4>3, <6>1
          <6>2. CASE w = y
            BY <3>6, <6>2
          <6> QED
            BY <3>4, <6>1, <6>2
        <5> QED
          BY <5>1
      <4> QED
        BY <3>6, <4>2, <4>3
    <3> QED
      BY <2>2, <3>5, <3>7
  <2> QED
    BY <2>2, <2>3, <2>4
<1>3. PICK z \in 1..x : Far(z, x)
  <2>1. x \in 1..x
    BY <1>1
  <2> QED
    BY <1>2, <2>1
<1> DEFINE F == {OffBy(s, y) : y \in 1..x}
<1>4. F \subseteq Nat /\ OffBy(s, z) \in F /\ \A f \in F : f <= OffBy(s, z)
  BY <1>1, <1>3
<1> HIDE DEF F
<1>5. Max(F) \in F /\ \A f \in F : Max(F) >= f
  <2>1. \E f \in F : \A w \in F : f >= w
    BY <1>4
  <2> QED
    BY <2>1 DEF Max
<1>6. FarOff(s, x) = Max(F)
  BY DEF FarOff, F, OffBy, Piece
<1>7. \A y \in 1..x : OffBy(s, y) \in F
  BY DEF F
<1> QED
  BY <1>1, <1>4, <1>5, <1>6, <1>7

\* A record is dated by where its first sample is in the segment.
Dated(r) == r.start = Seg(r.seg).start + (r.from - 1) * Seg(r.seg).per
DatedInv ==
    /\ given \in Seq(Record) /\ \A p \in Segments : Runs(Seg(p))
    /\ \A y \in 1..Len(file) : Dated(file[y])

\* What the trace list is known to be is what the dates rest on.
LEMMA DatesStart ==
    ASSUME FileInv, ListTypeOK, Continuous, file = <<>>
    PROVE  DatedInv
<1>1. traces \in Seq(TraceId) /\ given \in Seq(Record)
  BY DEF FileInv, FileTypeOK, ListTypeOK
<1>2. ASSUME NEW p \in Segments
      PROVE  Runs(Seg(p))
  <2> DEFINE s == Seg(p)
  <2>1. /\ p \in Place /\ p[1] \in DOMAIN traces /\ p[2] \in DOMAIN traces[p[1]].segs
    BY <1>1, <1>2, SegmentsArePlaces, SegmentIs, ListRead DEF Place
  <2>2. s \in SegmentOf /\ s.data \in Seq(1..Len(given))
    BY <1>1, <2>1, ListRead DEF ListTypeOK, Seg
  <2>3. /\ s.start = given[s.data[1]].start
        /\ \A x \in 2..Len(s.data) : Adjoins(given[s.data[x-1]], given[s.data[x]])
    BY <1>2 DEF Continuous
  <2>4. s.start \in Int /\ s.per \in Nat
    BY <2>2 DEF SegmentOf
  <2> HIDE DEF s
  <2>5. Len(s.data) \in Nat /\ DOMAIN s.data = 1..Len(s.data)
    BY <2>2, LenProperties
  <2>6. \A x \in 1..Len(s.data) : given[s.data[x]] \in Record
    <3>1. ASSUME NEW x \in 1..Len(s.data)
          PROVE  given[s.data[x]] \in Record
      <4>1. s.data[x] \in 1..Len(given)
        BY <2>2, <3>1, ElementOfSeq
      <4> QED
        BY <1>1, <4>1, ElementOfSeq
    <3> QED
      BY <3>1
  <2> QED
    BY <2>3, <2>4, <2>5, <2>6 DEF Runs, Piece, s
<1>3. Len(file) = 0
  BY EmptySeq
<1> QED
  BY <1>1, <1>2, <1>3 DEF DatedInv

\* The segments stay, and so do the dates of the records in the file.
LEMMA DatesStay ==
    ASSUME DatedInv, UNCHANGED listvars, UNCHANGED file
    PROVE  DatedInv'
BY ListStays DEF DatedInv, Dated, Runs, Piece, listvars, Seg

LEMMA DateAdded ==
    ASSUME FileInv, DatedInv, UNCHANGED listvars, NEW r \in Packed, Handled(r), Dated(r)
    PROVE  DatedInv'
<1>1. /\ file \in Seq(Packed) /\ Len(file) \in Nat /\ file' \in Seq(Packed)
      /\ \/ file' = file
         \/ /\ Len(file') = Len(file) + 1 /\ file'[Len(file) + 1] = r
            /\ \A x \in 1..Len(file) : file'[x] = file[x]
  BY HandedOver, LenProperties DEF FileInv, FileTypeOK
<1>2. \A y \in 1..Len(file') : Dated(file'[y])
  BY <1>1 DEF DatedInv
<1>3. /\ Segments' = Segments /\ given' = given /\ \A p : Seg(p)' = Seg(p)
  BY ListStays DEF listvars
<1>4. (\A y \in 1..Len(file) : Dated(file[y]))'
  BY <1>2, <1>3 DEF Dated
<1>5. (\A p \in Segments : Runs(Seg(p)))'
  BY <1>3 DEF DatedInv, Runs, Piece
<1> QED
  BY <1>3, <1>4, <1>5 DEF DatedInv

LEMMA DateStep ==
    ASSUME FileAssumption, NEW version, FileInv, DatedInv, [WriteMseed(version)]_allwritevars
    PROVE  DatedInv'
<1>1. CASE EmptyRecord(version)
  <2> DEFINE r == [seg |-> seg, from |-> 1, n |-> 0, start |-> Current.start]
  <2>1. /\ out = "segment" /\ seg[1] <= Len(traces) /\ Handled(r) /\ UNCHANGED listvars
    BY <1>1 DEF EmptyRecord, AtSegment
  <2>2. /\ Current = Seg(seg) /\ Current.start \in Int /\ Current.per \in Nat /\ seg \in Place
    BY <2>1, CurrentIs DEF FileInv, FileTypeOK
  <2>3. r \in Packed
    BY <2>2 DEF Packed
  <2>4. (1 - 1) * Current.per = 0
    BY <2>2
  <2>5. Dated(r)
    BY <2>2, <2>4 DEF Dated
  <2> HIDE DEF r
  <2> QED
    BY <2>1, <2>3, <2>5, DateAdded
<1>2. CASE PackRecord
  <2>1. PICK n \in 1..RecordRoom :
            Handled([seg |-> seg, from |-> packed + 1, n |-> n,
                     start |-> Current.start + packed * Current.per])
    BY <1>2 DEF PackRecord
  <2> DEFINE date == Current.start + packed * Current.per
             r    == [seg |-> seg, from |-> packed + 1, n |-> n, start |-> date]
  <2>2. /\ out = "data" /\ seg[1] <= Len(traces) /\ UNCHANGED listvars
    BY <1>2 DEF PackRecord, FileInv, SegmentThere
  <2>3. /\ Current = Seg(seg) /\ Current.start \in Int /\ Current.per \in Nat
        /\ packed \in Nat /\ n \in Nat /\ seg \in Place
    BY <2>2, CurrentIs, FileAssumption DEF FileInv, FileTypeOK
  <2>4. date \in Int /\ packed + 1 - 1 = packed
    BY <2>3
  <2>5. Handled(r)
    BY <2>1
  <2>6. Dated(r)
    BY <2>3, <2>4 DEF Dated
  <2> HIDE DEF date
  <2>7. r \in Packed
    BY <2>3, <2>4 DEF Packed
  <2> HIDE DEF r
  <2> QED
    BY <2>2, <2>5, <2>6, <2>7, DateAdded
<1>3. CASE \/ OpenFails \/ OpenFile \/ BeginSegment(version) \/ HeaderFails(version)
           \/ PackFails \/ NextSegment \/ CloseFile \/ UNCHANGED allwritevars
  <2>1. UNCHANGED listvars /\ UNCHANGED file
    BY <1>3 DEF OpenFails, OpenFile, BeginSegment, HeaderFails, PackFails, NextSegment, CloseFile,
                allwritevars, filevars
  <2> QED
    BY <2>1, DatesStay
<1> QED
  BY <1>1, <1>2, <1>3 DEF WriteMseed

\* Where a record says that a sample is does not depend on the record.
LEMMA DateIs ==
    ASSUME NEW r, r.from \in Int, Dated(r), NEW s, s = Seg(r.seg), Runs(s),
           NEW o \in Nat
    PROVE  r.start + ((o + 1) - r.from) * s.per = s.start + o * s.per
<1> DEFINE f == r.from
           p == s.per
<1>1. f \in Int /\ p \in Int /\ s.start \in Int /\ r.start = s.start + (f - 1) * p
  BY DEF Dated, Runs
<1> HIDE DEF f, p
<1>2. ((f - 1) + ((o + 1) - f)) * p = (f - 1) * p + ((o + 1) - f) * p
  <2>1. f - 1 \in Int /\ (o + 1) - f \in Int
    BY <1>1
  <2> QED
    BY <1>1, <2>1, Distributes
<1>3. (f - 1) + ((o + 1) - f) = o
  BY <1>1
<1>4. (f - 1) * p \in Int /\ ((o + 1) - f) * p \in Int /\ o * p \in Int
  BY <1>1
<1>5. r.start + ((o + 1) - f) * p = s.start + o * p
  BY <1>1, <1>2, <1>3, <1>4
<1> QED
  BY <1>5 DEF f, p

LEMMA DatesAreRight == FileInv /\ DatedInv => SamplesDated
<1>1. SUFFICES ASSUME FileInv, DatedInv, NEW y \in 1..Len(file),
                      NEW x \in DOMAIN Seg(file[y].seg).data
               PROVE  LET r == file[y]
                          s == Seg(r.seg)
                          m == given[s.data[x]]
                          first == Offset(s, x) + 1
                          dated == r.start + (first - r.from) * s.per
                          off   == FarOff(s, x)
                          slow  == s.per + off
                          slack == (x - 1) * (slow \div 2) + slow * Empties(s, x)
                                      + Offset(s, x) * off
                      IN  -slack <= dated - m.start /\ dated - m.start <= slack
  <2>1. file \in Seq(Packed) => DOMAIN file = 1..Len(file)
    BY LenProperties
  <2> QED
    BY <2>1, <1>1, Zenon DEF SamplesDated, FileInv, FileTypeOK
<1> DEFINE r == file[y]
           s == Seg(r.seg)
<1>2. /\ r.from \in Int /\ r.seg \in Segments /\ Dated(r) /\ Runs(s)
  <2>1. r \in Packed
    BY <1>1, ElementOfSeq DEF FileInv, FileTypeOK
  <2> QED
    BY <1>1, <2>1 DEF FileInv, InOrder, DatedInv, Packed
<1>3. x \in 1..Len(s.data)
  <2>1. s \in SegmentOf
    <3> DEFINE p == r.seg
    <3>1. traces \in Seq(TraceId) /\ p \in Segments
      BY <1>1, <1>2 DEF FileInv, FileTypeOK
    <3> HIDE DEF p
    <3>2. p \in Place
      BY <3>1, SegmentsArePlaces
    <3>3. p[1] \in 1..Len(traces) /\ p[2] \in 1..Len(traces[p[1]].segs)
      BY <3>1, <3>2, SegmentIs, ListRead DEF Place
    <3>4. Seg(p) \in SegmentOf
      BY <3>1, <3>3, ListRead DEF Seg
    <3> QED
      BY <3>4 DEF p
  <2>2. s.data \in Seq(Nat)
    BY <2>1 DEF SegmentOf
  <2> QED
    BY <1>1, <2>2, LenProperties
<1> DEFINE D == FarOff(s, x)
<1>4. Within(s, x, D)
  <2> HIDE DEF s, D
  <2>1. D \in Nat /\ \A w \in 1..x : OffBy(s, w) <= D
    BY <1>2, <1>3, FarOffIs DEF D
  <2> QED
    BY <1>2, <1>3, <2>1, AllWithin
<1>5. Offset(s, x) \in Nat
  BY <1>4, FS_CardinalityType DEF Within, Offset
<1>6. r.start + ((Offset(s, x) + 1) - r.from) * s.per = s.start + Offset(s, x) * s.per
  <2>1. s = Seg(r.seg)
    OBVIOUS
  <2> HIDE DEF r, s
  <2> QED
    BY <1>2, <1>5, <2>1, DateIs
<1> HIDE DEF r, s, D
<1>7. /\ -Slack(s, x, D) <= s.start + Offset(s, x) * s.per - given[s.data[x]].start
      /\ s.start + Offset(s, x) * s.per - given[s.data[x]].start <= Slack(s, x, D)
  BY <1>4 DEF Within, Drift, Piece
<1>8. LET first == Offset(s, x) + 1
          dated == r.start + (first - r.from) * s.per
      IN  /\ -Slack(s, x, D) <= dated - given[s.data[x]].start
          /\ dated - given[s.data[x]].start <= Slack(s, x, D)
  <2> DEFINE o == Offset(s, x) * s.per
             d == ((Offset(s, x) + 1) - r.from) * s.per
             m == given[s.data[x]]
  <2>1. m \in Record /\ s.start \in Int /\ s.per \in Nat
    BY <1>2, <1>3 DEF Runs, Piece
  <2>2. o \in Int /\ m.start \in Int
    BY <1>5, <2>1 DEF Record
  <2>3. r.start + d = s.start + o
    BY <1>6
  <2>4. -Slack(s, x, D) <= s.start + o - m.start /\ s.start + o - m.start <= Slack(s, x, D)
    BY <1>7
  <2>5. -Slack(s, x, D) <= (r.start + d) - m.start /\ (r.start + d) - m.start <= Slack(s, x, D)
    <3> HIDE DEF o, d, m
    <3> QED
      BY <2>1, <2>2, <2>3, <2>4
  <2> QED
    BY <2>5
<1>9. Slack(s, x, D) = (x - 1) * ((s.per + D) \div 2) + (s.per + D) * Empties(s, x)
                          + Offset(s, x) * D
  BY DEF Slack
<1> QED
  BY <1>8, <1>9, Zenon DEF r, s, D

\* Of a trace list that mstl3_addmsr() has built, every sample in the file is
\* dated as in the record it came in, however many records were joined before
\* it, up to the tolerance that each of them was joined with and what the
\* rates of the samples before it differ by.
THEOREM SamplesAreDated ==
    ASSUME NEW version
    PROVE  ListTypeOK /\ Continuous /\ WriteSpec(version) => []SamplesDated
<1>1. WriteSpec(version) => FileInv
  BY FileStarts DEF WriteSpec
<1>2. WriteSpec(version) => file = <<>>
  BY DEF WriteSpec, FileInit
<1>3. FileInv /\ [WriteMseed(version)]_allwritevars => FileInv'
  BY FileStep, FileAssumption
<1>4. FileInv /\ ListTypeOK /\ Continuous /\ file = <<>> => DatedInv
  BY DatesStart
<1>5. FileInv /\ DatedInv /\ [WriteMseed(version)]_allwritevars => DatedInv'
  BY DateStep, FileAssumption
<1>6. FileInv /\ DatedInv => SamplesDated
  BY DatesAreRight
<1> QED
  BY <1>1, <1>2, <1>3, <1>4, <1>5, <1>6, PTL DEF WriteSpec
=============================================================================
