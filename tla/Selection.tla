------------------------------ MODULE Selection ------------------------------
(***************************************************************************)
(* Selections of data (selection.c): which records of a file are wanted,   *)
(* by source identifier, time and publication version.                     *)
(*                                                                         *)
(* A word of a line is given by its kind, "pattern", "date" or "number",   *)
(* its text and its value.  Times are numbers; Anytime stands for NSTERROR, *)
(* which leaves a window open, and BadDate for a date that is none.  A date *)
(* or a number counts for one byte of its line.                            *)
(***************************************************************************)
EXTENDS SourceId

CONSTANTS
    Ascending,     \* the bytes in use, in the order of their values
    PatternRoom,   \* sidpattern[100], less the five bytes of the namespace
    CodeRoom,      \* selnet[20], selsta[20], selloc[20], selchan[20]
    LineRoom       \* bytes that fgets() reads into selectline[200], 198

Bytes == {Ascending[x] : x \in DOMAIN Ascending}
ASSUME BytesAssumption == Ascending \in Seq(Bytes) /\ Mark \in Bytes

\* Four codes and what stands between them have room in a pattern, so that
\* ms_nslc2sid() never refuses them, and an extended channel in a code.
ASSUME RoomAssumption ==
    /\ {PatternRoom, CodeRoom, LineRoom} \subseteq Nat \ {0}
    /\ 4 * (CodeRoom - 1) + 3 < PatternRoom /\ 5 < CodeRoom

Anytime == -1
BadDate == -2

-----------------------------------------------------------------------------
(* Patterns: ms_globmatch() *)

Rank(byte) == CHOOSE x \in DOMAIN Ascending : Ascending[x] = byte
AtLeast(byte, low) == Rank(byte) >= Rank(low)
Within(byte, low, high) ==
    byte \in {low, high} \/ (Rank(low) < Rank(byte) /\ Rank(byte) < Rank(high))

\* Bytes with a meaning.
Star    == "*"
Query   == "?"
Opening == "["
Closing == "]"
Caret   == "^"
Hyphen  == "-"
Escape  == "\\"

\* The places of a set where a byte or a range begins, and whether a byte is
\* in the set: a hyphen at the end leaves a range open.
BeginsAt(set, x, begun) ==
    \/ x = 1
    \/ x - 1 \in begun /\ set[x] # Hyphen
    \/ x - 2 \in begun /\ set[x - 1] = Hyphen
Begins(set) ==
    LET begun[x \in 0..Len(set)] ==
            IF x = 0 THEN {} ELSE begun[x - 1] \union {y \in {x} : BeginsAt(set, y, begun[x - 1])}
    IN  begun[Len(set)]
InSet(byte, set) ==
    \E x \in Begins(set) :
        \/ byte = set[x]
        \/ /\ x < Len(set) /\ set[x + 1] = Hyphen
           /\ IF x + 1 = Len(set) THEN AtLeast(byte, set[x]) ELSE Within(byte, set[x], set[x + 2])

\* Where a set that begins at x, behind the bracket and the caret, is closed.
Closings(pattern, x) == {y \in x + 1..Len(pattern) : pattern[y] = Closing}
SetFrom(pattern, p) == IF p < Len(pattern) /\ pattern[p + 1] = Caret THEN p + 2 ELSE p + 1

\* Whether the string from s on matches the pattern from p on, told by the
\* function for places further on in the pattern.
MatchSet(string, pattern, s, p, from) ==
    LET x == SetFrom(pattern, p)
        end == Min(Closings(pattern, x))
    IN  /\ Closings(pattern, x) # {}
        /\ InSet(string[s], SubSeq(pattern, x, end - 1)) <=> x = p + 1
        /\ from[<<s + 1, end + 1>>]
Escapes(pattern, p) == pattern[p] = Escape /\ p < Len(pattern)
MatchOne(string, pattern, s, p, from) ==
    \/ pattern[p] = Query /\ from[<<s + 1, p + 1>>]
    \/ pattern[p] = Opening /\ MatchSet(string, pattern, s, p, from)
    \/ Escapes(pattern, p) /\ pattern[p + 1] = string[s] /\ from[<<s + 1, p + 2>>]
    \/ /\ pattern[p] \notin {Query, Opening} /\ ~Escapes(pattern, p)
       /\ pattern[p] = string[s] /\ from[<<s + 1, p + 1>>]
MatchFrom(string, pattern, s, p, from) ==
    IF p > Len(pattern) THEN s > Len(string)
    ELSE IF pattern[p] = Star
    THEN \/ \A x \in p..Len(pattern) : pattern[x] = Star
         \/ \E x \in s..Len(string) : from[<<x, p + 1>>]
    ELSE s <= Len(string) /\ MatchOne(string, pattern, s, p, from)
Glob(string, pattern) ==
    LET from[place \in (1..Len(string) + 1) \X (1..Len(pattern) + 1)] ==
            MatchFrom(string, pattern, place[1], place[2], from)
    IN  from[<<1, 1>>]

-----------------------------------------------------------------------------
(* The list: an entry for a pattern and a version, with its windows *)

\* strncpy() into an array: what has no room is cut off without a word.
Kept(text, room) == IF Len(text) < room THEN text ELSE SubSeq(text, 1, room - 1)

\* ms3_addselect(): to an entry that is there, or as a new one, in front.  The
\* pattern is looked for as it stands, and kept as far as there is room.
AddSelect(list, pattern, start, end, pub) ==
    LET window  == <<[start |-> start, end |-> end]>>
        matches == {x \in DOMAIN list : list[x].pattern = pattern /\ list[x].pub = pub}
    IN  IF matches = {}
        THEN <<[pattern |-> Kept(pattern, PatternRoom), pub |-> pub, windows |-> window]>> \o list
        ELSE [list EXCEPT ![Min(matches)].windows = window \o @]

\* ms3_addselect_comp(): a location of two hyphens is blank, a channel of three
\* letters, digits or wildcards is written as an extended one, the other codes
\* are kept as far as there is room.
Lettered(byte) ==
    byte \in {Query, Star} \/ Within(byte, "a", "z") \/ Within(byte, "A", "Z") \/ Within(byte, "0", "9")
AddSelectComp(list, net, sta, loc, chan, start, end, pub) ==
    AddSelect(list,
              Nslc2Sid([net |-> Kept(net, CodeRoom), sta |-> Kept(sta, CodeRoom),
                        loc |-> IF loc = <<Hyphen, Hyphen>> THEN <<>> ELSE Kept(loc, CodeRoom),
                        chan |-> IF Len(chan) = 3 /\ \A x \in 1..3 : Lettered(chan[x])
                                 THEN Extended(chan) ELSE Kept(chan, CodeRoom)], PatternRoom),
              start, end, pub)

\* ms3_readselectionsfile(), for a line of words: what becomes of the list, or
\* BadLine.  A comment and a line that is not understood are passed over.
MaxFields == 8
BadLine   == <<[pattern |-> <<>>, pub |-> BadDate, windows |-> <<>>]>>
HasDate(fields, x) == x <= Len(fields) /\ fields[x].kind = "date"
DateAt(fields, x, y) ==
    IF HasDate(fields, x) THEN fields[x].value
    ELSE IF HasDate(fields, y) THEN fields[y].value ELSE Anytime
IsSource(fields) ==
    \/ Len(fields) = 1
    \/ Len(fields) = 2 /\ HasDate(fields, 2)
    \/ Len(fields) = 3 /\ HasDate(fields, 2) /\ HasDate(fields, 3)
    \/ /\ Len(fields) = 4 /\ HasDate(fields, 2) /\ HasDate(fields, 3)
       /\ fields[4].kind = "number"
IsCodes(fields) ==
    \/ Len(fields) \in {4, 5}
    \/ Len(fields) = 6 /\ HasDate(fields, 6)
    \/ Len(fields) = 7 /\ HasDate(fields, 6) /\ HasDate(fields, 7)
Version(fields, x) ==
    IF x <= Len(fields) /\ fields[x].kind = "number" THEN fields[x].value ELSE 0

ReadFields(list, fields) ==
    LET start == DateAt(fields, 2, 6)
        end   == DateAt(fields, 3, 7)
        pub   == IF IsSource(fields) THEN Version(fields, 4) ELSE Version(fields, 5)
    IN  IF BadDate \in {start, end} THEN BadLine
        ELSE IF IsSource(fields) /\ pub \in 0..255
        THEN AddSelect(list, fields[1].text, start, end, pub)
        ELSE IF ~IsSource(fields) /\ IsCodes(fields) /\ pub \in 0..255
        THEN AddSelectComp(list, fields[1].text, fields[2].text, fields[3].text, fields[4].text,
                           start, end, pub)
        ELSE IF IsSource(fields) \/ IsCodes(fields) THEN BadLine
        ELSE list
Hash == "#"
IsComment(line) == line # <<>> /\ line[1].text[1] = Hash
ReadWords(list, line) ==
    IF IsComment(line) THEN list ELSE ReadFields(list, SubSeq(line, 1, Min({Len(line), MaxFields})))

\* A line that is too long for the array is read in stretches, each as a line
\* of its own: the k-th has of every word the bytes that stand in it.
Places(line) ==
    LET place[x \in 1..Len(line) + 1] ==
            IF x = 1 THEN 0 ELSE place[x - 1] + Len(line[x - 1].text) + 1
    IN  place
Width(line) == Places(line)[Len(line) + 1] - 1
Stretch(line, k) ==
    LET before(x) == (k - 1) * LineRoom - Places(line)[x]
        part(x)   == SubSeq(line[x].text, Max({0, before(x)}) + 1,
                            Min({Len(line[x].text), before(x) + LineRoom}))
    IN  SelectSeq([x \in DOMAIN line |-> [line[x] EXCEPT !.text = part(x)]],
                  LAMBDA word : word.text # <<>>)
Stretches(line) == [k \in 1..((Width(line) - 1) \div LineRoom) + 1 |-> Stretch(line, k)]
ReadLine(list, line) ==
    IF Width(line) <= LineRoom THEN ReadWords(list, line)
    ELSE FoldLeft(LAMBDA read, stretch : IF read = BadLine THEN read ELSE ReadWords(read, stretch),
                  list, Stretches(line))

\* ms3_readtracelist_timewin(): any identifier, one window.
TimeWindow(start, end) == AddSelect(<<>>, <<Star>>, start, end, 0)

-----------------------------------------------------------------------------
(* ms3_matchselect() *)

\* Slip: a record that begins before the window is not looked at again.
MustBeginWithin(rec, window) ==
    /\ window.start = Anytime \/ rec.start >= window.start
    /\ window.end = Anytime \/ rec.start <= window.end

InWindow(rec, window) ==
    /\ \/ Anytime \in {rec.start, window.start}
       \/ ~(rec.start < window.start /\ ~(rec.start <= window.start /\ rec.end >= window.start))
    /\ \/ Anytime \in {rec.end, window.end}
       \/ ~(rec.end > window.end /\ ~(rec.start <= window.end /\ rec.end >= window.end))

MatchSelect(list, rec) ==
    \E x \in DOMAIN list :
        /\ Glob(rec.sid, list[x].pattern)
        /\ list[x].pub > 0 => list[x].pub = rec.pub
        /\ list[x].windows = <<>> \/ \E y \in DOMAIN list[x].windows : InWindow(rec, list[x].windows[y])
=============================================================================
