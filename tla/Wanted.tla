-------------------------------- MODULE Wanted --------------------------------
(***************************************************************************)
(* What is asked for with a file of selections, as the comments of         *)
(* selection.c describe it: every line is a request, and a record is       *)
(* wanted if any request asks for it.  A request says what is meant and    *)
(* how it is written, a pattern is a sequence of items.                    *)
(***************************************************************************)
EXTENDS Selection

\* Items: any one byte, any bytes, one byte, a byte (not) in one of some ranges.
AnyByte       == [is |-> "any", byte |-> "", ranges |-> <<>>]
AnyBytes      == [is |-> "all", byte |-> "", ranges |-> <<>>]
Byte(byte)    == [is |-> "byte", byte |-> byte, ranges |-> <<>>]
In(ranges)    == [is |-> "in", byte |-> "", ranges |-> ranges]
NotIn(ranges) == [is |-> "notin", byte |-> "", ranges |-> ranges]

WrittenRange(range) ==
    IF range[1] = range[2] THEN <<range[1]>> ELSE <<range[1], Hyphen, range[2]>>
Bracketed(head, ranges) ==
    head \o FlattenSeq([x \in DOMAIN ranges |-> WrittenRange(ranges[x])]) \o <<Closing>>
WrittenItem(item) ==
    CASE item.is = "any"   -> <<Query>>
      [] item.is = "all"   -> <<Star>>
      [] item.is = "byte"  -> IF item.byte \in {Star, Query, Opening, Escape}
                              THEN <<Escape, item.byte>> ELSE <<item.byte>>
      [] item.is = "in"    -> Bracketed(<<Opening>>, item.ranges)
      [] item.is = "notin" -> Bracketed(<<Opening, Caret>>, item.ranges)
Written(items) == FlattenSeq([x \in DOMAIN items |-> WrittenItem(items[x])])

\* An item stands for some bytes; the items of a pattern reach from place to
\* place of a string.
InRanges(byte, ranges) ==
    \E x \in DOMAIN ranges :
        byte \in {ranges[x][1], ranges[x][2]} \/ Rank(byte) \in Rank(ranges[x][1])..Rank(ranges[x][2])
StandsFor(item, bytes) ==
    CASE item.is = "all"   -> TRUE
      [] item.is = "any"   -> Len(bytes) = 1
      [] item.is = "byte"  -> bytes = <<item.byte>>
      [] item.is = "in"    -> Len(bytes) = 1 /\ InRanges(bytes[1], item.ranges)
      [] item.is = "notin" -> Len(bytes) = 1 /\ ~InRanges(bytes[1], item.ranges)
Fits(items, string) ==
    LET reached[x \in 0..Len(items)] ==
            IF x = 0 THEN {0}
            ELSE UNION {{b \in a..Len(string) : StandsFor(items[x], SubSeq(string, a + 1, b))} :
                           a \in reached[x - 1]}
    IN  Len(string) \in reached[Len(items)]

\* What can be written so: a bracket is not closed before its end, and a hyphen
\* stands for itself only at its beginning.
RangesOK(ranges) ==
    /\ ranges \in Seq(Bytes \X Bytes) /\ ranges # <<>>
    /\ \A x \in DOMAIN ranges :
          /\ Closing \notin {ranges[x][1], ranges[x][2]}
          /\ Hyphen = ranges[x][1] => x = 1
          /\ Hyphen = ranges[x][2] => ranges[x][1] = Hyphen
ItemOK(item) ==
    \/ item \in {AnyByte, AnyBytes}
    \/ item.byte \in Bytes /\ item = Byte(item.byte)
    \/ RangesOK(item.ranges) /\ item = In(item.ranges) /\ item.ranges[1][1] # Caret
    \/ RangesOK(item.ranges) /\ item = NotIn(item.ranges)
PatternOK(items) ==
    items \in Seq({items[x] : x \in DOMAIN items}) /\ \A x \in DOMAIN items : ItemOK(items[x])

-----------------------------------------------------------------------------
(* Requests: by identifier, by codes, or a line that asks for nothing *)

Word(items)  == [kind |-> "pattern", text |-> Written(items), value |-> 0]
Number(n)    == [kind |-> "number", text |-> <<"9">>, value |-> n]
Date(t)      == [kind |-> "date", text |-> <<"9">>, value |-> t]
Dates(start, end) ==
    (IF start = Anytime THEN <<>> ELSE <<Date(start)>>) \o (IF end = Anytime THEN <<>> ELSE <<Date(end)>>)

BySource(items, start, end, pub) ==
    [form |-> "source", sid |-> items, codes |-> <<>>, start |-> start, end |-> end, pub |-> pub,
     words |-> <<Word(items)>> \o Dates(start, end) \o (IF pub > 0 THEN <<Number(pub)>> ELSE <<>>)]

\* The codes are those of network, station, location and channel, the channel
\* by three items or as it stands; the version may be a letter instead.
Between(items) == <<items[1], Byte(Mark), items[2], Byte(Mark), items[3]>>
Blank == <<Byte(Hyphen), Byte(Hyphen)>>
Location(items) == IF items = Blank THEN <<>> ELSE items
Channel(items)  == IF Len(Written(items)) = 3 THEN Between(items) ELSE items
ByCodes(codes, start, end, pub) ==
    [form |-> "codes", codes |-> codes, start |-> start, end |-> end, pub |-> pub,
     sid |-> codes[1] \o <<Byte(Mark)>> \o codes[2] \o <<Byte(Mark)>> \o Location(codes[3])
                \o <<Byte(Mark)>> \o Channel(codes[4]),
     words |-> [x \in 1..4 |-> Word(codes[x])]
                  \o (IF pub > 0 THEN <<Number(pub)>>
                      ELSE IF start # Anytime THEN <<Word(<<Byte("A")>>)>> ELSE <<>>)
                  \o Dates(start, end)]
Remark(words) ==
    [form |-> "remark", sid |-> <<>>, codes |-> <<>>, start |-> Anytime, end |-> Anytime,
     pub |-> 0, words |-> words]

\* A request asks for a record if they share a moment.
Meets(request, rec) ==
    /\ request.start = Anytime \/ rec.end >= request.start
    /\ request.end = Anytime \/ rec.start <= request.end
Asks(request, rec) ==
    /\ request.form # "remark"
    /\ Fits(request.sid, rec.sid)
    /\ Meets(request, rec)
    /\ request.pub \in {0, rec.pub}

Unreadable(requests) ==
    \E x \in DOMAIN requests : BadDate \in {requests[x].start, requests[x].end} \/ requests[x].pub > 255

\* Code by code: what is asked for so is asked for as an identifier, if the
\* channel is asked for by three bytes, one for each of its codes, or by a
\* pattern that is none for three bytes, or may be any.
Starless(items) == \A x \in DOMAIN items : items[x] # AnyBytes
OneEach(items) ==
    IF Len(Written(items)) = 3 THEN Starless(items)
    ELSE items = <<AnyBytes>> \/ (Len(items) # 3 /\ Starless(items))
Named(request, c) ==
    /\ request.form = "codes" /\ OneEach(request.codes[4])
    /\ Fits(request.codes[1], c.net) /\ Fits(request.codes[2], c.sta)
    /\ Fits(Location(request.codes[3]), c.loc) /\ Fits(request.codes[4], c.chan)

\* Without requests all is wanted.
IsWanted(requests, rec) ==
    \/ \A x \in DOMAIN requests : requests[x].form = "remark"
    \/ \E x \in DOMAIN requests : Asks(requests[x], rec)

-----------------------------------------------------------------------------
(* Requests that can be written so and understood *)

\* A word is not empty, and a line does not begin as a comment does.
Begun(text) == text # <<>> /\ text[1] # Hash

\* An end is written behind a start only, a version behind both.
DatesOK(request) ==
    /\ {request.start, request.end} \subseteq Nat \union {Anytime, BadDate} /\ request.pub \in Nat
    /\ request.end # Anytime => request.start # Anytime
SourceOK(request) ==
    /\ request = BySource(request.sid, request.start, request.end, request.pub)
    /\ PatternOK(request.sid) /\ DatesOK(request) /\ Begun(Written(request.sid))
    /\ request.pub > 0 => Anytime \notin {request.start, request.end}

\* What is written with three bytes for a channel is one byte for each code.
CodesOK(request) ==
    /\ DOMAIN request.codes = 1..4
    /\ request = ByCodes(request.codes, request.start, request.end, request.pub)
    /\ PatternOK(request.sid) /\ DatesOK(request)
    /\ \A x \in 1..4 : PatternOK(request.codes[x]) /\ Written(request.codes[x]) # <<>>
    /\ Begun(Written(request.codes[1]))
    /\ Written(request.codes[3]) = <<Hyphen, Hyphen>> => request.codes[3] = Blank
    /\ Len(Written(request.codes[4])) = 3 => Len(request.codes[4]) = 3
RemarkOK(request) ==
    /\ request = Remark(request.words)
    /\ LET fields == SubSeq(request.words, 1, Min({Len(request.words), MaxFields}))
       IN  \/ IsComment(request.words)
           \/ /\ ~IsSource(fields) /\ ~IsCodes(fields)
              /\ BadDate \notin {DateAt(fields, 2, 6), DateAt(fields, 3, 7)}
RequestOK(request) == SourceOK(request) \/ CodesOK(request) \/ RemarkOK(request)

\* Requests that are not cut: their line, their codes and their pattern have
\* room.  Of any other, something else may be made without an error.
RequestFits(request) ==
    /\ Width(request.words) <= LineRoom
    /\ \A x \in DOMAIN request.codes : Len(Written(request.codes[x])) < CodeRoom
    /\ Len(Written(request.sid)) < PatternRoom
NoneCut(requests) == \A x \in DOMAIN requests : RequestFits(requests[x])

RecordOK(rec) ==
    /\ rec.sid \in Seq(Bytes)
    /\ {rec.start, rec.end, rec.pub} \subseteq Nat /\ rec.start <= rec.end

\* An identifier of six codes, the last three not of one byte in all.
SixCodes(sid) ==
    /\ \A x \in DOMAIN sid : sid[x] # ":"
    /\ Cardinality(Marks(sid)) = 5
    /\ Len(sid) - MarkAfter(sid, MarkAfter(sid, MarkAfter(sid, 0))) # 3
=============================================================================
