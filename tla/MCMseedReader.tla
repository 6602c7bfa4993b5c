---------------------------- MODULE MCMseedReader ----------------------------
(***************************************************************************)
(* Small files, paths and selections for MseedReader.  A cell stands for   *)
(* sixteen bytes, more or less: the shortest record has two, a header of   *)
(* version 2 three, the buffer thirteen.                                   *)
(***************************************************************************)
EXTENDS MseedReader

MCAscending ==
    <<"#", "*", "-", "0", "9", "?", "A", "B", "H", "N", "S", "T", "Z", "[", "\\", "]", "^", "_", "a", "z">>

\* Identifiers.
SidOf(net, sta, loc, chan) ==
    net \o <<"_">> \o sta \o <<"_">> \o loc \o <<"_">> \o Extended(chan)
BHZ == <<"B", "H", "Z">>
BHN == <<"B", "H", "N">>
A == SidOf(<<"A">>, <<"S">>, <<>>, BHZ)
B == SidOf(<<"B">>, <<"S">>, <<>>, BHZ)
Sids ==
    {A, B, SidOf(<<"A">>, <<"S", "T">>, <<"0">>, BHZ), SidOf(<<"B">>, <<"S">>, <<"0">>, BHN), <<"A", "_", "S">>}

MCTried ==
    {[sid |-> sid, start |-> span[1], end |-> span[2], pub |-> pub] :
        sid \in Sids, span \in {<<2, 4>>, <<5, 5>>, <<6, 9>>, <<1, 9>>}, pub \in {1, 2}}

-----------------------------------------------------------------------------
(* Files *)

NoBlocks == <<>>
Rec(len, blocks, sid) ==
    [len |-> len, blocks |-> blocks, sound |-> TRUE, data |-> TRUE,
     sid |-> sid, start |-> 2, end |-> 4, pub |-> 1]
Piece(kind, rec, cells) ==
    <<[kind |-> kind, rec |-> rec]>> \o [x \in 1..cells - 1 |-> [kind |-> "rest", rec |-> NoBlocks]]
Block(type, next) == [type |-> type, next |-> next]

B1000  == 3 :> Block(1000, 0)
Second == 3 :> Block(100, 5) @@ 5 :> Block(1000, 0)
Other  == 3 :> Block(100, 0)
Looped == 3 :> Block(100, 3)

V3Short  == Piece("v3", Rec(3, NoBlocks, A), 3)
V3Long   == Piece("v3", Rec(5, NoBlocks, B), 5)
V2       == Piece("v2", Rec(8, B1000, A), 8)
V2Second == Piece("v2", Rec(8, Second, B), 8)
V2Open   == Piece("v2", Rec(4, NoBlocks, A), 4)
V2Other  == Piece("v2", Rec(8, Other, B), 8)
V2Looped == Piece("v2", Rec(8, Looped, A), 8)
V2Tiny   == Piece("v2", Rec(1, B1000, A), 5)
V3Huge   == Piece("v3", Rec(20, NoBlocks, A), 2)
Unsound  == Piece("v3", [Rec(3, NoBlocks, A) EXCEPT !.sound = FALSE], 3)
Mangled  == Piece("v3", [Rec(4, NoBlocks, A) EXCEPT !.data = FALSE], 4)
Junk     == Piece("rest", Rec(1, NoBlocks, A), 2)

Pieces == {V3Short, V3Long, V2, V2Second, V2Open, V2Other, V2Looped, V2Tiny, V3Huge,
           Unsound, Mangled, Junk}
Files(n)  == {FlattenSeq(pieces) : pieces \in [1..n -> Pieces]}
Torn(cells) == SubSeq(cells, 1, Len(cells) - 1)
Longer == {V2 \o V2 \o V2 \o V2 \o V2,                  \* regular
           V3Long \o V3Long \o V2 \o V3Short,           \* a header at the edge
           V2Open \o V2Open \o V2Open \o V2Open,        \* 16 cells without lengths
           V2 \o V2Second \o V3Long \o V2Other \o V2,
           V2 \o V3Short \o V3Short \o V2Other}         \* a length unknown in a full buffer

-----------------------------------------------------------------------------
(* Requests *)

X == Byte("A")
U == Byte("_")
All == <<AnyBytes>>
AZ == In(<<<<"A", "Z">>>>)
Exactly(sid) == [x \in DOMAIN sid |-> Byte(sid[x])]
Patterns ==
    {All, <<AnyBytes, AnyBytes>>, Exactly(A), <<X, U, AnyBytes>>,
     <<AnyByte, U, Byte("S"), U, AnyBytes>>,
     <<In(<<<<"A", "B">>>>), U, Byte("S"), AnyBytes>>,
     <<In(<<<<"N", "A">>>>), AnyBytes, Byte("Z")>>,
     <<NotIn(<<<<"A", "A">>, <<"S", "Z">>>>), AnyBytes>>,
     <<AnyBytes, Byte("H"), AnyBytes, Byte("Z")>>,
     <<AnyBytes, In(<<<<"-", "-">>, <<"0", "9">>, <<"T", "T">>>>), U, AnyBytes, AnyByte>>,
     <<Byte("?"), AnyBytes>>}
Codes ==
    {<< <<X>>, All, Blank, Exactly(BHZ) >>, << All, <<Byte("S"), AnyBytes>>, All, <<Byte("B"), AnyByte, Byte("Z")>> >>,
     << <<AnyByte>>, <<Byte("S")>>, <<Byte("0")>>, All >>,
     << <<X>>, <<Byte("S")>>, Blank, Exactly(Extended(BHZ)) >>, <<All, All, All, All>>,
     <<All, All, All, <<Byte("B"), Byte("H"), AnyBytes>> >>,
     <<All, All, All, <<In(<<<<"A", "B">>>>), AnyByte, Byte("Z")>> >>}
Misread ==
    {Remark(<<Word(<<X>>), Word(<<X>>), Word(<<X>>)>>),
     Remark(<<Word(<<X>>), Word(<<X>>), Word(<<X>>), Word(All), Number(1), Word(All)>>),
     Remark([x \in 1..9 |-> Word(All)]), Remark(<<Word(All), Word(<<X>>)>>),
     Remark(<<Word(<<Byte("#"), X>>)>>), Remark(<<Word(<<Byte("#")>>), Word(All), Word(All), Word(All)>>)}

Windows == {<<5, Anytime>>, <<3, 5>>, <<5, 5>>}
Requests ==
    {BySource(items, Anytime, Anytime, 0) : items \in Patterns}
    \union {BySource(items, w[1], w[2], 0) : items \in {All, Exactly(A)}, w \in Windows}
    \union {BySource(All, 3, 5, pub) : pub \in {2, 255, 256}}
    \union {BySource(All, BadDate, Anytime, 0)}
    \union {ByCodes(codes, Anytime, Anytime, pub) : codes \in Codes, pub \in {0, 2}}
    \union {ByCodes(<<All, All, All, All>>, w[1], w[2], pub) : w \in Windows, pub \in {0, 2}}
    \union Misread

\* As long as there is room, and longer: a pattern, a code and a line.
Digit0to9 == <<"0", "9">>
LongPatterns ==
    {<<AZ, U, AZ, U, U, AZ, U, AZ, U, AZ, AnyBytes>>,
     <<AZ, U, AZ, U, U, AZ, U, AZ, U, In(<<Digit0to9, <<"A", "Z">>>>)>>}
LongCodes ==
    {<< All, <<NotIn(<<Digit0to9, <<"A", "A">>>>)>>, All, All >>,
     << All, <<NotIn(<<Digit0to9, <<"A", "A">>>>), AnyBytes>>, All, All >>,
     << <<AZ, AnyBytes, AZ>>, All, <<AZ, AnyBytes, AZ>>, <<AZ, U, AZ, U, AZ>> >>,
     << <<AZ>>, <<AZ, AnyBytes>>, <<AZ, AnyBytes>>, <<AZ, AZ, AnyByte, AZ>> >>}
LongRequests ==
    {BySource(items, Anytime, Anytime, 0) : items \in LongPatterns}
    \union {BySource(items, 3, 5, 2) : items \in LongPatterns}
    \union {ByCodes(codes, Anytime, Anytime, pub) : codes \in LongCodes, pub \in {0, 2, 256}}

OnlyA == <<BySource(Exactly(A), Anytime, Anytime, 0)>>

-----------------------------------------------------------------------------
(* Inputs *)

Plain(cells, skip, requests) ==
    [path |-> <<"f">>, name |-> <<"f">>, ranged |-> TRUE, missing |-> FALSE, from |-> 0, to |-> 0,
     cells |-> cells, skip |-> skip, unpack |-> TRUE, requests |-> requests, window |-> FALSE,
     fails |-> {}]

Read(cells) == {Plain(cells, skip, requests) : skip \in BOOLEAN, requests \in {<<>>, OnlyA}}
Reads ==
    UNION {Read(cells) : cells \in Longer \union UNION {Files(n) : n \in 1..3}}
    \union UNION {Read(Torn(cells)) : cells \in Longer \union Files(1) \union Files(2)}
    \union {Plain(<<>>, FALSE, <<>>)}

Sample == V3Short \o V2 \o V3Long
Ranges ==
    {<<<<"f">>, 0, 0>>, <<<<"f", "@">>, 0, 0>>, <<<<"f", "@", "2">>, 2, 0>>, <<<<"f", "@", "1", "1">>, 11, 0>>,
     <<<<"f", "@", "-", "1", "0">>, 0, 10>>, <<<<"f", "@", "1", "-", "1", "2">>, 1, 12>>,
     <<<<"f", "@", "9", "9", "-">>, 99, 0>>, <<<<"f", "@", "0", "-", "9">>, 0, 9>>}
NoRanges ==
    {<<"f", "@", "A">>, <<"f", "@", "1", "-", "2", "-">>, <<"f", "@", "1", "0", "0">>, <<"f", "@", "-", "A">>}
Opened ==
    {[Plain(cells, skip, <<>>) EXCEPT !.path = r[1], !.from = r[2], !.to = r[3]] :
        cells \in {Sample} \union Longer, r \in Ranges, skip \in BOOLEAN}
    \union {[Plain(Sample, TRUE, <<>>) EXCEPT !.path = p, !.name = p] : p \in NoRanges}
    \union {[Plain(Sample, TRUE, <<>>) EXCEPT !.path = p, !.missing = TRUE] : p \in NoRanges}
    \union {[Plain(Sample, TRUE, <<>>) EXCEPT !.path = <<"f", "@", "2">>, !.name = <<"f", "@", "2">>, !.ranged = FALSE],
            [Plain(Sample, TRUE, <<>>) EXCEPT !.unpack = FALSE],
            [Plain(Mangled \o V2, TRUE, <<>>) EXCEPT !.unpack = FALSE]}
    \union {[Plain(cells, TRUE, <<>>) EXCEPT !.fails = fails] :
               cells \in {Sample} \union Longer, fails \in {{"disk"}, {"list"}}}

Asked ==
    {Plain(V3Short, FALSE, <<r>>) : r \in Requests}
    \union {Plain(V3Short, FALSE, <<r, s>>) : r \in Requests, s \in Requests}
    \union {Plain(V3Short, FALSE, <<r>>) : r \in LongRequests}
    \union {Plain(V3Short, FALSE, <<r, s>>) : r \in LongRequests, s \in LongRequests}
    \union {[Plain(V3Short, FALSE, <<BySource(All, w[1], w[2], 0)>>) EXCEPT !.window = TRUE] : w \in Windows}

MCInputs == Reads \union Opened \union Asked
MCInit == \E in \in Inputs : ReaderInit(in)
Stopped == pc = "done" /\ UNCHANGED vars
MCNext == ReaderNext \/ Stopped
MCSpec == MCInit /\ [][MCNext]_vars /\ WF_vars(ReaderNext)
=============================================================================
