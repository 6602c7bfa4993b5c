------------------------------ MODULE SourceId ------------------------------
(***************************************************************************)
(* Source identifiers and the codes of miniSEED 2 (genutils.c, unpack.c).  *)
(* A string is a sequence of bytes, a byte a letter or one of the two that  *)
(* make a two-byte UTF-8 character, "lead" and "cont".  The namespace       *)
(* "FDSN:" that every identifier begins with is left out.                  *)
(***************************************************************************)
EXTENDS Integers, Sequences, SequencesExt, FiniteSets, FiniteSetsExt

CONSTANT SidLen     \* LM_SIDLEN, less the five bytes of the namespace

ASSUME SidAssumption == SidLen \in Nat /\ SidLen >= 8

\* What ms_nslc2sid() and ms_sid2nslc() say of what they refuse.
BadId   == <<>>
NoCodes == [net |-> <<>>, sta |-> <<>>, loc |-> <<>>, chan |-> <<>>]

\* What stands between codes, and what fills them up.
Mark  == "_"
Space == " "

\* seedchan2xchan(), xchan2seedchan(): "BHZ" and "B_H_Z".
Extended(chan) == <<chan[1], Mark, chan[2], Mark, chan[3]>>
IsExtended(chan) == Len(chan) = 5 /\ chan[2] = Mark /\ chan[4] = Mark
Seed(chan) == <<chan[1], chan[3], chan[5]>>

\* ms_nslc2sid(): what does not fit is cut off and refused.
Nslc2Sid(c, room) ==
    LET sid == c.net \o <<Mark>> \o c.sta \o <<Mark>> \o c.loc \o <<Mark>>
                 \o (IF Len(c.chan) = 3 THEN Extended(c.chan) ELSE c.chan)
    IN  IF Len(sid) >= room THEN BadId ELSE sid

\* ms_sid2nslc(): what stands before the last colon is a namespace.
ChanCode(chan) == IF IsExtended(chan) THEN Seed(chan) ELSE chan
Marks(id) == {x \in DOMAIN id : id[x] = Mark}
MarkAfter(id, x) == Min({y \in Marks(id) : y > x})
Split(id) ==
    IF Cardinality(Marks(id)) # 5 THEN NoCodes
    ELSE LET first == MarkAfter(id, 0)  second == MarkAfter(id, first)  third == MarkAfter(id, second)
         IN  [net  |-> SubSeq(id, 1, first - 1),
              sta  |-> SubSeq(id, first + 1, second - 1),
              loc  |-> SubSeq(id, second + 1, third - 1),
              chan |-> ChanCode(SubSeq(id, third + 1, Len(id)))]
Sid2Nslc(sid) ==
    Split(SubSeq(sid, Max({x \in DOMAIN sid : sid[x] = ":"} \union {0}) + 1, Len(sid)))

-----------------------------------------------------------------------------
\* utf8length_int(): bytes up to the last whole character before one that is
\* broken or does not fit.
Whole(str, y) ==
    \A x \in 1..y : /\ str[x] = "lead" => x < y /\ str[x+1] = "cont"
                    /\ str[x] = "cont" => x > 1 /\ str[x-1] = "lead"
Utf8Length(str, length) ==
    Max({y \in 0..Min({Len(str), length}) : Whole(str, y)})

\* ms_strncpclean(), ms_strncpcleantail() and ms_strncpopen(): without spaces,
\* without trailing spaces, filled up with spaces.
Clean(str, length) ==
    LET upto[x \in 0..Utf8Length(str, length)] ==
            IF x = 0 THEN <<>>
            ELSE IF str[x] = Space THEN upto[x - 1] ELSE Append(upto[x - 1], str[x])
    IN  upto[Utf8Length(str, length)]
CleanTail(str, length) ==
    LET whole == SubSeq(str, 1, Utf8Length(str, length))
    IN  SubSeq(whole, 1, Max({x \in DOMAIN whole : whole[x] # Space} \union {0}))
Open(str, length) ==
    [x \in 1..length |-> IF x <= Utf8Length(str, length) THEN str[x] ELSE Space]

\* The codes as they stand in a header of version 2, and what ms2_recordsid()
\* makes of them.
HeaderCodes(c) ==
    [net |-> Open(c.net, 2), sta |-> Open(c.sta, 5), loc |-> Open(c.loc, 2),
     chan |-> Open(c.chan, 3)]
CodesFit(c) ==
    Len(c.net) <= 2 /\ Len(c.sta) <= 5 /\ Len(c.loc) <= 2 /\ Len(c.chan) = 3
RecordSid(h) ==
    Nslc2Sid([net |-> Clean(h.net, 2), sta |-> Clean(h.sta, 5), loc |-> Clean(h.loc, 2),
              chan |-> Extended(h.chan)], SidLen)
=============================================================================
