------------------------------ MODULE RecordScan ------------------------------
(***************************************************************************)
(* What reading a file of miniSEED promises: its records one after the     *)
(* other, each with the place where it stands, whatever part of the file   *)
(* happens to be in memory.                                                *)
(*                                                                         *)
(* A file is a sequence of cells of equal size.  The first cell of a       *)
(* record holds its header: [kind |-> "v2" or "v3", rec |-> the record].    *)
(* Places count from 0, as offsets do.                                     *)
(***************************************************************************)
EXTENDS Wanted

CONSTANTS
    MinRecLen,   \* MINRECLEN
    MaxRecLen,   \* MAXRECLEN
    HeaderLen,   \* the fixed part of a header of version 2
    BlockLen,    \* blockette 1000, which states a length
    ScanStep,    \* where the header of a next record is looked for
    SkipLen      \* SKIPLEN

VARIABLES
    input,     \* the file and what is asked of it
    at,        \* the place that is looked at
    got,       \* the records handed over, with their places
    outcome,   \* "closed", "reading", "end" or "failed"
    spoilt     \* a header at the edge of the memory was misread

scanvars == <<input, at, got, outcome, spoilt>>

\* A record: its length; whether the header and the data can be understood;
\* blockettes, from their offsets to their types and the offset of the next;
\* and what selections are about.
Chain(rec)  == DOMAIN rec.blocks
Broken(rec) ==
    \E offset \in Chain(rec) : rec.blocks[offset].next # 0 /\ rec.blocks[offset].next <= offset

Cell(p)  == input.cells[p + 1]
Rest(p)  == Len(input.cells) - p
Stated(p) ==
    \E offset \in Chain(Cell(p).rec) :
        Cell(p).rec.blocks[offset].type = 1000 /\ offset + BlockLen <= Rest(p)
IsPower(n) == \E k \in 0..17 : 2 ^ k = n

\* The length of the record at p, 0 if it cannot be told.
NextHeaders(p) ==
    {offset \in 1..MaxRecLen : /\ offset % ScanStep = 0
                               /\ offset + HeaderLen < Min({MaxRecLen, Rest(p)})
                               /\ Cell(p + offset).kind = "v2"}
LengthAt(p) ==
    IF Cell(p).kind = "v3" \/ Stated(p) THEN Cell(p).rec.len
    ELSE IF NextHeaders(p) # {} THEN Min(NextHeaders(p))
    ELSE IF IsPower(Rest(p)) /\ Rest(p) <= MaxRecLen THEN Rest(p)
    ELSE 0

\* With requests the data is looked at when the record is known to be wanted.
Deferred == \E x \in DOMAIN input.requests : input.requests[x].form # "remark"

IsHeader(p) == Cell(p).kind \in {"v2", "v3"} /\ ~Broken(Cell(p).rec)
Cut(p) ==
    /\ IsHeader(p)
    /\ \/ LengthAt(p) = 0 /\ Rest(p) + MinRecLen <= MaxRecLen
       \/ LengthAt(p) \in MinRecLen..MaxRecLen /\ LengthAt(p) > Rest(p)
Complete(p) ==
    /\ IsHeader(p)
    /\ LengthAt(p) \in MinRecLen..Min({MaxRecLen, Rest(p)})
    /\ Cell(p).kind = "v2" => LengthAt(p) >= ScanStep
    /\ Cell(p).rec.sound
    /\ input.unpack /\ ~Deferred => Cell(p).rec.data
OutOfRange(p) == input.to > 0 /\ input.to + 1 - p < MinRecLen
Over(p) == Rest(p) < MinRecLen

\* Files as this program writes them: records of version 2 of one length, each
\* stating it in its first blockette.
Regular ==
    \E n \in 1..MaxRecLen :
        /\ MaxRecLen % n # HeaderLen /\ input.from % n = 0
        /\ \A p \in 0..Len(input.cells) - 1 :
              /\ Cell(p).kind = (IF p % n = 0 THEN "v2" ELSE "rest")
              /\ p % n = 0 => /\ Cell(p).rec.len = n /\ Cell(p).rec.sound /\ Cell(p).rec.data
                              /\ HeaderLen \in Chain(Cell(p).rec)
                              /\ Cell(p).rec.blocks[HeaderLen].type = 1000

-----------------------------------------------------------------------------
Begin ==
    /\ outcome = "closed" /\ ~input.missing
    /\ outcome' = "reading" /\ at' = input.from
    /\ UNCHANGED <<input, got, spoilt>>

Reading(p) == outcome = "reading" /\ ~OutOfRange(p) /\ ~Over(p)

Take ==
    /\ Reading(at) /\ Complete(at) /\ IsWanted(input.requests, Cell(at).rec)
    /\ input.unpack => Cell(at).rec.data
    /\ got' = Append(got, [rec |-> Cell(at).rec, place |-> at])
    /\ at' = at + LengthAt(at)
    /\ UNCHANGED <<input, outcome, spoilt>>

Pass ==
    /\ Reading(at) /\ Complete(at) /\ ~IsWanted(input.requests, Cell(at).rec)
    /\ at' = at + LengthAt(at)
    /\ UNCHANGED <<input, got, outcome, spoilt>>

Skip ==
    /\ Reading(at) /\ ~Complete(at) /\ ~Cut(at) /\ input.skip
    /\ at' = at + SkipLen
    /\ UNCHANGED <<input, got, outcome, spoilt>>

\* The end: of the range, of the file, or in the middle of a record.  A file
\* without records is no success.
End ==
    /\ outcome = "reading"
    /\ \/ OutOfRange(at)
       \/ Over(at) /\ got # <<>>
       \/ Reading(at) /\ Cut(at)
    /\ outcome' = "end"
    /\ UNCHANGED <<input, at, got, spoilt>>

Fail ==
    /\ \/ outcome = "closed" /\ (input.missing \/ Unreadable(input.requests))
       \/ outcome = "reading" /\ (input.fails # {} \/ (spoilt /\ ~input.skip))
       \/ outcome = "reading" /\ Over(at) /\ got = <<>>
       \/ Reading(at) /\ ~Complete(at) /\ ~Cut(at) /\ ~input.skip
       \/ /\ Reading(at) /\ Complete(at) /\ IsWanted(input.requests, Cell(at).rec)
          /\ input.unpack /\ ~Cell(at).rec.data
    /\ outcome' = "failed"
    /\ UNCHANGED <<input, at, got, spoilt>>

\* A header with blockettes may be taken for something else, but not in a
\* regular file.
Spoil ==
    /\ Reading(at) /\ Cell(at).kind = "v2" /\ Chain(Cell(at).rec) # {} /\ ~Regular
    /\ spoilt' = TRUE
    /\ at' = IF input.skip THEN at + SkipLen ELSE at
    /\ UNCHANGED <<input, got, outcome>>

ScanNext == Begin \/ Take \/ Pass \/ Skip \/ End \/ Fail \/ Spoil
=============================================================================
