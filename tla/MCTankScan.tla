----------------------------- MODULE MCTankScan -----------------------------
(***************************************************************************)
(* Small tanks for TankScan: every way to place up to MaxHeaders headers   *)
(* in a file of TankSize bytes, overlapping each other or not.             *)
(***************************************************************************)
EXTENDS TankScan, FiniteSetsExt

CONSTANTS
    Counts,      \* sample counts of headers
    Types,       \* pairs of digit and width
    Orders,      \* values of opposite
    Sanity,      \* values of consistent
    Times,       \* end times
    MaxHeaders   \* headers in a file

MCHeaders ==
    {[chan |-> c, opposite |-> op, digit |-> dw[1], width |-> dw[2],
      n |-> n, consistent |-> ok, time |-> t] :
        c \in Chans, op \in Orders, dw \in Types, n \in Counts,
        ok \in Sanity, t \in Times}

\* Bytes 57 and 58 of a header must be in the file for it to be read as one.
Offsets == 0..TankSize-HdrLen

Placed(f) == [o \in 0..TankSize-1 |-> IF o \in DOMAIN f THEN f[o] ELSE Junk]

TanksFrom(headers, places) ==
    {Placed(f) : f \in UNION {[O -> headers] : O \in places}}
TanksAt(places) == TanksFrom(MCHeaders, places)

Places == UNION {kSubset(m, Offsets) : m \in 0..MaxHeaders}

MCTanks == TanksAt(Places)

PlacesApart == {O \in Places : \A x, y \in O : x < y => x + HdrLen <= y}

MCWellFormed == {t \in TanksAt(PlacesApart) : WellFormed(t)}

\* Values that a configuration file cannot write.
OneType  == {<<1, 1>>}
OddTypes == {<<1, 1>>, <<1, 5>>}
Upset    == [n : {0, 1, 9}, consistent : BOOLEAN, time : {1}]
NegativeCounts == {-4, 0, 1}
NoReadings == [n : {0}, consistent : {FALSE}, time : {1}]
=============================================================================
