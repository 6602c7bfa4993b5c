----------------------------- MODULE MCSacTrace -----------------------------
(***************************************************************************)
(* Small traces for SacTrace: all the lists of up to MaxLen packets, sorted *)
(* by end time, whose starts, counts and rates come from the sets below.   *)
(***************************************************************************)
EXTENDS SacTrace

CONSTANTS
    Starts,    \* start times of the packets
    Counts,    \* sample counts
    Periods,   \* sample periods
    Slacks,    \* what an end time differs by from start + (n - 1) * per
    Copyable,  \* whether packets have a datatype that is copied
    MaxLen     \* packets in a trace

Packets(starts, counts, periods, slacks, copyable) ==
    {[start |-> s, end |-> s + (n - 1) * per + d, per |-> per, n |-> n,
      copyable |-> c] :
        s \in starts, n \in counts, per \in periods, d \in slacks,
        c \in copyable}

Lists(P) == UNION {{t \in [1..len -> P] : SortedByEnd(t)} : len \in 0..MaxLen}

MCTraces == Lists(Packets(Starts, Counts, Periods, Slacks, Copyable))

\* Sound packets of one rate, with gaps of all kinds between them: those that
\* fit the buffer, make it grow, are cut at its end, and are bogus.
MCGaps == Lists(Packets({0, 2, 4, 5, 8, 9, 16, 20, 23, 26}, {1, 2}, {2}, {0}, {TRUE}))

\* These, and traces of odd packets with few start times.
MCAllTraces == MCTraces \union MCGaps

\* A configuration file has no negative numbers.
OddCounts == {-7, -1, 0, 2}
=============================================================================
