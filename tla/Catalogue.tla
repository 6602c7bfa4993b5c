------------------------------ MODULE Catalogue -----------------------------
(***************************************************************************)
(* What the scan of a tank promises: the messages of the file, each filed  *)
(* under its channel in the order of the file, and in the end every        *)
(* channel's messages in the order of their times.                         *)
(***************************************************************************)
EXTENDS Integers, Sequences, Functions

CONSTANTS Chans

VARIABLES
    rest,    \* messages of the file that are not filed yet
    index,   \* for each channel the messages filed under it
    closed   \* the catalogue is complete and sorted

vars == <<rest, index, closed>>

\* A message: its channel, its place in the file, its length and end time.
Message == [chan : Chans, offset : Nat, size : Nat, time : Int]

\* What the list of its channel says of a message.
Entry(m) == [offset |-> m.offset, size |-> m.size, time |-> m.time]

SortedByTime(s) == \A j, k \in 1..Len(s) : j < k => s[j].time <= s[k].time

\* The orders by time of a list; entries of one time come in any order, as
\* qsort() leaves them.
Sorts(s) ==
    {t \in {[k \in 1..Len(s) |-> s[f[k]]] : f \in Bijection(1..Len(s), 1..Len(s))} :
        SortedByTime(t)}

Init ==
    /\ rest \subseteq Message
    /\ index = [c \in Chans |-> <<>>]
    /\ closed = FALSE

\* The next message of the file goes to the list of its channel.
FileNext ==
    /\ ~closed
    /\ \E m \in rest :
         /\ \A other \in rest : m.offset <= other.offset
         /\ rest' = rest \ {m}
         /\ index' = [index EXCEPT ![m.chan] = Append(@, Entry(m))]
    /\ UNCHANGED closed

\* The whole file is filed: every list is sorted by time.
Close ==
    /\ ~closed
    /\ rest = {}
    /\ index' \in [Chans -> UNION {Sorts(index[c]) : c \in Chans}]
    /\ \A c \in Chans : index'[c] \in Sorts(index[c])
    /\ closed' = TRUE
    /\ UNCHANGED rest

Next == FileNext \/ Close

Spec == Init /\ [][Next]_vars
=============================================================================
