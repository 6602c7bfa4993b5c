----------------------------- MODULE MseedTrace -----------------------------
(***************************************************************************)
(* The conversion of one trace to miniSEED: msproc_tlist_add() of          *)
(* src/msproc.c, which hands its messages to the trace list one by one.    *)
(*                                                                         *)
(* The list of a trace is in order of the end times in the headers, which  *)
(* are off by up to five samples, and two traces may have one source       *)
(* identifier: the location "--" and an empty one give the same.  So the   *)
(* messages come in any order.                                             *)
(***************************************************************************)
EXTENDS TraceList

VARIABLES
    msr,      \* whether there is a record: "none" or "made"
    buffer    \* what msr->datasamples points to: "none", "map" (the mapped
              \* file) or "own" (int32_buf)

tracevars == <<msr, buffer>>

\* A message of the trace as the function reads it, again from the mapping.
\*   kind   byte order and width of its datatype
Kinds == {"i2", "i4", "f4", "f8", "other"}
Message == [start : Int, n : Nat, per : Nat, kind : Kinds]

TraceInit == ListInit /\ msr = "none" /\ buffer = "none"

\* The sample type of the record; a type that is not known leaves the body of
\* the loop.
TypeOf(kind) == CASE kind \in {"i2", "i4"} -> "i" [] kind = "f4" -> "f" [] kind = "f8" -> "d"

MakeRecord ==
    /\ msr = "none"
    /\ msr' = "made" /\ buffer' = "none"
    /\ UNCHANGED listvars

\* The samples of a message are converted to 32 bits in int32_buf if need be,
\* the record is handed over, with whatever result, and detached.
GiveMessage(sid, p) ==
    /\ msr = "made"
    /\ p.kind # "other"
    /\ AddMsr([key |-> Len(given) + 1, sid |-> sid, start |-> p.start, n |-> p.n,
               per |-> p.per, type |-> TypeOf(p.kind)])
    /\ buffer' = "none"
    /\ UNCHANGED msr

SkipMessage(p) ==
    /\ msr = "made"
    /\ p.kind = "other"
    /\ buffer' = "map"
    /\ UNCHANGED <<listvars, msr>>

\* msr3_free() frees the samples the record points to.
FreeRecord ==
    /\ msr = "made"
    /\ buffer # "map"
    /\ msr' = "none"
    /\ UNCHANGED <<listvars, buffer>>

FreeMapping ==
    /\ msr = "made"
    /\ buffer = "map"
    /\ msr' = "none"
    /\ UNCHANGED <<listvars, buffer>>
=============================================================================
