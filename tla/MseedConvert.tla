---------------------------- MODULE MseedConvert ----------------------------
(***************************************************************************)
(* The program as it converts to miniSEED, from its command line to its    *)
(* exit: main() of src/tbconvert.c with the command line (CommandLine),    *)
(* each trace handed to the trace list (MseedTrace) and the list written   *)
(* to a file (MseedFile) step by step.  The scan of the tank is TankScan:  *)
(* here it is one step that finds the traces of a tank.                    *)
(***************************************************************************)
EXTENDS CommandLine, MseedTrace, MseedFile

CONSTANTS
    Tanks   \* tanks to convert: traces, a sequence of sids with the number
            \* of messages of each, pool, the messages they may be, and
            \* capacity, the records the disk has room for

ASSUME TanksAssumption ==
    \A k \in Tanks :
        /\ \A x \in DOMAIN k.traces : k.traces[x].sid \in Sids /\ k.traces[x].count \in Nat \ {0}
        /\ k.pool \subseteq Message /\ k.capacity \in Nat

VARIABLES
    tank,
    stage,   \* where main() is: "argv", "open", "scan", "traces", "messages"
             \* (in msproc_tlist_add()), "write"; "exit" (0), "failed" (-1),
             \* "crashed", "sac" (left to TankConvert)
    t,       \* the trace the loop is at
    read     \* the messages of it that were read

mainvars == <<tank, stage, t, read>>
allvars  == <<mainvars, argvars, listvars, tracevars, filevars>>

MseedInit(words, k) ==
    /\ ArgvInit(words) /\ TraceInit /\ FileInit(k.capacity)
    /\ tank = k /\ stage = "argv" /\ t = 1 /\ read = 0

Version == IF ConvFormat = "MSEED" THEN 2 ELSE 3

Goes(from, to) == stage = from /\ stage' = to /\ UNCHANGED <<tank, t, read>>
elsewhere == <<listvars, tracevars, filevars>>

Parse ==
    /\ stage = "argv" /\ ArgvNext
    /\ UNCHANGED <<mainvars, elsewhere>>

Parsed ==
    /\ \/ parse = "parsed" /\ Goes("argv", "open")
       \/ parse = "usage" /\ Goes("argv", "failed")
       \/ parse = "quit" /\ Goes("argv", "exit")
       \/ parse = "crashed" /\ Goes("argv", "crashed")
    /\ UNCHANGED <<argvars, elsewhere>>

\* open() of the tank file.
Open ==
    /\ Goes("open", "scan") \/ Goes("open", "failed")
    /\ UNCHANGED <<argvars, elsewhere>>

\* scan_tracebuf() found traces, or none.
Scanned ==
    /\ \/ tank.traces = <<>> /\ Goes("scan", "failed")
       \/ tank.traces # <<>> /\ Goes("scan", IF ConvFormat = "SAC" THEN "sac" ELSE "traces")
    /\ UNCHANGED <<argvars, elsewhere>>

AtTrace == stage = "traces" /\ t <= Len(tank.traces) /\ UNCHANGED <<argvars, filevars, tank>>

BeginTrace ==
    /\ AtTrace
    /\ MakeRecord
    /\ stage' = "messages" /\ read' = 0
    /\ UNCHANGED t

\* msr3_init() fails; the trace is skipped.
NoRecord ==
    /\ AtTrace
    /\ t' = t + 1
    /\ UNCHANGED <<stage, read, listvars, tracevars>>

InTrace == stage = "messages" /\ UNCHANGED <<argvars, filevars, tank>>

ReadMessage ==
    /\ InTrace
    /\ read < tank.traces[t].count
    /\ \E p \in tank.pool : GiveMessage(tank.traces[t].sid, p) \/ SkipMessage(p)
    /\ read' = read + 1
    /\ UNCHANGED <<stage, t>>

EndTrace ==
    /\ InTrace
    /\ read = tank.traces[t].count
    /\ FreeRecord
    /\ stage' = "traces" /\ t' = t + 1
    /\ UNCHANGED read

TraceCrashes ==
    /\ InTrace
    /\ read = tank.traces[t].count
    /\ FreeMapping
    /\ stage' = "crashed"
    /\ UNCHANGED <<t, read>>

TracesThrough ==
    /\ t > Len(tank.traces) /\ Goes("traces", "write")
    /\ UNCHANGED <<argvars, elsewhere>>

Write ==
    /\ stage = "write" /\ WriteMseed(Version)
    /\ UNCHANGED <<mainvars, argvars, tracevars>>

\* Whatever mstl3_writemseed() returned, the program ends with 0.
Written ==
    /\ out \in {"closed", "failed"} /\ Goes("write", "exit")
    /\ UNCHANGED <<argvars, elsewhere>>

MseedNext ==
    \/ Parse \/ Parsed \/ Open \/ Scanned
    \/ BeginTrace \/ NoRecord \/ ReadMessage \/ EndTrace \/ TraceCrashes
    \/ TracesThrough \/ Write \/ Written

-----------------------------------------------------------------------------
\* The program always ends: neither the joining of records nor the writing of
\* them goes on for ever, whatever the tank and the disk (tbconvert.c:38-118).
MseedEnds == <>(stage \in {"exit", "failed", "crashed", "sac"})
=============================================================================
