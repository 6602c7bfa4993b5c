------------------------------ MODULE TraceList -----------------------------
(***************************************************************************)
(* The trace list of libmseed: mstl3_addmsr() of tracelist.c as msproc.c   *)
(* calls it, without splitting by version, with healing, with the default  *)
(* tolerances and with data.                                               *)
(*                                                                         *)
(* A trace ID and its segments are linked lists in the code.  Here they    *)
(* are sequences in the order of the links: first and last are the ends of *)
(* the sequence.  The samples of a message are one block, so the data of a *)
(* segment is the sequence of the messages it was built from.              *)
(***************************************************************************)
EXTENDS Integers, Sequences, SequencesExt

CONSTANTS
    Sids,         \* source identifiers: strings of codes, 0 for the NUL
    SampleTypes,  \* sample types that a record may have
    RateParts     \* rates may differ by less than one part in as many: 10000

ASSUME SidsAssumption ==
    Sids \subseteq {s \in Seq(Nat) : s # <<>> /\ \A k \in DOMAIN s : s[k] = 0 <=> k = Len(s)}

ASSUME RateAssumption == RateParts \in Nat \ {0}

\* A record as it is handed over.
\*   key    the number of the call, for the history
\*   per    sample period in ticks, 0 for a rate of 0
Record == [key : Nat, sid : Sids, start : Int, n : Nat, per : Nat, type : SampleTypes]

VARIABLES
    traces,   \* the trace IDs: sid, earliest, latest and segs
    last,     \* mstl->last: the sid of the ID accessed last, <<>> for none
    given,    \* history: the records handed over
    refused,  \* history: keys of the records NULL was returned for
    torn,     \* history: keys of those that had been stored by then
    stale     \* history: sids of IDs whose first is a segment that was freed

listvars == <<traces, last, given, refused, torn, stale>>

ListInit ==
    /\ traces = <<>> /\ last = <<>>
    /\ given = <<>> /\ refused = {} /\ torn = {} /\ stale = {}

-----------------------------------------------------------------------------
\* msr3_endtime(), without leap seconds: the program reads no list of them.
EndOf(m) == m.start + (IF m.n > 0 THEN (m.n - 1) * m.per ELSE 0)

\* The default tolerance, half a period.
Tol(m) == m.per \div 2

Fits(m, gap) == -Tol(m) <= gap /\ gap <= Tol(m)
FitsAfter(m, s)  == Fits(m, m.start - s.end - m.per)
FitsBefore(m, s) == Fits(m, s.start - EndOf(m) - m.per)

\* MS_ISRATETOLERABLE, |1 - A/B| < 0.0001 of rates, in terms of their periods:
\* a rate of 0 is not tolerable, as A nor as B.
Near(a, b) ==
    /\ a # 0 /\ b # 0
    /\ RateParts * (a - b) < a /\ RateParts * (b - a) < a
RateFits(m, s) == Near(m.per, s.per)

\* mstl3_msr2seg().
NewSegment(m) ==
    [start |-> m.start, end |-> EndOf(m), per |-> m.per, type |-> m.type,
     numsamples |-> m.n, data |-> <<m.key>>]

\* The check of mstl3_addmsrtoseg() and of mstl3_addsegtoseg().
TypeFits(type, n, s) == n > 0 => type = s.type

\* Slips: the count taken off instead of added; the samples put at the wrong
\* end; the samples of the second segment forgotten.
CountTakenOff(m, s) ==
    [s EXCEPT !.end = EndOf(m), !.numsamples = @ - m.n, !.data = Append(@, m.key)]
PutAtWrongEnd(m, s) ==
    [s EXCEPT !.start = m.start, !.numsamples = @ + m.n, !.data = Append(@, m.key)]
SamplesForgotten(s1, s2) ==
    [s1 EXCEPT !.end = s2.end, !.numsamples = @ + s2.numsamples]

\* mstl3_addmsrtoseg() with whence 1 and with whence 2.
AddedToEnd(m, s) ==
    [s EXCEPT !.end = EndOf(m), !.numsamples = @ + m.n, !.data = Append(@, m.key)]
AddedToStart(m, s) ==
    [s EXCEPT !.start = m.start, !.numsamples = @ + m.n, !.data = <<m.key>> \o @]

\* mstl3_addsegtoseg().
Joined(s1, s2) ==
    [s1 EXCEPT !.end = s2.end, !.numsamples = @ + s2.numsamples, !.data = @ \o s2.data]

\* The order of the segments: the earlier start first, of two with the same
\* start the longer one.
Behind(s, r) == s.start > r.start \/ (s.start = r.start /\ s.end < r.end)

\* The two loops that move the segment at k down the list, or else up.
Settled(S, k) ==
    LET s    == S[k]
        rest == RemoveAt(S, k)
        down == Min({j \in k..Len(S) : j = Len(S) \/ ~Behind(s, rest[j])})
        up   == Max({j \in 1..k : j = 1 \/ ~Behind(rest[j-1], s)})
    IN  InsertAt(rest, IF down > k THEN down ELSE up, s)

-----------------------------------------------------------------------------
\* The length of the common beginning of two identifiers, and how the first
\* codes that differ compare.
Mag(x, y) == Max({k \in 0..Len(x) : \A j \in 1..k : x[j] = y[j]})
Cmp(x, y) == x[Mag(x, y) + 1] - y[Mag(x, y) + 1]

\* The search begins with the ID accessed last and goes on through the list;
\* without such an ID there is no search.
At(sid)    == {i \in DOMAIN traces : last # <<>> /\ traces[i].sid = sid}
Known(sid) == At(sid) # {}

\* The IDs that are less than sid.
LessIds(sid) == {i \in DOMAIN traces : last # <<>> /\ Cmp(traces[i].sid, sid) < 0}

\* Slip: of two as close the earlier one.
EarlierOne(sid) ==
    Min({i \in LessIds(sid) : \A j \in LessIds(sid) :
        Mag(traces[i].sid, sid) >= Mag(traces[j].sid, sid)})

\* The ID that is "closest but less than" sid; the later one of two as close.
Closest(sid) ==
    Max({i \in LessIds(sid) : \A j \in LessIds(sid) :
        LET mi == Mag(traces[i].sid, sid)
            mj == Mag(traces[j].sid, sid)
        IN  \/ mi > mj
            \/ mi = mj /\ Cmp(traces[i].sid, sid) >= Cmp(traces[j].sid, sid)})

\* The call returns a segment.
Stored(m) ==
    /\ given' = Append(given, m)
    /\ last' = m.sid
    /\ UNCHANGED <<refused, torn>>

\* A new trace ID with one segment, after the closest or at the head.
AddId(m) ==
    /\ ~Known(m.sid)
    /\ LET id == [sid |-> m.sid, earliest |-> m.start, latest |-> EndOf(m),
                  segs |-> <<NewSegment(m)>>]
       IN  traces' = InsertAt(traces, IF LessIds(m.sid) = {} THEN 1 ELSE Closest(m.sid) + 1, id)
    /\ Stored(m)
    /\ UNCHANGED stale

-----------------------------------------------------------------------------
Index(m) == CHOOSE i \in At(m.sid) : TRUE
Id(m)    == traces[Index(m)]
Segs(m)  == Id(m).segs
LastOf(S) == S[Len(S)]

\* The simple scenarios, in the order in which they are tried.
EndsLast(m) == FitsAfter(m, LastOf(Segs(m))) /\ RateFits(m, LastOf(Segs(m)))
AfterAll(m) ==
    ~EndsLast(m) /\ m.start - m.per - Tol(m) > Id(m).latest
BeforeAll(m) ==
    ~EndsLast(m) /\ ~AfterAll(m) /\ EndOf(m) + m.per + Tol(m) < Id(m).earliest
StartsFirst(m) ==
    /\ ~EndsLast(m) /\ ~AfterAll(m) /\ ~BeforeAll(m)
    /\ FitsBefore(m, Segs(m)[1]) /\ RateFits(m, Segs(m)[1])
Searched(m) ==
    ~EndsLast(m) /\ ~AfterAll(m) /\ ~BeforeAll(m) /\ ~StartsFirst(m)

\* Slip: only an upper bound for the gap.
BoundedAbove(m) ==
    {k \in DOMAIN Segs(m) : Segs(m)[k].start - EndOf(m) - m.per <= Tol(m)
                            /\ RateFits(m, Segs(m)[k])}

\* The search through all segments.
Before(m) == {k \in DOMAIN Segs(m) : FitsAfter(m, Segs(m)[k]) /\ RateFits(m, Segs(m)[k])}
After(m)  == {k \in DOMAIN Segs(m) : FitsBefore(m, Segs(m)[k]) /\ RateFits(m, Segs(m)[k])}
Followed(m) == {k \in DOMAIN Segs(m) : m.start > Segs(m)[k].start}

\* Slip: latest is set whatever it was.
LatestOverwritten(m, S, k) ==
    /\ traces' = [traces EXCEPT ![Index(m)].segs = Settled(S, k),
                                ![Index(m)].earliest = IF m.start < @ THEN m.start ELSE @,
                                ![Index(m)].latest = EndOf(m)]
    /\ Stored(m)

\* The segments are S, the one at k was changed: it is moved to its place and
\* the extent of the ID is kept up.
Changed(m, S, k) ==
    /\ traces' = [traces EXCEPT ![Index(m)].segs = Settled(S, k),
                                ![Index(m)].earliest = IF m.start < @ THEN m.start ELSE @,
                                ![Index(m)].latest = IF EndOf(m) > @ THEN EndOf(m) ELSE @]
    /\ Stored(m)

JoinLast(m) ==
    /\ Known(m.sid) /\ EndsLast(m)
    /\ TypeFits(m.type, m.n, LastOf(Segs(m)))
    /\ Changed(m, [Segs(m) EXCEPT ![Len(Segs(m))] = AddedToEnd(m, @)], Len(Segs(m)))
    /\ UNCHANGED stale

AddAfterAll(m) ==
    /\ Known(m.sid) /\ AfterAll(m)
    /\ Changed(m, Append(Segs(m), NewSegment(m)), Len(Segs(m)) + 1)
    /\ UNCHANGED stale

AddBeforeAll(m) ==
    /\ Known(m.sid) /\ BeforeAll(m)
    /\ Changed(m, <<NewSegment(m)>> \o Segs(m), 1)
    /\ UNCHANGED stale

JoinFirst(m) ==
    /\ Known(m.sid) /\ StartsFirst(m)
    /\ TypeFits(m.type, m.n, Segs(m)[1])
    /\ Changed(m, [Segs(m) EXCEPT ![1] = AddedToStart(m, @)], 1)
    /\ UNCHANGED stale

\* Slip: the segment that now follows is not looked for.
NeverHeals(m) ==
    /\ Known(m.sid) /\ Searched(m) /\ Before(m) # {}
    /\ LET b == Min(Before(m))
       IN  /\ TypeFits(m.type, m.n, Segs(m)[b])
           /\ Changed(m, [Segs(m) EXCEPT ![b] = AddedToEnd(m, @)], b)
    /\ UNCHANGED stale

\* A segment to follow is found, one to precede is not.
JoinBefore(m) ==
    /\ Known(m.sid) /\ Searched(m)
    /\ Before(m) # {} /\ After(m) = {}
    /\ LET b == Min(Before(m))
       IN  /\ TypeFits(m.type, m.n, Segs(m)[b])
           /\ Changed(m, [Segs(m) EXCEPT ![b] = AddedToEnd(m, @)], b)
    /\ UNCHANGED stale

\* Both are found: the two segments and the record become one.  The list's
\* last is moved when it is the segment to be freed, its first is not.
Heal(m) ==
    /\ Known(m.sid) /\ Searched(m)
    /\ Before(m) # {} /\ After(m) # {}
    /\ LET S == Segs(m)
           b == Min(Before(m))
           a == Min(After(m))
       IN  /\ TypeFits(m.type, m.n, S[b])
           /\ TypeFits(S[a].type, S[a].numsamples, S[b])
           /\ Changed(m, RemoveAt([S EXCEPT ![b] = Joined(AddedToEnd(m, @), S[a])], a),
                      IF a < b THEN b - 1 ELSE b)
           /\ stale' = IF a = 1 THEN stale \union {m.sid} ELSE stale

\* Only a segment to precede is found.
JoinAfter(m) ==
    /\ Known(m.sid) /\ Searched(m)
    /\ Before(m) = {} /\ After(m) # {}
    /\ LET a == Min(After(m))
       IN  /\ TypeFits(m.type, m.n, Segs(m)[a])
           /\ Changed(m, [Segs(m) EXCEPT ![a] = AddedToStart(m, @)], a)
    /\ UNCHANGED stale

\* Neither is found: a new segment behind the last one that starts earlier.
AddBetween(m) ==
    /\ Known(m.sid) /\ Searched(m)
    /\ Before(m) = {} /\ After(m) = {}
    /\ LET f == IF Followed(m) = {} THEN 0 ELSE Max(Followed(m))
       IN  Changed(m, InsertAt(Segs(m), f + 1, NewSegment(m)), f + 1)
    /\ UNCHANGED stale

-----------------------------------------------------------------------------
\* NULL is returned.
Refused(m) ==
    /\ given' = Append(given, m)
    /\ refused' = refused \union {m.key}
    /\ UNCHANGED <<last, stale>>

\* The segment to join has another sample type; nothing was changed.
Joinee(m) ==
    IF EndsLast(m) THEN Len(Segs(m))
    ELSE IF StartsFirst(m) THEN 1
    ELSE IF Before(m) # {} THEN Min(Before(m)) ELSE Min(After(m))

RefuseType(m) ==
    /\ Known(m.sid)
    /\ \/ EndsLast(m) \/ StartsFirst(m)
       \/ Searched(m) /\ Before(m) \union After(m) # {}
    /\ ~TypeFits(m.type, m.n, Segs(m)[Joinee(m)])
    /\ Refused(m)
    /\ UNCHANGED <<traces, torn>>

\* The segments to heal have different sample types: the record has joined
\* the first one by then, and the rest of the function is left out.
RefuseHeal(m) ==
    /\ Known(m.sid) /\ Searched(m)
    /\ Before(m) # {} /\ After(m) # {}
    /\ LET S == Segs(m)
           b == Min(Before(m))
           a == Min(After(m))
       IN  /\ TypeFits(m.type, m.n, S[b])
           /\ ~TypeFits(S[a].type, S[a].numsamples, S[b])
           /\ traces' = [traces EXCEPT ![Index(m)].segs[b] = AddedToEnd(m, @)]
    /\ torn' = torn \union {m.key}
    /\ Refused(m)

AddMsr(m) ==
    \/ AddId(m)
    \/ JoinLast(m) \/ AddAfterAll(m) \/ AddBeforeAll(m) \/ JoinFirst(m)
    \/ JoinBefore(m) \/ Heal(m) \/ JoinAfter(m) \/ AddBetween(m)
    \/ RefuseType(m) \/ RefuseHeal(m)

-----------------------------------------------------------------------------
Segments == UNION {{<<i, k>> : k \in DOMAIN traces[i].segs} : i \in DOMAIN traces}
Seg(p)   == traces[p[1]].segs[p[2]]

\* Type invariant of the trace list.
ListTypeOK ==
    /\ \A i \in DOMAIN traces :
          /\ traces[i].sid \in Sids /\ traces[i].segs # <<>>
          /\ \A k \in DOMAIN traces[i].segs :
                LET s == traces[i].segs[k]
                IN  /\ s.start \in Int /\ s.end \in Int /\ s.per \in Nat
                    /\ s.type \in SampleTypes /\ s.numsamples \in Nat
                    /\ s.data \in Seq(1..Len(given))
    /\ last \in Sids \union {<<>>}
    /\ given \in Seq(Record)
    /\ torn \subseteq refused /\ refused \subseteq 1..Len(given)

\* The search for the closest smaller identifier keeps the list of trace IDs
\* sorted, and no identifier gets two IDs (tracelist.c:264-382).
IdsSorted ==
    \A i \in 2..Len(traces) : Cmp(traces[i-1].sid, traces[i].sid) < 0

\* However records arrive, the segments of an ID are in order of their
\* starts, and of those with equal starts the longer comes first unless a
\* heal was refused halfway; earliest and latest, by which the next record is
\* placed, are the extent of the segments (tracelist.c:440-752).
SegmentsSorted ==
    \A i \in DOMAIN traces :
        LET S == traces[i].segs
        IN  /\ \A k \in 2..Len(S) :
                  IF torn = {} THEN ~Behind(S[k-1], S[k]) ELSE S[k-1].start <= S[k].start
            /\ traces[i].earliest = S[1].start
            /\ \A k \in DOMAIN S : S[k].start <= S[k].end /\ S[k].end <= traces[i].latest
            /\ \E k \in DOMAIN S : S[k].end = traces[i].latest

\* The rates of the records a segment was built from, as periods.
Rates(s) == {given[s.data[x]].per : x \in DOMAIN s.data}

\* No two segments of an ID are left that a record has closed the gap
\* between: where the rates of the one are tolerable to those of the other,
\* the last record of the one and the first of the other do not both find the
\* gap small enough, whatever their sample types, unless a heal broke off
\* (tracelist.c:440-631).
Healed ==
    torn = {} => \A p, q \in Segments :
        (p[1] = q[1] /\ p # q
           /\ \A a \in Rates(Seg(p)), b \in Rates(Seg(q)) : Near(a, b) /\ Near(b, a)) =>
            LET before == given[LastOf(Seg(p).data)]
                after  == given[Seg(q).data[1]]
                gap    == Seg(q).start - Seg(p).end
            IN  ~Fits(before, gap - before.per) \/ ~Fits(after, gap - after.per)

\* Every record that was given is in exactly one segment, that of its
\* identifier and sample type, and there once; only what was refused is
\* missing, and a refused one is there only if healing broke off behind it
\* (tracelist.c:343-691, 957-1196).
Places(key) ==
    {q \in Segments \X (1..Len(given)) :
        q[2] <= Len(Seg(q[1]).data) /\ Seg(q[1]).data[q[2]] = key}

Conserved ==
    \A key \in 1..Len(given) :
        LET m == given[key]
        IN  IF key \in refused \ torn THEN Places(key) = {}
            ELSE \E p \in Segments :
                    /\ \E x \in DOMAIN Seg(p).data : Places(key) = {<<p, x>>}
                    /\ traces[p[1]].sid = m.sid
                    /\ m.n > 0 => Seg(p).type = m.type

\* The second record begins a period after the end of the first, half a period
\* more or less, by the rate of one of the two.
Adjoins(a, b) ==
    LET gap == b.start - EndOf(a)
    IN  Fits(a, gap - a.per) \/ Fits(b, gap - b.per)

\* From each of the rates the others are reached by steps that are tolerable.
Linked(R) ==
    \A X \in SUBSET R : X # {} /\ X # R =>
        \E a \in X, b \in R \ X : Near(a, b) \/ Near(b, a)

\* The samples of a segment carry on from each other: neighbours of its
\* records adjoin, and the segment reaches from its first record to the end of
\* its last.  Its rate is that of one of its records, and theirs are linked
\* by tolerable steps: a chain of records may lead as far away from the rate
\* of the segment as it likes (tracelist.c:386-431, 1063-1103, 1162-1196).
Continuous ==
    \A p \in Segments :
        LET s == Seg(p)
            m(x) == given[s.data[x]]
        IN  /\ s.start = m(1).start /\ s.end = EndOf(m(Len(s.data)))
            /\ s.per \in Rates(s) /\ Linked(Rates(s))
            /\ \A x \in 2..Len(s.data) : Adjoins(m(x-1), m(x))

\* No ID is left with a first segment that was freed (tracelist.c:612-631:
\* only last is looked after).
FirstAlive == stale = {}
=============================================================================
